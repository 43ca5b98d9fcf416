---------------------------- MODULE InputProofs -----------------------------
(***************************************************************************)
(* What a client sends: the bytes of its requests and their Range headers. *)
(*                                                                         *)
(* The byte ranges are right for every width of unsigned long, every size  *)
(* of file and headers of any length: a response sends nothing from        *)
(* outside the file, no structure is lost, and ranges_fixup keeps exactly  *)
(* the bytes that were asked for.                                          *)
(*                                                                         *)
(* The scanner of read_header and the way of a body stay in their buffers  *)
(* for every size of these, whatever is sent and however it is cut.  That  *)
(* is not inductive: read_body and write_body move by what header_line and *)
(* header_end leave between them, which must be stored and belong to the   *)
(* body (Body), and a scan is a recursive function, each value of which    *)
(* is shown to be Scanned.                                                 *)
(***************************************************************************)
EXTENDS Ranges, ReadHeader, ListsProofs, SequenceTheorems, FiniteSetTheorems

Within(r, size) == r.start <= r.stop /\ r.stop < size

(* The inductive invariant: besides what the theorems say, numranges       *)
(* counts the ranges and no file is known until ranges_fixup, and a        *)
(* response has a range to send.                                           *)
RangeInv ==
    /\ RangesWithin /\ NoRangeLost
    /\ phase \in {"header", "parse"} => numranges = Len(ranges) /\ filesize = 0
    /\ phase = "send" => ranges # <<>>

(* The constants as the leaves use them.                                   *)
LEMMA Widths ==
    /\ Modulus \in Nat \ {0} /\ Minus1 \in Long /\ 0 \in Long /\ (\A x \in Long : x \in Nat)
    /\ UIntMax \in Nat
    /\ \A size \in Sizes : /\ size \in Nat \ {0} /\ size - 1 \in Long /\ size \in Long
                           /\ size <= Modulus \div 2 /\ size < Minus1
    /\ \A a \in Int : a % Modulus \in Long
<1>1. Modulus \in Nat \ {0, 1} /\ UIntMax \in Nat
  BY RangeAssumption
<1>2. Minus1 \in Long /\ 0 \in Long /\ \A x \in Long : x \in Nat
  BY <1>1 DEF Minus1, Long
<1>3. ASSUME NEW size \in Sizes
      PROVE  /\ size \in Nat \ {0} /\ size - 1 \in Long /\ size \in Long
             /\ size <= Modulus \div 2 /\ size < Minus1
  <2>1. size \in 1 .. Modulus \div 2 - 1
    BY RangeAssumption
  <2>2. QED BY <1>1, <2>1 DEF Long, Minus1
<1>4. \A a \in Int : a % Modulus \in Long
  BY <1>1 DEF Long
<1>5. QED BY <1>1, <1>2, <1>3, <1>4

(* Pushes and pops: when the request's list has m ranges before and l      *)
(* after n pushes and k pops, none is lost.                                *)
LEMMA PoolBalance ==
    ASSUME NEW n \in Nat, NEW k \in Nat, NEW m \in Nat, NEW l \in Nat, l + n = m + k,
           Pool(n, k), pool \in Nat, allocated \in Nat, allocated = pool + m
    PROVE  pool' \in Nat /\ allocated' \in Nat /\ allocated' = pool' + l
<1>1. CASE pool + n >= k
  BY <1>1 DEF Pool
<1>2. CASE ~(pool + n >= k)
  BY <1>2 DEF Pool
<1>3. QED BY <1>1, <1>2

(* ranges_fixup leaves numbers of their type, and what it does not drop    *)
(* lies in the file.                                                       *)
LEMMA FixedWithin ==
    ASSUME NEW r \in ByteRange, NEW size \in Sizes
    PROVE  /\ Fixed(r, size) \in ByteRange
           /\ ~Dropped(Fixed(r, size)) => Within(Fixed(r, size), size)
<1>1. /\ r.start \in Long /\ r.stop \in Long
      /\ r.start \in Nat /\ r.stop \in Nat /\ size \in Nat \ {0}
  BY Widths DEF ByteRange
<1> DEFINE b == IF r.stop = UIntMax \/ r.stop >= size THEN size - 1 ELSE r.stop
<1>2. b \in 0 .. size - 1
  BY <1>1
<1>3. Fixed(r, size) = IF r.start = Minus1 THEN [start |-> size - b, stop |-> size - 1]
                       ELSE [start |-> r.start, stop |-> b]
  BY DEF Fixed
<1> HIDE DEF b
<1>4. size - b \in Long /\ size - 1 \in Long /\ b \in Long
  <2>1. size \in Long /\ Modulus \in Nat
    BY Widths
  <2>2. QED BY <1>1, <1>2, <2>1 DEF Long
<1>5. Fixed(r, size) \in ByteRange
  BY <1>1, <1>3, <1>4 DEF ByteRange
<1>6. Fixed(r, size).stop < size
  BY <1>1, <1>2, <1>3
<1>7. ASSUME ~Dropped(Fixed(r, size))
      PROVE  Fixed(r, size).start <= Fixed(r, size).stop
  <2>1. Fixed(r, size).start \in Nat /\ Fixed(r, size).stop \in Nat
    BY <1>5, Widths DEF ByteRange
  <2>2. QED BY <1>7, <2>1 DEF Dropped
<1>8. QED BY <1>5, <1>6, <1>7 DEF Within

(* The same for the list.                                                  *)
LEMMA FixupWithin ==
    ASSUME NEW rs \in Seq(ByteRange), NEW size \in Sizes
    PROVE  LET fixed == FixedSeq(rs, size)
               kept == Kept(fixed, {i \in DOMAIN fixed : ~Dropped(fixed[i])})
           IN  /\ fixed \in Seq(ByteRange) /\ Len(fixed) = Len(rs)
               /\ kept \in Seq(ByteRange) /\ Len(kept) <= Len(rs)
               /\ \A i \in DOMAIN kept : Within(kept[i], size)
<1> DEFINE fixed == FixedSeq(rs, size)
           K == {i \in DOMAIN fixed : ~Dropped(fixed[i])}
           kept == Kept(fixed, K)
<1>1. /\ Len(rs) \in Nat /\ DOMAIN fixed = 1 .. Len(rs) /\ DOMAIN rs = 1 .. Len(rs)
      /\ \A i \in 1 .. Len(rs) : rs[i] \in ByteRange /\ fixed[i] = Fixed(rs[i], size)
  BY DEF FixedSeq
<1>2. fixed \in Seq(ByteRange)
  <2>1. fixed \in [1 .. Len(rs) -> ByteRange]
    BY <1>1, FixedWithin DEF FixedSeq
  <2>2. QED BY <1>1, <2>1
<1>3. Len(fixed) = Len(rs)
  <2> HIDE DEF fixed
  <2>1. QED BY <1>1, <1>2, LenOfDomain
<1> HIDE DEF fixed
<1>4. K \in SUBSET (1 .. Len(fixed))
  BY <1>1, <1>3
<1>5. /\ kept \in Seq(ByteRange) /\ Len(kept) <= Len(fixed)
      /\ Elems(kept) = {fixed[i] : i \in K}
  <2> HIDE DEF K
  <2>1. QED BY <1>2, <1>4, KeptElems
<1>6. \A i \in K : Within(fixed[i], size)
  BY <1>1, FixedWithin
<1> HIDE DEF kept, K
<1>7. \A i \in DOMAIN kept : Within(kept[i], size)
  BY <1>5, <1>6 DEF Elems
<1>8. QED BY <1>2, <1>3, <1>5, <1>7 DEF fixed, K, kept

(* The facts of the invariant that every step begins with.                 *)
LEMMA RangeFacts ==
    ASSUME RangeInv
    PROVE  /\ start \in Long /\ stop \in Long /\ ranges \in Seq(ByteRange)
           /\ Len(ranges) \in Nat /\ numranges \in Nat
           /\ pool \in Nat /\ allocated \in Nat /\ allocated = pool + Len(ranges)
           /\ filesize \in Sizes \cup {0} /\ chars \in 0 .. MaxChars /\ mode \in Modes
           /\ phase \in {"header", "parse", "send", "end"}
BY DEF RangeInv, RangesWithin, TypeOK, NoRangeLost

(* A character of the header: the parser's numbers wrap, and a range goes  *)
(* to the end of the list or replaces it.                                  *)
LEMMA ParseKeeps ==
    ASSUME RangeInv, NEW code \in Codes, NEW d \in Digits, range_parse(code, d)
    PROVE  RangeInv'
<1> DEFINE f == stable(mode, code)
           a == CASE f.act = "PB" -> (start * 10 + d) % Modulus
                  [] f.act = "DB" -> Minus1
                  [] OTHER        -> start
           b == CASE f.act = "PE" -> (stop * 10 + d) % Modulus
                  [] f.act = "DE" -> Minus1
                  [] OTHER        -> stop
           abort == f.end = "AR" \/ (f.end = "SR" /\ a = b /\ a = UIntMax)
           submit == f.end = "SR" /\ ~abort
<1>1. f.mode \in Modes
  BY DEF stable, Do, Modes
<1>2. /\ phase = "parse" /\ (code = "null" \/ chars > 0)
      /\ chars' = (IF code = "null" THEN chars ELSE chars - 1)
      /\ mode' = f.mode
      /\ start' = (IF submit THEN 0 ELSE a) /\ stop' = (IF submit THEN 0 ELSE b)
      /\ phase' = (IF abort THEN "end" ELSE IF code = "null" THEN "header" ELSE "parse")
      /\ \/ abort /\ range_abort
         \/ submit /\ range_add(a, b)
         \/ ~abort /\ ~submit /\ UNCHANGED <<ranges, numranges, pool, allocated>>
      /\ UNCHANGED filesize
  BY DEF range_parse
<1> HIDE DEF f
<1>3. a \in Long /\ b \in Long
  <2>1. start * 10 + d \in Int /\ stop * 10 + d \in Int
    <3>1. d \in Int /\ start \in Int /\ stop \in Int
      BY RangeFacts, RangeAssumption, Widths
    <3>2. QED BY <3>1
  <2>2. (start * 10 + d) % Modulus \in Long /\ (stop * 10 + d) % Modulus \in Long
    BY <2>1, Widths
  <2>3. QED BY <2>2, RangeFacts, Widths
<1> HIDE DEF a, b, abort, submit
<1>4. /\ start' \in Long /\ stop' \in Long /\ mode' \in Modes /\ filesize' = filesize
      /\ chars' \in 0 .. MaxChars /\ filesize = 0
      /\ phase' \in {"header", "parse", "end"}
  <2>1. chars' \in 0 .. MaxChars
    BY <1>2, RangeFacts, RangeAssumption
  <2>2. QED BY <1>1, <1>2, <1>3, <2>1, RangeFacts, Widths DEF RangeInv
<1>5. numranges = Len(ranges)
  BY <1>2 DEF RangeInv
<1>6. CASE abort /\ range_abort
  <2>1. phase' = "end" /\ ranges' = <<[start |-> 0, stop |-> Minus1]>>
        /\ numranges' = numranges /\ Pool(Len(ranges), 1)
    BY <1>2, <1>6 DEF range_abort
  <2>2. ranges' \in Seq(ByteRange) /\ Len(ranges') = 1
    <3>1. [start |-> 0, stop |-> Minus1] \in ByteRange
      BY Widths DEF ByteRange
    <3>2. QED BY <2>1, <3>1
  <2>3. pool' \in Nat /\ allocated' \in Nat /\ allocated' = pool' + 1
    <3>1. 1 + Len(ranges) = Len(ranges) + 1
      BY RangeFacts
    <3>2. QED BY <2>1, <3>1, RangeFacts, PoolBalance
  <2>4. QED BY <1>4, <2>1, <2>2, <2>3, RangeFacts
            DEF RangeInv, RangesWithin, TypeOK, NoRangeLost
<1>7. CASE submit /\ range_add(a, b)
  <2>1. /\ ranges' = Append(ranges, [start |-> a, stop |-> b])
        /\ numranges' = numranges + 1 /\ Pool(0, 1)
    BY <1>7 DEF range_add
  <2>2. ranges' \in Seq(ByteRange) /\ Len(ranges') = Len(ranges) + 1
    <3>1. [start |-> a, stop |-> b] \in ByteRange
      BY <1>3 DEF ByteRange
    <3>2. QED BY <2>1, <3>1, RangeFacts
  <2>3. Len(ranges') \in Nat /\ Len(ranges') + 0 = Len(ranges) + 1
    BY <2>2, RangeFacts
  <2>4. /\ pool' \in Nat /\ allocated' \in Nat /\ allocated' = pool' + Len(ranges')
        /\ numranges' \in Nat /\ numranges' = Len(ranges')
    <3>1. pool' \in Nat /\ allocated' \in Nat /\ allocated' = pool' + Len(ranges')
      BY <2>1, <2>3, RangeFacts, PoolBalance
    <3>2. QED BY <1>5, <2>1, <2>2, <3>1, RangeFacts
  <2>5. QED BY <1>4, <2>2, <2>3, <2>4, RangeFacts
            DEF RangeInv, RangesWithin, TypeOK, NoRangeLost
<1>8. CASE UNCHANGED <<ranges, numranges, pool, allocated>>
  BY <1>4, <1>5, <1>8, RangeFacts DEF RangeInv, RangesWithin, TypeOK, NoRangeLost
<1>9. QED BY <1>2, <1>6, <1>7, <1>8

(* ranges_fixup: the list it leaves lies in the file, and what it drops or *)
(* makes up is accounted for.                                              *)
LEMMA FixupKeeps ==
    ASSUME RangeInv, NEW size \in Sizes, ranges_fixup(size)
    PROVE  RangeInv'
<1> DEFINE whole == <<[start |-> 0, stop |-> Minus1]>>
           rs == IF ranges = <<>> THEN whole ELSE ranges
           fixed == FixedSeq(rs, size)
           kept == Kept(fixed, {i \in DOMAIN fixed : ~Dropped(fixed[i])})
<1>1. /\ phase = "header" /\ filesize' = size /\ ranges' = kept
      /\ Pool(Len(rs) - Len(kept), Len(rs) - Len(ranges))
      /\ phase' = (IF kept = <<>> THEN "end" ELSE "send")
      /\ UNCHANGED <<mode, start, stop, numranges, chars>>
  BY DEF ranges_fixup, parser
<1>2. whole \in Seq(ByteRange) /\ Len(whole) = 1
  <2>1. [start |-> 0, stop |-> Minus1] \in ByteRange
    BY Widths DEF ByteRange
  <2>2. QED BY <2>1
<1> HIDE DEF whole
<1>3. rs \in Seq(ByteRange) /\ Len(rs) \in Nat /\ Len(ranges) <= Len(rs)
  <2>1. CASE ranges = <<>>
    BY <1>2, <2>1
  <2>2. CASE ranges # <<>>
    BY <2>2, RangeFacts
  <2>3. QED BY <2>1, <2>2
<1> HIDE DEF rs
<1>4. /\ kept \in Seq(ByteRange) /\ Len(kept) <= Len(rs)
      /\ \A i \in DOMAIN kept : Within(kept[i], size)
  BY <1>3, FixupWithin
<1> HIDE DEF kept, fixed
<1>5. pool' \in Nat /\ allocated' \in Nat /\ allocated' = pool' + Len(kept)
  <2>1. Len(rs) - Len(kept) \in Nat /\ Len(rs) - Len(ranges) \in Nat /\ Len(kept) \in Nat
    BY <1>3, <1>4, RangeFacts
  <2>2. Len(kept) + (Len(rs) - Len(kept)) = Len(ranges) + (Len(rs) - Len(ranges))
    BY <1>3, <2>1, RangeFacts
  <2>3. QED BY <1>1, <2>1, <2>2, RangeFacts, PoolBalance
<1>6. QED BY <1>1, <1>4, <1>5, RangeFacts
          DEF RangeInv, RangesWithin, TypeOK, NoRangeLost, Within

(* complete_response: the next range has its turn.                         *)
LEMMA CompleteKeeps ==
    ASSUME RangeInv, phase = "send", complete_response,
           UNCHANGED <<parser, numranges, filesize, chars>>
    PROVE  RangeInv'
<1>1. ranges # <<>> /\ \A i \in DOMAIN ranges : Within(ranges[i], filesize)
  BY DEF RangeInv, RangesWithin, Within
<1>2. /\ ranges' = Tail(ranges) /\ Pool(1, 0)
      /\ phase' = IF numranges > 1 /\ ranges' # <<>> THEN "send" ELSE "end"
  BY DEF complete_response
<1> DEFINE t == Tail(ranges)
<1>3. /\ t \in Seq(ByteRange) /\ Len(t) = Len(ranges) - 1 /\ Len(t) \in Nat
      /\ \A i \in DOMAIN t : i + 1 \in DOMAIN ranges /\ t[i] = ranges[i + 1]
  BY <1>1, RangeFacts
<1> HIDE DEF t
<1>4. \A i \in DOMAIN t : Within(t[i], filesize)
  BY <1>1, <1>3
<1>5. pool' \in Nat /\ allocated' \in Nat /\ allocated' = pool' + Len(t)
  <2>1. Len(t) + 1 = Len(ranges) + 0
    BY <1>3, RangeFacts
  <2>2. /\ pool \in Nat /\ allocated \in Nat /\ allocated = pool + Len(ranges)
        /\ Len(ranges) \in Nat /\ Len(t) \in Nat
    BY <1>3, RangeFacts
  <2>3. Pool(1, 0)
    BY <1>2
  <2>4. QED BY ONLY <2>1, <2>2, <2>3, PoolBalance
<1>6. ranges' = t
  BY <1>2 DEF t
<1>7. QED BY <1>2, <1>3, <1>4, <1>5, <1>6, RangeFacts
          DEF RangeInv, RangesWithin, TypeOK, NoRangeLost, Within, parser

(* process_get: a partial write moves the beginning of the first range.    *)
LEMMA GetKeeps ==
    ASSUME RangeInv, NEW n \in 1 .. SendMax, process_get(n)
    PROVE  RangeInv'
<1> DEFINE r == ranges[1]
           left == r.stop + 1 - r.start
<1>1. /\ phase = "send" /\ n <= left
      /\ \/ n = left /\ complete_response
         \/ /\ n < left
            /\ ranges' = [ranges EXCEPT ![1].start = @ + n]
            /\ UNCHANGED <<phase, pool, allocated>>
      /\ UNCHANGED <<parser, numranges, filesize, chars>>
  BY DEF process_get
<1>2. CASE n = left /\ complete_response
  BY <1>1, <1>2, CompleteKeeps
<1>3. CASE /\ n < left
           /\ ranges' = [ranges EXCEPT ![1].start = @ + n]
           /\ UNCHANGED <<phase, pool, allocated>>
  <2>1. ranges # <<>> /\ \A i \in DOMAIN ranges : Within(ranges[i], filesize)
    BY <1>1 DEF RangeInv, RangesWithin, Within
  <2>2. 1 \in DOMAIN ranges /\ r \in ByteRange /\ DOMAIN ranges = 1 .. Len(ranges)
    BY <2>1, RangeFacts
  <2> DEFINE new == [start |-> r.start + n, stop |-> r.stop]
  <2>3. ranges' = [ranges EXCEPT ![1] = new]
    <3>1. ranges' = [ranges EXCEPT ![1] = [r EXCEPT !.start = r.start + n]]
      BY <1>3
    <3>2. [r EXCEPT !.start = r.start + n] = new
      BY <2>2 DEF ByteRange
    <3>3. QED BY <3>1, <3>2
  <2>4. r.start \in Nat /\ r.stop \in Nat /\ r.stop \in Long /\ n \in Nat /\ n < left
    <3>1. r.start \in Long /\ r.stop \in Long
      BY <2>2 DEF ByteRange
    <3>2. n \in Nat
      BY RangeAssumption
    <3>3. QED BY <1>3, <3>1, <3>2, Widths
  <2>5. r.start + n \in Long /\ r.start + n <= r.stop
    BY <2>4, Widths DEF Long
  <2>6. new \in ByteRange /\ Within(new, filesize)
    BY <2>1, <2>2, <2>4, <2>5 DEF ByteRange, Within
  <2> HIDE DEF new
  <2>7. /\ ranges' \in Seq(ByteRange) /\ Len(ranges') = Len(ranges)
        /\ DOMAIN ranges' = DOMAIN ranges
        /\ \A i \in DOMAIN ranges : ranges'[i] = IF i = 1 THEN new ELSE ranges[i]
    BY <2>2, <2>3, <2>6, RangeFacts
  <2>8. \A i \in DOMAIN ranges' : Within(ranges'[i], filesize)
    BY <2>1, <2>6, <2>7
  <2>9. ranges' # <<>>
    BY <2>2, <2>7
  <2>10. QED BY <1>1, <1>3, <2>7, <2>8, <2>9, RangeFacts
             DEF RangeInv, RangesWithin, TypeOK, NoRangeLost, Within, parser
<1>4. QED BY <1>1, <1>2, <1>3

(* Every step keeps the invariant.                                         *)
LEMMA RangeStep == RangeInv /\ [Next]_vars => RangeInv'
<1> SUFFICES ASSUME RangeInv, [Next]_vars PROVE RangeInv'
  OBVIOUS
<1>1. CASE RangeHeader
  BY <1>1, RangeFacts, Widths
     DEF RangeHeader, RangeInv, RangesWithin, TypeOK, NoRangeLost, Modes
<1>2. ASSUME NEW code \in Codes, NEW d \in Digits, range_parse(code, d) PROVE RangeInv'
  BY <1>2, ParseKeeps
<1>3. ASSUME NEW size \in Sizes, ranges_fixup(size) PROVE RangeInv'
  BY <1>3, FixupKeeps
<1>4. ASSUME NEW n \in 1 .. SendMax, process_get(n) PROVE RangeInv'
  BY <1>4, GetKeeps
<1>5. CASE head_response
  BY <1>5, CompleteKeeps DEF head_response
<1>6. CASE ranges_reset
  <2>1. /\ phase' = "header" /\ ranges' = <<>> /\ numranges' = 0 /\ filesize' = 0
        /\ Pool(Len(ranges), 0) /\ UNCHANGED <<mode, start, stop, chars>>
    BY <1>6 DEF ranges_reset, parser
  <2>2. pool' \in Nat /\ allocated' \in Nat /\ allocated' = pool' + 0
    <3>1. 0 + Len(ranges) = Len(ranges) + 0
      BY RangeFacts
    <3>2. QED BY <2>1, <3>1, RangeFacts, PoolBalance
  <2>3. ranges' \in Seq(ByteRange) /\ Len(ranges') = 0
    BY <2>1
  <2>4. TypeOK'
    BY <2>1, <2>2, <2>3, RangeFacts DEF TypeOK
  <2>5. NoRangeLost'
    BY <2>2, <2>3 DEF NoRangeLost
  <2>6. QED BY <2>1, <2>3, <2>4, <2>5 DEF RangeInv, RangesWithin
<1>7. CASE range_pool_empty
  BY <1>7, RangeFacts
     DEF range_pool_empty, parser, RangeInv, RangesWithin, TypeOK, NoRangeLost
<1>8. CASE UNCHANGED vars
  BY <1>8 DEF vars, parser, RangeInv, RangesWithin, TypeOK, NoRangeLost
<1>9. QED BY <1>1, <1>2, <1>3, <1>4, <1>5, <1>6, <1>7, <1>8 DEF Next

(* Whatever the headers contain and however the writes are cut, what a     *)
(* response takes from the mapping lies in the file; and every range that  *)
(* malloc returned is in the pool or belongs to the request.               *)
THEOREM RangesCorrect == Spec => [](RangesWithin /\ NoRangeLost)
<1>1. Init => RangeInv
  BY Widths, RangeAssumption
     DEF Init, RangeInv, RangesWithin, TypeOK, NoRangeLost, Modes
<1>2. RangeInv /\ [Next]_vars => RangeInv'
  BY RangeStep
<1>3. RangeInv => RangesWithin /\ NoRangeLost
  BY DEF RangeInv
<1>4. QED BY <1>1, <1>2, <1>3, PTL DEF Spec

(* The bytes that one range is given are those that it asked for, and a    *)
(* range is dropped exactly when it asked for none.                        *)
LEMMA FixedExact ==
    ASSUME NEW r \in ByteRange, NEW size \in Sizes, size <= UIntMax + 1, ShorterThan(size, r)
    PROVE  /\ Asked(r, size) # {} <=> ~Dropped(Fixed(r, size))
           /\ Asked(r, size) = Fixed(r, size).start .. Fixed(r, size).stop
<1>1. /\ r.start \in Nat /\ r.stop \in Nat /\ size \in Nat \ {0} /\ UIntMax \in Nat
      /\ Minus1 \in Nat /\ size <= Modulus \div 2 /\ size < Minus1
  BY Widths DEF ByteRange
<1> DEFINE b == IF r.stop = UIntMax \/ r.stop >= size THEN size - 1 ELSE r.stop
<1>2. /\ b \in 0 .. size - 1
      /\ r.stop >= size => b = size - 1
      /\ r.stop < size => b = r.stop
  BY <1>1
<1>3. Fixed(r, size) = IF r.start = Minus1 THEN [start |-> size - b, stop |-> size - 1]
                       ELSE [start |-> r.start, stop |-> b]
  BY DEF Fixed
<1> HIDE DEF b
<1> DEFINE f == Fixed(r, size)
           D == f.start >= Modulus \div 2 \/ f.start > f.stop
<1>4. ASSUME r.start = Minus1 PROVE Asked(r, size) = f.start .. f.stop
  <2>1. f.start = size - b /\ f.stop = size - 1 /\ b = r.stop
    BY <1>1, <1>2, <1>3, <1>4 DEF ShorterThan, Suffix
  <2>2. Asked(r, size) = {x \in 0 .. size - 1 : x >= size - r.stop}
    BY <1>4 DEF Asked, Suffix
  <2> HIDE DEF f
  <2>3. {x \in 0 .. size - 1 : x >= size - r.stop} = f.start .. f.stop
    BY <1>1, <1>2, <2>1
  <2>4. QED BY <2>2, <2>3 DEF f
<1>5. ASSUME r.start # Minus1 PROVE Asked(r, size) = f.start .. f.stop
  <2>1. f.start = r.start /\ f.stop = b
    BY <1>3, <1>5
  <2>2. Asked(r, size) = {x \in 0 .. size - 1 : x >= r.start /\ x <= r.stop}
    BY <1>5 DEF Asked, Suffix
  <2> HIDE DEF f
  <2>3. {x \in 0 .. size - 1 : x >= r.start /\ x <= r.stop} = f.start .. f.stop
    BY <1>1, <1>2, <2>1
  <2>4. QED BY <2>2, <2>3 DEF f
<1>6. Asked(r, size) = f.start .. f.stop
  BY <1>4, <1>5
<1>7. f.start \in Nat /\ f.stop \in Nat /\ f.stop <= size - 1
  <2>1. CASE r.start = Minus1
    BY <1>1, <1>2, <1>3, <2>1
  <2>2. CASE r.start # Minus1
    BY <1>1, <1>2, <1>3, <2>2
  <2>3. QED BY <2>1, <2>2
<1>8. Dropped(f) <=> f.start > f.stop
  <2>1. Modulus \div 2 \in Int
    BY Widths
  <2>2. Dropped(f) <=> f.start >= Modulus \div 2 \/ f.start > f.stop
    BY DEF Dropped
  <2> HIDE DEF f
  <2>3. QED BY <1>1, <1>7, <2>1, <2>2
<1>9. f.start .. f.stop # {} <=> f.start <= f.stop
  <2> HIDE DEF f
  <2>1. f.start <= f.stop => f.start \in f.start .. f.stop
    BY <1>7
  <2>2. \A x \in f.start .. f.stop : f.start <= f.stop
    BY <1>7
  <2>3. QED BY <2>1, <2>2
<1>10. QED
  <2> HIDE DEF f
  <2>1. Asked(r, size) # {} <=> ~Dropped(f)
    BY <1>6, <1>7, <1>8, <1>9
  <2>2. QED BY <1>6, <2>1 DEF f

(* The same for the list: what is sent is, in order, what was asked for.   *)
LEMMA FixupSends ==
    ASSUME NEW rs \in Seq(ByteRange), NEW size \in Sizes, size <= UIntMax + 1,
           \A i \in DOMAIN rs : ShorterThan(size, rs[i])
    PROVE  LET fixed == FixedSeq(rs, size)
               kept == Kept(fixed, {i \in DOMAIN fixed : ~Dropped(fixed[i])})
               asked == [i \in DOMAIN rs |-> Asked(rs[i], size)]
           IN  [i \in DOMAIN kept |-> kept[i].start .. kept[i].stop]
                  = Kept(asked, {i \in DOMAIN asked : asked[i] # {}})
<1> DEFINE fixed == FixedSeq(rs, size)
           asked == [i \in DOMAIN rs |-> Asked(rs[i], size)]
           K == {i \in DOMAIN fixed : ~Dropped(fixed[i])}
           n == Len(rs)
           p == Places(n, K)
           kept == Kept(fixed, K)
           wanted == Kept(asked, K)
<1>1. /\ n \in Nat /\ DOMAIN rs = 1 .. n /\ DOMAIN fixed = 1 .. n /\ DOMAIN asked = 1 .. n
      /\ \A i \in 1 .. n : /\ rs[i] \in ByteRange /\ fixed[i] = Fixed(rs[i], size)
                           /\ asked[i] = Asked(rs[i], size)
  BY DEF FixedSeq
<1>2. fixed \in Seq(ByteRange) /\ Len(fixed) = n
  BY FixupWithin
<1>3. asked \in Seq(SUBSET Nat) /\ Len(asked) = n
  <2>1. \A i \in 1 .. n : asked[i] \in SUBSET Nat
    BY <1>1 DEF Asked
  <2>2. asked \in Seq(SUBSET Nat)
    BY <1>1, <2>1
  <2> HIDE DEF asked
  <2>3. QED BY <1>1, <2>2, LenOfDomain
<1>4. \A i \in 1 .. n : /\ asked[i] # {} <=> ~Dropped(fixed[i])
                        /\ asked[i] = fixed[i].start .. fixed[i].stop
  BY <1>1, FixedExact
<1> HIDE DEF fixed, asked
<1>5. K = {i \in DOMAIN asked : asked[i] # {}} /\ K \in SUBSET (1 .. n)
  BY <1>1, <1>4
<1> HIDE DEF K, n
<1>6. /\ kept \in Seq(ByteRange) /\ Len(kept) = Len(p) /\ p \in Seq(1 .. n)
      /\ \A j \in 1 .. Len(p) : kept[j] = fixed[p[j]]
  <2>1. K \in SUBSET (1 .. Len(fixed))
    BY <1>2, <1>5
  <2> DEFINE x == Places(Len(fixed), K)
  <2>2. /\ kept \in Seq(ByteRange) /\ Len(kept) = Len(x) /\ x \in Seq(1 .. Len(fixed))
        /\ \A j \in 1 .. Len(x) : kept[j] = fixed[x[j]]
    BY <1>2, <2>1, KeptPlaces
  <2>3. x = p
    BY <1>2
  <2> HIDE DEF x, p, kept
  <2>4. QED BY <1>2, <2>2, <2>3
<1>7. /\ wanted \in Seq(SUBSET Nat) /\ Len(wanted) = Len(p)
      /\ \A j \in 1 .. Len(p) : wanted[j] = asked[p[j]]
  <2>1. K \in SUBSET (1 .. Len(asked))
    BY <1>3, <1>5
  <2> DEFINE x == Places(Len(asked), K)
  <2>2. /\ wanted \in Seq(SUBSET Nat) /\ Len(wanted) = Len(x) /\ x \in Seq(1 .. Len(asked))
        /\ \A j \in 1 .. Len(x) : wanted[j] = asked[x[j]]
    BY <1>3, <2>1, KeptPlaces
  <2>3. x = p
    BY <1>3
  <2> HIDE DEF x, p, wanted
  <2>4. QED BY <1>3, <2>2, <2>3
<1> HIDE DEF p, kept, wanted
<1>8. /\ DOMAIN kept = 1 .. Len(p) /\ DOMAIN wanted = 1 .. Len(p)
      /\ \A j \in 1 .. Len(p) : p[j] \in 1 .. n
  <2>1. DOMAIN kept = 1 .. Len(p)
    BY <1>6
  <2>2. DOMAIN wanted = 1 .. Len(p)
    BY <1>7
  <2>3. \A j \in 1 .. Len(p) : p[j] \in 1 .. n
    <3> DEFINE N == 1 .. n
    <3>1. p \in Seq(N)
      BY <1>6
    <3> HIDE DEF N
    <3>2. \A j \in 1 .. Len(p) : p[j] \in N
      BY <3>1
    <3>3. QED BY <3>2 DEF N
  <2>4. QED BY <2>1, <2>2, <2>3
<1>9. \A j \in 1 .. Len(p) : wanted[j] = kept[j].start .. kept[j].stop
  BY <1>4, <1>6, <1>7, <1>8
<1>10. wanted = [j \in 1 .. Len(p) |-> wanted[j]]
  BY <1>7, <1>8
<1>11. wanted = [j \in DOMAIN kept |-> kept[j].start .. kept[j].stop]
  BY <1>8, <1>9, <1>10
<1>12. QED BY <1>5, <1>11 DEF kept, wanted, K, fixed, asked

(* For files of up to 2^32 bytes (whose offsets an unsigned int holds,     *)
(* which is what the code compares an end with), ranges_fixup keeps what   *)
(* was asked for, drops what has no byte in the file, and leaves numranges *)
(* above one when there are several parts.                                 *)
THEOREM FixupCorrect ==
    ASSUME \A size \in Sizes : size <= UIntMax + 1
    PROVE  Spec => FixupExact
<1> DEFINE Exact(size) ==
       /\ phase = "header" /\ phase' \in {"send", "end"} /\ filesize' = size
       /\ ranges # <<>>
       /\ \A i \in DOMAIN ranges : ShorterThan(size, ranges[i])
       => LET asked == [i \in DOMAIN ranges |-> Asked(ranges[i], size)]
              sends == [i \in DOMAIN ranges' |-> ranges'[i].start .. ranges'[i].stop]
          IN  /\ sends = Kept(asked, {i \in DOMAIN asked : asked[i] # {}})
              /\ Len(ranges') > 1 => numranges' > 1
<1>1. Init => RangeInv
  BY Widths, RangeAssumption
     DEF Init, RangeInv, RangesWithin, TypeOK, NoRangeLost, Modes
<1>2. RangeInv /\ [Next]_vars => RangeInv'
  BY RangeStep
<1>3. RangeInv /\ [Next]_vars => [\A size \in Sizes : Exact(size)]_vars
  <2> SUFFICES ASSUME RangeInv, Next, NEW size \in Sizes,
                      phase = "header", phase' \in {"send", "end"}, filesize' = size,
                      ranges # <<>>,
                      \A i \in DOMAIN ranges : ShorterThan(size, ranges[i])
               PROVE  LET asked == [i \in DOMAIN ranges |-> Asked(ranges[i], size)]
                          sends == [i \in DOMAIN ranges' |->
                                     ranges'[i].start .. ranges'[i].stop]
                      IN  /\ sends = Kept(asked, {i \in DOMAIN asked : asked[i] # {}})
                          /\ Len(ranges') > 1 => numranges' > 1
    OBVIOUS
  <2>1. filesize = 0 /\ numranges = Len(ranges) /\ size # 0
    BY Widths DEF RangeInv
  <2>2. \E z \in Sizes : ranges_fixup(z)
    BY <2>1 DEF Next, RangeHeader, range_parse, process_get, head_response, ranges_reset,
               range_pool_empty
  <2>3. ranges_fixup(size)
    BY <2>2 DEF ranges_fixup
  <2> DEFINE fixed == FixedSeq(ranges, size)
             kept == Kept(fixed, {i \in DOMAIN fixed : ~Dropped(fixed[i])})
  <2>4. ranges' = kept /\ numranges' = numranges
    BY <2>3 DEF ranges_fixup
  <2>5. ranges \in Seq(ByteRange)
    BY RangeFacts
  <2>6. kept \in Seq(ByteRange) /\ Len(kept) <= Len(ranges)
    BY <2>5, FixupWithin
  <2>7. LET asked == [i \in DOMAIN ranges |-> Asked(ranges[i], size)]
        IN  [i \in DOMAIN kept |-> kept[i].start .. kept[i].stop]
               = Kept(asked, {i \in DOMAIN asked : asked[i] # {}})
    BY <2>5, FixupSends
  <2> HIDE DEF kept
  <2>8. Len(ranges') > 1 => numranges' > 1
    <3>1. Len(kept) \in Nat /\ Len(ranges) \in Nat
      BY <2>5, <2>6
    <3>2. QED BY <2>1, <2>4, <2>6, <3>1
  <2>9. QED BY <2>4, <2>7, <2>8
<1>4. QED BY <1>1, <1>2, <1>3, PTL DEF Spec, FixupExact
-----------------------------------------------------------------------------
(* The bytes of a connection *)

(* The request is of its type, within its buffers, and the positions of    *)
(* its current line within what was read.                                  *)
Bounded(x) ==
    /\ x \in Request
    /\ Len(x.cs) <= StreamSize /\ x.parse <= Len(x.cs) /\ Len(x.buf) <= BufferSize
    /\ x.hend <= IF x.inbuf THEN Len(x.buf) ELSE Len(x.cs)
    /\ x.status \in Scanning \ {"READ_HEADER"} => x.hend < x.parse
    /\ x.filepos <= x.filesize /\ x.filepos = Len(x.post)

(* No body before the end of the header.                                   *)
NoBody(x) == ~x.inbuf /\ x.buf = <<>> /\ x.filepos = 0 /\ x.post = <<>>

(* What the body's states rely on: the part between header_line and        *)
(* header_end is stored and belongs to the body, and read_body finds the   *)
(* buffer empty.                                                           *)
Body(x) ==
    CASE x.status \in Scanning -> NoBody(x)
      [] x.status = "BODY_WRITE" -> /\ x.line <= x.hend
                                    /\ x.hend - x.line <= x.filesize - x.filepos
      [] x.status = "BODY_READ" -> x.inbuf /\ x.buf = <<>> /\ x.line = 0 /\ x.hend = 0
      [] OTHER -> TRUE

ReadInv ==
    /\ ReadTypeOK /\ Bounded(c) /\ stream \in Seq(Byte)
    /\ pc # "closed" => Body(c)

(* What a scan may produce from request x after i bytes.                   *)
Scanned(o, x, i) ==
    /\ Bounded(o.c)
    /\ o.ret \in {"scan", "more", "respond", "refused"}
    /\ o.ret = "scan" => /\ o.c.status \in Scanning /\ NoBody(o.c)
                         /\ o.c.parse = x.parse + i /\ Len(o.c.cs) = Len(x.cs)
    /\ o.ret # "refused" => Body(o.c)

(* sanitize_request keeps what was not parsed. *)
LEMMA FreshWithin ==
    ASSUME NEW s \in Seq(Nat), Len(s) <= StreamSize, ReadHeaderAssumption
    PROVE  Bounded(Fresh(s)) /\ Body(Fresh(s)) /\ Fresh(s).status \in Scanning
BY DEF Bounded, Body, NoBody, Fresh, Request, Scanning, ReadHeaderAssumption

LEMMA SanitizeWithin ==
    ASSUME NEW x, Bounded(x)
    PROVE  Bounded(sanitize_request(x)) /\ Body(sanitize_request(x))
<1>1. x.cs \in Seq(Nat) /\ x.parse \in Nat /\ x.parse <= Len(x.cs) /\ Len(x.cs) <= StreamSize
  BY DEF Bounded, Request
<1>2. /\ SubSeq(x.cs, x.parse + 1, Len(x.cs)) \in Seq(Nat)
      /\ Len(SubSeq(x.cs, x.parse + 1, Len(x.cs))) <= Len(x.cs)
  BY <1>1, SubSeqProperties
<1>3. StreamSize \in Nat
  BY ReadHeaderAssumption
<1>4. Len(SubSeq(x.cs, x.parse + 1, Len(x.cs))) <= StreamSize
  BY <1>1, <1>2, <1>3
<1>5. QED BY <1>2, <1>4, FreshWithin, ReadHeaderAssumption DEF sanitize_request

(* Writing the terminator changes neither the length nor the type. *)
LEMMA TerminatorKeeps ==
    ASSUME NEW x, Bounded(x), NoBody(x), x.status = "ONE_LF"
    PROVE  LET t == [x EXCEPT !.cs[x.hend + 1] = 0]
           IN  /\ Bounded(t) /\ NoBody(t) /\ Len(t.cs) = Len(x.cs)
               /\ t.parse = x.parse /\ t.status = "ONE_LF"
<1> DEFINE t == [x EXCEPT !.cs[x.hend + 1] = 0]
<1>1. x \in Request /\ x.cs \in Seq(Nat) /\ x.hend \in Nat /\ x.hend < Len(x.cs)
  BY DEF Bounded, Request, Scanning
<1>2. t = [x EXCEPT !.cs = [x.cs EXCEPT ![x.hend + 1] = 0]]
  BY <1>1 DEF Request
<1> DEFINE s == [x.cs EXCEPT ![x.hend + 1] = 0]
<1>3. s \in Seq(Nat) /\ Len(s) = Len(x.cs)
  BY <1>1, ExceptSeq
<1> HIDE DEF s
<1>4. t \in Request /\ t.cs = s
  BY <1>1, <1>2, <1>3 DEF Request, s
<1>5. QED BY <1>1, <1>2, <1>3, <1>4 DEF Bounded, NoBody, Request

(* A request that differs only in what is no position or count. *)
LEMMA SameBounds ==
    ASSUME NEW t, Bounded(t), NEW y \in Request,
           y.cs = t.cs, y.parse = t.parse, y.hend = t.hend, y.inbuf = t.inbuf, y.buf = t.buf,
           y.status = t.status \/ y.status \notin Scanning \/ y.hend < y.parse,
           y.filesize = t.filesize, y.filepos = t.filepos, y.post = t.post
    PROVE  Bounded(y) /\ (NoBody(t) => NoBody(y))
BY DEF Bounded, NoBody

Methods == {"none", "g", "o", "p", "q"}

(* process_header_end, for a request whose header is at an end. *)
LEMMA HeaderEndWithin ==
    ASSUME NEW x, Bounded(x), NoBody(x), NEW ev
    PROVE  LET o == process_header_end(x, ev)
           IN  /\ Bounded(o.c) /\ o.ret \in {"more", "respond"} /\ NoBody(o.c)
               /\ o.c.cs = x.cs /\ o.c.parse = x.parse /\ o.c.hend = x.hend
               /\ o.ret = "more" => o.c.status = x.status
               /\ o.ret = "respond" => o.c.status = "WRITE"
<1>1. x \in Request
  BY DEF Bounded
<1>2. CASE x.method \in {"p", "q"}
  <2> DEFINE y == [x EXCEPT !.post = <<>>]
  <2>1. x.post = <<>>
    BY DEF NoBody
  <2>2. y = x
    BY <1>1, <2>1 DEF Request
  <2>3. process_header_end(x, ev).c = x /\ process_header_end(x, ev).ret = "more"
    BY <1>2, <2>2 DEF process_header_end, Out
  <2>4. QED BY <2>3
<1>3. CASE x.method \notin {"p", "q"}
  <2> DEFINE y == [x EXCEPT !.status = "WRITE"]
  <2>1. /\ y \in Request /\ y.cs = x.cs /\ y.parse = x.parse /\ y.hend = x.hend
        /\ y.inbuf = x.inbuf /\ y.buf = x.buf /\ y.filesize = x.filesize
        /\ y.filepos = x.filepos /\ y.post = x.post /\ y.status = "WRITE"
    BY <1>1 DEF Request
  <2>2. process_header_end(x, ev).c = y /\ process_header_end(x, ev).ret = "respond"
    BY <1>3 DEF process_header_end, Out
  <2> HIDE DEF y
  <2>3. "WRITE" \notin Scanning
    BY DEF Scanning
  <2>4. Bounded(y) /\ NoBody(y)
    BY <2>1, <2>3, SameBounds
  <2>5. QED BY <2>1, <2>2, <2>4
<1>4. QED BY <1>2, <1>3

(* A refused request keeps its positions. *)
LEMMA RefusedWithin ==
    ASSUME NEW x, Bounded(x), NEW ev
    PROVE  Bounded(Refused(x, ev).c) /\ Refused(x, ev).ret = "refused"
<1> DEFINE y == [x EXCEPT !.ka = FALSE]
<1>1. x \in Request
  BY DEF Bounded
<1>2. /\ y \in Request /\ y.cs = x.cs /\ y.parse = x.parse /\ y.hend = x.hend
      /\ y.inbuf = x.inbuf /\ y.buf = x.buf /\ y.filesize = x.filesize
      /\ y.filepos = x.filepos /\ y.post = x.post /\ y.status = x.status
  BY <1>1 DEF Request
<1>3. Refused(x, ev).c = y /\ Refused(x, ev).ret = "refused"
  BY DEF Refused, Out
<1> HIDE DEF y
<1>4. Bounded(y)
  BY <1>2, SameBounds
<1>5. QED BY <1>3, <1>4

(* The end of a line. *)
LEMMA LineEndWithin ==
    ASSUME NEW x, Bounded(x), NoBody(x), x.status = "ONE_LF", NEW ev
    PROVE  LET o == LineEnd(x, ev)
           IN  /\ Bounded(o.c) /\ o.ret \in {"scan", "more", "respond", "refused"}
               /\ o.ret = "scan" => /\ o.c.status = "ONE_LF" /\ NoBody(o.c)
                                    /\ o.c.parse = x.parse /\ Len(o.c.cs) = Len(x.cs)
               /\ o.ret # "refused" => Body(o.c)
<1> DEFINE t == [x EXCEPT !.cs[x.hend + 1] = 0]
           text == Text(t)
           kind == Letter(text)
           o == LineEnd(x, ev)
<1>1. /\ Bounded(t) /\ NoBody(t) /\ Len(t.cs) = Len(x.cs)
      /\ t.parse = x.parse /\ t.status = "ONE_LF"
  BY TerminatorKeeps
<1>2. o = IF t.hend - t.line >= MaxHeader THEN Refused(t, ev)
        ELSE IF t.logline
        THEN IF kind # "x" THEN Refused(t, Append(ev, <<"option", text>>))
             ELSE Out("scan", [t EXCEPT !.line = t.parse], Append(ev, <<"option", text>>))
        ELSE IF kind \notin {"g", "o", "p", "q"} THEN Refused([t EXCEPT !.logline = TRUE], ev)
        ELSE LET l == [t EXCEPT !.logline = TRUE, !.method = kind, !.ka = (kind = "g")]
                 seen == Append(ev, <<"request", text>>)
             IN  IF kind \in {"o", "q"} THEN process_header_end(l, seen)
                 ELSE Out("scan", [l EXCEPT !.line = l.parse], seen)
  BY DEF LineEnd
<1> HIDE DEF t, text, kind, o
<1>3. t \in Request /\ t.parse \in Nat
  BY <1>1 DEF Bounded, Request
<1>4. ASSUME NEW y \in Request,
             y.cs = t.cs, y.parse = t.parse, y.hend = t.hend, y.inbuf = t.inbuf, y.buf = t.buf,
             y.status = t.status, y.filesize = t.filesize, y.filepos = t.filepos, y.post = t.post
      PROVE  /\ Bounded(y) /\ NoBody(y) /\ y.status = "ONE_LF" /\ y.parse = x.parse
             /\ Len(y.cs) = Len(x.cs) /\ Body(y)
  <2>1. Bounded(y) /\ NoBody(y)
    BY <1>1, <1>4, SameBounds
  <2>2. y.status = "ONE_LF" /\ y.parse = x.parse /\ Len(y.cs) = Len(x.cs)
    BY <1>1, <1>4
  <2>3. QED BY <2>1, <2>2 DEF Body, Scanning
<1>5. ASSUME NEW y, NEW e, Bounded(y), o = Refused(y, e)
      PROVE  Bounded(o.c) /\ o.ret = "refused"
  BY <1>5, RefusedWithin
<1>6. CASE t.hend - t.line >= MaxHeader
  BY <1>1, <1>2, <1>5, <1>6 DEF o
<1>7. CASE ~(t.hend - t.line >= MaxHeader) /\ t.logline
  <2>1. CASE kind # "x"
    BY <1>1, <1>2, <1>5, <1>7, <2>1 DEF o
  <2>2. CASE kind = "x"
    <3> DEFINE y == [t EXCEPT !.line = t.parse]
    <3>1. /\ y \in Request /\ y.cs = t.cs /\ y.parse = t.parse /\ y.hend = t.hend
          /\ y.inbuf = t.inbuf /\ y.buf = t.buf /\ y.filesize = t.filesize
          /\ y.filepos = t.filepos /\ y.post = t.post /\ y.status = t.status
      BY <1>3 DEF Request
    <3>2. o.c = y /\ o.ret = "scan"
      BY <1>2, <1>7, <2>2 DEF Out
    <3> HIDE DEF y
    <3>3. QED BY <1>4, <3>1, <3>2 DEF o
  <2>3. QED BY <2>1, <2>2
<1>8. CASE ~(t.hend - t.line >= MaxHeader) /\ ~t.logline
  <2>1. CASE kind \notin {"g", "o", "p", "q"}
    <3> DEFINE y == [t EXCEPT !.logline = TRUE]
    <3>1. /\ y \in Request /\ y.cs = t.cs /\ y.parse = t.parse /\ y.hend = t.hend
          /\ y.inbuf = t.inbuf /\ y.buf = t.buf /\ y.filesize = t.filesize
          /\ y.filepos = t.filepos /\ y.post = t.post /\ y.status = t.status
      BY <1>3 DEF Request
    <3>2. o = Refused(y, ev)
      BY <1>2, <1>8, <2>1
    <3> HIDE DEF y
    <3>3. QED BY <1>4, <1>5, <3>1, <3>2 DEF o
  <2>2. CASE kind \in {"g", "o", "p", "q"}
    <3> DEFINE l == [t EXCEPT !.logline = TRUE, !.method = kind, !.ka = (kind = "g")]
               seen == Append(ev, <<"request", text>>)
    <3>1. /\ l \in Request /\ l.cs = t.cs /\ l.parse = t.parse /\ l.hend = t.hend
          /\ l.inbuf = t.inbuf /\ l.buf = t.buf /\ l.filesize = t.filesize
          /\ l.filepos = t.filepos /\ l.post = t.post /\ l.status = t.status
      BY <1>3, <2>2 DEF Request
    <3>2. o = IF kind \in {"o", "q"} THEN process_header_end(l, seen)
              ELSE Out("scan", [l EXCEPT !.line = l.parse], seen)
      BY <1>2, <1>8, <2>2
    <3> HIDE DEF l, seen
    <3>3. /\ Bounded(l) /\ NoBody(l) /\ l.status = "ONE_LF" /\ l.parse = x.parse
          /\ Len(l.cs) = Len(x.cs)
      BY <1>4, <3>1
    <3>4. CASE kind \in {"o", "q"}
      <4>1. o = process_header_end(l, seen)
        BY <3>2, <3>4
      <4>2. /\ Bounded(o.c) /\ o.ret \in {"more", "respond"} /\ NoBody(o.c)
            /\ o.ret = "more" => o.c.status = "ONE_LF"
            /\ o.ret = "respond" => o.c.status = "WRITE"
        BY <3>3, <4>1, HeaderEndWithin
      <4>3. Body(o.c)
        BY <4>2 DEF Body, Scanning
      <4>4. QED BY <4>2, <4>3 DEF o
    <3>5. CASE kind \notin {"o", "q"}
      <4> DEFINE y == [l EXCEPT !.line = l.parse]
      <4>1. /\ y \in Request /\ y.cs = t.cs /\ y.parse = t.parse /\ y.hend = t.hend
            /\ y.inbuf = t.inbuf /\ y.buf = t.buf /\ y.filesize = t.filesize
            /\ y.filepos = t.filepos /\ y.post = t.post /\ y.status = t.status
        BY <3>1 DEF Request
      <4>2. o.c = y /\ o.ret = "scan"
        BY <3>2, <3>5 DEF Out
      <4> HIDE DEF y
      <4>3. QED BY <1>4, <4>1, <4>2 DEF o
    <3>6. QED BY <3>4, <3>5
  <2>3. QED BY <2>1, <2>2
<1>9. QED BY <1>6, <1>7, <1>8

(* The end of the header. *)
LEMMA BodyBegins ==
    ASSUME NEW x, Bounded(x), NoBody(x), x.status = "BODY_READ", NEW ev, length \in Int
    PROVE  LET o == HeaderEnd(x, ev)
           IN  /\ Bounded(o.c) /\ o.ret \in {"more", "respond", "refused"}
               /\ o.ret # "refused" => Body(o.c)
<1> DEFINE o == process_header_end(x, ev)
           p == o.c
           body == Len(p.cs) - p.parse
           r == HeaderEnd(x, ev)
           part == IF body > length THEN length ELSE body
           end == p.parse + part
           y == [p EXCEPT !.status = "BODY_WRITE", !.filesize = length, !.filepos = 0,
                          !.line = p.parse, !.hend = end]
<1>1. /\ Bounded(p) /\ o.ret \in {"more", "respond"} /\ NoBody(p)
      /\ o.ret = "respond" => p.status = "WRITE"
  BY HeaderEndWithin
<1>2. r = IF o.ret # "more" THEN o ELSE IF length < 0 THEN Refused(p, o.ev)
          ELSE Out("more", y, o.ev)
  BY DEF HeaderEnd
<1> HIDE DEF o, r
<1>3. CASE o.ret # "more"
  BY <1>1, <1>2, <1>3 DEF r, Body, Scanning
<1>4. CASE o.ret = "more" /\ length < 0
  <2>1. r = Refused(p, o.ev)
    BY <1>2, <1>4
  <2>2. Bounded(r.c) /\ r.ret = "refused"
    BY <1>1, <2>1, RefusedWithin
  <2>3. QED BY <2>2 DEF r
<1>5. CASE o.ret = "more" /\ ~(length < 0)
  <2>1. /\ p \in Request /\ length \in Nat /\ p.parse \in Nat /\ p.parse <= Len(p.cs)
        /\ Len(p.cs) \in Nat
    BY <1>1, <1>5, SMTT(30) DEF Bounded, Request
  <2>2. part \in Nat /\ part <= length /\ end \in Nat /\ end = p.parse + part /\ end <= Len(p.cs)
    BY <2>1
  <2> HIDE DEF part, end, p
  <2>3. y \in Request
    BY <2>1, <2>2 DEF Request
  <2>4. /\ y.status = "BODY_WRITE" /\ y.filesize = length /\ y.filepos = 0 /\ y.cs = p.cs
        /\ y.line = p.parse /\ y.hend = end /\ y.parse = p.parse /\ y.buf = p.buf
        /\ y.inbuf = p.inbuf /\ y.post = p.post
    BY <2>1, <2>2 DEF Request
  <2>5. r.c = y /\ r.ret = "more"
    BY <1>2, <1>5 DEF Out, part, end, p
  <2> HIDE DEF y
  <2>6. Bounded(y)
    BY <1>1, <2>1, <2>2, <2>3, <2>4 DEF Bounded, NoBody, Scanning
  <2>7. Body(y)
    BY <2>1, <2>2, <2>4 DEF Body, Scanning
  <2>8. QED BY <2>5, <2>6, <2>7 DEF r
<1>6. QED BY <1>3, <1>4, <1>5

(* The scanner's next state, and when it leaves the text of a line. *)
LEMMA StepStates ==
    ASSUME NEW status \in Scanning, NEW b
    PROVE  /\ Step(status, b) \in Scanning \cup {"BODY_READ"}
           /\ status = "READ_HEADER" /\ Step(status, b) # "READ_HEADER" => b \in {"CR", "LF"}
<1>1. CASE status = "READ_HEADER"
  BY <1>1 DEF Step, Scanning
<1>2. CASE status = "ONE_CR"
  BY <1>2 DEF Step, Scanning
<1>3. CASE status = "ONE_LF"
  BY <1>3 DEF Step, Scanning
<1>4. CASE status = "TWO_CR"
  BY <1>4 DEF Step, Scanning
<1>5. QED BY <1>1, <1>2, <1>3, <1>4 DEF Scanning

(* The positions of a request that is scanned. *)
LEMMA ScanPositions ==
    ASSUME NEW x, Bounded(x), NoBody(x), x.status \in Scanning
    PROVE  /\ x.parse \in Nat /\ x.hend \in Nat /\ x.hend <= Len(x.cs)
           /\ x.status # "READ_HEADER" => x.hend < x.parse
BY DEF Bounded, NoBody, Request

(* One byte more. *)
LEMMA ByteScanned ==
    ASSUME NEW x \in Request, NEW i \in Nat, i < Len(x.cs) - x.parse, NEW o, Scanned(o, x, i),
           NEW at, length \in Int
    PROVE  Scanned(ScanByte(o, at), x, i + 1)
<1> DEFINE y == o.c
           b == stream[at]
           s == Step(y.status, b)
           h == IF y.status = "READ_HEADER" /\ b \in {"CR", "LF"} THEN y.parse ELSE y.hend
           p == [y EXCEPT !.status = s, !.parse = @ + 1, !.hend = h]
           r == ScanByte(o, at)
<1>1. CASE o.ret # "scan"
  <2>1. r = o
    BY <1>1 DEF ScanByte
  <2> HIDE DEF r
  <2>2. Scanned(r, x, i + 1)
    BY <1>1, <2>1 DEF Scanned
  <2>3. QED BY <2>2 DEF r
<1>2. CASE o.ret = "scan" /\ b = "bad"
  <2>1. r = Refused(y, o.ev)
    BY <1>2 DEF ScanByte
  <2>2. Bounded(y)
    BY DEF Scanned
  <2> HIDE DEF r
  <2>3. Bounded(r.c) /\ r.ret = "refused"
    BY <2>1, <2>2, RefusedWithin
  <2>4. Scanned(r, x, i + 1)
    BY <2>3 DEF Scanned
  <2>5. QED BY <2>4 DEF r
<1>3. CASE o.ret = "scan" /\ b # "bad"
  <2>1. /\ Bounded(y) /\ NoBody(y) /\ y \in Request /\ y.status \in Scanning
        /\ y.parse = x.parse + i /\ Len(y.cs) = Len(x.cs)
    BY <1>3 DEF Scanned, Bounded
  <2>2. /\ s \in Scanning \cup {"BODY_READ"}
        /\ y.status = "READ_HEADER" /\ s # "READ_HEADER" => b \in {"CR", "LF"}
    BY <2>1, StepStates
  <2> HIDE DEF y, s, b
  <2>3. /\ y.parse \in Nat /\ y.hend \in Nat /\ x.parse \in Nat /\ Len(x.cs) \in Nat
        /\ y.parse < Len(y.cs) /\ y.hend <= Len(y.cs)
        /\ y.status # "READ_HEADER" => y.hend < y.parse
    <3>1. x.parse \in Nat /\ Len(x.cs) \in Nat /\ y.parse < Len(y.cs)
      BY <2>1, SMTT(30) DEF Request
    <3>2. QED BY <2>1, <3>1, ScanPositions
  <2>4. /\ h \in Nat /\ h <= Len(y.cs) /\ (s # "READ_HEADER" => h < y.parse + 1)
    BY <2>2, <2>3
  <2> HIDE DEF h
  <2>5. /\ p \in Request /\ p.status = s /\ p.parse = y.parse + 1 /\ p.hend = h
        /\ p.cs = y.cs /\ p.buf = y.buf /\ p.inbuf = y.inbuf /\ p.post = y.post
        /\ p.filesize = y.filesize /\ p.filepos = y.filepos
    <3>1. y.parse + 1 \in Nat /\ s \in Scanning \cup {"BODY_READ", "BODY_WRITE", "WRITE"}
      BY <2>2, <2>3
    <3>2. QED BY <2>1, <2>4, <3>1 DEF Request
  <2>6. r = IF s = "ONE_LF" THEN LineEnd(p, o.ev)
            ELSE IF s = "BODY_READ" THEN HeaderEnd(p, o.ev) ELSE Out("scan", p, o.ev)
    BY <1>3 DEF ScanByte, s, b, h, y
  <2> HIDE DEF p, r
  <2>7. Bounded(p) /\ NoBody(p)
    BY <2>1, <2>3, <2>4, <2>5, SMTT(30) DEF Bounded, NoBody
  <2>8. p.parse = x.parse + (i + 1) /\ Len(p.cs) = Len(x.cs)
    BY <2>1, <2>3, <2>5, SMTT(30)
  <2>9. CASE s = "ONE_LF"
    <3>1. r = LineEnd(p, o.ev)
      BY <2>6, <2>9
    <3>2. /\ Bounded(r.c) /\ r.ret \in {"scan", "more", "respond", "refused"}
          /\ r.ret = "scan" => /\ r.c.status = "ONE_LF" /\ NoBody(r.c)
                               /\ r.c.parse = p.parse /\ Len(r.c.cs) = Len(p.cs)
          /\ r.ret # "refused" => Body(r.c)
      BY <2>5, <2>7, <2>9, <3>1, LineEndWithin
    <3>3. Scanned(r, x, i + 1)
      BY <2>8, <3>2 DEF Scanned, Scanning
    <3>4. QED BY <3>3 DEF r
  <2>10. CASE s = "BODY_READ"
    <3>1. r = HeaderEnd(p, o.ev)
      BY <2>6, <2>10
    <3>2. /\ Bounded(r.c) /\ r.ret \in {"more", "respond", "refused"}
          /\ r.ret # "refused" => Body(r.c)
      BY <2>5, <2>7, <2>10, <3>1, BodyBegins
    <3>3. Scanned(r, x, i + 1)
      BY <3>2 DEF Scanned
    <3>4. QED BY <3>3 DEF r
  <2>11. CASE s \notin {"ONE_LF", "BODY_READ"}
    <3>1. r.c = p /\ r.ret = "scan"
      BY <2>6, <2>11 DEF Out
    <3>2. s \in Scanning
      BY <2>2, <2>11
    <3>3. Scanned(r, x, i + 1)
      <4>1. Body(p)
        BY <2>5, <2>7, <3>2 DEF Body, Scanning
      <4>2. QED BY <2>5, <2>7, <2>8, <3>1, <3>2, <4>1 DEF Scanned
    <3>4. QED BY <3>3 DEF r
  <2>12. QED BY <2>9, <2>10, <2>11
<1>4. QED BY <1>1, <1>2, <1>3

(* The recursive function of Scan exists: one value for each byte. *)
LEMMA ScanIs ==
    ASSUME NEW x, x.parse \in Nat, Len(x.cs) - x.parse \in Nat
    PROVE  \E w : /\ Scan(x) = w[Len(x.cs) - x.parse] /\ w[0] = Out("scan", x, events)
                  /\ \A i \in 1 .. Len(x.cs) - x.parse :
                        w[i] = ScanByte(w[i - 1], x.cs[x.parse + i])
<1> DEFINE n == Len(x.cs) - x.parse
           St(v, i) == ScanByte(v, x.cs[x.parse + i])
           base == Out("scan", x, events)
           Def(g, k) == [i \in 0 .. k |-> IF i = 0 THEN base ELSE St(g[i - 1], i)]
           IsScan(f, k) == f = Def(f, k)
           T == {k \in 0 .. n : \E f : IsScan(f, k)}
<1>1. n \in Nat
  OBVIOUS
<1>2. Scan(x) = (CHOOSE g : g = Def(g, n))[n]
  BY DEF Scan
<1> HIDE DEF n, St, base
<1>3. 0 \in T
  <2>1. Def([i \in 0 .. 0 |-> base], 0) = [i \in 0 .. 0 |-> base]
    OBVIOUS
  <2>2. \E f : IsScan(f, 0)
    BY <2>1
  <2> HIDE DEF IsScan
  <2>3. QED BY <1>1, <2>2
<1>4. ASSUME NEW k \in 1 .. n, k - 1 \in T PROVE k \in T
  <2>1. PICK f : IsScan(f, k - 1)
    BY <1>4
  <2>2. \A i \in 0 .. k - 1 : f[i] = IF i = 0 THEN base ELSE St(f[i - 1], i)
    BY <2>1
  <2> DEFINE g == [i \in 0 .. k |-> IF i = k THEN St(f[k - 1], k) ELSE f[i]]
  <2>3. ASSUME NEW i \in 0 .. k
        PROVE  g[i] = IF i = 0 THEN base ELSE St(g[i - 1], i)
    <3>1. CASE i = 0
      BY <1>1, <2>2, <3>1
    <3>2. CASE i # 0
      <4>1. i - 1 \in 0 .. k /\ i - 1 # k
        BY <1>1, <3>2
      <4>2. g[i - 1] = f[i - 1]
        BY <4>1
      <4>3. CASE i = k
        BY <3>2, <4>2, <4>3
      <4>4. CASE i # k
        BY <1>1, <2>2, <3>2, <4>2, <4>4
      <4>5. QED BY <4>3, <4>4
    <3>3. QED BY <3>1, <3>2
  <2>4. g = Def(g, k)
    <3>1. \A i \in 0 .. k : g[i] = Def(g, k)[i]
      BY <2>3
    <3>2. DOMAIN g = 0 .. k /\ DOMAIN Def(g, k) = 0 .. k
      OBVIOUS
    <3>3. QED BY <3>1, <3>2
  <2> HIDE DEF g
  <2>5. \E h : IsScan(h, k)
    BY <2>4
  <2> HIDE DEF IsScan
  <2>6. QED BY <1>1, <2>5
<1>5. n \in T
  <2> HIDE DEF T
  <2>1. 0 .. n \subseteq T
    BY <1>1, <1>3, <1>4, PlaceInduction
  <2>2. QED BY <1>1, <2>1
<1> DEFINE w == CHOOSE g : g = Def(g, n)
<1>6. w = Def(w, n)
  <2>1. \E g : g = Def(g, n)
    BY <1>5
  <2> HIDE DEF Def
  <2>2. QED BY <2>1
<1> HIDE DEF w
<1>7. \A i \in 0 .. n : w[i] = IF i = 0 THEN base ELSE St(w[i - 1], i)
  BY <1>6
<1>8. Scan(x) = w[n]
  BY <1>2 DEF w
<1>9. w[0] = base /\ \A i \in 1 .. n : w[i] = St(w[i - 1], i)
  BY <1>1, <1>7
<1>10. QED BY <1>8, <1>9 DEF n, base, St

(* What read_header makes of the bytes that it has not parsed yet: each    *)
(* value is Scanned.                                                       *)
LEMMA ScanWithin ==
    ASSUME NEW x, Bounded(x), NoBody(x), x.status \in Scanning, length \in Int
    PROVE  Scanned(Scan(x), x, Len(x.cs) - x.parse)
<1> DEFINE n == Len(x.cs) - x.parse
           base == Out("scan", x, events)
<1>1. x \in Request /\ n \in Nat /\ x.parse \in Nat
  BY DEF Bounded, Request
<1>2. PICK w : /\ Scan(x) = w[n] /\ w[0] = base
               /\ \A i \in 1 .. n : w[i] = ScanByte(w[i - 1], x.cs[x.parse + i])
  BY <1>1, ScanIs
<1>3. base.c = x /\ base.ret = "scan"
  BY DEF Out
<1> HIDE DEF base
<1> DEFINE V == {i \in 0 .. n : Scanned(w[i], x, i)}
<1>4. 0 \in V
  <2>1. Scanned(base, x, 0)
    BY <1>1, <1>3 DEF Scanned, Body, Scanning
  <2>2. QED BY <1>1, <1>2, <2>1
<1>5. ASSUME NEW i \in 1 .. n, i - 1 \in V PROVE i \in V
  <2>1. i - 1 \in Nat /\ i - 1 < n /\ Scanned(w[i - 1], x, i - 1) /\ (i - 1) + 1 = i
    BY <1>1, <1>5
  <2>2. w[i] = ScanByte(w[i - 1], x.cs[x.parse + i])
    BY <1>2
  <2>3. Scanned(w[i], x, i)
    BY <1>1, <2>1, <2>2, ByteScanned
  <2>4. QED BY <2>3
<1>6. n \in V
  <2> HIDE DEF V, n
  <2>1. 0 .. n \subseteq V
    BY <1>1, <1>4, <1>5, PlaceInduction
  <2>2. QED BY <1>1, <2>1
<1>7. QED BY <1>2, <1>6

(* What read(2) delivers. *)
LEMMA InputSeq ==
    ASSUME NEW n \in Nat, taken \in Nat
    PROVE  Input(n) \in Seq(Nat) /\ Len(Input(n)) = n
BY DEF Input

(* A call that returns o has taken n bytes from the socket. *)
LEMMA DisposeInv ==
    ASSUME ReadInv, NEW o, NEW n \in Nat, n <= sent - taken, Dispose(o, n), Bounded(o.c),
           o.ret \in {"more", "blocked", "respond", "refused", "full", "done"},
           o.ret \in {"more", "blocked", "respond"} => Body(o.c)
    PROVE  ReadInv'
<1>1. sent \in Nat /\ taken \in Nat /\ taken + n \in 0 .. sent
  BY DEF ReadInv, ReadTypeOK
<1>2. c' = o.c /\ UNCHANGED <<stream, length, sent>> /\ taken' = taken + n
  BY DEF Dispose
<1>3. /\ pc' \in {"turn", "blocked", "respond", "closed"}
      /\ why' \in {"open", "done", "refused", "full", "eof", "timeout"}
      /\ pc' # "closed" => o.ret \in {"more", "blocked", "respond"}
  BY DEF Dispose, ReadInv, ReadTypeOK
<1>4. ReadTypeOK'
  BY <1>1, <1>2, <1>3 DEF ReadInv, ReadTypeOK, Bounded
<1>5. Bounded(c)' /\ (pc' # "closed" => Body(c)')
  BY <1>2, <1>3 DEF Bounded, Body, NoBody
<1>6. QED BY <1>2, <1>4, <1>5 DEF ReadInv

LEMMA LeastIs ==
    ASSUME NEW a \in Int, NEW b \in Int
    PROVE  Least(a, b) \in {a, b} /\ Least(a, b) <= a /\ Least(a, b) <= b
BY DEF Least

(* More bytes behind those that were read. *)
LEMMA ReadMore ==
    ASSUME NEW x, Bounded(x), NoBody(x), x.status \in Scanning, NEW s \in Seq(Nat),
           Len(s) <= Space(x)
    PROVE  LET y == [x EXCEPT !.cs = @ \o s] IN Bounded(y) /\ Body(y)
<1> DEFINE e == x.cs \o s
           y == [x EXCEPT !.cs = e]
<1>1. x \in Request /\ x.cs \in Seq(Nat)
  BY DEF Bounded, Request
<1>2. e \in Seq(Nat) /\ Len(e) = Len(x.cs) + Len(s)
  BY <1>1
<1> HIDE DEF e
<1>3. /\ y \in Request /\ y.cs = e /\ y.parse = x.parse /\ y.hend = x.hend /\ y.buf = x.buf
      /\ y.inbuf = x.inbuf /\ y.status = x.status /\ y.filesize = x.filesize
      /\ y.filepos = x.filepos /\ y.post = x.post
  BY <1>1, <1>2 DEF Request
<1>4. StreamSize \in Nat /\ Len(s) \in Nat /\ Len(x.cs) \in Nat
  BY <1>1, ReadHeaderAssumption
<1>5. Len(e) <= StreamSize /\ Len(x.cs) <= Len(e)
  BY <1>2, <1>4 DEF Space
<1> HIDE DEF y
<1>6. x.parse \in Nat /\ x.parse <= Len(x.cs) /\ x.hend \in Nat /\ x.hend <= Len(x.cs)
  BY ScanPositions DEF Bounded
<1>7. Bounded(y)
  BY <1>2, <1>3, <1>4, <1>5, <1>6 DEF Bounded, NoBody
<1>8. Body(y)
  BY <1>3 DEF Body, NoBody, Scanning
<1>9. QED BY <1>7, <1>8 DEF y, e

LEMMA ReadHeaderInv ==
    ASSUME ReadInv, read_header
    PROVE  ReadInv'
<1> DEFINE o == Scan(c)
           n == Least(sent - taken, Space(o.c))
           full == Out("full", o.c, Append(o.ev, <<"full">>))
           blocked == Out("blocked", o.c, o.ev)
           more == Out("more", [o.c EXCEPT !.cs = @ \o Input(n)], o.ev)
<1>1. /\ pc = "turn" /\ c.status \in Scanning
      /\ IF o.ret # "scan" THEN Dispose(o, 0)
         ELSE IF Space(o.c) < 1 THEN Dispose(full, 0)
         ELSE IF n = 0 THEN Dispose(blocked, 0)
         ELSE Dispose(more, n)
  BY DEF read_header
<1>2. Bounded(c) /\ NoBody(c) /\ length \in Int /\ sent \in Nat /\ taken \in Nat /\ taken <= sent
  <2>1. Bounded(c) /\ length \in Int /\ sent \in Nat /\ taken \in Nat /\ taken <= sent
    BY ReadHeaderAssumption DEF ReadInv, ReadTypeOK
  <2>2. Body(c)
    BY <1>1 DEF ReadInv
  <2>3. NoBody(c)
    BY <1>1, <2>2 DEF Body, Scanning
  <2>4. QED BY <2>1, <2>3
<1>3. Scanned(o, c, Len(c.cs) - c.parse)
  BY <1>1, <1>2, ScanWithin
<1> HIDE DEF o
<1>4. CASE o.ret # "scan"
  <2>1. /\ Bounded(o.c) /\ o.ret \in {"more", "respond", "refused"}
        /\ o.ret # "refused" => Body(o.c)
    BY <1>3, <1>4 DEF Scanned
  <2>2. 0 \in Nat /\ 0 <= sent - taken /\ Dispose(o, 0)
    BY <1>1, <1>2, <1>4
  <2>3. QED BY <2>1, <2>2, DisposeInv
<1>5. ASSUME o.ret = "scan"
      PROVE  /\ Bounded(o.c) /\ NoBody(o.c) /\ o.c.status \in Scanning /\ Body(o.c)
             /\ Space(o.c) \in Int
  <2>1. Bounded(o.c) /\ NoBody(o.c) /\ o.c.status \in Scanning /\ Body(o.c)
    BY <1>3, <1>5 DEF Scanned
  <2>2. Len(o.c.cs) \in Nat
    BY <2>1 DEF Bounded, Request
  <2>3. QED BY <2>1, <2>2, ReadHeaderAssumption DEF Space
<1>6. CASE o.ret = "scan" /\ Space(o.c) < 1
  <2>1. Dispose(full, 0) /\ full.c = o.c /\ full.ret = "full"
    BY <1>1, <1>6 DEF Out
  <2>2. 0 \in Nat /\ 0 <= sent - taken
    BY <1>2
  <2> HIDE DEF full
  <2>3. QED BY <1>5, <1>6, <2>1, <2>2, DisposeInv
<1>7. CASE o.ret = "scan" /\ ~(Space(o.c) < 1) /\ n = 0
  <2>1. Dispose(blocked, 0) /\ blocked.c = o.c /\ blocked.ret = "blocked"
    BY <1>1, <1>7 DEF Out
  <2>2. 0 \in Nat /\ 0 <= sent - taken
    BY <1>2
  <2> HIDE DEF blocked
  <2>3. QED BY <1>5, <1>7, <2>1, <2>2, DisposeInv
<1>8. CASE o.ret = "scan" /\ ~(Space(o.c) < 1) /\ n # 0
  <2>1. n \in Nat /\ n <= sent - taken /\ n <= Space(o.c)
    BY <1>2, <1>5, <1>8, LeastIs
  <2> DEFINE y == [o.c EXCEPT !.cs = @ \o Input(n)]
  <2>2. Dispose(more, n) /\ more.c = y /\ more.ret = "more"
    BY <1>1, <1>8 DEF Out
  <2> HIDE DEF n
  <2>3. Input(n) \in Seq(Nat) /\ Len(Input(n)) = n
    BY <1>2, <2>1, InputSeq
  <2>4. Bounded(y) /\ Body(y)
    BY <1>5, <1>8, <2>1, <2>3, ReadMore
  <2> HIDE DEF y, more
  <2>5. QED BY <2>1, <2>2, <2>4, DisposeInv
<1>9. QED BY <1>4, <1>6, <1>7, <1>8

LEMMA ReadBodyInv ==
    ASSUME ReadInv, read_body
    PROVE  ReadInv'
<1> DEFINE want == Least(c.filesize - c.filepos, BufferSize - (c.hend - c.line))
           n == Least(sent - taken, want)
           p == [c EXCEPT !.status = "BODY_WRITE", !.buf = SubSeq(@, 1, c.hend) \o Input(n),
                          !.hend = @ + n]
           skip == [c EXCEPT !.status = "BODY_WRITE"]
<1>1. /\ pc = "turn" /\ c.status = "BODY_READ"
      /\ IF want <= 0 THEN Dispose(Out("more", skip, events), 0)
         ELSE IF n = 0 THEN Dispose(Out("blocked", c, events), 0)
         ELSE Dispose(Out("more", p, events), n)
  BY DEF read_body
<1>2. /\ c \in Request /\ Bounded(c) /\ sent \in Nat /\ taken \in Nat /\ taken <= sent
      /\ c.inbuf /\ c.buf = <<>> /\ c.line = 0 /\ c.hend = 0 /\ Body(c)
  BY <1>1 DEF ReadInv, ReadTypeOK, Body, Scanning, Bounded
<1>3. /\ c.filesize \in Nat /\ c.filepos \in Nat /\ c.filepos <= c.filesize
      /\ BufferSize \in Nat \ {0} /\ 0 <= sent - taken
  BY <1>2, ReadHeaderAssumption DEF Request, Bounded
<1>4. want \in Int /\ want <= BufferSize /\ want <= c.filesize - c.filepos
  <2>1. /\ c.filesize - c.filepos \in Int /\ BufferSize - (c.hend - c.line) \in Int
        /\ BufferSize - (c.hend - c.line) = BufferSize
    BY <1>2, <1>3
  <2>2. /\ want \in {c.filesize - c.filepos, BufferSize - (c.hend - c.line)}
        /\ want <= c.filesize - c.filepos /\ want <= BufferSize - (c.hend - c.line)
    BY <2>1, LeastIs
  <2>3. QED BY <2>1, <2>2
<1> HIDE DEF want
<1>5. CASE want <= 0
  <2>1. /\ skip \in Request /\ skip.cs = c.cs /\ skip.parse = c.parse /\ skip.hend = c.hend
        /\ skip.inbuf = c.inbuf /\ skip.buf = c.buf /\ skip.filesize = c.filesize
        /\ skip.filepos = c.filepos /\ skip.post = c.post /\ skip.status = "BODY_WRITE"
        /\ skip.line = c.line
    BY <1>2 DEF Request
  <2>2. Dispose(Out("more", skip, events), 0)
    BY <1>1, <1>5
  <2> HIDE DEF skip
  <2>3. Bounded(skip)
    BY <1>2, <2>1, SameBounds DEF Scanning
  <2>4. Body(skip)
    BY <1>2, <1>3, <2>1 DEF Body, Scanning
  <2> DEFINE o == Out("more", skip, events)
  <2>5. o.c = skip /\ o.ret = "more"
    BY DEF Out
  <2> HIDE DEF o
  <2>6. QED BY <1>3, <2>2, <2>3, <2>4, <2>5, DisposeInv DEF o
<1>6. CASE ~(want <= 0) /\ n = 0
  <2> DEFINE o == Out("blocked", c, events)
  <2>1. o.c = c /\ o.ret = "blocked" /\ Dispose(o, 0)
    BY <1>1, <1>6 DEF Out
  <2> HIDE DEF o
  <2>2. QED BY <1>2, <1>3, <2>1, DisposeInv
<1>7. CASE ~(want <= 0) /\ n # 0
  <2>1. n \in Nat /\ n <= sent - taken /\ n <= want
    BY <1>2, <1>3, <1>4, <1>7, LeastIs
  <2>2. Dispose(Out("more", p, events), n)
    BY <1>1, <1>7
  <2> HIDE DEF n
  <2> DEFINE b == SubSeq(c.buf, 1, c.hend) \o Input(n)
  <2>3. b \in Seq(Nat) /\ Len(b) = n
    <3>1. SubSeq(c.buf, 1, c.hend) = <<>>
      BY <1>2
    <3>2. Input(n) \in Seq(Nat) /\ Len(Input(n)) = n
      BY <1>2, <2>1, InputSeq
    <3>3. b = Input(n)
      BY <3>1, <3>2, ConcatEmptySeq
    <3>4. QED BY <3>2, <3>3
  <2>4. p = [c EXCEPT !.status = "BODY_WRITE", !.buf = b, !.hend = n]
    <3>1. c.hend + n = n
      BY <1>2, <2>1
    <3>2. QED BY <3>1
  <2> HIDE DEF b, p
  <2>5. /\ p \in Request /\ p.cs = c.cs /\ p.parse = c.parse /\ p.hend = n
        /\ p.inbuf = c.inbuf /\ p.buf = b /\ p.filesize = c.filesize
        /\ p.filepos = c.filepos /\ p.post = c.post /\ p.status = "BODY_WRITE"
        /\ p.line = 0
    BY <1>2, <2>1, <2>3, <2>4 DEF Request
  <2>6. Bounded(p)
    BY <1>2, <1>3, <1>4, <2>1, <2>3, <2>5 DEF Bounded, Scanning
  <2>7. Body(p)
    BY <1>3, <1>4, <2>1, <2>5 DEF Body, Scanning
  <2> DEFINE o == Out("more", p, events)
  <2>8. o.c = p /\ o.ret = "more"
    BY DEF Out
  <2> HIDE DEF o
  <2>9. QED BY <2>1, <2>2, <2>6, <2>7, <2>8, DisposeInv DEF o
<1>8. QED BY <1>5, <1>6, <1>7

LEMMA WriteBodyInv ==
    ASSUME ReadInv, write_body
    PROVE  ReadInv'
<1> DEFINE n == Least(c.hend - c.line, c.filesize - c.filepos)
           p == [c EXCEPT !.line = 0, !.hend = 0, !.inbuf = TRUE, !.buf = <<>>]
           again == [p EXCEPT !.status = "BODY_READ"]
<1>1. /\ pc = "turn" /\ c.status = "BODY_WRITE"
      /\ \/ Dispose(Out("done", p, Append(events, <<"body", c.post>>)), 0)
         \/ Dispose(Out("more", again, events), 0)
         \/ \E k \in 1 .. n :
               Dispose(Out("more", [c EXCEPT !.post = @ \o SubSeq(Pending(c), 1, k),
                                       !.filepos = @ + k, !.line = @ + k], events), 0)
  BY DEF write_body
<1> HIDE DEF n, p, again
<1>2. /\ c \in Request /\ Bounded(c) /\ sent \in Nat /\ taken \in Nat /\ 0 <= sent - taken
      /\ c.line <= c.hend /\ c.hend - c.line <= c.filesize - c.filepos
  <2>1. c \in Request /\ Bounded(c) /\ Body(c)
    BY <1>1 DEF ReadInv, ReadTypeOK, Bounded
  <2>0. sent \in Nat /\ taken \in Nat /\ 0 <= sent - taken
    BY DEF ReadInv, ReadTypeOK
  <2>2. c.line <= c.hend /\ c.hend - c.line <= c.filesize - c.filepos
    BY <1>1, <2>1 DEF Body, Scanning
  <2>3. QED BY <2>0, <2>1, <2>2
<1>3. /\ c.filesize \in Nat /\ c.filepos \in Nat /\ c.filepos <= c.filesize
      /\ c.line \in Nat /\ c.hend \in Nat /\ 0 \in Nat /\ BufferSize \in Nat
  BY <1>2, ReadHeaderAssumption DEF Request, Bounded
<1>4. /\ p \in Request /\ p.cs = c.cs /\ p.parse = c.parse /\ p.hend = 0 /\ p.line = 0
      /\ p.inbuf /\ p.buf = <<>> /\ p.filesize = c.filesize
      /\ p.filepos = c.filepos /\ p.post = c.post /\ p.status = "BODY_WRITE"
  <2>1. p.inbuf
    BY <1>2 DEF Request, p
  <2>2. p \in Request
    <3>1. <<>> \in Seq(Nat) /\ TRUE \in BOOLEAN /\ 0 \in Nat
      OBVIOUS
    <3>2. QED BY <1>2, <3>1, ZenonT(30) DEF Request, p
  <2>3. QED BY <1>1, <1>2, <2>1, <2>2 DEF Request, p
<1>5. /\ again \in Request /\ again.cs = c.cs /\ again.parse = c.parse /\ again.hend = 0
      /\ again.line = 0 /\ again.inbuf /\ again.buf = <<>>
      /\ again.filesize = c.filesize /\ again.filepos = c.filepos /\ again.post = c.post
      /\ again.status = "BODY_READ"
  BY <1>4 DEF Request, again
<1>6. CASE Dispose(Out("done", p, Append(events, <<"body", c.post>>)), 0)
  <2> DEFINE o == Out("done", p, Append(events, <<"body", c.post>>))
  <2>1. o.c = p /\ o.ret = "done"
    BY DEF Out
  <2>2. Bounded(p)
    BY <1>2, <1>3, <1>4 DEF Bounded, Scanning
  <2> HIDE DEF o
  <2>3. QED BY <1>2, <1>3, <1>6, <2>1, <2>2, DisposeInv DEF o
<1>7. CASE Dispose(Out("more", again, events), 0)
  <2> DEFINE o == Out("more", again, events)
  <2>1. o.c = again /\ o.ret = "more"
    BY DEF Out
  <2>2. Bounded(again)
    BY <1>2, <1>3, <1>5 DEF Bounded, Scanning
  <2>3. Body(again)
    BY <1>5 DEF Body, Scanning
  <2> HIDE DEF o
  <2>4. QED BY <1>2, <1>3, <1>7, <2>1, <2>2, <2>3, DisposeInv DEF o
<1>8. ASSUME NEW k \in 1 .. n,
             Dispose(Out("more", [c EXCEPT !.post = @ \o SubSeq(Pending(c), 1, k),
                                     !.filepos = @ + k, !.line = @ + k], events), 0)
      PROVE  ReadInv'
  <2> DEFINE part == SubSeq(Pending(c), 1, k)
             post == c.post \o part
             fp == c.filepos + k
             l == c.line + k
             y == [c EXCEPT !.post = post, !.filepos = fp, !.line = l]
             o == Out("more", y, events)
             b == IF c.inbuf THEN c.buf ELSE c.cs
  <2>1. o.c = y /\ o.ret = "more" /\ Dispose(o, 0)
    BY <1>8 DEF Out
  <2>2. n \in Int /\ n <= c.hend - c.line /\ n <= c.filesize - c.filepos
    BY <1>3, LeastIs DEF n
  <2>3. k \in Nat /\ k <= c.hend - c.line /\ k <= c.filesize - c.filepos
    BY <1>3, <2>2
  <2>4. b \in Seq(Nat) /\ c.hend <= Len(b)
    BY <1>2 DEF Request, Bounded
  <2>5. Pending(c) = SubSeq(b, c.line + 1, c.hend)
    BY DEF Pending
  <2> HIDE DEF b, n, o
  <2>6. Pending(c) \in Seq(Nat) /\ Len(Pending(c)) = c.hend - c.line
    <3>1. c.line + 1 \in Int /\ c.hend \in Int /\ \A i \in c.line + 1 .. c.hend : b[i] \in Nat
      BY <1>3, <2>4
    <3>2. QED BY <1>2, <1>3, <2>5, <3>1, SubSeqProperties, SMTT(30)
  <2>7. part \in Seq(Nat) /\ Len(part) = k
    BY <1>3, <2>3, <2>6, SubSeqProperties
  <2> HIDE DEF part
  <2>8. post \in Seq(Nat) /\ Len(post) = c.filepos + k
    <3>1. c.post \in Seq(Nat) /\ Len(c.post) = c.filepos
      BY <1>2 DEF Request, Bounded
    <3>2. post \in Seq(Nat) /\ Len(post) = Len(c.post) + Len(part)
      BY <2>7, <3>1, ConcatProperties, Zenon
    <3>3. QED BY <2>7, <3>1, <3>2
  <2> HIDE DEF post
  <2>9. /\ y \in Request /\ y.cs = c.cs /\ y.parse = c.parse /\ y.hend = c.hend
        /\ y.inbuf = c.inbuf /\ y.buf = c.buf /\ y.filesize = c.filesize
        /\ y.filepos = c.filepos + k /\ y.post = post /\ y.status = "BODY_WRITE"
        /\ y.line = c.line + k
    <3>1. fp \in Nat /\ l \in Nat
      BY <1>3, <2>3
    <3> HIDE DEF fp, l
    <3>2. /\ y \in Request /\ y.cs = c.cs /\ y.parse = c.parse /\ y.hend = c.hend
          /\ y.inbuf = c.inbuf /\ y.buf = c.buf /\ y.filesize = c.filesize
          /\ y.filepos = fp /\ y.post = post /\ y.status = "BODY_WRITE" /\ y.line = l
      BY <1>1, <1>2, <2>8, <3>1 DEF Request
    <3>3. QED BY <3>2 DEF fp, l
  <2> HIDE DEF y
  <2>10. Bounded(y)
    BY <1>2, <1>3, <2>3, <2>8, <2>9, SMTT(30) DEF Bounded, Scanning
  <2>11. Body(y)
    BY <1>2, <1>3, <2>3, <2>9 DEF Body, Scanning
  <2>12. QED BY <1>2, <1>3, <2>1, <2>10, <2>11, DisposeInv
<1>9. QED BY <1>1, <1>6, <1>7, <1>8

LEMMA FreeRequestInv ==
    ASSUME ReadInv, free_request
    PROVE  ReadInv'
<1>1. CASE c.ka /\ c' = sanitize_request(c) /\ pc' = "blocked" /\ UNCHANGED why
  <2>1. Bounded(c') /\ Body(c')
    BY <1>1, SanitizeWithin DEF ReadInv
  <2>2. UNCHANGED <<stream, length, sent, taken, why>> /\ pc' = "blocked"
    BY <1>1 DEF free_request
  <2>3. QED BY <2>1, <2>2 DEF ReadInv, ReadTypeOK, Bounded, Body, NoBody
<1>2. CASE pc' = "closed" /\ why' = "done" /\ UNCHANGED c
  <2>1. UNCHANGED <<stream, length, sent, taken, c>>
    BY <1>2 DEF free_request
  <2>2. QED BY <1>2, <2>1 DEF ReadInv, ReadTypeOK, Bounded
<1>3. QED BY <1>1, <1>2 DEF free_request

LEMMA EofInv ==
    ASSUME ReadInv, Eof
    PROVE  ReadInv'
<1>1. /\ stream \in Seq(Byte) /\ sent \in 0 .. Len(stream) /\ Len(stream) \in Nat
      /\ taken \in 0 .. sent /\ pc = "blocked"
  BY DEF ReadInv, ReadTypeOK, Eof
<1>2. CASE c' = sanitize_request(c) /\ stream' = SubSeq(stream, 1, sent) /\ UNCHANGED <<pc, why>>
  <2>1. Bounded(c') /\ Body(c')
    BY <1>2, SanitizeWithin DEF ReadInv
  <2>2. stream' \in Seq(Byte) /\ Len(stream') = sent
    BY <1>1, <1>2, SubSeqProperties
  <2>3. UNCHANGED <<length, sent, taken, pc, why>>
    BY <1>2 DEF Eof
  <2>4. QED BY <1>1, <2>1, <2>2, <2>3 DEF ReadInv, ReadTypeOK, Bounded, Body, NoBody
<1>3. CASE pc' = "closed" /\ why' = "eof" /\ UNCHANGED <<stream, c>>
  <2>1. UNCHANGED <<stream, length, sent, taken, c>>
    BY <1>3 DEF Eof
  <2>2. QED BY <1>3, <2>1 DEF ReadInv, ReadTypeOK, Bounded
<1>4. QED BY <1>2, <1>3 DEF Eof

(* Every step of the specification keeps the invariant. *)
LEMMA ReadNextInv ==
    ASSUME ReadInv, [ReadNext]_readVars
    PROVE  ReadInv'
<1>1. CASE read_header
  BY <1>1, ReadHeaderInv
<1>2. CASE read_body
  BY <1>2, ReadBodyInv
<1>3. CASE write_body
  BY <1>3, WriteBodyInv
<1>4. CASE free_request
  BY <1>4, FreeRequestInv
<1>5. CASE ready_request
  BY <1>5 DEF ready_request, ReadInv, ReadTypeOK, Bounded, Body, NoBody
<1>6. CASE Eof
  BY <1>6, EofInv
<1>7. CASE Timeout
  BY <1>7 DEF Timeout, ReadInv, ReadTypeOK, Bounded
<1>8. CASE Send
  <2>1. /\ sent' = sent + 1 /\ sent < Len(stream) /\ UNCHANGED <<stream, length, taken, c, pc, why>>
    BY <1>8 DEF Send
  <2>2. sent' \in 0 .. Len(stream) /\ taken \in 0 .. sent'
    BY <2>1 DEF ReadInv, ReadTypeOK
  <2>3. QED BY <2>1, <2>2 DEF ReadInv, ReadTypeOK, Bounded, Body, NoBody
<1>9. CASE UNCHANGED readVars
  BY <1>9 DEF readVars, ReadInv, ReadTypeOK, Bounded, Body, NoBody
<1>10. QED BY <1>1, <1>2, <1>3, <1>4, <1>5, <1>6, <1>7, <1>8, <1>9 DEF ReadNext, Server

LEMMA ReadInitInv == ReadInit => ReadInv
<1> SUFFICES ASSUME ReadInit PROVE ReadInv
  OBVIOUS
<1>1. <<>> \in Seq(Nat) /\ Len(<<>>) <= StreamSize
  BY ReadHeaderAssumption
<1>2. Bounded(c) /\ Body(c)
  BY <1>1, FreshWithin, ReadHeaderAssumption DEF ReadInit
<1>3. stream \in Seq(Byte) /\ length \in Lengths \cup {0} /\ sent = 0 /\ taken = 0
  BY ReadHeaderAssumption DEF ReadInit
<1>4. QED BY <1>2, <1>3 DEF ReadInit, ReadInv, ReadTypeOK, Bounded

(* For every size of client_stream and buffer, whatever the client sends   *)
(* and however it is cut into reads, the scanner of read_header and the    *)
(* way of a body through read_body and write_body stay in their buffers.   *)
THEOREM StreamBounded == ReadSpec => []StreamBounds
<1>1. ReadInv => StreamBounds
  BY DEF ReadInv, Bounded, StreamBounds
<1>2. QED BY <1>1, ReadInitInv, ReadNextInv, PTL DEF ReadSpec
-----------------------------------------------------------------------------
(* However a stream is cut into reads *)

(* The calls, and how far the reference is.                                *)
Word == {"refused", "full", "request", "option", "end", "body"}
Call == Seq(Word \cup Seq(Nat))
Reading == [b : Nat \ {0}, at : Nat \ {0}, text : Seq(Nat), ev : Seq(Call), over : BOOLEAN]

(* The reference on the first k bytes of a stream.                         *)
Upto(str, k) == SubSeq(str, 1, k)

(* The reference is at m after some line, whatever the stream goes on with *)
(* behind that line, and m is not the end.                                 *)
Reached(str, n, m) ==
    /\ m \in Reading /\ ~m.over /\ m.b <= m.at /\ m.at <= Len(str) + 1
    /\ \E i \in 0 .. m.at - 1 :
          \A k \in m.at - 1 .. Len(str) : LinesOf(Upto(str, k), n)[i] = m

(* Of the line at m the scanner has seen the bytes up to some place, no    *)
(* end among them; its state says where the last letter among them is.     *)
LineSoFar(str, m, x) ==
    LET to == m.b - 1 + x.parse
        last == LastLetter(str, m.at, to)
    IN  /\ m.at <= to + 1
        /\ \A i \in m.at .. to : str[i] \notin {"LF", "bad"}
        /\ x.status = "READ_HEADER" => last = to
        /\ x.status = "ONE_CR" => x.hend = last - m.b + 1
        /\ x.status \in {"READ_HEADER", "ONE_CR"} /\ m.text # <<>> => last >= m.at
        /\ x.status \in {"ONE_LF", "TWO_CR"} => last = m.at - 1 /\ m.text # <<>>

(* The request is the one that begins at m.b: client_stream holds its      *)
(* bytes from the current line on.  An HTTP/0.9 POST is different: its     *)
(* request line stays the current line.                                    *)
RequestSoFar(str, m, x) ==
    /\ x.logline = (m.text # <<>>) /\ x.ka = (x.method = "g")
    /\ m.text = <<>> => x.method = "none" /\ m.at = m.b
    /\ m.text # <<>> => /\ m.text[1] = m.b /\ m.b < m.at
                        /\ x.method = str[m.b] /\ x.method \in {"g", "p", "q"}
    /\ x.method # "q" => x.line = m.at - m.b
    /\ x.method = "q" => /\ x.line = 0 /\ m.at = FirstFrom(str, "LF", m.b) + 1
                         /\ FirstFrom(x.cs, 0, 1) \in 1 .. m.at - m.b /\ Text(x) = m.text
    /\ \A j \in m.at - m.b + 1 .. Len(x.cs) : x.cs[j] = m.b - 1 + j

ScanState(str, n, m, x, ev, read) ==
    /\ Reached(str, n, m) /\ m.ev = ev /\ read = m.b - 1 + Len(x.cs)
    /\ LineSoFar(str, m, x) /\ RequestSoFar(str, m, x)

(* The header ended at from; the temporary file has the first filepos      *)
(* bytes of the body, and the bytes between header_line and header_end     *)
(* are the next ones.                                                      *)
BodyState(str, n, from, x, ev, read) ==
    /\ from \in 0 .. Len(str) /\ n \in Nat /\ x.filesize = n /\ ev \in Seq(Call)
    /\ \A k \in from .. Len(str) :
          Meaning(Upto(str, k), n) =
              ev \o (IF from + n <= k THEN <<<<"body", Positions(from + 1, from + n)>>>> ELSE <<>>)
    /\ x.post = Positions(from + 1, from + x.filepos)
    /\ Pending(x) = Positions(from + x.filepos + 1, from + x.filepos + (x.hend - x.line))
    /\ from + x.filepos + (x.hend - x.line) <= read
    /\ x.hend - x.line < n - x.filepos => read = from + x.filepos + (x.hend - x.line)
    /\ x.status = "BODY_READ" => x.filepos < n

(* A response with keepalive: the next request begins behind what was      *)
(* parsed.                                                                 *)
NextState(str, n, m, x, ev, read) ==
    /\ Reached(str, n, m) /\ m.ev = ev /\ ev # <<>>
    /\ m.text = <<>> /\ m.at = m.b /\ read = m.b - 1 + Len(x.cs) - x.parse
    /\ \A j \in x.parse + 1 .. Len(x.cs) : x.cs[j] = m.b - 1 + (j - x.parse)

(* Nothing comes after what was read, and all of it was acted on.          *)
Ended == /\ pc = "blocked" /\ taken = Len(stream) /\ ~c.ka
         /\ events = Meaning(Upto(stream, taken), length)

SplitInv ==
    /\ Seqs!IsPrefix(events, Meaning(Upto(stream, taken), length))
    /\ pc = "blocked" => c.status \in Scanning \cup {"BODY_READ"}
    /\ pc \in {"turn", "blocked"} /\ c.status \in Scanning =>
           \/ Ended
           \/ /\ \E m : ScanState(stream, length, m, c, events, taken)
              /\ \/ pc = "turn" \/ Leftover
                 \/ c.parse = Len(c.cs) /\ Len(c.cs) < StreamSize
    /\ pc \in {"turn", "blocked"} /\ c.status \in {"BODY_READ", "BODY_WRITE"} =>
           \E from \in 0 .. Len(stream) : BodyState(stream, length, from, c, events, taken)
    /\ pc = "respond" /\ c.ka => \E m : NextState(stream, length, m, c, events, taken)

(* Where a byte is first found. *)
LEMMA FirstFromIs ==
    ASSUME NEW S, NEW s \in Seq(S), NEW b, NEW at \in Nat \ {0}
    PROVE  \/ /\ FirstFrom(s, b, at) = 0
              /\ \A i \in at .. Len(s) : s[i] # b
           \/ /\ FirstFrom(s, b, at) \in at .. Len(s) /\ s[FirstFrom(s, b, at)] = b
              /\ \A i \in at .. FirstFrom(s, b, at) - 1 : s[i] # b
<1> DEFINE I == {i \in at .. Len(s) : s[i] = b}
<1>1. FirstFrom(s, b, at) = IF I = {} THEN 0 ELSE CHOOSE i \in I : \A j \in I : i <= j
  BY DEF FirstFrom
<1>2. CASE I = {}
  BY <1>1, <1>2
<1>3. CASE I # {}
  <2>1. I \in SUBSET Nat /\ Len(s) \in Nat
    OBVIOUS
  <2>2. \E i \in I : \A j \in I : i <= j
    BY <1>3, <2>1, LeastNumber
  <2> DEFINE f == FirstFrom(s, b, at)
  <2>3. f \in I /\ \A j \in I : f <= j
    <3> HIDE DEF I
    <3>1. QED BY <1>1, <1>3, <2>2
  <2> HIDE DEF f
  <2>4. ASSUME NEW i \in at .. f - 1 PROVE s[i] # b
    <3>1. i \in at .. Len(s) /\ ~(f <= i)
      BY <2>1, <2>3
    <3>2. QED BY <2>3, <3>1
  <2>5. f \in at .. Len(s) /\ s[f] = b
    BY <2>3
  <2>6. QED BY <2>4, <2>5 DEF f
<1>4. QED BY <1>2, <1>3

LEMMA FirstFromFound ==
    ASSUME NEW S, NEW s \in Seq(S), NEW b, NEW at \in Nat \ {0}, NEW p \in at .. Len(s),
           s[p] = b, \A i \in at .. p - 1 : s[i] # b
    PROVE  FirstFrom(s, b, at) = p
<1> DEFINE f == FirstFrom(s, b, at)
<1>1. \/ f = 0 /\ \A i \in at .. Len(s) : s[i] # b
      \/ f \in at .. Len(s) /\ s[f] = b /\ \A i \in at .. f - 1 : s[i] # b
  BY FirstFromIs
<1> HIDE DEF f
<1>2. f \in at .. Len(s) /\ s[f] = b /\ \A i \in at .. f - 1 : s[i] # b
  BY <1>1
<1>3. ~(f < p) /\ ~(p < f)
  BY <1>2
<1>4. f = p
  BY <1>2, <1>3
<1>5. QED BY <1>4 DEF f

LEMMA FirstFromNone ==
    ASSUME NEW S, NEW s \in Seq(S), NEW b, NEW at \in Nat \ {0}, \A i \in at .. Len(s) : s[i] # b
    PROVE  FirstFrom(s, b, at) = 0
BY FirstFromIs

(* The last letter before an end. *)
LEMMA LastLetterIs ==
    ASSUME NEW s, NEW at \in Nat \ {0}, NEW to \in Nat, at <= to + 1
    PROVE  LET last == LastLetter(s, at, to)
           IN  /\ last \in at - 1 .. to
               /\ last >= at => s[last] # "CR"
               /\ \A i \in last + 1 .. to : s[i] = "CR"
<1> DEFINE I == {i \in at .. to : s[i] # "CR"}
           last == LastLetter(s, at, to)
<1>1. last = IF I = {} THEN at - 1 ELSE CHOOSE i \in I : \A j \in I : j <= i
  BY DEF LastLetter
<1>2. CASE I = {}
  <2>1. last = at - 1
    BY <1>1, <1>2
  <2> HIDE DEF last
  <2>2. /\ last \in at - 1 .. to /\ ~(last >= at)
        /\ \A i \in last + 1 .. to : s[i] = "CR"
    BY <1>2, <2>1
  <2>3. QED BY <2>2 DEF last
<1>3. CASE I # {}
  <2> DEFINE J == {to - i : i \in I}
  <2>1. J \in SUBSET Nat /\ J # {}
    BY <1>3
  <2>2. PICK d \in J : \A e \in J : d <= e
    BY <2>1, LeastNumber
  <2>3. PICK i \in I : d = to - i
    BY <2>2
  <2>4. \A j \in I : j <= i
    <3>1. ASSUME NEW j \in I PROVE j <= i
      <4>1. to - j \in J
        OBVIOUS
      <4>2. to - i <= to - j
        BY <2>2, <2>3, <4>1
      <4>3. QED BY <4>2
    <3>2. QED BY <3>1
  <2>5. last \in I /\ \A j \in I : j <= last
    <3>1. \E k \in I : \A j \in I : j <= k
      BY <2>4
    <3> HIDE DEF I
    <3>2. QED BY <1>1, <1>3, <3>1
  <2> HIDE DEF last
  <2>6. last \in at .. to /\ s[last] # "CR"
    BY <2>5
  <2>7. ASSUME NEW k \in last + 1 .. to PROVE s[k] = "CR"
    <3>1. k \in at .. to /\ ~(k <= last)
      BY <2>6
    <3>2. QED BY <2>5, <3>1
  <2>8. last \in at - 1 .. to
    BY <2>6
  <2>9. QED BY <2>6, <2>7, <2>8 DEF last
<1>4. QED BY <1>2, <1>3

LEMMA LastLetterFound ==
    ASSUME NEW s, NEW at \in Nat \ {0}, NEW to \in Nat, at <= to + 1,
           NEW p \in at - 1 .. to, p >= at => s[p] # "CR", \A i \in p + 1 .. to : s[i] = "CR"
    PROVE  LastLetter(s, at, to) = p
<1> DEFINE last == LastLetter(s, at, to)
<1>1. /\ last \in at - 1 .. to
      /\ last >= at => s[last] # "CR"
      /\ \A i \in last + 1 .. to : s[i] = "CR"
  BY LastLetterIs
<1> HIDE DEF last
<1>2. ~(last < p) /\ ~(p < last)
  BY <1>1
<1>3. last = p
  BY <1>1, <1>2
<1>4. QED BY <1>3 DEF last

(* A byte more. *)
LEMMA LastLetterNext ==
    ASSUME NEW s, NEW at \in Nat \ {0}, NEW to \in Nat, at <= to + 1
    PROVE  LastLetter(s, at, to + 1) =
               IF s[to + 1] = "CR" THEN LastLetter(s, at, to) ELSE to + 1
<1> DEFINE last == LastLetter(s, at, to)
           q == IF s[to + 1] = "CR" THEN last ELSE to + 1
<1>1. /\ last \in at - 1 .. to
      /\ last >= at => s[last] # "CR"
      /\ \A i \in last + 1 .. to : s[i] = "CR"
  BY LastLetterIs
<1> HIDE DEF last
<1>2. to + 1 \in Nat /\ at <= (to + 1) + 1 /\ q \in at - 1 .. to + 1 /\ (q >= at => s[q] # "CR")
  BY <1>1
<1>3. \A i \in q + 1 .. to + 1 : s[i] = "CR"
  BY <1>1
<1> HIDE DEF q
<1>4. LastLetter(s, at, to + 1) = q
  BY <1>2, <1>3, LastLetterFound
<1>5. QED BY <1>4 DEF q, last

(* The first bytes of a stream. *)
LEMMA UptoIs ==
    ASSUME NEW str \in Seq(Byte), NEW k \in 0 .. Len(str)
    PROVE  /\ Upto(str, k) \in Seq(Byte) /\ Len(Upto(str, k)) = k
           /\ \A i \in 1 .. k : Upto(str, k)[i] = str[i]
<1>1. Len(str) \in Nat
  OBVIOUS
<1>2. QED BY <1>1, SubSeqProperties DEF Upto

(* A list begins with another. *)
LEMMA PrefixIs ==
    ASSUME NEW S, NEW s \in Seq(S), NEW t \in Seq(S)
    PROVE  Seqs!IsPrefix(s, t) <=> Len(s) <= Len(t) /\ \A i \in 1 .. Len(s) : s[i] = t[i]
<1>1. SubSeq(s, 1, Len(s)) = s
  BY SubSeqFull
<1>2. ASSUME Len(s) <= Len(t)
      PROVE  SubSeq(t, 1, Len(s)) = s <=> \A i \in 1 .. Len(s) : s[i] = t[i]
  <2>1. Len(s) \in Nat /\ Len(t) \in Nat
    OBVIOUS
  <2> DEFINE u == SubSeq(t, 1, Len(s))
  <2>2. u \in Seq(S) /\ Len(u) = Len(s) /\ \A i \in 1 .. Len(s) : u[i] = t[i]
    BY <1>2, <2>1, SubSeqProperties
  <2> HIDE DEF u
  <2>3. (\A i \in 1 .. Len(s) : s[i] = t[i]) => u = s
    BY <2>2, SeqEqual
  <2>4. QED BY <2>2, <2>3 DEF u
<1>3. QED BY <1>1, <1>2 DEF Seqs!IsPrefix

LEMMA PrefixSelf ==
    ASSUME NEW S, NEW s \in Seq(S) PROVE Seqs!IsPrefix(s, s)
BY PrefixIs

LEMMA PrefixTrans ==
    ASSUME NEW S, NEW s \in Seq(S), NEW t \in Seq(S), NEW u \in Seq(S),
           Seqs!IsPrefix(s, t), Seqs!IsPrefix(t, u)
    PROVE  Seqs!IsPrefix(s, u)
<1>1. Len(s) <= Len(t) /\ \A i \in 1 .. Len(s) : s[i] = t[i]
  BY PrefixIs
<1>2. Len(t) <= Len(u) /\ \A i \in 1 .. Len(t) : t[i] = u[i]
  BY PrefixIs
<1>3. Len(s) \in Nat /\ Len(t) \in Nat /\ Len(u) \in Nat
  OBVIOUS
<1>4. Len(s) <= Len(u) /\ \A i \in 1 .. Len(s) : s[i] = u[i]
  BY <1>1, <1>2, <1>3
<1>5. QED BY <1>4, PrefixIs

LEMMA PrefixConcat ==
    ASSUME NEW S, NEW s \in Seq(S), NEW t \in Seq(S)
    PROVE  s \o t \in Seq(S) /\ Seqs!IsPrefix(s, s \o t)
<1> DEFINE u == s \o t
<1>1. u \in Seq(S) /\ Len(u) = Len(s) + Len(t) /\ \A i \in 1 .. Len(s) : u[i] = s[i]
  BY ConcatProperties
<1>2. Len(s) \in Nat /\ Len(t) \in Nat
  OBVIOUS
<1> HIDE DEF u
<1>3. Len(s) <= Len(u) /\ \A i \in 1 .. Len(s) : s[i] = u[i]
  BY <1>1, <1>2
<1>4. Seqs!IsPrefix(s, u)
  BY <1>1, <1>3, PrefixIs
<1>5. QED BY <1>1, <1>4 DEF u

(* The calls that a line leads to. *)
LEMMA CallsAre ==
    ASSUME NEW t \in Seq(Nat)
    PROVE  /\ {<<"refused">>, <<"full">>, <<"end">>, <<"request", t>>, <<"option", t>>,
               <<"body", t>>} \subseteq Call
           /\ <<>> \in Seq(Call) /\ \A d \in Call : <<d>> \in Seq(Call)
           /\ \A d, e \in Call : <<d, e>> \in Seq(Call)
<1> DEFINE W == Word \cup Seq(Nat)
<1>1. Word \subseteq W /\ t \in W
  OBVIOUS
<1> HIDE DEF W
<1>2. \A w \in W : <<w>> \in Seq(W) /\ <<w, t>> \in Seq(W)
  BY <1>1
<1>3. <<>> \in Seq(Call) /\ (\A d \in Call : <<d>> \in Seq(Call))
      /\ \A d, e \in Call : <<d, e>> \in Seq(Call)
  OBVIOUS
<1>4. {"refused", "full", "request", "option", "end", "body"} \subseteq W
  BY <1>1 DEF Word
<1>5. Call = Seq(W)
  BY DEF Call, W
<1>6. QED BY <1>2, <1>3, <1>4, <1>5

LEMMA PositionsAre ==
    ASSUME NEW from \in Nat \ {0}, NEW to \in Int, from <= to + 1
    PROVE  /\ Positions(from, to) \in Seq(Nat) /\ Len(Positions(from, to)) = to - from + 1
           /\ \A i \in 1 .. to - from + 1 : Positions(from, to)[i] = from + i - 1
<1> DEFINE n == to - from + 1
           p == [i \in 1 .. n |-> from + i - 1]
<1>1. Positions(from, to) = p
  BY DEF Positions
<1>2. n \in Nat /\ \A i \in 1 .. n : from + i - 1 \in Nat
  OBVIOUS
<1> HIDE DEF n
<1>3. p \in [1 .. n -> Nat] /\ Len(p) = n /\ p \in Seq(Nat)
  BY <1>2
<1>4. QED BY <1>1, <1>3 DEF n

(* What the reference makes of a line goes on from what it had. *)
LEMMA LineExtends ==
    ASSUME NEW s \in Seq(Byte), NEW n \in Int, NEW m \in Reading
    PROVE  /\ Line(s, n, m) \in Reading /\ Seqs!IsPrefix(m.ev, Line(s, n, m).ev)
           /\ m.over => Line(s, n, m) = m
<1> DEFINE lf == FirstFrom(s, "LF", m.at)
           bad == FirstFrom(s, "bad", m.at)
           limit == m.b + StreamSize - 1
           last == LastLetter(s, m.at, lf - 1)
           line == Positions(m.at, last)
           kind == IF line = <<>> THEN "none" ELSE s[m.at]
           method == IF m.text = <<>> THEN "none" ELSE s[m.text[1]]
           again == method = "q" /\ m.at = FirstFrom(s, "LF", m.b) + 1
           body == <<"body", Positions(lf + 1, lf + n)>>
           More(text, ev) == Known(m.b, lf + 1, text, m.ev \o ev, FALSE)
           Stop(ev) == Known(m.b, m.at, m.text, m.ev \o ev, TRUE)
           Next1 == Known(lf + 1, lf + 1, <<>>, Append(m.ev, <<"end">>), FALSE)
           r == Line(s, n, m)
           Good(q) == q \in Reading /\ Seqs!IsPrefix(m.ev, q.ev)
<1>1. r = IF m.over THEN m
        ELSE IF bad # 0 /\ bad <= limit /\ (lf = 0 \/ bad < lf) THEN Stop(<<<<"refused">>>>)
        ELSE IF lf = 0 \/ lf > limit THEN IF Len(s) >= limit THEN Stop(<<<<"full">>>>) ELSE m
        ELSE IF m.text # <<>> /\ line = <<>>
        THEN CASE method = "g" -> Next1
               [] method # "g" /\ n < 0 -> Stop(<<<<"end">>, <<"refused">>>>)
               [] method # "g" /\ n >= 0 ->
                     Stop(IF lf + n <= Len(s) THEN <<<<"end">>, body>> ELSE <<<<"end">>>>)
        ELSE IF last + 1 - (IF again THEN m.b ELSE m.at) >= MaxHeader THEN Stop(<<<<"refused">>>>)
        ELSE IF m.text = <<>>
        THEN CASE kind \in {"g", "p"} -> More(line, <<<<"request", line>>>>)
               [] kind = "q" -> More(line, <<<<"request", line>>, <<"end">>>>)
               [] kind = "o" -> Stop(<<<<"request", line>>, <<"end">>>>)
               [] OTHER -> Stop(<<<<"refused">>>>)
        ELSE IF again \/ kind # "x"
        THEN Stop(<<<<"option", IF again THEN m.text ELSE line>>, <<"refused">>>>)
        ELSE More(m.text, <<<<"option", line>>>>)
  BY DEF Line
<1>2. m.at \in Nat \ {0} /\ m.b \in Nat \ {0} /\ m.text \in Seq(Nat) /\ m.ev \in Seq(Call)
  BY DEF Reading
<1>3. lf \in Nat /\ (lf # 0 => lf \in m.at .. Len(s))
  BY <1>2, FirstFromIs
<1> HIDE DEF lf
<1>4. lf # 0 => last \in m.at - 1 .. lf - 1
  <2>1. ASSUME lf # 0 PROVE lf - 1 \in Nat /\ m.at <= (lf - 1) + 1
    BY <1>2, <1>3, <2>1
  <2>2. QED BY <1>2, <2>1, LastLetterIs
<1> HIDE DEF last
<1>5. lf # 0 => line \in Seq(Nat)
  <2>1. ASSUME lf # 0 PROVE last \in Int /\ m.at <= last + 1
    BY <1>2, <1>3, <1>4, <2>1
  <2>2. QED BY <1>2, <2>1, PositionsAre
<1> HIDE DEF bad, limit, line, kind, method, again
<1>6. Good(m)
  BY <1>2, PrefixSelf
<1>7. ASSUME NEW ev \in Seq(Call) PROVE Good(Stop(ev))
  <2>1. m.ev \o ev \in Seq(Call) /\ Seqs!IsPrefix(m.ev, m.ev \o ev)
    BY <1>2, PrefixConcat
  <2> DEFINE e == m.ev \o ev
  <2> HIDE DEF e
  <2>2. Known(m.b, m.at, m.text, e, TRUE) \in Reading /\ Known(m.b, m.at, m.text, e, TRUE).ev = e
    BY <1>2, <2>1, Zenon DEF Known, Reading, e
  <2>3. QED BY <2>1, <2>2 DEF e
<1>8. ASSUME NEW text \in Seq(Nat), NEW ev \in Seq(Call), lf # 0 PROVE Good(More(text, ev))
  <2>1. m.ev \o ev \in Seq(Call) /\ Seqs!IsPrefix(m.ev, m.ev \o ev) /\ lf + 1 \in Nat \ {0}
    BY <1>2, <1>3, PrefixConcat
  <2> DEFINE e == m.ev \o ev
             f == lf + 1
  <2> HIDE DEF e, f
  <2>2. Known(m.b, f, text, e, FALSE) \in Reading /\ Known(m.b, f, text, e, FALSE).ev = e
    BY <1>2, <2>1, Zenon DEF Known, Reading, e, f
  <2>3. QED BY <2>1, <2>2 DEF e, f
<1>9. Good(Next1)
  <2>1. <<"end">> \in Call /\ <<<<"end">>>> \in Seq(Call) /\ <<>> \in Seq(Nat)
    <3>1. <<>> \in Seq(Nat)
      OBVIOUS
    <3>2. QED BY <3>1, CallsAre
  <2>2. Append(m.ev, <<"end">>) = m.ev \o <<<<"end">>>>
    BY <1>2, <2>1, AppendIsConcat
  <2> DEFINE e == Append(m.ev, <<"end">>)
             f == lf + 1
  <2>3. e \in Seq(Call) /\ Seqs!IsPrefix(m.ev, e) /\ f \in Nat \ {0}
    <3>1. f \in Nat \ {0}
      BY <1>3
    <3>2. QED BY <1>2, <2>1, <2>2, <3>1, PrefixConcat
  <2> HIDE DEF e, f
  <2>4. Known(f, f, <<>>, e, FALSE) \in Reading /\ Known(f, f, <<>>, e, FALSE).ev = e
    BY <1>2, <2>1, <2>3, Zenon DEF Known, Reading
  <2>5. QED BY <2>3, <2>4 DEF e, f
<1> HIDE DEF Next1, More, Stop, Good
<1>10. ASSUME lf # 0, n >= 0 PROVE body \in Call
  <2>1. Positions(lf + 1, lf + n) \in Seq(Nat)
    BY <1>3, <1>10, PositionsAre
  <2>2. QED BY <2>1, CallsAre
<1> HIDE DEF body
<1>11. ASSUME NEW t \in Seq(Nat)
       PROVE  /\ <<<<"refused">>>> \in Seq(Call) /\ <<<<"full">>>> \in Seq(Call)
              /\ <<<<"end">>, <<"refused">>>> \in Seq(Call) /\ <<<<"end">>>> \in Seq(Call)
              /\ (body \in Call => <<<<"end">>, body>> \in Seq(Call))
              /\ <<<<"request", t>>>> \in Seq(Call) /\ <<<<"request", t>>, <<"end">>>> \in Seq(Call)
              /\ <<<<"option", t>>, <<"refused">>>> \in Seq(Call)
              /\ <<<<"option", t>>>> \in Seq(Call)
  BY CallsAre
<1>12. Good(r)
  <2>1. CASE m.over
    BY <1>1, <1>6, <2>1
  <2>2. CASE ~m.over /\ bad # 0 /\ bad <= limit /\ (lf = 0 \/ bad < lf)
    BY <1>1, <1>2, <1>7, <1>11, <2>2
  <2>3. CASE ~m.over /\ ~(bad # 0 /\ bad <= limit /\ (lf = 0 \/ bad < lf)) /\ (lf = 0 \/ lf > limit)
    BY <1>1, <1>2, <1>6, <1>7, <1>11, <2>3
  <2>4. CASE /\ ~m.over /\ ~(bad # 0 /\ bad <= limit /\ (lf = 0 \/ bad < lf))
             /\ ~(lf = 0 \/ lf > limit)
    <3>1. line \in Seq(Nat) /\ lf # 0
      BY <1>5, <2>4
    <3>2. CASE m.text # <<>> /\ line = <<>>
      <4>1. r = CASE method = "g" -> Next1
               [] method # "g" /\ n < 0 -> Stop(<<<<"end">>, <<"refused">>>>)
               [] method # "g" /\ n >= 0 ->
                     Stop(IF lf + n <= Len(s) THEN <<<<"end">>, body>> ELSE <<<<"end">>>>)
        BY <1>1, <2>4, <3>2
      <4>2. CASE method = "g"
        BY <1>9, <4>1, <4>2
      <4>3. CASE method # "g" /\ n < 0
        <5>1. r = Stop(<<<<"end">>, <<"refused">>>>)
          BY <4>1, <4>3
        <5>2. QED BY <1>7, <1>11, <3>1, <5>1
      <4>4. CASE method # "g" /\ n >= 0
        <5>1. r = Stop(IF lf + n <= Len(s) THEN <<<<"end">>, body>> ELSE <<<<"end">>>>)
          BY <4>1, <4>4
        <5>2. QED BY <1>7, <1>10, <1>11, <3>1, <4>4, <5>1
      <4>5. QED BY <4>2, <4>3, <4>4
    <3>3. CASE ~(m.text # <<>> /\ line = <<>>)
      <4> DEFINE far == last + 1 - (IF again THEN m.b ELSE m.at) >= MaxHeader
      <4>0. r = IF far THEN Stop(<<<<"refused">>>>)
                ELSE IF m.text = <<>>
                THEN CASE kind \in {"g", "p"} -> More(line, <<<<"request", line>>>>)
                       [] kind = "q" -> More(line, <<<<"request", line>>, <<"end">>>>)
                       [] kind = "o" -> Stop(<<<<"request", line>>, <<"end">>>>)
                       [] OTHER -> Stop(<<<<"refused">>>>)
                ELSE IF again \/ kind # "x"
                THEN Stop(<<<<"option", IF again THEN m.text ELSE line>>, <<"refused">>>>)
                ELSE More(m.text, <<<<"option", line>>>>)
        BY <1>1, <2>4, <3>3
      <4> HIDE DEF far
      <4>1. CASE far
        BY <1>7, <1>11, <3>1, <4>0, <4>1
      <4>2. CASE ~far /\ m.text = <<>>
        <5>1. r = CASE kind \in {"g", "p"} -> More(line, <<<<"request", line>>>>)
                    [] kind = "q" -> More(line, <<<<"request", line>>, <<"end">>>>)
                    [] kind = "o" -> Stop(<<<<"request", line>>, <<"end">>>>)
                    [] OTHER -> Stop(<<<<"refused">>>>)
          BY <4>0, <4>2
        <5>2. CASE kind \in {"g", "p"}
          BY <1>8, <1>11, <3>1, <5>1, <5>2
        <5>3. CASE kind = "q"
          BY <1>8, <1>11, <3>1, <5>1, <5>3
        <5>4. CASE kind = "o"
          BY <1>7, <1>11, <3>1, <5>1, <5>4
        <5>5. CASE kind \notin {"g", "p", "q", "o"}
          BY <1>7, <1>11, <3>1, <5>1, <5>5
        <5>6. QED BY <5>2, <5>3, <5>4, <5>5
      <4>3. CASE ~far /\ m.text # <<>> /\ (again \/ kind # "x")
        <5>1. (IF again THEN m.text ELSE line) \in Seq(Nat)
          BY <1>2, <3>1
        <5> DEFINE t == IF again THEN m.text ELSE line
        <5>2. r = Stop(<<<<"option", t>>, <<"refused">>>>)
          BY <4>0, <4>3
        <5> HIDE DEF t
        <5>3. QED BY <1>7, <1>11, <5>1, <5>2 DEF t
      <4>4. CASE ~far /\ m.text # <<>> /\ ~(again \/ kind # "x")
        <5>1. r = More(m.text, <<<<"option", line>>>>)
          BY <4>0, <4>4
        <5>2. QED BY <1>2, <1>8, <1>11, <3>1, <5>1
      <4>5. QED BY <4>1, <4>2, <4>3, <4>4
    <3>4. QED BY <3>2, <3>3
  <2>5. QED BY <2>1, <2>2, <2>3, <2>4
<1>13. m.over => r = m
  BY <1>1
<1>14. QED BY <1>12, <1>13 DEF Good, r

(* The reference is well defined: its recursive function exists. *)
LEMMA LinesSteps ==
    ASSUME NEW s \in Seq(Byte), NEW n \in Int
    PROVE  /\ \A i \in 0 .. Len(s) + 1 : LinesOf(s, n)[i] \in Reading
           /\ LinesOf(s, n)[0] = Known(1, 1, <<>>, <<>>, FALSE)
           /\ \A i \in 1 .. Len(s) + 1 : LinesOf(s, n)[i] = Line(s, n, LinesOf(s, n)[i - 1])
<1> DEFINE N == Len(s) + 1
           base == Known(1, 1, <<>>, <<>>, FALSE)
           F == [p \in Reading \X (1 .. N) |-> Line(s, n, p[1])]
           Def(g) == [i \in 0 .. N |-> IF i = 0 THEN base ELSE Line(s, n, g[i - 1])]
           w == LinesOf(s, n)
<1>1. N \in Nat
  OBVIOUS
<1>2. base \in Reading
  BY DEF Known, Reading
<1>3. w = CHOOSE g : g = Def(g)
  BY DEF LinesOf
<1> HIDE DEF N, base
<1>4. \A m \in Reading : Line(s, n, m) \in Reading
  BY LineExtends
<1>5. Stepper(F, Reading, N)
  BY <1>4 DEF Stepper
<1>6. PICK f : Recursion(f, F, base, Reading, N)
  <2> HIDE DEF F
  <2>1. QED BY <1>1, <1>2, <1>5, RecursionExists
<1>7. f \in [0 .. N -> Reading] /\ f[0] = base /\ \A i \in 1 .. N : f[i] = F[<<f[i - 1], i>>]
  BY <1>6 DEF Recursion
<1>8. \A i \in 1 .. N : f[i] = Line(s, n, f[i - 1])
  <2>1. ASSUME NEW i \in 1 .. N PROVE f[i] = Line(s, n, f[i - 1])
    <3>1. i - 1 \in 0 .. N
      BY <1>1
    <3>2. f[i - 1] \in Reading
      BY <1>7, <3>1
    <3>3. QED BY <1>7, <3>2
  <2>2. QED BY <2>1
<1>9. f = Def(f)
  <2>1. \A i \in 0 .. N : f[i] = IF i = 0 THEN base ELSE Line(s, n, f[i - 1])
    BY <1>1, <1>7, <1>8
  <2>2. QED BY <1>7, <2>1
<1>10. w = Def(w)
  <2>1. \E g : g = Def(g)
    BY <1>9
  <2> HIDE DEF Def, w
  <2>2. QED BY <1>3, <2>1
<1> HIDE DEF w, F
<1>11. w[0] = base /\ \A i \in 1 .. N : w[i] = Line(s, n, w[i - 1])
  <2>1. \A i \in 0 .. N : w[i] = IF i = 0 THEN base ELSE Line(s, n, w[i - 1])
    BY <1>10
  <2>2. QED BY <1>1, <2>1
<1>12. \A i \in 0 .. N : w[i] \in Reading
  <2> DEFINE T == {i \in 0 .. N : w[i] \in Reading}
  <2>1. 0 \in T
    BY <1>1, <1>2, <1>11
  <2>2. ASSUME NEW i \in 1 .. N, i - 1 \in T PROVE i \in T
    BY <1>1, <1>4, <1>11, <2>2
  <2> HIDE DEF T
  <2>3. 0 .. N \subseteq T
    BY <1>1, <2>1, <2>2, PlaceInduction
  <2>4. QED BY <2>3 DEF T
<1>13. QED BY <1>11, <1>12 DEF w, N, base

(* What is known after some lines is part of the meaning, and all of it    *)
(* when one line more changes nothing.                                     *)
LEMMA MeaningFrom ==
    ASSUME NEW s \in Seq(Byte), NEW n \in Int, NEW i \in 0 .. Len(s) + 1
    PROVE  /\ Meaning(s, n) \in Seq(Call)
           /\ Seqs!IsPrefix(LinesOf(s, n)[i].ev, Meaning(s, n))
           /\ Line(s, n, LinesOf(s, n)[i]) = LinesOf(s, n)[i]
                 => Meaning(s, n) = LinesOf(s, n)[i].ev
<1> DEFINE N == Len(s) + 1
           w == LinesOf(s, n)
           Same == Line(s, n, w[i]) = w[i]
           T == {j \in 0 .. N - i : /\ Seqs!IsPrefix(w[i].ev, w[i + j].ev)
                                    /\ Same => w[i + j] = w[i]}
<1>1. /\ \A j \in 0 .. N : w[j] \in Reading
      /\ \A j \in 1 .. N : w[j] = Line(s, n, w[j - 1])
  BY LinesSteps
<1>2. N \in Nat /\ i \in 0 .. N /\ N - i \in Nat
  OBVIOUS
<1>3. Meaning(s, n) = w[N].ev
  BY DEF Meaning
<1> HIDE DEF N, w
<1>4. \A j \in 0 .. N : w[j].ev \in Seq(Call)
  BY <1>1 DEF Reading
<1>5. 0 \in T
  <2>1. i + 0 = i /\ 0 \in 0 .. N - i
    BY <1>2
  <2>2. Seqs!IsPrefix(w[i].ev, w[i].ev)
    BY <1>2, <1>4, PrefixSelf
  <2>3. QED BY <2>1, <2>2
<1>6. ASSUME NEW j \in 1 .. N - i, j - 1 \in T PROVE j \in T
  <2>1. /\ i + j \in 1 .. N /\ i + (j - 1) = (i + j) - 1 /\ (i + j) - 1 \in 0 .. N
        /\ i + j \in 0 .. N /\ j \in 0 .. N - i
    BY <1>2
  <2>2. Seqs!IsPrefix(w[i].ev, w[(i + j) - 1].ev) /\ (Same => w[(i + j) - 1] = w[i])
    BY <1>6, <2>1
  <2>3. w[i + j] = Line(s, n, w[(i + j) - 1])
    BY <1>1, <2>1
  <2>4. Seqs!IsPrefix(w[(i + j) - 1].ev, w[i + j].ev)
    BY <1>1, <2>1, <2>3, LineExtends
  <2>5. Seqs!IsPrefix(w[i].ev, w[i + j].ev)
    BY <1>2, <1>4, <2>1, <2>2, <2>4, PrefixTrans
  <2>6. Same => w[i + j] = w[i]
    BY <2>2, <2>3
  <2>7. QED BY <2>1, <2>5, <2>6
<1>7. N - i \in T
  <2> HIDE DEF T
  <2>1. 0 .. N - i \subseteq T
    BY <1>2, <1>5, <1>6, PlaceInduction
  <2>2. QED BY <1>2, <2>1
<1>8. Seqs!IsPrefix(w[i].ev, w[N].ev) /\ (Same => w[N] = w[i])
  <2>1. i + (N - i) = N
    BY <1>2
  <2>2. QED BY <1>7, <2>1
<1>9. w[N].ev \in Seq(Call)
  BY <1>2, <1>4
<1>10. QED BY <1>3, <1>8, <1>9 DEF w

(* The reference at the beginning. *)
LEMMA ReachedStart ==
    ASSUME NEW str \in Seq(Byte), NEW n \in Int
    PROVE  Reached(str, n, Known(1, 1, <<>>, <<>>, FALSE))
<1> DEFINE m == Known(1, 1, <<>>, <<>>, FALSE)
<1>1. m \in Reading /\ m.b = 1 /\ m.at = 1 /\ m.over = FALSE
  BY DEF Known, Reading
<1>2. Len(str) \in Nat
  OBVIOUS
<1>3. \A k \in 0 .. Len(str) : LinesOf(Upto(str, k), n)[0] = m
  BY UptoIs, LinesSteps
<1> HIDE DEF m
<1>4. 0 \in 0 .. m.at - 1 /\ \A k \in m.at - 1 .. Len(str) : LinesOf(Upto(str, k), n)[0] = m
  BY <1>1, <1>3
<1>5. Reached(str, n, m)
  BY <1>1, <1>2, <1>4 DEF Reached
<1>6. QED BY <1>5 DEF m

(* One line more. *)
LEMMA ReachedNext ==
    ASSUME NEW str \in Seq(Byte), NEW n \in Int, NEW m, Reached(str, n, m),
           NEW r \in Reading, ~r.over, r.b <= r.at, m.at < r.at, r.at <= Len(str) + 1,
           \A k \in r.at - 1 .. Len(str) : Line(Upto(str, k), n, m) = r
    PROVE  Reached(str, n, r)
<1>1. m \in Reading /\ m.at \in Nat /\ r.at \in Nat /\ Len(str) \in Nat
  BY DEF Reached, Reading
<1>2. PICK i \in 0 .. m.at - 1 :
             \A k \in m.at - 1 .. Len(str) : LinesOf(Upto(str, k), n)[i] = m
  BY DEF Reached
<1>3. i + 1 \in 0 .. r.at - 1
  BY <1>1, <1>2
<1>4. ASSUME NEW k \in r.at - 1 .. Len(str) PROVE LinesOf(Upto(str, k), n)[i + 1] = r
  <2>1. k \in m.at - 1 .. Len(str) /\ k \in 0 .. Len(str) /\ i + 1 \in 1 .. k + 1 /\ (i + 1) - 1 = i
    BY <1>1, <1>2, SMTT(30)
  <2>2. Upto(str, k) \in Seq(Byte) /\ Len(Upto(str, k)) = k
    BY <2>1, UptoIs
  <2> DEFINE s == Upto(str, k)
  <2> HIDE DEF s
  <2>3. LinesOf(s, n)[i + 1] = Line(s, n, LinesOf(s, n)[i])
    <3>1. s \in Seq(Byte) /\ i + 1 \in 1 .. Len(s) + 1
      BY <2>1, <2>2 DEF s
    <3>2. LinesOf(s, n)[i + 1] = Line(s, n, LinesOf(s, n)[(i + 1) - 1])
      BY <3>1, LinesSteps
    <3>3. QED BY <2>1, <3>2
  <2>4. QED BY <1>2, <2>1, <2>3 DEF s
<1>5. QED BY <1>3, <1>4 DEF Reached

(* The meaning of the stream up to a place behind the line. *)
LEMMA ReachedMeans ==
    ASSUME NEW str \in Seq(Byte), NEW n \in Int, NEW m, Reached(str, n, m),
           NEW k \in m.at - 1 .. Len(str)
    PROVE  /\ Meaning(Upto(str, k), n) \in Seq(Call) /\ m.ev \in Seq(Call)
           /\ Seqs!IsPrefix(m.ev, Meaning(Upto(str, k), n))
           /\ \A r : Line(Upto(str, k), n, m) = r /\ (r.over \/ r = m)
                        => Meaning(Upto(str, k), n) = r.ev
<1> DEFINE s == Upto(str, k)
<1>1. m \in Reading /\ m.at \in Nat \ {0} /\ Len(str) \in Nat
  BY DEF Reached, Reading
<1>2. PICK i \in 0 .. m.at - 1 : LinesOf(s, n)[i] = m
  BY DEF Reached
<1>3. k \in 0 .. Len(str)
  BY <1>1
<1>4. s \in Seq(Byte) /\ Len(s) = k
  BY <1>3, UptoIs
<1> HIDE DEF s
<1>5. /\ i \in 0 .. Len(s) + 1 /\ i + 1 \in 0 .. Len(s) + 1 /\ i + 1 \in 1 .. Len(s) + 1
      /\ (i + 1) - 1 = i
  BY <1>1, <1>2, <1>4
<1>6. Meaning(s, n) \in Seq(Call) /\ Seqs!IsPrefix(m.ev, Meaning(s, n))
  BY <1>2, <1>4, <1>5, MeaningFrom
<1>7. ASSUME NEW r, Line(s, n, m) = r, r.over \/ r = m PROVE Meaning(s, n) = r.ev
  <2>1. LinesOf(s, n)[i + 1] = r
    BY <1>2, <1>4, <1>5, <1>7, LinesSteps
  <2>2. r \in Reading
    BY <1>4, <1>5, <2>1, LinesSteps
  <2>3. Line(s, n, r) = r
    BY <1>4, <1>7, <2>2, LineExtends
  <2>4. QED BY <1>4, <1>5, <2>1, <2>3, MeaningFrom
<1>8. m.ev \in Seq(Call)
  BY <1>1 DEF Reading
<1>9. QED BY <1>6, <1>7, <1>8 DEF s

(* The reference on a line that ends at q, whatever of the stream is known *)
(* behind it.                                                              *)
LEMMA LineFacts ==
    ASSUME NEW str \in Seq(Byte), NEW at \in Nat \ {0}, NEW q \in at .. Len(str),
           \A i \in at .. q - 1 : str[i] \notin {"LF", "bad"}, NEW k \in q .. Len(str)
    PROVE  /\ FirstFrom(Upto(str, k), "LF", at) \in Nat
           /\ FirstFrom(Upto(str, k), "bad", at) \in Nat
           /\ str[q] = "LF" => /\ FirstFrom(Upto(str, k), "LF", at) = q
                               /\ \/ FirstFrom(Upto(str, k), "bad", at) = 0
                                  \/ FirstFrom(Upto(str, k), "bad", at) > q
           /\ str[q] = "bad" => /\ FirstFrom(Upto(str, k), "bad", at) = q
                                /\ \/ FirstFrom(Upto(str, k), "LF", at) = 0
                                   \/ FirstFrom(Upto(str, k), "LF", at) > q
           /\ LastLetter(Upto(str, k), at, q - 1) = LastLetter(str, at, q - 1)
<1> DEFINE s == Upto(str, k)
           lf == FirstFrom(s, "LF", at)
           bad == FirstFrom(s, "bad", at)
           last == LastLetter(str, at, q - 1)
<1>1. Len(str) \in Nat /\ q \in Nat /\ k \in Nat /\ k \in 0 .. Len(str)
  OBVIOUS
<1>2. s \in Seq(Byte) /\ Len(s) = k /\ \A i \in 1 .. k : s[i] = str[i]
  BY <1>1, UptoIs
<1> HIDE DEF s
<1>3. /\ lf = 0 \/ (lf \in at .. k /\ s[lf] = "LF")
      /\ bad = 0 \/ (bad \in at .. k /\ s[bad] = "bad")
  BY <1>2, FirstFromIs
<1>4. \A i \in at .. q : i \in 1 .. k /\ s[i] = str[i]
  BY <1>1, <1>2
<1>5. ASSUME str[q] = "LF" PROVE lf = q
  <2>1. q \in at .. Len(s) /\ s[q] = "LF" /\ \A i \in at .. q - 1 : s[i] # "LF"
    BY <1>1, <1>2, <1>4, <1>5
  <2>2. QED BY <1>2, <2>1, FirstFromFound
<1>6. ASSUME str[q] = "bad" PROVE bad = q
  <2>1. q \in at .. Len(s) /\ s[q] = "bad" /\ \A i \in at .. q - 1 : s[i] # "bad"
    BY <1>1, <1>2, <1>4, <1>6
  <2>2. QED BY <1>2, <2>1, FirstFromFound
<1>7. LastLetter(s, at, q - 1) = last
  <2>0. q - 1 \in Nat /\ at <= (q - 1) + 1
    BY <1>1
  <2>1. /\ last \in at - 1 .. q - 1
        /\ last >= at => str[last] # "CR"
        /\ \A i \in last + 1 .. q - 1 : str[i] = "CR"
    BY <2>0, LastLetterIs
  <2> HIDE DEF last
  <2>2. /\ last >= at => s[last] # "CR"
        /\ \A i \in last + 1 .. q - 1 : s[i] = "CR"
    BY <1>1, <1>4, <2>1
  <2>3. QED BY <2>0, <2>1, <2>2, LastLetterFound
<1> HIDE DEF lf, bad, last
<1>8. str[q] = "LF" => (bad = 0 \/ bad > q)
  BY <1>1, <1>3, <1>4
<1>9. str[q] = "bad" => (lf = 0 \/ lf > q)
  BY <1>1, <1>3, <1>4
<1>10. lf \in Nat /\ bad \in Nat
  BY <1>1, <1>3
<1>11. QED BY <1>2, <1>5, <1>6, <1>7, <1>8, <1>9, <1>10 DEF s, lf, bad, last

(* No end of the line yet. *)
LEMMA QuietLine ==
    ASSUME NEW str \in Seq(Byte), NEW n \in Int, NEW m, Reached(str, n, m),
           NEW k \in m.at - 1 .. Len(str), \A i \in m.at .. k : str[i] \notin {"LF", "bad"}
    PROVE  Meaning(Upto(str, k), n) =
               IF k >= m.b + StreamSize - 1 THEN m.ev \o <<<<"full">>>> ELSE m.ev
<1> DEFINE s == Upto(str, k)
           r == IF k >= m.b + StreamSize - 1
                THEN Known(m.b, m.at, m.text, m.ev \o <<<<"full">>>>, TRUE) ELSE m
<1>1. m \in Reading /\ m.at \in Nat \ {0} /\ ~m.over /\ k \in 0 .. Len(str)
  BY DEF Reached, Reading
<1>2. s \in Seq(Byte) /\ Len(s) = k /\ \A i \in 1 .. k : s[i] = str[i]
  BY <1>1, UptoIs
<1> HIDE DEF s
<1>3. \A i \in m.at .. Len(s) : s[i] # "LF" /\ s[i] # "bad"
  BY <1>1, <1>2
<1>4. FirstFrom(s, "LF", m.at) = 0 /\ FirstFrom(s, "bad", m.at) = 0
  BY <1>1, <1>2, <1>3, FirstFromNone
<1>5. Line(s, n, m) = r
  BY <1>1, <1>2, <1>4 DEF Line
<1>6. r.over \/ r = m
  BY DEF Known
<1>7. Meaning(s, n) = r.ev
  <2> HIDE DEF r
  <2>1. QED BY <1>5, <1>6, ReachedMeans DEF s
<1>8. QED BY <1>7 DEF s, Known

(* A byte that is refused. *)
LEMMA BadLine ==
    ASSUME NEW str \in Seq(Byte), NEW n \in Int, NEW m, Reached(str, n, m),
           NEW q \in m.at .. Len(str), \A i \in m.at .. q - 1 : str[i] \notin {"LF", "bad"},
           str[q] = "bad", q <= m.b + StreamSize - 1, NEW k \in q .. Len(str)
    PROVE  Meaning(Upto(str, k), n) = m.ev \o <<<<"refused">>>>
<1> DEFINE s == Upto(str, k)
           r == Known(m.b, m.at, m.text, m.ev \o <<<<"refused">>>>, TRUE)
<1>1. m \in Reading /\ m.at \in Nat \ {0} /\ ~m.over /\ q \in Nat /\ q # 0
  BY DEF Reached, Reading
<1>2. /\ FirstFrom(s, "bad", m.at) = q
      /\ FirstFrom(s, "LF", m.at) = 0 \/ q < FirstFrom(s, "LF", m.at)
  BY <1>1, LineFacts
<1> HIDE DEF s
<1>3. Line(s, n, m) = r
  BY <1>1, <1>2 DEF Line
<1>4. r.over /\ r.ev = m.ev \o <<<<"refused">>>>
  BY DEF Known
<1>5. k \in m.at - 1 .. Len(str)
  BY <1>1
<1> HIDE DEF r
<1>6. Meaning(s, n) = r.ev
  BY <1>3, <1>4, <1>5, ReachedMeans DEF s
<1>7. QED BY <1>4, <1>6 DEF s

(* The end of a line at q.  method is the request's. *)
LineRead(str, n, m, method, q, k) ==
    LET last == LastLetter(str, m.at, q - 1)
        line == Positions(m.at, last)
        kind == IF last < m.at THEN "none" ELSE str[m.at]
        Stop(ev) == Known(m.b, m.at, m.text, m.ev \o ev, TRUE)
        More(text, ev) == Known(m.b, q + 1, text, m.ev \o ev, FALSE)
    IN  IF m.text # <<>> /\ last < m.at
        THEN IF method = "g" THEN Known(q + 1, q + 1, <<>>, Append(m.ev, <<"end">>), FALSE)
             ELSE IF n < 0 THEN Stop(<<<<"end">>, <<"refused">>>>)
             ELSE Stop(IF q + n <= k THEN <<<<"end">>, <<"body", Positions(q + 1, q + n)>>>>
                       ELSE <<<<"end">>>>)
        ELSE IF last + 1 - (IF method = "q" THEN m.b ELSE m.at) >= MaxHeader
        THEN Stop(<<<<"refused">>>>)
        ELSE IF m.text = <<>>
        THEN IF kind \in {"g", "p"} THEN More(line, <<<<"request", line>>>>)
             ELSE IF kind = "q" THEN More(line, <<<<"request", line>>, <<"end">>>>)
             ELSE IF kind = "o" THEN Stop(<<<<"request", line>>, <<"end">>>>)
             ELSE Stop(<<<<"refused">>>>)
        ELSE IF method = "q" THEN Stop(<<<<"option", m.text>>, <<"refused">>>>)
        ELSE IF kind # "x" THEN Stop(<<<<"option", line>>, <<"refused">>>>)
        ELSE More(m.text, <<<<"option", line>>>>)

LEMMA EndedLine ==
    ASSUME NEW str \in Seq(Byte), NEW n \in Int, NEW m \in Reading, ~m.over, NEW x,
           RequestSoFar(str, m, x), NEW q \in m.at .. Len(str),
           \A i \in m.at .. q - 1 : str[i] \notin {"LF", "bad"},
           str[q] = "LF", q <= m.b + StreamSize - 1, NEW k \in q .. Len(str)
    PROVE  Line(Upto(str, k), n, m) = LineRead(str, n, m, x.method, q, k)
<1> DEFINE s == Upto(str, k)
           lf == FirstFrom(s, "LF", m.at)
           bad == FirstFrom(s, "bad", m.at)
           limit == m.b + StreamSize - 1
           last == LastLetter(str, m.at, q - 1)
           line == Positions(m.at, last)
           kind == IF line = <<>> THEN "none" ELSE s[m.at]
           method == IF m.text = <<>> THEN "none" ELSE s[m.text[1]]
           again == method = "q" /\ m.at = FirstFrom(s, "LF", m.b) + 1
           body == <<"body", Positions(q + 1, q + n)>>
           More(text, ev) == Known(m.b, q + 1, text, m.ev \o ev, FALSE)
           Stop(ev) == Known(m.b, m.at, m.text, m.ev \o ev, TRUE)
           next == Known(q + 1, q + 1, <<>>, Append(m.ev, <<"end">>), FALSE)
           letter == IF last < m.at THEN "none" ELSE str[m.at]
<1>1. /\ m.at \in Nat \ {0} /\ m.b \in Nat \ {0} /\ q \in Nat \ {0} /\ k \in Nat
      /\ Len(str) \in Nat /\ StreamSize \in Nat /\ limit \in Int /\ m.text \in Seq(Nat)
  BY ReadHeaderAssumption DEF Reading
<1>2. /\ s \in Seq(Byte) /\ Len(s) = k /\ lf = q /\ bad \in Nat /\ (bad = 0 \/ bad > q)
      /\ LastLetter(s, m.at, lf - 1) = last /\ \A i \in 1 .. k : s[i] = str[i]
  <2>1. /\ s \in Seq(Byte) /\ Len(s) = k /\ lf = q /\ bad \in Nat /\ (bad = 0 \/ bad > q)
        /\ LastLetter(s, m.at, q - 1) = last /\ \A i \in 1 .. k : s[i] = str[i]
    <3>1. s \in Seq(Byte) /\ Len(s) = k /\ \A i \in 1 .. k : s[i] = str[i]
      BY <1>1, UptoIs
    <3>2. lf = q /\ bad \in Nat /\ (bad = 0 \/ bad > q) /\ LastLetter(s, m.at, q - 1) = last
      <4> DEFINE a == m.at
      <4>1. a \in Nat \ {0} /\ q \in a .. Len(str)
        BY <1>1
      <4>2. \A i \in a .. q - 1 : str[i] \notin {"LF", "bad"}
        OBVIOUS
      <4> HIDE DEF a
      <4>3. /\ FirstFrom(s, "LF", a) = q
            /\ FirstFrom(s, "bad", a) \in Nat
            /\ FirstFrom(s, "bad", a) = 0 \/ FirstFrom(s, "bad", a) > q
            /\ LastLetter(s, a, q - 1) = LastLetter(str, a, q - 1)
        BY <4>1, <4>2, LineFacts
      <4>4. QED BY <4>3 DEF a
    <3>3. QED BY <3>1, <3>2
  <2> HIDE DEF s, lf, bad, last
  <2>2. QED BY <2>1
<1>3. last \in m.at - 1 .. q - 1
  <2>1. q - 1 \in Nat /\ m.at <= (q - 1) + 1
    BY <1>1
  <2>2. QED BY <1>1, <2>1, LastLetterIs
<1> HIDE DEF s, last
<1>4. line = <<>> <=> last < m.at
  <2>1. line \in Seq(Nat) /\ Len(line) = last - m.at + 1
    <3>1. last \in Int /\ m.at <= last + 1
      BY <1>1, <1>3
    <3>2. QED BY <1>1, <3>1, PositionsAre
  <2> HIDE DEF line
  <2>2. QED BY <1>1, <1>3, <2>1, SMTT(30)
<1>5. method = x.method /\ (again <=> x.method = "q")
  <2>1. CASE m.text = <<>>
    <3>1. x.method = "none"
      BY <2>1 DEF RequestSoFar
    <3>2. QED BY <2>1, <3>1
  <2>2. CASE m.text # <<>>
    <3>1. m.text[1] = m.b /\ m.b < m.at /\ x.method = str[m.b]
      BY <2>2 DEF RequestSoFar
    <3>2. m.b \in 1 .. k
      BY <1>1, <3>1, SMTT(30)
    <3>3. method = x.method
      BY <1>2, <2>2, <3>1, <3>2
    <3>4. ASSUME x.method = "q" PROVE m.at = FirstFrom(s, "LF", m.b) + 1
      <4> DEFINE f == FirstFrom(str, "LF", m.b)
      <4>1. m.at = f + 1
        BY <3>4 DEF RequestSoFar
      <4>2. \/ f = 0 /\ \A i \in m.b .. Len(str) : str[i] # "LF"
            \/ f \in m.b .. Len(str) /\ str[f] = "LF" /\ \A i \in m.b .. f - 1 : str[i] # "LF"
        BY <1>1, FirstFromIs
      <4> HIDE DEF f
      <4>3. /\ f \in m.b .. Len(s) /\ str[f] = "LF" /\ \A i \in m.b .. f - 1 : str[i] # "LF"
        BY <1>1, <1>2, <3>1, <4>1, <4>2
      <4>4. s[f] = "LF" /\ \A i \in m.b .. f - 1 : s[i] # "LF"
        BY <1>1, <1>2, <4>3, SMTT(30)
      <4>5. FirstFrom(s, "LF", m.b) = f
        BY <1>1, <1>2, <4>3, <4>4, FirstFromFound
      <4>6. QED BY <4>1, <4>5
    <3>5. QED BY <3>3, <3>4
  <2>3. QED BY <2>1, <2>2
<1>6. kind = letter
  <2>1. m.at \in 1 .. k
    BY <1>1
  <2>2. QED BY <1>2, <1>4, <2>1
<1>7. Line(s, n, m) =
        IF m.over THEN m
        ELSE IF bad # 0 /\ bad <= limit /\ (lf = 0 \/ bad < lf) THEN Stop(<<<<"refused">>>>)
        ELSE IF lf = 0 \/ lf > limit THEN IF Len(s) >= limit THEN Stop(<<<<"full">>>>) ELSE m
        ELSE IF m.text # <<>> /\ line = <<>>
        THEN CASE method = "g" -> next
               [] method # "g" /\ n < 0 -> Stop(<<<<"end">>, <<"refused">>>>)
               [] method # "g" /\ n >= 0 ->
                     Stop(IF q + n <= k THEN <<<<"end">>, body>> ELSE <<<<"end">>>>)
        ELSE IF last + 1 - (IF again THEN m.b ELSE m.at) >= MaxHeader THEN Stop(<<<<"refused">>>>)
        ELSE IF m.text = <<>>
        THEN CASE kind \in {"g", "p"} -> More(line, <<<<"request", line>>>>)
               [] kind = "q" -> More(line, <<<<"request", line>>, <<"end">>>>)
               [] kind = "o" -> Stop(<<<<"request", line>>, <<"end">>>>)
               [] OTHER -> Stop(<<<<"refused">>>>)
        ELSE IF again \/ kind # "x"
        THEN Stop(<<<<"option", IF again THEN m.text ELSE line>>, <<"refused">>>>)
        ELSE More(m.text, <<<<"option", line>>>>)
  <2> DEFINE G(f, l, e) ==
               LET row == Positions(m.at, l)
                   word == IF row = <<>> THEN "none" ELSE s[m.at]
                   Go(text, ev) == Known(m.b, f + 1, text, m.ev \o ev, FALSE)
               IN IF m.over THEN m
        ELSE IF bad # 0 /\ bad <= limit /\ (f = 0 \/ bad < f) THEN Stop(<<<<"refused">>>>)
        ELSE IF f = 0 \/ f > limit THEN IF e >= limit THEN Stop(<<<<"full">>>>) ELSE m
        ELSE IF m.text # <<>> /\ row = <<>>
        THEN CASE method = "g" -> Known(f + 1, f + 1, <<>>, Append(m.ev, <<"end">>), FALSE)
               [] method # "g" /\ n < 0 -> Stop(<<<<"end">>, <<"refused">>>>)
               [] method # "g" /\ n >= 0 ->
                     Stop(IF f + n <= e THEN <<<<"end">>, <<"body", Positions(f + 1, f + n)>>>>
                          ELSE <<<<"end">>>>)
        ELSE IF l + 1 - (IF again THEN m.b ELSE m.at) >= MaxHeader THEN Stop(<<<<"refused">>>>)
        ELSE IF m.text = <<>>
        THEN CASE word \in {"g", "p"} -> Go(row, <<<<"request", row>>>>)
               [] word = "q" -> Go(row, <<<<"request", row>>, <<"end">>>>)
               [] word = "o" -> Stop(<<<<"request", row>>, <<"end">>>>)
               [] OTHER -> Stop(<<<<"refused">>>>)
        ELSE IF again \/ word # "x"
        THEN Stop(<<<<"option", IF again THEN m.text ELSE row>>, <<"refused">>>>)
        ELSE Go(m.text, <<<<"option", row>>>>)
  <2>1. Line(s, n, m) = G(lf, LastLetter(s, m.at, lf - 1), Len(s))
    BY DEF Line
  <2>2. Line(s, n, m) = G(q, last, k)
    <3> HIDE DEF G, lf
    <3>1. QED BY <1>2, <2>1
  <2>3. lf = q /\ Len(s) = k
    BY <1>2
  <2> HIDE DEF lf, bad, limit, method, again, Stop
  <2>4. QED BY <2>2, <2>3
<1>8. LineRead(str, n, m, x.method, q, k) =
        IF m.text # <<>> /\ last < m.at
        THEN IF x.method = "g" THEN next
             ELSE IF n < 0 THEN Stop(<<<<"end">>, <<"refused">>>>)
             ELSE Stop(IF q + n <= k THEN <<<<"end">>, body>> ELSE <<<<"end">>>>)
        ELSE IF last + 1 - (IF x.method = "q" THEN m.b ELSE m.at) >= MaxHeader
        THEN Stop(<<<<"refused">>>>)
        ELSE IF m.text = <<>>
        THEN IF letter \in {"g", "p"} THEN More(line, <<<<"request", line>>>>)
             ELSE IF letter = "q" THEN More(line, <<<<"request", line>>, <<"end">>>>)
             ELSE IF letter = "o" THEN Stop(<<<<"request", line>>, <<"end">>>>)
             ELSE Stop(<<<<"refused">>>>)
        ELSE IF x.method = "q" THEN Stop(<<<<"option", m.text>>, <<"refused">>>>)
        ELSE IF letter # "x" THEN Stop(<<<<"option", line>>, <<"refused">>>>)
        ELSE More(m.text, <<<<"option", line>>>>)
  BY DEF LineRead, last
<1> HIDE DEF lf, bad, limit, line, kind, method, again, body, More, Stop, next, letter
<1>9. Line(s, n, m) = LineRead(str, n, m, x.method, q, k)
  <2>1. ~(bad # 0 /\ bad <= limit /\ (lf = 0 \/ bad < lf)) /\ ~(lf = 0 \/ lf > limit)
    BY <1>1, <1>2 DEF limit
  <2>2. n < 0 \/ n >= 0
    OBVIOUS
  <2>3. CASE m.text # <<>> /\ last < m.at
    BY <1>4, <1>5, <1>7, <1>8, <2>1, <2>2, <2>3
  <2>4. CASE ~(m.text # <<>> /\ last < m.at) /\ m.text = <<>>
    BY <1>4, <1>5, <1>6, <1>7, <1>8, <2>1, <2>4
  <2>5. CASE ~(m.text # <<>> /\ last < m.at) /\ m.text # <<>>
    <3> DEFINE far == last + 1 - (IF x.method = "q" THEN m.b ELSE m.at) >= MaxHeader
               more == More(m.text, <<<<"option", line>>>>)
               other == Stop(<<<<"option", IF again THEN m.text ELSE line>>, <<"refused">>>>)
    <3>1. Line(s, n, m) = IF far THEN Stop(<<<<"refused">>>>)
                          ELSE IF again \/ letter # "x" THEN other ELSE more
      BY <1>4, <1>5, <1>6, <1>7, <2>1, <2>5
    <3>2. LineRead(str, n, m, x.method, q, k) =
              IF far THEN Stop(<<<<"refused">>>>)
              ELSE IF x.method = "q" THEN Stop(<<<<"option", m.text>>, <<"refused">>>>)
              ELSE IF letter # "x" THEN Stop(<<<<"option", line>>, <<"refused">>>>) ELSE more
      BY <1>8, <2>5
    <3>3. other = IF x.method = "q" THEN Stop(<<<<"option", m.text>>, <<"refused">>>>)
                  ELSE Stop(<<<<"option", line>>, <<"refused">>>>)
      <4>1. CASE again
        BY <1>5, <4>1
      <4>2. CASE ~again
        BY <1>5, <4>2
      <4>3. QED BY <4>1, <4>2
    <3> HIDE DEF far, more, other
    <3>4. QED BY <1>5, <3>1, <3>2, <3>3
  <2>6. QED BY <2>3, <2>4, <2>5
<1>10. QED BY <1>9 DEF s

(* The terminator behind a line makes the line the string at its start. *)
LEMMA StringEnds ==
    ASSUME NEW s \in Seq(Nat), NEW h \in Nat, h < Len(s), NEW l \in 0 .. h, NEW b \in Nat \ {0},
           \A j \in l + 1 .. Len(s) : s[j] = b - 1 + j
    PROVE  LET t == [s EXCEPT ![h + 1] = 0]
           IN  /\ FirstFrom(t, 0, l + 1) = h + 1
               /\ SubSeq(t, l + 1, (h + 1) - 1) = Positions(b + l, b - 1 + h)
<1> DEFINE t == [s EXCEPT ![h + 1] = 0]
           u == SubSeq(t, l + 1, h)
           p == Positions(b + l, b - 1 + h)
<1>1. Len(s) \in Nat /\ h + 1 \in 1 .. Len(s) /\ h + 1 \in l + 1 .. Len(s) /\ (h + 1) - 1 = h
  OBVIOUS
<1>2. t \in Seq(Nat) /\ Len(t) = Len(s)
  BY <1>1, ExceptSeq
<1>3. t[h + 1] = 0 /\ \A j \in l + 1 .. h : t[j] = b - 1 + j
  <2>1. ASSUME NEW j \in l + 1 .. h PROVE t[j] = b - 1 + j
    <3>1. j \in 1 .. Len(s) /\ j # h + 1 /\ j \in l + 1 .. Len(s) /\ DOMAIN s = 1 .. Len(s)
      BY <1>1
    <3>2. QED BY <3>1
  <2>2. DOMAIN s = 1 .. Len(s)
    OBVIOUS
  <2>3. QED BY <1>1, <2>1, <2>2
<1> HIDE DEF t
<1>4. FirstFrom(t, 0, l + 1) = h + 1
  <2>1. l + 1 \in Nat \ {0} /\ h + 1 \in l + 1 .. Len(t) /\ \A j \in l + 1 .. (h + 1) - 1 : t[j] # 0
    BY <1>1, <1>2, <1>3
  <2>2. QED BY <1>2, <1>3, <2>1, FirstFromFound
<1>5. u = p
  <2>1. u \in Seq(Nat) /\ Len(u) = h - l /\ \A i \in 1 .. h - l : u[i] = t[l + i]
    <3>1. l + 1 \in 1 .. Len(t) + 1 /\ h \in l .. Len(t) /\ l \in Nat
      BY <1>1, <1>2
    <3>2. \A i \in l + 1 .. h : t[i] \in Nat
      BY <1>1, <1>2, SMTT(30)
    <3>3. u \in Seq(Nat) /\ Len(u) = IF l + 1 <= h THEN h - (l + 1) + 1 ELSE 0
      BY <1>2, <3>1, <3>2, SubSeqProperties
    <3>4. \A i \in 1 .. h - (l + 1) + 1 : u[i] = t[l + 1 + i - 1]
      BY <1>2, <3>1, <3>2, SubSeqProperties
    <3> HIDE DEF u
    <3>5. Len(u) = h - l
      BY <3>1, <3>3
    <3>6. ASSUME NEW i \in 1 .. h - l PROVE u[i] = t[l + i]
      <4>1. i \in 1 .. h - (l + 1) + 1 /\ l + 1 + i - 1 = l + i
        BY <3>1
      <4>2. QED BY <3>4, <4>1
    <3>7. QED BY <3>3, <3>5, <3>6
  <2>2. p \in Seq(Nat) /\ Len(p) = h - l /\ \A i \in 1 .. h - l : p[i] = b + l + i - 1
    <3>1. b + l \in Nat \ {0} /\ b - 1 + h \in Int /\ b + l <= (b - 1 + h) + 1
          /\ (b - 1 + h) - (b + l) + 1 = h - l
      BY <1>1
    <3>2. QED BY <3>1, PositionsAre
  <2> HIDE DEF u, p
  <2>3. ASSUME NEW i \in 1 .. h - l PROVE u[i] = p[i]
    <3>1. l + i \in l + 1 .. h /\ b - 1 + (l + i) = b + l + i - 1
      BY <1>1
    <3>2. QED BY <1>3, <2>1, <2>2, <3>1
  <2>4. QED BY <2>1, <2>2, <2>3, SeqEqual
<1>6. QED BY <1>1, <1>4, <1>5 DEF t

(* A string is the same wherever the bytes up to its end are. *)
LEMMA SameString ==
    ASSUME NEW s \in Seq(Nat), NEW t \in Seq(Nat), NEW z \in 1 .. Len(s), s[z] = 0,
           \A i \in 1 .. z - 1 : s[i] # 0, z <= Len(t), \A i \in 1 .. z : t[i] = s[i]
    PROVE  FirstFrom(t, 0, 1) = z /\ SubSeq(t, 1, z - 1) = SubSeq(s, 1, z - 1)
<1>1. Len(s) \in Nat /\ Len(t) \in Nat /\ z \in Nat
  OBVIOUS
<1>2. FirstFrom(t, 0, 1) = z
  <2>1. z \in 1 .. Len(t) /\ t[z] = 0 /\ \A i \in 1 .. z - 1 : t[i] # 0
    BY <1>1, SMTT(30)
  <2>2. QED BY <2>1, FirstFromFound
<1>3. SubSeq(t, 1, z - 1) = SubSeq(s, 1, z - 1)
  <2> DEFINE u == SubSeq(t, 1, z - 1)
             v == SubSeq(s, 1, z - 1)
  <2>1. z - 1 \in 0 .. Len(s) /\ z - 1 \in 0 .. Len(t)
    BY <1>1
  <2>2. u \in Seq(Nat) /\ Len(u) = z - 1 /\ \A i \in 1 .. z - 1 : u[i] = t[i]
    BY <2>1, SubSeqProperties
  <2>3. v \in Seq(Nat) /\ Len(v) = z - 1 /\ \A i \in 1 .. z - 1 : v[i] = s[i]
    BY <1>1, <2>1, SubSeqProperties
  <2> HIDE DEF u, v
  <2>4. ASSUME NEW i \in 1 .. z - 1 PROVE u[i] = v[i]
    <3>1. i \in 1 .. z
      BY <1>1
    <3>2. QED BY <2>2, <2>3, <3>1
  <2>5. u = v
    BY <2>2, <2>3, <2>4, SeqEqual
  <2>6. QED BY <2>5 DEF u, v
<1>4. QED BY <1>2, <1>3

(* A terminator behind another one changes nothing. *)
LEMMA StringStays ==
    ASSUME NEW s \in Seq(Nat), NEW h \in Nat, h < Len(s), FirstFrom(s, 0, 1) \in 1 .. h
    PROVE  LET t == [s EXCEPT ![h + 1] = 0]
               z == FirstFrom(s, 0, 1)
           IN  FirstFrom(t, 0, 1) = z /\ SubSeq(t, 1, z - 1) = SubSeq(s, 1, z - 1)
<1> DEFINE t == [s EXCEPT ![h + 1] = 0]
           z == FirstFrom(s, 0, 1)
<1>1. Len(s) \in Nat /\ h + 1 \in 1 .. Len(s) /\ z \in 1 .. h
  OBVIOUS
<1>2. t \in Seq(Nat) /\ Len(t) = Len(s)
  BY <1>1, ExceptSeq
<1>3. s[z] = 0 /\ \A i \in 1 .. z - 1 : s[i] # 0
  BY <1>1, FirstFromIs
<1> HIDE DEF z
<1>4. ASSUME NEW i \in 1 .. z PROVE t[i] = s[i]
  <2>1. i \in 1 .. Len(s) /\ i # h + 1 /\ DOMAIN s = 1 .. Len(s)
    BY <1>1
  <2>2. QED BY <2>1
<1> HIDE DEF t
<1>5. z \in 1 .. Len(s) /\ z <= Len(t)
  BY <1>1, <1>2
<1>6. FirstFrom(t, 0, 1) = z /\ SubSeq(t, 1, z - 1) = SubSeq(s, 1, z - 1)
  BY <1>2, <1>3, <1>4, <1>5, SameString
<1>7. QED BY <1>6 DEF t, z

(* Calls one after the other. *)
LEMMA TwoCalls ==
    ASSUME NEW ev \in Seq(Call), NEW d \in Call, NEW e \in Call
    PROVE  /\ Append(ev, d) = ev \o <<d>> /\ Append(ev, d) \in Seq(Call)
           /\ Append(Append(ev, d), e) = ev \o <<d, e>>
<1>1. Append(ev, d) = ev \o <<d>> /\ Append(ev, d) \in Seq(Call)
  BY AppendIsConcat, AppendProperties
<1>2. Append(Append(ev, d), e) = (ev \o <<d>>) \o <<e>>
  BY <1>1, AppendIsConcat
<1>3. <<d>> \in Seq(Call) /\ <<e>> \in Seq(Call) /\ <<d>> \o <<e>> = <<d, e>>
  <2> DEFINE u == <<d>> \o <<e>>
             v == <<d, e>>
  <2>1. /\ <<d>> \in Seq(Call) /\ <<e>> \in Seq(Call) /\ v \in Seq(Call)
        /\ Len(<<d>>) = 1 /\ Len(<<e>>) = 1 /\ Len(v) = 2 /\ v[1] = d /\ v[2] = e
        /\ <<d>>[1] = d /\ <<e>>[1] = e
    OBVIOUS
  <2>2. u \in Seq(Call) /\ Len(u) = 2 /\ u[1] = d /\ u[2] = e
    <3> DEFINE f == <<d>>
               g == <<e>>
    <3> HIDE DEF f, g
    <3>1. /\ f \o g \in Seq(Call) /\ Len(f \o g) = Len(f) + Len(g)
          /\ \A i \in 1 .. Len(f) + Len(g) :
                (f \o g)[i] = IF i <= Len(f) THEN f[i] ELSE g[i - Len(f)]
      BY <2>1, ConcatProperties DEF f, g
    <3>2. Len(f) = 1 /\ Len(g) = 1 /\ f[1] = d /\ g[1] = e
      BY <2>1 DEF f, g
    <3>3. (f \o g)[1] = d /\ (f \o g)[2] = e /\ Len(f \o g) = 2
      BY <3>1, <3>2
    <3>4. QED BY <3>1, <3>3 DEF f, g
  <2> HIDE DEF u, v
  <2>3. \A i \in 1 .. 2 : u[i] = v[i]
    BY <2>1, <2>2
  <2>4. u = v
    BY <2>1, <2>2, <2>3, SeqEqual
  <2>5. QED BY <2>1, <2>4 DEF u, v
<1>4. (ev \o <<d>>) \o <<e>> = ev \o (<<d>> \o <<e>>)
  BY <1>3, ConcatAssociative
<1>5. QED BY <1>1, <1>2, <1>3, <1>4

StreamKnown == stream \in Seq(Byte) /\ length \in Int

(* The scanner is at the LF of a line, q, and has counted it. *)
AtLineEnd(m, p, q) ==
    /\ Reached(stream, length, m) /\ RequestSoFar(stream, m, p)
    /\ taken = m.b - 1 + Len(p.cs) /\ taken <= Len(stream)
    /\ q = m.b - 1 + p.parse /\ m.at <= q /\ stream[q] = "LF"
    /\ \A i \in m.at .. q - 1 : stream[i] \notin {"LF", "bad"}

LEMMA EndFacts ==
    ASSUME StreamKnown, NEW m, NEW p, NEW q, AtLineEnd(m, p, q), Bounded(p)
    PROVE  /\ m \in Reading /\ ~m.over /\ m.b \in Nat \ {0} /\ m.at \in Nat \ {0} /\ m.b <= m.at
           /\ m.ev \in Seq(Call) /\ m.text \in Seq(Nat) /\ Len(stream) \in Nat
           /\ q \in m.at .. taken /\ taken \in q .. Len(stream) /\ p.parse = q - m.b + 1
           /\ \A k \in q .. Len(stream) :
                 Line(Upto(stream, k), length, m) = LineRead(stream, length, m, p.method, q, k)
<1>1. /\ m \in Reading /\ ~m.over /\ m.b \in Nat \ {0} /\ m.at \in Nat \ {0} /\ m.b <= m.at
      /\ m.ev \in Seq(Call) /\ m.text \in Seq(Nat) /\ Len(stream) \in Nat
  BY DEF AtLineEnd, Reached, Reading, StreamKnown
<1>2. p.parse \in Nat /\ p.parse <= Len(p.cs) /\ Len(p.cs) \in Nat /\ Len(p.cs) <= StreamSize
      /\ StreamSize \in Nat
  BY ReadHeaderAssumption DEF Bounded, Request
<1>3. /\ q \in m.at .. taken /\ taken \in q .. Len(stream) /\ p.parse = q - m.b + 1
      /\ q \in m.at .. Len(stream) /\ q <= m.b + StreamSize - 1
  <2>1. /\ taken = m.b - 1 + Len(p.cs) /\ taken <= Len(stream)
        /\ q = m.b - 1 + p.parse /\ m.at <= q
    BY DEF AtLineEnd
  <2> DEFINE mb == m.b
             ma == m.at
             pp == p.parse
             lc == Len(p.cs)
             ls == Len(stream)
  <2>2. /\ taken = mb - 1 + lc /\ taken <= ls /\ q = mb - 1 + pp /\ ma <= q
        /\ mb \in Nat /\ mb # 0 /\ ma \in Nat /\ pp \in Nat /\ lc \in Nat /\ ls \in Nat
        /\ pp <= lc /\ lc <= StreamSize /\ StreamSize \in Nat
    BY <1>1, <1>2, <2>1
  <2> HIDE DEF mb, ma, pp, lc, ls
  <2>3. /\ q \in ma .. taken /\ taken \in q .. ls /\ pp = q - mb + 1
        /\ q \in ma .. ls /\ q <= mb + StreamSize - 1
    BY <2>2
  <2>4. QED BY <2>3 DEF mb, ma, pp, lc, ls
<1>4. ASSUME NEW k \in q .. Len(stream)
      PROVE  Line(Upto(stream, k), length, m) = LineRead(stream, length, m, p.method, q, k)
  <2>1. /\ RequestSoFar(stream, m, p) /\ stream[q] = "LF"
        /\ \A i \in m.at .. q - 1 : stream[i] \notin {"LF", "bad"}
    BY DEF AtLineEnd
  <2>2. stream \in Seq(Byte) /\ length \in Int
    BY DEF StreamKnown
  <2> DEFINE s == stream
  <2> HIDE DEF s
  <2>3. /\ s \in Seq(Byte) /\ RequestSoFar(s, m, p) /\ q \in m.at .. Len(s) /\ s[q] = "LF"
        /\ \A i \in m.at .. q - 1 : s[i] \notin {"LF", "bad"}
        /\ k \in q .. Len(s) /\ q <= m.b + StreamSize - 1 /\ m \in Reading /\ ~m.over
    BY <1>1, <1>3, <2>1, <2>2 DEF s
  <2>4. Line(Upto(s, k), length, m) = LineRead(s, length, m, p.method, q, k)
    BY <2>2, <2>3, EndedLine
  <2>5. QED BY <2>4 DEF s
<1>5. QED BY <1>1, <1>3, <1>4

(* Nothing follows the line. *)
LEMMA EndStops ==
    ASSUME StreamKnown, NEW m, NEW p, NEW q, AtLineEnd(m, p, q), Bounded(p),
           NEW k \in q .. Len(stream), NEW e,
           LineRead(stream, length, m, p.method, q, k) = Known(m.b, m.at, m.text, e, TRUE)
    PROVE  Meaning(Upto(stream, k), length) = e
<1> DEFINE r == Known(m.b, m.at, m.text, e, TRUE)
<1>1. m.at \in Nat /\ q \in m.at .. taken /\ Len(stream) \in Nat
  BY EndFacts
<1>2. Line(Upto(stream, k), length, m) = r
  BY EndFacts
<1>3. r.over /\ r.ev = e
  BY DEF Known
<1>4. k \in m.at - 1 .. Len(stream) /\ Reached(stream, length, m)
  BY <1>1 DEF AtLineEnd
<1> HIDE DEF r
<1>5. Meaning(Upto(stream, k), length) = r.ev
  BY <1>2, <1>3, <1>4, ReachedMeans DEF StreamKnown
<1>6. QED BY <1>3, <1>5

(* The next line follows. *)
LEMMA EndGoesOn ==
    ASSUME StreamKnown, NEW m, NEW p, NEW q, AtLineEnd(m, p, q), Bounded(p),
           NEW r \in Reading, ~r.over, r.at = q + 1, r.b \in {m.b, q + 1},
           \A k \in q .. Len(stream) : LineRead(stream, length, m, p.method, q, k) = r
    PROVE  /\ Reached(stream, length, r)
           /\ Seqs!IsPrefix(r.ev, Meaning(Upto(stream, taken), length))
<1>1. /\ m.at \in Nat \ {0} /\ m.b \in Nat \ {0} /\ m.b <= m.at /\ q \in m.at .. taken
      /\ taken \in q .. Len(stream) /\ Len(stream) \in Nat
  BY EndFacts
<1>2. \A k \in q .. Len(stream) : Line(Upto(stream, k), length, m) = r
  BY EndFacts
<1>3. /\ r.b <= r.at /\ m.at < r.at /\ r.at <= Len(stream) + 1 /\ r.at - 1 = q
      /\ taken \in r.at - 1 .. Len(stream)
  <2> DEFINE mb == m.b
             ma == m.at
             ls == Len(stream)
             rb == r.b
             ra == r.at
  <2>1. /\ ma \in Nat /\ mb \in Nat /\ mb <= ma /\ q \in ma .. taken /\ taken \in q .. ls
        /\ ls \in Nat /\ rb \in {mb, q + 1} /\ ra = q + 1
    BY <1>1
  <2> HIDE DEF mb, ma, ls, rb, ra
  <2>2. rb <= ra /\ ma < ra /\ ra <= ls + 1 /\ ra - 1 = q /\ taken \in ra - 1 .. ls
    BY <2>1
  <2>3. QED BY <2>2 DEF mb, ma, ls, rb, ra
<1>4. \A k \in r.at - 1 .. Len(stream) : Line(Upto(stream, k), length, m) = r
  BY <1>2, <1>3
<1>5. Reached(stream, length, r)
  BY <1>3, <1>4, ReachedNext DEF StreamKnown, AtLineEnd
<1>6. Seqs!IsPrefix(r.ev, Meaning(Upto(stream, taken), length))
  BY <1>3, <1>5, ReachedMeans DEF StreamKnown
<1>7. QED BY <1>5, <1>6

(* What a scan of the bytes may lead to. *)
Outcome(o) ==
    /\ Seqs!IsPrefix(o.ev, Meaning(Upto(stream, taken), length))
    /\ o.ret = "more" => o.c.status \in Scanning \cup {"BODY_WRITE"}
    /\ o.ret = "scan" \/ (o.ret = "more" /\ o.c.status \in Scanning) =>
           \E m : ScanState(stream, length, m, o.c, o.ev, taken)
    /\ o.ret = "more" /\ o.c.status = "BODY_WRITE" =>
           \E from \in 0 .. Len(stream) : BodyState(stream, length, from, o.c, o.ev, taken)
    /\ o.ret = "respond" /\ o.c.ka => \E m : NextState(stream, length, m, o.c, o.ev, taken)

(* The request is refused, as the bytes mean. *)
LEMMA RefusedOutcome ==
    ASSUME NEW x, NEW ev, Append(ev, <<"refused">>) \in Seq(Call),
           Append(ev, <<"refused">>) = Meaning(Upto(stream, taken), length)
    PROVE  Outcome(Refused(x, ev))
<1> DEFINE o == Refused(x, ev)
<1>1. o.ret = "refused" /\ o.ev = Append(ev, <<"refused">>)
  BY DEF Refused, Out
<1> HIDE DEF o
<1>2. Seqs!IsPrefix(o.ev, Meaning(Upto(stream, taken), length))
  BY <1>1, PrefixSelf
<1>3. Outcome(o)
  BY <1>1, <1>2 DEF Outcome
<1>4. QED BY <1>3 DEF o

(* The request goes on behind a line that was read. *)
LEMMA LineOutcome ==
    ASSUME StreamKnown, NEW m, NEW p, NEW q, AtLineEnd(m, p, q), Bounded(p),
           NEW text \in Seq(Nat), text # <<>>, text[1] = m.b, NEW e \in Seq(Call),
           \A k \in q .. Len(stream) :
              LineRead(stream, length, m, p.method, q, k) = Known(m.b, q + 1, text, e, FALSE),
           NEW y, y.status = "ONE_LF", y.parse = p.parse, Len(y.cs) = Len(p.cs), y.logline = TRUE,
           y.method = stream[m.b], y.method \in {"g", "p", "q"}, y.ka = (y.method = "g"),
           \A j \in p.parse + 1 .. Len(p.cs) : y.cs[j] = p.cs[j],
           y.method # "q" => y.line = p.parse,
           y.method = "q" => /\ y.line = 0 /\ q = FirstFrom(stream, "LF", m.b)
                             /\ FirstFrom(y.cs, 0, 1) \in 1 .. p.parse /\ Text(y) = text,
           NEW ret \in {"scan", "more"}
    PROVE  Outcome(Out(ret, y, e))
<1> DEFINE r == Known(m.b, q + 1, text, e, FALSE)
           o == Out(ret, y, e)
<1>1. /\ Reached(stream, length, r) /\ Seqs!IsPrefix(e, Meaning(Upto(stream, taken), length))
      /\ r.b = m.b /\ r.at = q + 1 /\ r.text = text /\ r.ev = e
  <2>1. m.b \in Nat \ {0} /\ q + 1 \in Nat \ {0}
    <3>1. m.b \in Nat \ {0} /\ m.at \in Nat \ {0} /\ q \in m.at .. taken
      BY EndFacts
    <3>2. QED BY <3>1
  <2> DEFINE f == q + 1
  <2> HIDE DEF f
  <2>2. Known(m.b, f, text, e, FALSE) \in Reading /\ Known(m.b, f, text, e, FALSE).b = m.b
        /\ Known(m.b, f, text, e, FALSE).at = f /\ Known(m.b, f, text, e, FALSE).text = text
        /\ Known(m.b, f, text, e, FALSE).ev = e /\ Known(m.b, f, text, e, FALSE).over = FALSE
    <3>1. f \in Nat \ {0}
      BY <2>1 DEF f
    <3>2. Known(m.b, f, text, e, FALSE) \in Reading
      BY <2>1, <3>1, Zenon DEF Known, Reading
    <3>3. QED BY <3>2 DEF Known
  <2>3. r \in Reading /\ r.b = m.b /\ r.at = q + 1 /\ r.text = text /\ r.ev = e /\ ~r.over
    BY <2>2 DEF f
  <2>4. \A k \in q .. Len(stream) : LineRead(stream, length, m, p.method, q, k) = r
    OBVIOUS
  <2> HIDE DEF r
  <2>5. Reached(stream, length, r) /\ Seqs!IsPrefix(r.ev, Meaning(Upto(stream, taken), length))
    BY <2>3, <2>4, EndGoesOn
  <2>6. QED BY <2>3, <2>5
<1>2. /\ m.b \in Nat \ {0} /\ m.at \in Nat \ {0} /\ m.b <= m.at /\ q \in m.at .. taken
      /\ p.parse = q - m.b + 1 /\ taken \in Nat /\ q \in Nat
  BY EndFacts, SMTT(30)
<1>3. taken = m.b - 1 + Len(p.cs) /\ \A j \in m.at - m.b + 1 .. Len(p.cs) : p.cs[j] = m.b - 1 + j
  BY DEF AtLineEnd, RequestSoFar
<1>4. o.ret = ret /\ o.c = y /\ o.ev = e
  BY DEF Out
<1> HIDE DEF r, o
<1>5. LineSoFar(stream, r, y)
  <2> DEFINE to == r.b - 1 + y.parse
  <2>1. to = q /\ r.at = q + 1
    BY <1>1, <1>2
  <2>2. LastLetter(stream, q + 1, q) = q
    <3> DEFINE a == q + 1
    <3>1. a \in Nat \ {0} /\ q \in a - 1 .. q /\ ~(q >= a) /\ a <= q + 1
      BY <1>2
    <3>2. \A i \in q + 1 .. q : stream[i] = "CR"
      BY <1>2
    <3> HIDE DEF a
    <3>3. LastLetter(stream, a, q) = q
      BY <1>2, <3>1, <3>2, LastLetterFound
    <3>4. QED BY <3>3 DEF a
  <2>3. LastLetter(stream, r.at, to) = r.at - 1
    <3>1. r.at - 1 = q
      BY <1>2, <2>1
    <3> HIDE DEF to
    <3>2. QED BY <2>1, <2>2, <3>1
  <2>4. r.at <= to + 1 /\ \A i \in r.at .. to : stream[i] \notin {"LF", "bad"}
    BY <1>2, <2>1
  <2>5. r.text # <<>>
    BY <1>1
  <2>6. QED BY <2>3, <2>4, <2>5 DEF LineSoFar
<1>6. RequestSoFar(stream, r, y)
  <2>1. r.at - r.b = p.parse /\ r.b < r.at
    BY <1>1, <1>2, SMTT(30)
  <2>2. ASSUME NEW j \in r.at - r.b + 1 .. Len(y.cs) PROVE y.cs[j] = r.b - 1 + j
    <3>1. j \in p.parse + 1 .. Len(p.cs) /\ j \in m.at - m.b + 1 .. Len(p.cs)
      <4>1. j \in p.parse + 1 .. Len(p.cs)
        BY <2>1
      <4>2. m.at - m.b + 1 <= p.parse + 1
        BY <1>2
      <4> DEFINE a == m.at - m.b + 1
                 l == Len(p.cs)
                 f == p.parse + 1
      <4>3. a \in Int /\ f \in Int
        BY <1>2
      <4> HIDE DEF a, l, f
      <4>4. j \in a .. l
        BY <4>1, <4>2, <4>3 DEF a, l, f
      <4>5. QED BY <4>1, <4>4 DEF a, l
    <3>2. QED BY <1>1, <1>3, <3>1
  <2>3. r.text # <<>> /\ r.text[1] = r.b /\ y.logline = (r.text # <<>>)
    BY <1>1
  <2>4. y.method # "q" => y.line = r.at - r.b
    BY <2>1
  <2>5. y.method = "q" => /\ y.line = 0 /\ r.at = FirstFrom(stream, "LF", r.b) + 1
                          /\ FirstFrom(y.cs, 0, 1) \in 1 .. r.at - r.b /\ Text(y) = r.text
    BY <1>1, <2>1
  <2>6. y.method = stream[r.b]
    BY <1>1
  <2>7. QED BY <2>1, <2>2, <2>3, <2>4, <2>5, <2>6 DEF RequestSoFar
<1>7. ScanState(stream, length, r, y, e, taken)
  BY <1>1, <1>3, <1>5, <1>6 DEF ScanState
<1>8. Outcome(o)
  <2>1. y.status \in Scanning /\ y.status # "BODY_WRITE"
    BY DEF Scanning
  <2>2. QED BY <1>1, <1>4, <1>7, <2>1 DEF Outcome
<1>9. QED BY <1>8 DEF o

(* The string that the scanner sees at the end of a line: the line, and    *)
(* for an HTTP/0.9 POST its request line again.                            *)
LEMMA LineText ==
    ASSUME StreamKnown, NEW m, NEW p, NEW q, AtLineEnd(m, p, q), Bounded(p), NoBody(p),
           p.status = "ONE_LF", p.hend = LastLetter(stream, m.at, q - 1) - m.b + 1,
           m.text # <<>> => LastLetter(stream, m.at, q - 1) >= m.at
    PROVE  LET t == [p EXCEPT !.cs[p.hend + 1] = 0]
               last == LastLetter(stream, m.at, q - 1)
           IN  /\ last \in m.at - 1 .. q - 1
               /\ t \in Request /\ t.cs = [p.cs EXCEPT ![p.hend + 1] = 0] /\ Len(t.cs) = Len(p.cs)
               /\ \A j \in p.parse + 1 .. Len(p.cs) : t.cs[j] = p.cs[j]
               /\ t.parse = p.parse /\ t.line = p.line /\ t.hend = p.hend /\ t.status = "ONE_LF"
               /\ t.logline = p.logline /\ t.method = p.method /\ t.ka = p.ka
               /\ t.hend - t.line = last + 1 - (IF p.method = "q" THEN m.b ELSE m.at)
               /\ p.method # "q" => /\ Text(t) = Positions(m.at, last)
                                    /\ FirstFrom(t.cs, 0, t.line + 1) = t.hend + 1
               /\ p.method = "q" => /\ Text(t) = m.text
                                    /\ FirstFrom(t.cs, 0, 1) = FirstFrom(p.cs, 0, 1)
<1> DEFINE t == [p EXCEPT !.cs[p.hend + 1] = 0]
           last == LastLetter(stream, m.at, q - 1)
           h == p.hend
           s == p.cs
           u == [s EXCEPT ![h + 1] = 0]
<1>1. /\ m.b \in Nat \ {0} /\ m.at \in Nat \ {0} /\ m.b <= m.at /\ q \in m.at .. taken
      /\ p.parse = q - m.b + 1 /\ q \in Nat /\ m.text \in Seq(Nat)
  BY EndFacts
<1>2. last \in m.at - 1 .. q - 1
  <2>1. q - 1 \in Nat /\ m.at <= (q - 1) + 1
    BY <1>1
  <2>2. QED BY <1>1, <2>1, LastLetterIs
<1>3. p \in Request /\ s \in Seq(Nat) /\ h \in Nat /\ h < p.parse /\ p.parse <= Len(s)
      /\ Len(s) \in Nat /\ p.parse \in Nat
  BY DEF Bounded, Request, Scanning
<1>4. h = last - m.b + 1
  OBVIOUS
<1>5. /\ RequestSoFar(stream, m, p)
      /\ \A j \in m.at - m.b + 1 .. Len(s) : s[j] = m.b - 1 + j
  BY DEF AtLineEnd, RequestSoFar
<1>6. u \in Seq(Nat) /\ Len(u) = Len(s) /\ \A j \in 1 .. Len(s) : j # h + 1 => u[j] = s[j]
  <2>1. h + 1 \in 1 .. Len(s) /\ DOMAIN s = 1 .. Len(s)
    BY <1>3
  <2>2. QED BY <1>3, <2>1, ExceptSeq
<1>7. /\ t \in Request /\ t.cs = u /\ t.parse = p.parse /\ t.line = p.line /\ t.hend = h
      /\ t.status = "ONE_LF" /\ t.logline = p.logline /\ t.method = p.method /\ t.ka = p.ka
  <2>1. t = [p EXCEPT !.cs = u]
    BY <1>3 DEF Request
  <2> HIDE DEF u, t
  <2>2. QED BY <1>3, <1>6, <2>1 DEF Request
<1>8. \A j \in p.parse + 1 .. Len(s) : t.cs[j] = s[j]
  <2>1. ASSUME NEW j \in p.parse + 1 .. Len(s) PROVE j \in 1 .. Len(s) /\ j # h + 1
    BY <1>3
  <2>2. QED BY <1>6, <1>7, <2>1
<1> HIDE DEF t, last, h, s
<1>9. ASSUME p.method # "q"
      PROVE  /\ Text(t) = Positions(m.at, last) /\ FirstFrom(t.cs, 0, t.line + 1) = t.hend + 1
             /\ t.hend - t.line = last + 1 - m.at
  <2>1. p.line = m.at - m.b
    BY <1>5, <1>9 DEF RequestSoFar
  <2> DEFINE l == p.line
  <2>2. l \in 0 .. h /\ m.b + l = m.at /\ m.b - 1 + h = last /\ h - l = last + 1 - m.at
    <3> DEFINE mb == m.b
               ma == m.at
    <3>1. /\ mb \in Nat /\ ma \in Nat /\ mb <= ma /\ last \in ma - 1 .. q - 1 /\ q \in Nat
          /\ h = last - mb + 1 /\ l = ma - mb
      BY <1>1, <1>2, <1>4, <2>1
    <3> HIDE DEF mb, ma, l
    <3>2. l \in 0 .. h /\ mb + l = ma /\ mb - 1 + h = last /\ h - l = last + 1 - ma
      BY <3>1
    <3>3. QED BY <3>2 DEF mb, ma
  <2>3. \A j \in l + 1 .. Len(s) : s[j] = m.b - 1 + j
    BY <1>5, <2>1
  <2> HIDE DEF l
  <2>4. FirstFrom(u, 0, l + 1) = h + 1
        /\ SubSeq(u, l + 1, (h + 1) - 1) = Positions(m.b + l, m.b - 1 + h)
    <3>1. h < Len(s)
      BY <1>3
    <3>2. QED BY <1>1, <1>3, <2>2, <2>3, <3>1, StringEnds
  <2> HIDE DEF u
  <2>5. FirstFrom(t.cs, 0, t.line + 1) = t.hend + 1
    BY <1>7, <2>4 DEF l
  <2>6. Text(t) = SubSeq(u, l + 1, (h + 1) - 1)
    BY <1>7, <2>5 DEF Text, l
  <2>7. QED BY <1>7, <2>2, <2>4, <2>5, <2>6 DEF l
<1>10. ASSUME p.method = "q"
       PROVE  /\ Text(t) = m.text /\ FirstFrom(t.cs, 0, 1) = FirstFrom(p.cs, 0, 1)
              /\ t.hend - t.line = last + 1 - m.b
  <2>1. /\ p.line = 0 /\ FirstFrom(s, 0, 1) \in 1 .. m.at - m.b /\ Text(p) = m.text /\ m.text # <<>>
    BY <1>5, <1>10 DEF RequestSoFar, s
  <2>2. last >= m.at
    BY <2>1 DEF last
  <2> DEFINE z == FirstFrom(s, 0, 1)
  <2>3. z \in 1 .. h /\ h < Len(s)
    <3> DEFINE mb == m.b
               ma == m.at
    <3>1. /\ mb \in Nat /\ ma \in Nat /\ last \in ma - 1 .. q - 1 /\ q \in Nat /\ last >= ma
          /\ h = last - mb + 1 /\ z \in 1 .. ma - mb
      BY <1>1, <1>2, <1>4, <2>1, <2>2
    <3> HIDE DEF mb, ma, z
    <3>2. z \in 1 .. h
      BY <3>1
    <3>3. h < Len(s)
      BY <1>3
    <3>4. QED BY <3>2, <3>3
  <2>4. FirstFrom(u, 0, 1) = z /\ SubSeq(u, 1, z - 1) = SubSeq(s, 1, z - 1)
    BY <1>3, <2>3, StringStays
  <2>5. Text(p) = SubSeq(s, 1, z - 1)
    BY <2>1 DEF Text, s
  <2> HIDE DEF u, z
  <2>6. Text(t) = SubSeq(u, 1, z - 1)
    <3>1. t.line + 1 = 1 /\ t.cs = u
      BY <1>7, <2>1
    <3>2. Text(t) = SubSeq(u, 1, FirstFrom(u, 0, 1) - 1)
      BY <3>1 DEF Text
    <3>3. QED BY <2>4, <3>2
  <2>7. t.hend - t.line = last + 1 - m.b
    BY <1>1, <1>2, <1>4, <1>7, <2>1
  <2>8. QED BY <1>7, <2>1, <2>4, <2>5, <2>6, <2>7 DEF s, z
<1> HIDE DEF u
<1>11. QED BY <1>2, <1>6, <1>7, <1>8, <1>9, <1>10 DEF t, last, h, s, u

(* The end of a line, the code and the reference. *)
LEMMA LineEndOutcome ==
    ASSUME StreamKnown, NEW m, NEW p, NEW q, AtLineEnd(m, p, q), Bounded(p), NoBody(p),
           p.status = "ONE_LF", p.hend = LastLetter(stream, m.at, q - 1) - m.b + 1,
           m.text # <<>> => LastLetter(stream, m.at, q - 1) >= m.at
    PROVE  Outcome(LineEnd(p, m.ev))
<1> DEFINE t == [p EXCEPT !.cs[p.hend + 1] = 0]
           text == Text(t)
           kind == Letter(text)
           last == LastLetter(stream, m.at, q - 1)
           line == Positions(m.at, last)
           far == t.hend - t.line >= MaxHeader
           letter == IF last < m.at THEN "none" ELSE stream[m.at]
           Stop(e) == Known(m.b, m.at, m.text, m.ev \o e, TRUE)
           More(w, e) == Known(m.b, q + 1, w, m.ev \o e, FALSE)
           RV == IF far THEN Stop(<<<<"refused">>>>)
                 ELSE IF m.text = <<>>
                 THEN IF letter \in {"g", "p"} THEN More(line, <<<<"request", line>>>>)
                      ELSE IF letter = "q" THEN More(line, <<<<"request", line>>, <<"end">>>>)
                      ELSE IF letter = "o" THEN Stop(<<<<"request", line>>, <<"end">>>>)
                      ELSE Stop(<<<<"refused">>>>)
                 ELSE IF p.method = "q" THEN Stop(<<<<"option", m.text>>, <<"refused">>>>)
                 ELSE IF letter # "x" THEN Stop(<<<<"option", line>>, <<"refused">>>>)
                 ELSE More(m.text, <<<<"option", line>>>>)
           o == LineEnd(p, m.ev)
           M == Meaning(Upto(stream, taken), length)
<1>1. /\ m.b \in Nat \ {0} /\ m.at \in Nat \ {0} /\ m.b <= m.at /\ q \in m.at .. taken
      /\ p.parse = q - m.b + 1 /\ q \in Nat /\ m.text \in Seq(Nat) /\ m.ev \in Seq(Call)
      /\ taken \in q .. Len(stream)
  BY EndFacts
<1>2. /\ last \in m.at - 1 .. q - 1
      /\ t \in Request /\ Len(t.cs) = Len(p.cs)
      /\ \A j \in p.parse + 1 .. Len(p.cs) : t.cs[j] = p.cs[j]
      /\ t.parse = p.parse /\ t.line = p.line /\ t.hend = p.hend /\ t.status = "ONE_LF"
      /\ t.logline = p.logline /\ t.method = p.method /\ t.ka = p.ka
      /\ t.hend - t.line = last + 1 - (IF p.method = "q" THEN m.b ELSE m.at)
      /\ p.method # "q" => text = line /\ FirstFrom(t.cs, 0, t.line + 1) = t.hend + 1
      /\ p.method = "q" => text = m.text /\ FirstFrom(t.cs, 0, 1) = FirstFrom(p.cs, 0, 1)
  BY LineText
<1>3. o = IF far THEN Refused(t, m.ev)
        ELSE IF t.logline
        THEN IF kind # "x" THEN Refused(t, Append(m.ev, <<"option", text>>))
             ELSE Out("scan", [t EXCEPT !.line = t.parse], Append(m.ev, <<"option", text>>))
        ELSE IF kind \notin {"g", "o", "p", "q"} THEN Refused([t EXCEPT !.logline = TRUE], m.ev)
        ELSE LET l == [t EXCEPT !.logline = TRUE, !.method = kind, !.ka = (kind = "g")]
                 seen == Append(m.ev, <<"request", text>>)
             IN  IF kind \in {"o", "q"} THEN process_header_end(l, seen)
                 ELSE Out("scan", [l EXCEPT !.line = l.parse], seen)
  BY DEF LineEnd
<1>4. RequestSoFar(stream, m, p)
  BY DEF AtLineEnd
<1>5. kind = IF text = <<>> THEN "none" ELSE stream[text[1]]
  BY DEF Letter
<1> HIDE DEF t, text, kind, o
<1>6. \A k \in q .. Len(stream) : LineRead(stream, length, m, p.method, q, k) = RV
  <2>1. ~(m.text # <<>> /\ last < m.at)
    <3>1. m.text # <<>> => last >= m.at
      OBVIOUS
    <3> HIDE DEF last
    <3>2. last \in Int
      <4>1. last \in m.at - 1 .. q - 1
        BY <1>2
      <4>2. QED BY <4>1
    <3>3. QED BY <1>1, <3>1, <3>2
  <2>2. far = (last + 1 - (IF p.method = "q" THEN m.b ELSE m.at) >= MaxHeader)
    BY <1>2
  <2> HIDE DEF far
  <2>3. QED BY <2>1, <2>2 DEF LineRead
<1>7. /\ line \in Seq(Nat) /\ (last < m.at => line = <<>>)
      /\ last >= m.at => line # <<>> /\ line[1] = m.at
  <2>1. last \in Int /\ m.at <= last + 1 /\ last - m.at + 1 \in Nat
    <3>1. last \in m.at - 1 .. q - 1
      BY <1>2
    <3>2. m.at \in Nat
      BY <1>1
    <3> HIDE DEF last
    <3>3. QED BY <3>1, <3>2
  <2>2. /\ line \in Seq(Nat) /\ Len(line) = last - m.at + 1
        /\ \A i \in 1 .. last - m.at + 1 : line[i] = m.at + i - 1
    BY <1>1, <2>1, PositionsAre
  <2> HIDE DEF line, last
  <2>3. last < m.at => line = <<>>
    BY <1>1, <2>1, <2>2
  <2>4. ASSUME last >= m.at PROVE line # <<>> /\ line[1] = m.at
    <3>1. 1 \in 1 .. last - m.at + 1 /\ m.at + 1 - 1 = m.at
      BY <1>1, <2>1, <2>4
    <3>2. QED BY <2>2, <3>1
  <2>5. QED BY <2>2, <2>3, <2>4
<1> HIDE DEF last, line
<1>8. p.method # "q" => text = line /\ kind = letter
  <2>1. CASE last < m.at
    BY <1>2, <1>5, <1>7, <2>1
  <2>2. CASE ~(last < m.at)
    <3>1. last >= m.at
      BY <1>1, <1>2, <2>2
    <3>2. QED BY <1>2, <1>5, <1>7, <2>2, <3>1
  <2>3. QED BY <2>1, <2>2
<1>9. p.method = "q" => text = m.text /\ kind = "q" /\ m.text # <<>>
  BY <1>2, <1>4, <1>5 DEF RequestSoFar
<1>10. text \in Seq(Nat)
  BY <1>1, <1>7, <1>8, <1>9
<1>11. t.logline = (m.text # <<>>) /\ (m.text = <<>> => p.method = "none" /\ m.at = m.b)
  BY <1>2, <1>4 DEF RequestSoFar
<1> HIDE DEF far, letter, RV
<1>12. ASSUME NEW e, RV = Stop(e) PROVE M = m.ev \o e
  <2>1. LineRead(stream, length, m, p.method, q, taken) = Stop(e)
    BY <1>1, <1>6, <1>12
  <2>2. QED BY <1>1, <2>1, EndStops
<1> HIDE DEF Stop, More, M
<1>13. ASSUME RV = Stop(<<<<"refused">>>>), NEW y, o = Refused(y, m.ev) PROVE Outcome(o)
  <2>1. <<"refused">> \in Call
    BY <1>10, CallsAre
  <2>2. Append(m.ev, <<"refused">>) = m.ev \o <<<<"refused">>>>
        /\ Append(m.ev, <<"refused">>) \in Seq(Call)
    BY <1>1, <2>1, TwoCalls
  <2>3. M = Append(m.ev, <<"refused">>)
    BY <1>12, <1>13, <2>2
  <2>4. QED BY <1>13, <2>2, <2>3, RefusedOutcome DEF M
<1>14. CASE far
  <2>1. RV = Stop(<<<<"refused">>>>)
    BY <1>14 DEF RV
  <2>2. o = Refused(t, m.ev)
    BY <1>3, <1>14
  <2>3. QED BY <1>13, <2>1, <2>2 DEF o
<1>15. CASE ~far /\ t.logline /\ kind # "x"
  <2>1. RV = Stop(<<<<"option", text>>, <<"refused">>>>)
    BY <1>8, <1>9, <1>11, <1>15 DEF RV
  <2>2. <<"refused">> \in Call /\ <<"option", text>> \in Call
    BY <1>10, CallsAre
  <2> DEFINE e == Append(m.ev, <<"option", text>>)
  <2>3. /\ e \in Seq(Call)
        /\ Append(e, <<"refused">>) = m.ev \o <<<<"option", text>>, <<"refused">>>>
    BY <1>1, <2>2, TwoCalls
  <2>4. o = Refused(t, e)
    BY <1>3, <1>15
  <2> HIDE DEF e
  <2>5. Append(e, <<"refused">>) \in Seq(Call)
    BY <2>2, <2>3, AppendProperties
  <2>6. M = Append(e, <<"refused">>)
    BY <1>12, <2>1, <2>3
  <2>7. Outcome(o)
    BY <2>4, <2>5, <2>6, RefusedOutcome DEF M
  <2>8. QED BY <2>7 DEF o
<1>16. CASE ~far /\ t.logline /\ kind = "x"
  <2>0. p.method # "q" /\ m.text # <<>> /\ letter = "x" /\ text = line
    BY <1>8, <1>9, <1>11, <1>16
  <2>1. RV = More(m.text, <<<<"option", text>>>>)
    BY <1>16, <2>0 DEF RV
  <2> DEFINE e == Append(m.ev, <<"option", text>>)
             y == [t EXCEPT !.line = t.parse]
  <2>2. <<"option", text>> \in Call
    BY <1>10, CallsAre
  <2>3. e \in Seq(Call) /\ e = m.ev \o <<<<"option", text>>>>
    BY <1>1, <2>2, TwoCalls
  <2>4. o = Out("scan", y, e)
    BY <1>3, <1>16
  <2>5. RV = Known(m.b, q + 1, m.text, e, FALSE)
    BY <2>1, <2>3 DEF More
  <2>6. /\ y.status = "ONE_LF" /\ y.parse = p.parse /\ Len(y.cs) = Len(p.cs)
        /\ y.logline = t.logline
        /\ y.method = p.method /\ y.ka = p.ka /\ y.line = p.parse
        /\ \A j \in p.parse + 1 .. Len(p.cs) : y.cs[j] = p.cs[j]
    BY <1>2 DEF Request
  <2>7. /\ m.text[1] = m.b /\ y.method = stream[m.b] /\ y.method \in {"g", "p", "q"}
        /\ y.ka = (y.method = "g") /\ y.logline = TRUE
    BY <1>4, <1>16, <2>0, <2>6 DEF RequestSoFar
  <2>8. \A k \in q .. Len(stream) :
           LineRead(stream, length, m, p.method, q, k) = Known(m.b, q + 1, m.text, e, FALSE)
    BY <1>6, <2>5
  <2>9. "scan" \in {"scan", "more"} /\ y.method # "q"
    BY <2>0, <2>6
  <2> HIDE DEF y, e
  <2>10. Outcome(Out("scan", y, e))
    BY <1>1, <2>0, <2>3, <2>6, <2>7, <2>8, <2>9, LineOutcome, ZenonT(40)
  <2>11. QED BY <2>4, <2>10 DEF o
<1>17. CASE ~far /\ ~t.logline /\ kind \notin {"g", "o", "p", "q"}
  <2>1. m.text = <<>> /\ kind = letter
    BY <1>8, <1>11, <1>17
  <2>2. RV = Stop(<<<<"refused">>>>)
    BY <1>17, <2>1 DEF RV
  <2>3. o = Refused([t EXCEPT !.logline = TRUE], m.ev)
    BY <1>3, <1>17
  <2>4. QED BY <1>13, <2>2, <2>3 DEF o
<1>18. CASE ~far /\ ~t.logline /\ kind \in {"g", "o", "p", "q"}
  <2>1. m.text = <<>> /\ kind = letter /\ text = line /\ p.method = "none" /\ m.at = m.b
    BY <1>8, <1>11, <1>18
  <2>2. last >= m.at /\ letter = stream[m.b]
    BY <1>1, <1>2, <1>18, <2>1 DEF letter, last
  <2>3. text # <<>> /\ text[1] = m.b
    BY <1>7, <2>1, <2>2
  <2> DEFINE l == [t EXCEPT !.logline = TRUE, !.method = kind, !.ka = (kind = "g")]
             seen == Append(m.ev, <<"request", text>>)
  <2>4. o = IF kind \in {"o", "q"} THEN process_header_end(l, seen)
            ELSE Out("scan", [l EXCEPT !.line = l.parse], seen)
    BY <1>3, <1>18
  <2>5. /\ l \in Request /\ l.status = "ONE_LF" /\ l.parse = p.parse /\ l.cs = t.cs
        /\ l.logline = TRUE /\ l.method = kind /\ l.ka = (kind = "g") /\ l.line = t.line
    <3>1. kind \in {"none", "g", "o", "p", "q"} /\ (kind = "g") \in BOOLEAN /\ TRUE \in BOOLEAN
      BY <1>18
    <3> DEFINE ka == (kind = "g")
    <3> HIDE DEF ka
    <3>2. [t EXCEPT !.logline = TRUE, !.method = kind, !.ka = ka] \in Request
      BY <1>2, <3>1 DEF Request, ka
    <3>3. l \in Request
      BY <3>2 DEF ka
    <3>4. QED BY <1>2, <3>3 DEF Request
  <2>6. <<"request", text>> \in Call /\ <<"end">> \in Call
    BY <1>10, CallsAre
  <2>7. /\ seen \in Seq(Call) /\ seen = m.ev \o <<<<"request", text>>>>
        /\ Append(seen, <<"end">>) = m.ev \o <<<<"request", text>>, <<"end">>>>
    BY <1>1, <2>6, TwoCalls
  <2> HIDE DEF l, seen
  <2>8. Append(seen, <<"end">>) \in Seq(Call)
    BY <2>6, <2>7, AppendProperties
  <2>9. CASE kind \in {"g", "p"}
    <3> DEFINE y == [l EXCEPT !.line = l.parse]
    <3>1. o = Out("scan", y, seen)
      BY <2>4, <2>9
    <3>2. RV = Known(m.b, q + 1, text, seen, FALSE)
      BY <1>18, <2>1, <2>7, <2>9 DEF RV, More
    <3>3. /\ y.status = "ONE_LF" /\ y.parse = p.parse /\ y.cs = t.cs /\ y.logline = TRUE
          /\ y.method = kind /\ y.ka = (kind = "g") /\ y.line = p.parse
      BY <2>5 DEF Request
    <3>4. Len(y.cs) = Len(p.cs) /\ \A j \in p.parse + 1 .. Len(p.cs) : y.cs[j] = p.cs[j]
      BY <1>2, <3>3
    <3>5. y.method = stream[m.b] /\ y.method \in {"g", "p", "q"} /\ y.method # "q"
      BY <2>1, <2>2, <2>9, <3>3
    <3>6. \A k \in q .. Len(stream) :
             LineRead(stream, length, m, p.method, q, k) = Known(m.b, q + 1, text, seen, FALSE)
      BY <1>6, <3>2
    <3>7. "scan" \in {"scan", "more"} /\ y.ka = (y.method = "g")
      BY <3>3
    <3> HIDE DEF y
    <3>8. Outcome(Out("scan", y, seen))
      BY <1>10, <2>3, <2>7, <3>3, <3>4, <3>5, <3>6, <3>7, LineOutcome, ZenonT(40)
    <3>9. QED BY <3>1, <3>8 DEF o
  <2>10. CASE kind = "q"
    <3> DEFINE e == Append(seen, <<"end">>)
               y == [l EXCEPT !.post = <<>>]
    <3>1. o = Out("more", y, e)
      BY <2>4, <2>5, <2>10 DEF process_header_end
    <3>2. RV = Known(m.b, q + 1, text, e, FALSE)
      BY <1>18, <2>1, <2>7, <2>10 DEF RV, More
    <3>3. /\ y.status = "ONE_LF" /\ y.parse = p.parse /\ y.cs = t.cs /\ y.logline = TRUE
          /\ y.method = kind /\ y.ka = (kind = "g") /\ y.line = t.line
      BY <2>5 DEF Request
    <3>4. Len(y.cs) = Len(p.cs) /\ \A j \in p.parse + 1 .. Len(p.cs) : y.cs[j] = p.cs[j]
      BY <1>2, <3>3
    <3>5. y.method = stream[m.b] /\ y.method \in {"g", "p", "q"} /\ y.method = "q"
      BY <2>1, <2>2, <2>10, <3>3
    <3>6. \A k \in q .. Len(stream) :
             LineRead(stream, length, m, p.method, q, k) = Known(m.b, q + 1, text, e, FALSE)
      BY <1>6, <3>2
    <3>7. "more" \in {"scan", "more"} /\ y.ka = (y.method = "g")
      BY <3>3
    <3>8. y.line = 0 /\ Text(y) = text
      <4>1. p.line = 0
        BY <1>1, <1>4, <2>1 DEF RequestSoFar
      <4>2. QED BY <1>2, <3>3, <4>1 DEF Text, text
    <3>9. FirstFrom(y.cs, 0, 1) \in 1 .. p.parse
      <4>1. FirstFrom(y.cs, 0, 1) = p.hend + 1
        <5>1. t.line + 1 = 1 /\ p.method # "q"
          BY <2>1, <3>3, <3>8
        <5>2. QED BY <1>2, <3>3, <5>1
      <4>2. p.hend \in Nat /\ p.hend < p.parse /\ p.parse \in Nat
        BY DEF Bounded, Request, Scanning
      <4>3. QED BY <4>1, <4>2
    <3>10. q = FirstFrom(stream, "LF", m.b)
      <4>1. /\ stream[q] = "LF" /\ \A i \in m.b .. q - 1 : stream[i] # "LF"
        BY <2>1 DEF AtLineEnd
      <4>2. q \in m.b .. Len(stream) /\ stream \in Seq(Byte)
        BY <1>1 DEF StreamKnown
      <4>3. QED BY <1>1, <4>1, <4>2, FirstFromFound
    <3> HIDE DEF y, e
    <3>11. Outcome(Out("more", y, e))
      <4>1. e \in Seq(Call)
        BY <2>8 DEF e
      <4>2. QED BY <1>10, <2>3, <4>1, <3>3, <3>4, <3>5, <3>6, <3>7, <3>8, <3>9, <3>10, LineOutcome
    <3>12. QED BY <3>1, <3>11 DEF o
  <2>11. CASE kind = "o"
    <3> DEFINE e == Append(seen, <<"end">>)
               y == [l EXCEPT !.status = "WRITE"]
    <3>1. o = Out("respond", y, e)
      BY <2>4, <2>5, <2>11 DEF process_header_end
    <3>2. RV = Stop(<<<<"request", text>>, <<"end">>>>)
      BY <1>18, <2>1, <2>11 DEF RV
    <3>3. M = e
      BY <1>12, <2>7, <3>2
    <3>4. y.ka = FALSE
      BY <2>5, <2>11 DEF Request
    <3>5. o.ret = "respond" /\ o.c = y /\ o.ev = e
      BY <3>1 DEF Out
    <3> HIDE DEF y, e
    <3>6. Seqs!IsPrefix(o.ev, M)
      BY <2>8, <3>3, <3>5, PrefixSelf DEF e
    <3>7. Outcome(o)
      BY <3>4, <3>5, <3>6 DEF Outcome, M
    <3>8. QED BY <3>7 DEF o
  <2>12. QED BY <1>18, <2>9, <2>10, <2>11
<1>19. Outcome(o)
  BY <1>14, <1>15, <1>16, <1>17, <1>18 DEF o
<1>20. QED BY <1>19 DEF o

(* w places of the stream behind d. *)
LEMMA PlacesAre ==
    ASSUME NEW d \in Nat, NEW w \in Nat
    PROVE  /\ Positions(d + 1, d + w) \in Seq(Nat) /\ Len(Positions(d + 1, d + w)) = w
           /\ \A i \in 1 .. w : Positions(d + 1, d + w)[i] = d + i
<1> DEFINE f == d + 1
           g == d + w
<1>1. /\ f \in Nat \ {0} /\ g \in Int /\ f <= g + 1 /\ g - f + 1 = w
      /\ \A i \in 1 .. w : f + i - 1 = d + i
  OBVIOUS
<1> HIDE DEF f, g
<1>2. /\ Positions(f, g) \in Seq(Nat) /\ Len(Positions(f, g)) = g - f + 1
      /\ \A i \in 1 .. g - f + 1 : Positions(f, g)[i] = f + i - 1
  BY <1>1, PositionsAre
<1> DEFINE p == Positions(f, g)
<1> HIDE DEF p
<1>3. p \in Seq(Nat) /\ Len(p) = w /\ \A i \in 1 .. w : p[i] = d + i
  BY <1>1, <1>2 DEF p
<1>4. QED BY <1>3 DEF p, f, g

(* A part of a buffer that holds bytes of the stream one after the other. *)
Holds(s, a, w, d) == \A i \in 1 .. w : s[a + i] = d + i

LEMMA PieceIs ==
    ASSUME NEW s \in Seq(Nat), NEW a \in Nat, NEW w \in Nat, a + w <= Len(s), NEW d \in Nat,
           Holds(s, a, w, d)
    PROVE  SubSeq(s, a + 1, a + w) = Positions(d + 1, d + w)
<1> DEFINE u == SubSeq(s, a + 1, a + w)
           p == Positions(d + 1, d + w)
<1>1. Len(s) \in Nat
  OBVIOUS
<1>2. u \in Seq(Nat) /\ Len(u) = w /\ \A i \in 1 .. w : u[i] = s[a + i]
  <2>1. a + 1 \in 1 .. Len(s) + 1 /\ a + w \in a .. Len(s) /\ \A i \in a + 1 .. a + w : s[i] \in Nat
    BY <1>1
  <2>2. u \in Seq(Nat) /\ Len(u) = IF a + 1 <= a + w THEN (a + w) - (a + 1) + 1 ELSE 0
    BY <2>1, SubSeqProperties
  <2>3. \A i \in 1 .. (a + w) - (a + 1) + 1 : u[i] = s[a + 1 + i - 1]
    BY <2>1, SubSeqProperties
  <2> HIDE DEF u
  <2>4. Len(u) = w
    BY <2>2
  <2>5. ASSUME NEW i \in 1 .. w PROVE u[i] = s[a + i]
    <3>1. i \in 1 .. (a + w) - (a + 1) + 1 /\ a + 1 + i - 1 = a + i
      OBVIOUS
    <3>2. QED BY <2>3, <3>1
  <2>6. QED BY <2>2, <2>4, <2>5
<1>3. p \in Seq(Nat) /\ Len(p) = w /\ \A i \in 1 .. w : p[i] = d + i
  BY PlacesAre
<1> HIDE DEF u, p
<1>4. \A i \in 1 .. w : u[i] = p[i]
  BY <1>2, <1>3 DEF Holds
<1>5. u = p
  BY <1>2, <1>3, <1>4, SeqEqual
<1>6. QED BY <1>5 DEF u, p

(* The end of the header, the code and the reference. *)
LEMMA HeaderEndOutcome ==
    ASSUME StreamKnown, NEW m, NEW p, NEW q, AtLineEnd(m, p, q), Bounded(p), NoBody(p),
           p.status = "BODY_READ", LastLetter(stream, m.at, q - 1) = m.at - 1, m.text # <<>>
    PROVE  Outcome(HeaderEnd(p, m.ev))
<1> DEFINE seen == Append(m.ev, <<"end">>)
           R(k) == LineRead(stream, length, m, p.method, q, k)
           Stop(e) == Known(m.b, m.at, m.text, m.ev \o e, TRUE)
           next == Known(q + 1, q + 1, <<>>, seen, FALSE)
           body == <<"body", Positions(q + 1, q + length)>>
           o == HeaderEnd(p, m.ev)
           M(k) == Meaning(Upto(stream, k), length)
<1>1. /\ m.b \in Nat \ {0} /\ m.at \in Nat \ {0} /\ m.b <= m.at /\ q \in m.at .. taken
      /\ p.parse = q - m.b + 1 /\ q \in Nat /\ m.text \in Seq(Nat) /\ m.ev \in Seq(Call)
      /\ taken \in q .. Len(stream) /\ Len(stream) \in Nat /\ taken \in Nat
  BY EndFacts
<1>2. /\ p.method \in {"g", "p", "q"} /\ p.ka = (p.method = "g")
      /\ \A j \in m.at - m.b + 1 .. Len(p.cs) : p.cs[j] = m.b - 1 + j
      /\ taken = m.b - 1 + Len(p.cs)
  BY DEF AtLineEnd, RequestSoFar
<1>3. p \in Request /\ p.cs \in Seq(Nat) /\ p.parse \in Nat /\ p.parse <= Len(p.cs)
      /\ Len(p.cs) \in Nat
  BY DEF Bounded, Request
<1>4. ASSUME NEW k \in q .. Len(stream)
      PROVE  R(k) = IF p.method = "g" THEN next
                    ELSE IF length < 0 THEN Stop(<<<<"end">>, <<"refused">>>>)
                    ELSE Stop(IF q + length <= k THEN <<<<"end">>, body>> ELSE <<<<"end">>>>)
  <2>1. LastLetter(stream, m.at, q - 1) < m.at
    BY <1>1
  <2>2. QED BY <2>1 DEF LineRead
<1>5. <<"end">> \in Call /\ <<"refused">> \in Call
  BY <1>1, CallsAre
<1>6. /\ seen \in Seq(Call) /\ seen = m.ev \o <<<<"end">>>>
      /\ Append(seen, <<"refused">>) = m.ev \o <<<<"end">>, <<"refused">>>>
      /\ seen # <<>>
  <2>1. /\ seen \in Seq(Call) /\ seen = m.ev \o <<<<"end">>>>
        /\ Append(seen, <<"refused">>) = m.ev \o <<<<"end">>, <<"refused">>>>
    BY <1>1, <1>5, TwoCalls
  <2>2. seen # <<>>
    <3>1. Len(seen) = Len(m.ev) + 1 /\ Len(m.ev) \in Nat
      BY <1>1, <1>5, AppendProperties
    <3> HIDE DEF seen
    <3>2. QED BY <3>1
  <2>3. QED BY <2>1, <2>2
<1>7. \A j \in p.parse + 1 .. Len(p.cs) : p.cs[j] = m.b - 1 + j
  <2>1. ASSUME NEW j \in p.parse + 1 .. Len(p.cs) PROVE j \in m.at - m.b + 1 .. Len(p.cs)
    <3> DEFINE a == m.at
               b == m.b
               l == Len(p.cs)
               f == p.parse
    <3>1. a \in Nat /\ b \in Nat /\ l \in Nat /\ f = q - b + 1 /\ q \in Nat /\ a <= q
          /\ j \in f + 1 .. l
      BY <1>1, <1>3
    <3> HIDE DEF a, b, l, f
    <3>2. j \in a - b + 1 .. l
      BY <3>1
    <3>3. QED BY <3>2 DEF a, b, l
  <2>2. QED BY <1>2, <2>1
<1>8. CASE p.method = "g"
  <2> DEFINE y == [p EXCEPT !.status = "WRITE"]
  <2>1. o = Out("respond", y, seen)
    BY <1>8 DEF HeaderEnd, process_header_end, Out
  <2>2. y.cs = p.cs /\ y.parse = p.parse
    BY <1>3 DEF Request
  <2>3. next \in Reading /\ next.b = q + 1 /\ next.at = q + 1 /\ next.text = <<>> /\ next.ev = seen
        /\ ~next.over
    <3> DEFINE f == q + 1
    <3>1. f \in Nat \ {0} /\ <<>> \in Seq(Nat)
      BY <1>1
    <3> HIDE DEF f, seen
    <3>2. Known(f, f, <<>>, seen, FALSE) \in Reading
      BY <1>6, <3>1, Zenon DEF Known, Reading
    <3>3. Known(f, f, <<>>, seen, FALSE) = next
      BY DEF f
    <3>4. next \in Reading
      BY <3>2, <3>3
    <3>5. QED BY <3>4 DEF Known
  <2>4. \A k \in q .. Len(stream) : LineRead(stream, length, m, p.method, q, k) = next
    BY <1>4, <1>8
  <2>5. o.ret = "respond" /\ o.c = y /\ o.ev = seen
    BY <2>1 DEF Out
  <2> HIDE DEF next, y, seen, o
  <2>6. Reached(stream, length, next) /\ Seqs!IsPrefix(seen, M(taken))
    BY <2>3, <2>4, EndGoesOn
  <2>7. taken = next.b - 1 + Len(y.cs) - y.parse
    <3> DEFINE b == m.b
               l == Len(p.cs)
               f == p.parse
    <3>1. taken = b - 1 + l /\ b \in Nat /\ l \in Nat /\ f = q - b + 1 /\ q \in Nat
      BY <1>1, <1>2, <1>3
    <3> HIDE DEF b, l, f
    <3>2. taken = (q + 1) - 1 + l - f
      BY <3>1
    <3>3. QED BY <2>2, <2>3, <3>2 DEF l, f
  <2>8. \A j \in y.parse + 1 .. Len(y.cs) : y.cs[j] = next.b - 1 + (j - y.parse)
    <3>1. ASSUME NEW j \in p.parse + 1 .. Len(p.cs) PROVE m.b - 1 + j = (q + 1) - 1 + (j - p.parse)
      <4> DEFINE b == m.b
                 f == p.parse
      <4>1. b \in Nat /\ f = q - b + 1 /\ q \in Nat /\ j \in Int
        BY <1>1
      <4> HIDE DEF b, f
      <4>2. b - 1 + j = (q + 1) - 1 + (j - f)
        BY <4>1
      <4>3. QED BY <4>2 DEF b, f
    <3>2. QED BY <1>7, <2>2, <2>3, <3>1
  <2>9. NextState(stream, length, next, y, seen, taken)
    BY <1>6, <2>3, <2>6, <2>7, <2>8 DEF NextState
  <2>10. Outcome(o)
    BY <2>5, <2>6, <2>9 DEF Outcome
  <2>11. QED BY <2>10 DEF o
<1>9. CASE p.method # "g"
  <2> DEFINE y == [p EXCEPT !.post = <<>>]
             rest == Len(p.cs) - p.parse
             part == IF rest > length THEN length ELSE rest
             z == [p EXCEPT !.post = <<>>, !.status = "BODY_WRITE", !.filesize = length, !.filepos = 0,
                            !.line = p.parse, !.hend = p.parse + part]
  <2>1. p.method \in {"p", "q"} /\ y \in Request /\ y.cs = p.cs /\ y.parse = p.parse
    <3>1. p.method \in {"p", "q"}
      BY <1>2, <1>9
    <3>2. <<>> \in Seq(Nat)
      OBVIOUS
    <3>3. y.cs = p.cs /\ y.parse = p.parse
      BY <1>3 DEF Request
    <3>4. y \in Request
      BY <1>3, <3>2, Zenon DEF Request
    <3>5. QED BY <3>1, <3>3, <3>4
  <2> DEFINE e == process_header_end(p, m.ev)
  <2>2. e = Out("more", y, seen)
    BY <2>1 DEF process_header_end
  <2>3. CASE length < 0
    <3>1. o = Refused(y, seen)
      BY <2>2, <2>3 DEF HeaderEnd, Out, e
    <3>2. R(taken) = Known(m.b, m.at, m.text, m.ev \o <<<<"end">>, <<"refused">>>>, TRUE)
      BY <1>1, <1>4, <1>9, <2>3
    <3>3. M(taken) = m.ev \o <<<<"end">>, <<"refused">>>>
      BY <1>1, <3>2, EndStops
    <3>4. Append(seen, <<"refused">>) \in Seq(Call)
      BY <1>5, <1>6, AppendProperties
    <3> HIDE DEF y, seen
    <3>5. Outcome(o)
      BY <1>6, <3>1, <3>3, <3>4, RefusedOutcome
    <3>6. QED BY <3>5
  <2>4. CASE ~(length < 0)
    <3>1. length \in Nat /\ rest \in Nat /\ part \in Nat /\ part <= rest
          /\ (part < length => part = rest)
      BY <1>3, <2>4 DEF StreamKnown
    <3>2. o = Out("more", z, seen)
      <4>1. o = Out("more", [y EXCEPT !.status = "BODY_WRITE", !.filesize = length, !.filepos = 0,
                                      !.line = y.parse,
                                      !.hend = y.parse + (IF Len(y.cs) - y.parse > length
                                                          THEN length ELSE Len(y.cs) - y.parse)], seen)
        <5>1. e.ret = "more" /\ e.c = y /\ e.ev = seen
          BY <2>2 DEF Out
        <5>2. o = LET pe == e.c
                      bd == Len(pe.cs) - pe.parse
                  IN  IF e.ret # "more" THEN e
                      ELSE IF length < 0 THEN Refused(pe, e.ev)
                      ELSE Out("more", [pe EXCEPT !.status = "BODY_WRITE", !.filesize = length,
                                                  !.filepos = 0, !.line = pe.parse,
                                                  !.hend = pe.parse + (IF bd > length THEN length
                                                                       ELSE bd)], e.ev)
          BY DEF HeaderEnd
        <5> HIDE DEF e, y, o, seen
        <5>3. QED BY <2>4, <5>1, <5>2
      <4>2. [y EXCEPT !.status = "BODY_WRITE", !.filesize = length, !.filepos = 0, !.line = p.parse,
                      !.hend = p.parse + part] = z
        <5> DEFINE h == p.parse + part
        <5> HIDE DEF h, part
        <5>1. QED BY <1>3 DEF Request, h
      <4>3. QED BY <2>1, <4>1, <4>2
    <3>3. /\ z.cs = p.cs /\ z.inbuf = FALSE /\ z.line = p.parse /\ z.hend = p.parse + part
          /\ z.filesize = length /\ z.filepos = 0 /\ z.post = <<>> /\ z.status = "BODY_WRITE"
      <4> DEFINE h == p.parse + part
      <4> HIDE DEF h, part
      <4>1. z = [p EXCEPT !.post = <<>>, !.status = "BODY_WRITE", !.filesize = length, !.filepos = 0,
                          !.line = p.parse, !.hend = h]
        BY DEF h
      <4> HIDE DEF z
      <4>2. QED BY <1>3, <4>1 DEF Request, NoBody, h
    <3>4. o.ret = "more" /\ o.c = z /\ o.ev = seen
      BY <3>2 DEF Out
    <3>5. Positions(q + 1, q + length) \in Seq(Nat) /\ body \in Call
      <4> DEFINE f == q + 1
                 g == q + length
      <4>1. f \in Nat \ {0} /\ g \in Int /\ f <= g + 1
        BY <1>1, <3>1
      <4> HIDE DEF f, g
      <4>2. Positions(f, g) \in Seq(Nat)
        BY <4>1, PositionsAre
      <4>3. QED BY <4>2, CallsAre DEF f, g
    <3> HIDE DEF z, o, part, rest, body, seen
    <3>6. ASSUME NEW k \in q .. Len(stream)
          PROVE  M(k) = seen \o (IF q + length <= k THEN <<body>> ELSE <<>>)
      <4>1. CASE q + length <= k
        <5>1. R(k) = Known(m.b, m.at, m.text, m.ev \o <<<<"end">>, body>>, TRUE)
          BY <1>4, <1>9, <2>4, <4>1
        <5>2. M(k) = m.ev \o <<<<"end">>, body>>
          BY <5>1, EndStops
        <5>3. Append(seen, body) = m.ev \o <<<<"end">>, body>>
              /\ Append(seen, body) = seen \o <<body>>
          BY <1>1, <1>5, <1>6, <3>5, TwoCalls DEF seen
        <5>4. QED BY <4>1, <5>2, <5>3
      <4>2. CASE ~(q + length <= k)
        <5>1. R(k) = Known(m.b, m.at, m.text, m.ev \o <<<<"end">>>>, TRUE)
          BY <1>4, <1>9, <2>4, <4>2
        <5>2. M(k) = m.ev \o <<<<"end">>>>
          BY <5>1, EndStops
        <5>3. seen \o <<>> = seen
          BY <1>6, ConcatEmptySeq
        <5>4. QED BY <1>6, <4>2, <5>2, <5>3
      <4>3. QED BY <4>1, <4>2
    <3>7. Seqs!IsPrefix(seen, M(taken))
      <4>1. (IF q + length <= taken THEN <<body>> ELSE <<>>) \in Seq(Call)
        BY <3>5
      <4> DEFINE added == IF q + length <= taken THEN <<body>> ELSE <<>>
      <4>2. M(taken) = seen \o added
        BY <1>1, <3>6
      <4> HIDE DEF added
      <4>3. QED BY <1>6, <4>1, <4>2, PrefixConcat DEF added
    <3>8. BodyState(stream, length, q, z, seen, taken)
      <4>1. q \in 0 .. Len(stream)
        BY <1>1
      <4>2. z.hend - z.line = part
        BY <1>3, <3>1, <3>3
      <4>3. z.post = Positions(q + 1, q + z.filepos)
        <5>1. q + z.filepos = q /\ q - (q + 1) + 1 = 0
          BY <1>1, <3>3
        <5>2. Positions(q + 1, q) = <<>>
          <6>1. 1 .. q - (q + 1) + 1 = {}
            BY <5>1
          <6>2. QED BY <6>1 DEF Positions
        <5>3. QED BY <3>3, <5>1, <5>2
      <4>4. Pending(z) = Positions(q + z.filepos + 1, q + z.filepos + (z.hend - z.line))
        <5>1. Pending(z) = SubSeq(p.cs, p.parse + 1, p.parse + part)
          BY <3>3 DEF Pending
        <5>2. p.parse + part <= Len(p.cs) /\ q + z.filepos = q
          <6> DEFINE l == Len(p.cs)
                     f == p.parse
          <6>1. l \in Nat /\ f \in Nat /\ part \in Nat /\ part <= l - f /\ q \in Nat
                /\ z.filepos = 0
            BY <1>1, <1>3, <3>1, <3>3 DEF rest
          <6> HIDE DEF l, f
          <6>2. f + part <= l /\ q + z.filepos = q
            BY <6>1
          <6>3. QED BY <6>2 DEF l, f
        <5>3. ASSUME NEW i \in 1 .. part PROVE p.cs[p.parse + i] = q + i
          <6> DEFINE b == m.b
                     l == Len(p.cs)
                     f == p.parse
          <6>1. b \in Nat /\ l \in Nat /\ f = q - b + 1 /\ q \in Nat /\ f \in Nat /\ i \in 1 .. part
                /\ part \in Nat /\ f + part <= l
            BY <1>1, <1>3, <3>1, <5>2
          <6> HIDE DEF b, l, f
          <6>2. f + i \in f + 1 .. l /\ b - 1 + (f + i) = q + i
            BY <6>1
          <6>3. QED BY <1>7, <6>2 DEF b, l, f
        <5>4. SubSeq(p.cs, p.parse + 1, p.parse + part) = Positions(q + 1, q + part)
          <6> DEFINE s == p.cs
                     a == p.parse
          <6>1. /\ s \in Seq(Nat) /\ a \in Nat /\ part \in Nat /\ a + part <= Len(s) /\ q \in Nat
                /\ Holds(s, a, part, q)
            BY <1>1, <1>3, <3>1, <5>2, <5>3 DEF Holds
          <6> HIDE DEF s, a
          <6>2. SubSeq(s, a + 1, a + part) = Positions(q + 1, q + part)
            BY <6>1, PieceIs
          <6>3. QED BY <6>2 DEF s, a
        <5>5. QED BY <4>2, <5>1, <5>2, <5>4
      <4>5. /\ q + z.filepos + (z.hend - z.line) <= taken
            /\ z.hend - z.line < length - z.filepos => taken = q + z.filepos + (z.hend - z.line)
        <5> DEFINE b == m.b
                   l == Len(p.cs)
                   f == p.parse
        <5>1. /\ b \in Nat /\ l \in Nat /\ f = q - b + 1 /\ q \in Nat /\ taken = b - 1 + l
              /\ part \in Nat /\ part <= l - f /\ (part < length => part = l - f) /\ length \in Nat
          BY <1>1, <1>2, <1>3, <3>1 DEF rest
        <5> HIDE DEF b, l, f
        <5>2. q + 0 + part <= taken /\ (part < length - 0 => taken = q + 0 + part)
          BY <5>1
        <5>3. QED BY <3>3, <4>2, <5>2
      <4>6. \A k \in q .. Len(stream) :
               Meaning(Upto(stream, k), length) =
                  seen \o (IF q + length <= k THEN <<<<"body", Positions(q + 1, q + length)>>>>
                           ELSE <<>>)
        BY <3>6 DEF body
      <4>7. QED BY <1>6, <3>1, <3>3, <4>1, <4>3, <4>4, <4>5, <4>6 DEF BodyState
    <3>9. z.status \notin Scanning /\ q \in 0 .. Len(stream)
      BY <1>1, <3>3 DEF Scanning
    <3>10. Outcome(o)
      BY <3>3, <3>4, <3>7, <3>8, <3>9 DEF Outcome
    <3>11. QED BY <3>10 DEF o
  <2>5. QED BY <2>3, <2>4
<1>10. QED BY <1>8, <1>9

(* One byte more of a line. *)
LEMMA LineStep ==
    ASSUME NEW m \in Reading, NEW x, x.parse \in Nat, x.status \in Scanning,
           LineSoFar(stream, m, x), NEW q, q = m.b + x.parse, stream[q] # "bad",
           NEW p, p.status = Step(x.status, stream[q]), p.parse = x.parse + 1,
           p.hend = IF x.status = "READ_HEADER" /\ stream[q] \in {"CR", "LF"}
                    THEN x.parse ELSE x.hend
    PROVE  /\ m.at <= q /\ \A i \in m.at .. q - 1 : stream[i] \notin {"LF", "bad"}
           /\ p.status \notin {"ONE_LF", "BODY_READ"} => LineSoFar(stream, m, p)
           /\ p.status = "ONE_LF" =>
                 /\ stream[q] = "LF" /\ p.hend = LastLetter(stream, m.at, q - 1) - m.b + 1
                 /\ m.text # <<>> => LastLetter(stream, m.at, q - 1) >= m.at
           /\ p.status = "BODY_READ" =>
                 /\ stream[q] = "LF" /\ LastLetter(stream, m.at, q - 1) = m.at - 1
                 /\ m.text # <<>>
<1> DEFINE b == stream[q]
           to == m.b - 1 + x.parse
           last == LastLetter(stream, m.at, to)
           next == LastLetter(stream, m.at, to + 1)
           mb == m.b
           at == m.at
           xp == x.parse
<1>1. /\ mb \in Nat \ {0} /\ at \in Nat \ {0} /\ xp \in Nat /\ to = mb - 1 + xp /\ q = mb + xp
  BY DEF Reading
<1>2. /\ at <= to + 1 /\ (\A i \in at .. to : stream[i] \notin {"LF", "bad"})
      /\ x.status = "READ_HEADER" => last = to
      /\ x.status = "ONE_CR" => x.hend = last - mb + 1
      /\ x.status \in {"READ_HEADER", "ONE_CR"} /\ m.text # <<>> => last >= at
      /\ x.status \in {"ONE_LF", "TWO_CR"} => last = at - 1 /\ m.text # <<>>
  BY DEF LineSoFar
<1>3. to \in Nat /\ to = q - 1 /\ to + 1 = q /\ to = q - 1 /\ m.b - 1 + p.parse = q
  <2> HIDE DEF mb, at, xp, to
  <2>1. to \in Nat /\ to = q - 1 /\ to + 1 = q /\ mb - 1 + (xp + 1) = q
    BY <1>1
  <2>2. QED BY <2>1 DEF mb, xp
<1>4. next = IF stream[to + 1] = "CR" THEN last ELSE to + 1
  <2> DEFINE s == stream
  <2> HIDE DEF s, at, to
  <2>1. LastLetter(s, at, to + 1) = IF s[to + 1] = "CR" THEN LastLetter(s, at, to) ELSE to + 1
    BY <1>1, <1>2, <1>3, LastLetterNext
  <2>2. QED BY <2>1 DEF s, at
<1>5. next = IF b = "CR" THEN last ELSE q
  BY <1>3, <1>4
<1>6. LastLetter(stream, m.at, q - 1) = last /\ LastLetter(stream, m.at, q) = next
  BY <1>3
<1>7. xp = to - mb + 1
  <2> HIDE DEF mb, xp, to
  <2>1. QED BY <1>1
<1>8. at <= q /\ \A i \in at .. q - 1 : stream[i] \notin {"LF", "bad"}
  BY <1>2, <1>3
<1>9. ASSUME p.status = "ONE_LF"
      PROVE  b = "LF" /\ p.hend = last - m.b + 1 /\ (m.text # <<>> => last >= m.at)
  <2>1. b = "LF" /\ x.status \in {"READ_HEADER", "ONE_CR"}
    <3> HIDE DEF b
    <3>1. p.status = Step(x.status, b)
      BY DEF b
    <3>2. QED BY <1>9, <3>1 DEF Step, Scanning
  <2>2. p.hend = IF x.status = "READ_HEADER" THEN xp ELSE x.hend
    BY <2>1
  <2> HIDE DEF b, last, mb, xp, to, at
  <2>3. p.hend = last - mb + 1 /\ (m.text # <<>> => last >= at)
    BY <1>2, <1>7, <2>1, <2>2
  <2>4. QED BY <2>1, <2>3 DEF mb, at
<1>10. ASSUME p.status = "BODY_READ"
       PROVE  b = "LF" /\ last = m.at - 1 /\ m.text # <<>>
  <2>1. b = "LF" /\ x.status \in {"ONE_LF", "TWO_CR"}
    <3> HIDE DEF b
    <3>1. p.status = Step(x.status, b)
      BY DEF b
    <3>2. QED BY <1>10, <3>1 DEF Step, Scanning
  <2>2. QED BY <1>2, <2>1
<1>11. ASSUME p.status \notin {"ONE_LF", "BODY_READ"} PROVE LineSoFar(stream, m, p)
  <2>1. /\ b # "LF"
        /\ b = "CR" => /\ x.status \in {"READ_HEADER", "ONE_CR"} => p.status = "ONE_CR"
                       /\ x.status \in {"ONE_LF", "TWO_CR"} => p.status = "TWO_CR"
        /\ b # "CR" => p.status = "READ_HEADER"
    <3> HIDE DEF b
    <3>1. p.status = Step(x.status, b)
      BY DEF b
    <3>2. QED BY <1>11, <3>1 DEF Step, Scanning
  <2>2. p.hend = IF x.status = "READ_HEADER" /\ b = "CR" THEN xp ELSE x.hend
    BY <2>1
  <2>3. b # "bad" /\ q \in Int /\ at \in Nat
    BY <1>1, <1>3
  <2>4. \A i \in at .. q : stream[i] \notin {"LF", "bad"}
    <3>1. ASSUME NEW i \in at .. q PROVE stream[i] \notin {"LF", "bad"}
      <4>1. CASE i = q
        BY <2>1, <2>3, <4>1
      <4>2. CASE i # q
        BY <1>8, <2>3, <4>2
      <4>3. QED BY <4>1, <4>2
    <3>2. QED BY <3>1
  <2> HIDE DEF b, last, next, mb, xp, to, at
  <2>5. x.status \in {"READ_HEADER", "ONE_CR", "ONE_LF", "TWO_CR"}
    BY DEF Scanning
  <2>6. CASE b = "CR"
    <3>1. next = last
      BY <1>5, <2>6
    <3>2. CASE x.status \in {"READ_HEADER", "ONE_CR"}
      <4>1. p.status = "ONE_CR" /\ p.hend = next - mb + 1 /\ (m.text # <<>> => next >= at)
        BY <1>2, <1>7, <2>1, <2>2, <2>6, <3>1, <3>2
      <4>2. QED BY <1>3, <1>6, <1>8, <2>3, <2>4, <4>1 DEF LineSoFar, mb, at
    <3>3. CASE x.status \in {"ONE_LF", "TWO_CR"}
      <4>1. p.status = "TWO_CR" /\ next = at - 1 /\ m.text # <<>>
        BY <1>2, <2>1, <2>6, <3>1, <3>3
      <4>2. QED BY <1>3, <1>6, <1>8, <2>3, <2>4, <4>1 DEF LineSoFar, mb, at
    <3>4. QED BY <2>5, <3>2, <3>3
  <2>7. CASE b # "CR"
    <3>1. next = q /\ p.status = "READ_HEADER" /\ q >= at /\ at <= q + 1
      BY <1>5, <1>8, <2>1, <2>3, <2>7
    <3>2. QED BY <1>3, <1>6, <1>8, <2>4, <3>1 DEF LineSoFar, at
  <2>8. QED BY <2>6, <2>7
<1>12. QED BY <1>6, <1>8, <1>9, <1>10, <1>11

(* One byte, the code and the reference. *)
LEMMA ByteOutcome ==
    ASSUME StreamKnown, NEW o, o.ret = "scan", NEW m, NEW q,
           ScanState(stream, length, m, o.c, o.ev, taken), taken <= Len(stream),
           Bounded(o.c), NoBody(o.c), o.c.status \in Scanning, o.c.parse < Len(o.c.cs),
           q = m.b + o.c.parse
    PROVE  Outcome(ScanByte(o, q))
<1> DEFINE x == o.c
           b == stream[q]
           s == Step(x.status, b)
           h == IF x.status = "READ_HEADER" /\ b \in {"CR", "LF"} THEN x.parse ELSE x.hend
           p == [x EXCEPT !.status = s, !.parse = @ + 1, !.hend = h]
           r == ScanByte(o, q)
<1>1. /\ Reached(stream, length, m) /\ m.ev = o.ev /\ taken = m.b - 1 + Len(x.cs)
      /\ LineSoFar(stream, m, x) /\ RequestSoFar(stream, m, x)
  BY DEF ScanState
<1>2. m \in Reading /\ m.b \in Nat \ {0} /\ m.at \in Nat \ {0} /\ m.ev \in Seq(Call)
      /\ Len(stream) \in Nat
  BY <1>1 DEF Reached, Reading, StreamKnown
<1>3. /\ x \in Request /\ x.parse \in Nat /\ x.hend \in Nat /\ Len(x.cs) \in Nat
      /\ Len(x.cs) <= StreamSize /\ StreamSize \in Nat /\ x.hend <= Len(x.cs)
      /\ x.status # "READ_HEADER" => x.hend < x.parse
  <2>1. x \in Request /\ x.parse \in Nat /\ Len(x.cs) \in Nat /\ Len(x.cs) <= StreamSize
    BY DEF Bounded, Request
  <2>2. StreamSize \in Nat
    BY ReadHeaderAssumption
  <2>3. QED BY <2>1, <2>2, ScanPositions
<1>4. q \in Nat /\ q <= taken /\ q <= m.b + StreamSize - 1 /\ m.at <= q /\ taken \in Nat
  <2> DEFINE mb == m.b
             at == m.at
             xp == x.parse
             l == Len(x.cs)
  <2>1. m.at <= m.b - 1 + x.parse + 1
    BY <1>1 DEF LineSoFar
  <2>2. /\ mb \in Nat /\ mb # 0 /\ at \in Nat /\ xp \in Nat /\ l \in Nat /\ l <= StreamSize
        /\ StreamSize \in Nat /\ xp < l /\ q = mb + xp /\ taken = mb - 1 + l
        /\ at <= mb - 1 + xp + 1
    BY <1>1, <1>2, <1>3, <2>1
  <2> HIDE DEF mb, at, xp, l
  <2>3. q \in Nat /\ q <= taken /\ q <= mb + StreamSize - 1 /\ at <= q /\ taken \in Nat
    BY <2>2
  <2>4. QED BY <2>3 DEF mb, at
<1>5. \A i \in m.at .. q - 1 : stream[i] \notin {"LF", "bad"}
  <2> DEFINE mb == m.b
             xp == x.parse
  <2>1. mb \in Nat /\ xp \in Nat /\ q = mb + xp
    BY <1>2, <1>3
  <2> HIDE DEF mb, xp
  <2>2. q - 1 = mb - 1 + xp
    BY <2>1
  <2>3. QED BY <1>1, <2>2 DEF LineSoFar, mb, xp
<1>6. CASE b = "bad"
  <2>1. r = Refused(x, o.ev)
    BY <1>6 DEF ScanByte
  <2>2. Meaning(Upto(stream, taken), length) = m.ev \o <<<<"refused">>>>
    <3> DEFINE str == stream
    <3>1. /\ str \in Seq(Byte) /\ length \in Int /\ Reached(str, length, m) /\ str[q] = "bad"
          /\ q \in m.at .. Len(str) /\ taken \in q .. Len(str)
          /\ \A i \in m.at .. q - 1 : str[i] \notin {"LF", "bad"}
      BY <1>1, <1>2, <1>4, <1>5, <1>6 DEF StreamKnown
    <3> HIDE DEF str
    <3>2. Meaning(Upto(str, taken), length) = m.ev \o <<<<"refused">>>>
      BY <1>4, <3>1, BadLine, SMTT(30)
    <3>3. QED BY <3>2 DEF str
  <2>3. <<"refused">> \in Call
    BY <1>2, CallsAre, EmptySeq
  <2>4. Append(o.ev, <<"refused">>) = m.ev \o <<<<"refused">>>>
        /\ Append(o.ev, <<"refused">>) \in Seq(Call)
    BY <1>1, <1>2, <2>3, TwoCalls
  <2>5. Outcome(Refused(x, o.ev))
    BY <2>2, <2>4, RefusedOutcome
  <2>6. QED BY <2>1, <2>5
<1>7. CASE b # "bad"
  <2>1. r = IF s = "ONE_LF" THEN LineEnd(p, o.ev)
            ELSE IF s = "BODY_READ" THEN HeaderEnd(p, o.ev) ELSE Out("scan", p, o.ev)
    BY <1>7 DEF ScanByte
  <2>2. /\ s \in Scanning \cup {"BODY_READ"}
        /\ x.status = "READ_HEADER" /\ s # "READ_HEADER" => b \in {"CR", "LF"}
    BY StepStates
  <2>3. s = Step(x.status, stream[q]) /\ stream[q] # "bad"
        /\ h = IF x.status = "READ_HEADER" /\ stream[q] \in {"CR", "LF"} THEN x.parse ELSE x.hend
    BY <1>7
  <2>4. o.c = x
    OBVIOUS
  <2> HIDE DEF x, s, b
  <2>5. h \in Nat /\ h <= Len(x.cs) /\ (s # "READ_HEADER" => h < x.parse + 1) /\ x.parse < Len(x.cs)
    BY <1>3, <2>2, <2>4
  <2> HIDE DEF h
  <2>6. /\ p \in Request /\ p.status = s /\ p.parse = x.parse + 1 /\ p.hend = h
        /\ p.cs = x.cs /\ p.buf = x.buf /\ p.inbuf = x.inbuf /\ p.post = x.post
        /\ p.filesize = x.filesize /\ p.filepos = x.filepos
        /\ p.line = x.line /\ p.logline = x.logline /\ p.ka = x.ka /\ p.method = x.method
    <3>1. x.parse + 1 \in Nat /\ s \in Scanning \cup {"BODY_READ", "BODY_WRITE", "WRITE"}
      BY <1>3, <2>2
    <3>2. QED BY <1>3, <2>5, <3>1 DEF Request
  <2> HIDE DEF p, r
  <2>7. Bounded(p) /\ NoBody(p)
    BY <1>3, <2>4, <2>5, <2>6 DEF Bounded, NoBody
  <2>8. RequestSoFar(stream, m, p)
    <3>1. Text(p) = Text(x)
      BY <2>6 DEF Text
    <3>2. QED BY <1>1, <2>6, <3>1 DEF RequestSoFar
  <2>9. /\ p.status \notin {"ONE_LF", "BODY_READ"} => LineSoFar(stream, m, p)
        /\ p.status = "ONE_LF" =>
              /\ stream[q] = "LF" /\ p.hend = LastLetter(stream, m.at, q - 1) - m.b + 1
              /\ m.text # <<>> => LastLetter(stream, m.at, q - 1) >= m.at
        /\ p.status = "BODY_READ" =>
              /\ stream[q] = "LF" /\ LastLetter(stream, m.at, q - 1) = m.at - 1
              /\ m.text # <<>>
    BY <1>1, <1>2, <1>3, <2>3, <2>4, <2>6, LineStep, SMTT(30)
  <2>10. ASSUME stream[q] = "LF" PROVE AtLineEnd(m, p, q)
    <3>1. q = m.b - 1 + p.parse
      <4> DEFINE mb == m.b
                 xp == x.parse
      <4>1. mb \in Nat /\ xp \in Nat /\ q = mb + xp
        BY <1>2, <1>3, <2>4
      <4> HIDE DEF mb, xp
      <4>2. q = mb - 1 + (xp + 1)
        BY <4>1
      <4>3. QED BY <2>6, <4>2 DEF mb, xp
    <3>2. QED BY <1>1, <1>4, <1>5, <2>6, <2>8, <2>10, <3>1 DEF AtLineEnd
  <2>11. CASE s = "ONE_LF"
    <3>1. r = LineEnd(p, m.ev)
      BY <1>1, <2>1, <2>11
    <3>2. Outcome(r)
      BY <2>6, <2>7, <2>9, <2>10, <2>11, <3>1, LineEndOutcome
    <3>3. QED BY <3>2 DEF r
  <2>12. CASE s = "BODY_READ"
    <3>1. r = HeaderEnd(p, m.ev)
      BY <1>1, <2>1, <2>12
    <3>2. Outcome(r)
      BY <2>6, <2>7, <2>9, <2>10, <2>12, <3>1, HeaderEndOutcome
    <3>3. QED BY <3>2 DEF r
  <2>13. CASE s \notin {"ONE_LF", "BODY_READ"}
    <3>1. r.c = p /\ r.ret = "scan" /\ r.ev = o.ev
      BY <2>1, <2>13 DEF Out
    <3>2. ScanState(stream, length, m, p, o.ev, taken)
      BY <1>1, <2>6, <2>8, <2>9, <2>13 DEF ScanState
    <3>3. Seqs!IsPrefix(o.ev, Meaning(Upto(stream, taken), length))
      <4>1. taken \in m.at - 1 .. Len(stream)
        BY <1>2, <1>4
      <4>2. QED BY <1>1, <4>1, ReachedMeans DEF StreamKnown
    <3>4. Outcome(r)
      BY <3>1, <3>2, <3>3 DEF Outcome
    <3>5. QED BY <3>4 DEF r
  <2>14. QED BY <2>11, <2>12, <2>13
<1>8. QED BY <1>6, <1>7

(* All the bytes that were not parsed yet. *)
LEMMA ScanOutcome ==
    ASSUME StreamKnown, NEW m, NEW x, ScanState(stream, length, m, x, events, taken),
           taken <= Len(stream), Bounded(x), NoBody(x), x.status \in Scanning
    PROVE  Outcome(Scan(x))
<1> DEFINE n == Len(x.cs) - x.parse
           base == Out("scan", x, events)
<1>1. x \in Request /\ n \in Nat /\ x.parse \in Nat /\ Len(x.cs) \in Nat
  BY DEF Bounded, Request
<1>2. PICK w : /\ Scan(x) = w[n] /\ w[0] = base
               /\ \A i \in 1 .. n : w[i] = ScanByte(w[i - 1], x.cs[x.parse + i])
  BY <1>1, ScanIs
<1>3. base.c = x /\ base.ret = "scan" /\ base.ev = events
  BY DEF Out
<1>4. /\ Reached(stream, length, m) /\ m.ev = events /\ taken = m.b - 1 + Len(x.cs)
      /\ LineSoFar(stream, m, x) /\ RequestSoFar(stream, m, x)
  BY DEF ScanState
<1>5. m.b \in Nat \ {0} /\ m.at \in Nat \ {0} /\ Len(stream) \in Nat
  BY <1>4 DEF Reached, Reading, StreamKnown
<1>6. m.at <= m.b - 1 + x.parse + 1 /\ \A j \in m.at - m.b + 1 .. Len(x.cs) : x.cs[j] = m.b - 1 + j
  BY <1>4 DEF LineSoFar, RequestSoFar
<1>7. ASSUME NEW i \in 1 .. n PROVE x.cs[x.parse + i] = m.b + (x.parse + (i - 1))
  <2> DEFINE mb == m.b
             at == m.at
             xp == x.parse
             l == Len(x.cs)
  <2>1. mb \in Nat /\ at \in Nat /\ xp \in Nat /\ l \in Nat /\ at <= mb - 1 + xp + 1
        /\ i \in 1 .. l - xp
    BY <1>1, <1>5, <1>6
  <2> HIDE DEF mb, at, xp, l
  <2>2. xp + i \in at - mb + 1 .. l /\ mb - 1 + (xp + i) = mb + (xp + (i - 1))
    BY <2>1
  <2>3. QED BY <1>6, <2>2 DEF mb, at, xp, l
<1>8. taken \in m.at - 1 .. Len(stream)
  <2> DEFINE mb == m.b
             at == m.at
             xp == x.parse
             l == Len(x.cs)
             ls == Len(stream)
  <2>1. /\ mb \in Nat /\ at \in Nat /\ xp \in Nat /\ l \in Nat /\ at <= mb - 1 + xp + 1
        /\ l - xp \in Nat
        /\ taken = mb - 1 + l /\ ls \in Nat /\ taken <= ls
    BY <1>1, <1>4, <1>5, <1>6
  <2> HIDE DEF mb, at, xp, l, ls
  <2>2. taken \in at - 1 .. ls
    BY <2>1
  <2>3. QED BY <2>2 DEF at, ls
<1> HIDE DEF base
<1> DEFINE V == {i \in 0 .. n : Scanned(w[i], x, i) /\ Outcome(w[i])}
<1>9. 0 \in V
  <2>1. Scanned(base, x, 0)
    BY <1>1, <1>3 DEF Scanned, Body, Scanning
  <2>2. Seqs!IsPrefix(events, Meaning(Upto(stream, taken), length))
    BY <1>4, <1>8, ReachedMeans DEF StreamKnown
  <2>3. Outcome(base)
    BY <1>3, <2>2 DEF Outcome
  <2>4. QED BY <1>1, <1>2, <2>1, <2>3
<1>10. ASSUME NEW i \in 1 .. n, i - 1 \in V PROVE i \in V
  <2> DEFINE o == w[i - 1]
             at == x.cs[x.parse + i]
  <2>1. i - 1 \in Nat /\ i - 1 < n /\ Scanned(o, x, i - 1) /\ (i - 1) + 1 = i /\ Outcome(o)
    BY <1>1, <1>10
  <2>2. w[i] = ScanByte(o, at)
    BY <1>2
  <2>3. Scanned(ScanByte(o, at), x, (i - 1) + 1)
    <3> HIDE DEF o, at
    <3>1. length \in Int /\ i - 1 < Len(x.cs) - x.parse
      BY <2>1 DEF StreamKnown
    <3>2. QED BY <1>1, <2>1, <3>1, ByteScanned
  <2>4. Outcome(ScanByte(o, at))
    <3> HIDE DEF o
    <3>1. CASE o.ret # "scan"
      <4>1. ScanByte(o, at) = o
        BY <3>1 DEF ScanByte
      <4>2. QED BY <2>1, <4>1
    <3>2. CASE o.ret = "scan"
      <4>1. PICK k : ScanState(stream, length, k, o.c, o.ev, taken)
        <5>1. \E k : ScanState(stream, length, k, o.c, o.ev, taken)
          BY <2>1, <3>2, Zenon DEF Outcome
        <5>2. QED BY <5>1, Zenon
      <4>2. /\ Bounded(o.c) /\ NoBody(o.c) /\ o.c.status \in Scanning
            /\ o.c.parse = x.parse + (i - 1) /\ Len(o.c.cs) = Len(x.cs)
        BY <2>1, <3>2 DEF Scanned
      <4>3. k.b \in Nat /\ taken = k.b - 1 + Len(o.c.cs)
        BY <4>1 DEF ScanState, Reached, Reading
      <4>4. k.b = m.b
        <5> DEFINE kb == k.b
                   mb == m.b
                   l == Len(x.cs)
        <5>1. kb \in Nat /\ mb \in Nat /\ l \in Nat /\ taken = kb - 1 + l /\ taken = mb - 1 + l
          BY <1>1, <1>4, <1>5, <4>2, <4>3
        <5> HIDE DEF kb, mb, l
        <5>2. kb = mb
          BY <5>1
        <5>3. QED BY <5>2 DEF kb, mb
      <4>5. at = k.b + o.c.parse
        BY <1>7, <4>2, <4>4
      <4>6. o.c.parse < Len(o.c.cs)
        <5> DEFINE xp == x.parse
                   l == Len(x.cs)
        <5>1. xp \in Nat /\ l \in Nat /\ i \in 1 .. l - xp
          BY <1>1
        <5> HIDE DEF xp, l
        <5>2. xp + (i - 1) < l
          BY <5>1
        <5>3. QED BY <4>2, <5>2 DEF xp, l
      <4> HIDE DEF at
      <4>7. QED BY <3>2, <4>1, <4>2, <4>5, <4>6, ByteOutcome
    <3>3. QED BY <3>1, <3>2
  <2>5. Scanned(w[i], x, i) /\ Outcome(w[i])
    BY <2>1, <2>2, <2>3, <2>4
  <2>6. QED BY <2>5
<1>11. n \in V
  <2> HIDE DEF V, n
  <2>1. 0 .. n \subseteq V
    BY <1>1, <1>9, <1>10, PlaceInduction
  <2>2. QED BY <1>1, <2>1
<1>12. QED BY <1>2, <1>11

LEMMA StreamIsKnown ==
    ASSUME ReadInv
    PROVE  /\ StreamKnown /\ stream \in Seq(Byte) /\ length \in Int /\ Len(stream) \in Nat
           /\ sent \in Nat /\ taken \in Nat /\ taken <= sent /\ sent <= Len(stream)
<1>1. stream \in Seq(Byte)
  BY DEF ReadInv
<1>2. length \in Int
  BY ReadHeaderAssumption DEF ReadInv, ReadTypeOK
<1>3. Len(stream) \in Nat
  BY <1>1
<1>4. sent \in 0 .. Len(stream) /\ taken \in 0 .. sent
  BY DEF ReadInv, ReadTypeOK
<1>5. QED BY <1>1, <1>2, <1>3, <1>4 DEF StreamKnown

(* A call that returns o has taken n bytes from the socket. *)
LEMMA DisposeSplit ==
    ASSUME NEW o, NEW n, Dispose(o, n),
           o.ret \in {"more", "blocked", "respond", "refused", "full", "done"},
           Seqs!IsPrefix(o.ev, Meaning(Upto(stream, taken + n), length)),
           o.ret = "blocked" => o.c.status \in Scanning \cup {"BODY_READ"},
           o.ret \in {"more", "blocked"} /\ o.c.status \in Scanning =>
               \E m : ScanState(stream, length, m, o.c, o.ev, taken + n),
           o.ret = "blocked" /\ o.c.status \in Scanning =>
               o.c.parse = Len(o.c.cs) /\ Len(o.c.cs) < StreamSize,
           o.ret \in {"more", "blocked"} /\ o.c.status \in {"BODY_READ", "BODY_WRITE"} =>
               \E from \in 0 .. Len(stream) : BodyState(stream, length, from, o.c, o.ev, taken + n),
           o.ret = "respond" /\ o.c.ka =>
               \E m : NextState(stream, length, m, o.c, o.ev, taken + n)
    PROVE  SplitInv'
<1>1. /\ c' = o.c /\ events' = o.ev /\ taken' = taken + n /\ stream' = stream /\ length' = length
      /\ pc' = "turn" => o.ret = "more"
      /\ pc' = "blocked" => o.ret = "blocked"
      /\ pc' = "respond" => o.ret = "respond"
  BY DEF Dispose
<1>2. Seqs!IsPrefix(events, Meaning(Upto(stream, taken), length))'
  BY <1>1
<1>3. (pc = "blocked" => c.status \in Scanning \cup {"BODY_READ"})'
  BY <1>1
<1>4. ASSUME pc' \in {"turn", "blocked"}, c'.status \in Scanning
      PROVE  /\ \E m : ScanState(stream', length', m, c', events', taken')
             /\ pc' = "turn" \/ (c'.parse = Len(c'.cs) /\ Len(c'.cs) < StreamSize)
  BY <1>1, <1>4
<1>5. ASSUME pc' \in {"turn", "blocked"}, c'.status \in {"BODY_READ", "BODY_WRITE"}
      PROVE  \E from \in 0 .. Len(stream') : BodyState(stream', length', from, c', events', taken')
  BY <1>1, <1>5
<1>6. ASSUME pc' = "respond", c'.ka
      PROVE  \E m : NextState(stream', length', m, c', events', taken')
  BY <1>1, <1>6
<1>7. QED BY <1>2, <1>3, <1>4, <1>5, <1>6 DEF SplitInv

(* All bytes were scanned and the line goes on. *)
LEMMA AllScanned ==
    ASSUME ReadInv, NEW m, NEW x \in Request, NEW ev, ScanState(stream, length, m, x, ev, taken),
           x.parse = Len(x.cs)
    PROVE  Meaning(Upto(stream, taken), length) =
               IF Len(x.cs) >= StreamSize THEN ev \o <<<<"full">>>> ELSE ev
<1>1. /\ Reached(stream, length, m) /\ m.ev = ev /\ taken = m.b - 1 + Len(x.cs)
      /\ LineSoFar(stream, m, x)
  BY DEF ScanState
<1>2. m.b \in Nat \ {0} /\ m.at \in Nat \ {0} /\ Len(x.cs) \in Nat /\ StreamSize \in Nat
  BY <1>1, ReadHeaderAssumption DEF Reached, Reading, Request
<1>3. m.at <= taken + 1 /\ \A i \in m.at .. taken : stream[i] \notin {"LF", "bad"}
  BY <1>1 DEF LineSoFar
<1>4. /\ stream \in Seq(Byte) /\ length \in Int /\ Len(stream) \in Nat /\ taken \in Nat
      /\ taken <= Len(stream)
  BY StreamIsKnown
<1>5. taken \in m.at - 1 .. Len(stream)
      /\ (taken >= m.b + StreamSize - 1 <=> Len(x.cs) >= StreamSize)
  <2> DEFINE mb == m.b
             at == m.at
             l == Len(x.cs)
             ls == Len(stream)
  <2>1. /\ mb \in Nat /\ at \in Nat /\ l \in Nat /\ ls \in Nat /\ StreamSize \in Nat
        /\ at <= taken + 1
        /\ taken <= ls /\ taken = mb - 1 + l
    BY <1>1, <1>2, <1>3, <1>4
  <2> HIDE DEF mb, at, l, ls
  <2>2. taken \in at - 1 .. ls /\ (taken >= mb + StreamSize - 1 <=> l >= StreamSize)
    BY <2>1
  <2>3. QED BY <2>2 DEF mb, at, l, ls
<1> DEFINE s == stream
<1>6. /\ s \in Seq(Byte) /\ Reached(s, length, m) /\ taken \in m.at - 1 .. Len(s)
      /\ \A i \in m.at .. taken : s[i] \notin {"LF", "bad"}
  BY <1>1, <1>3, <1>4, <1>5
<1> HIDE DEF s
<1>7. Meaning(Upto(s, taken), length) =
          IF taken >= m.b + StreamSize - 1 THEN m.ev \o <<<<"full">>>> ELSE m.ev
  BY <1>4, <1>6, QuietLine
<1>8. QED BY <1>1, <1>5, <1>7 DEF s

(* More bytes are read. *)
LEMMA MoreSplit ==
    ASSUME ReadInv, NEW m, NEW x \in Request, x.parse <= Len(x.cs), NEW ev,
           ScanState(stream, length, m, x, ev, taken), NEW n \in Nat
    PROVE  ScanState(stream, length, m, [x EXCEPT !.cs = @ \o Input(n)], ev, taken + n)
<1> DEFINE s == x.cs
           e == s \o Input(n)
           y == [x EXCEPT !.cs = e]
<1>1. /\ Reached(stream, length, m) /\ m.ev = ev /\ taken = m.b - 1 + Len(s)
      /\ LineSoFar(stream, m, x) /\ RequestSoFar(stream, m, x)
  BY DEF ScanState
<1>2. taken \in Nat /\ s \in Seq(Nat) /\ Len(s) \in Nat /\ m.b \in Nat \ {0} /\ m.at \in Nat \ {0}
      /\ m.b <= m.at
  BY <1>1, StreamIsKnown DEF Reached, Reading, Request
<1>3. Input(n) \in Seq(Nat) /\ Len(Input(n)) = n /\ \A i \in 1 .. n : Input(n)[i] = taken + i
  BY <1>2, InputSeq DEF Input
<1>4. /\ e \in Seq(Nat) /\ Len(e) = Len(s) + n /\ \A i \in 1 .. Len(s) : e[i] = s[i]
      /\ \A i \in Len(s) + 1 .. Len(s) + n : e[i] = taken + (i - Len(s))
  <2> DEFINE f == Input(n)
  <2>1. f \in Seq(Nat) /\ Len(f) = n /\ \A i \in 1 .. n : f[i] = taken + i
    BY <1>3
  <2> HIDE DEF f, s
  <2>2. /\ s \o f \in Seq(Nat) /\ Len(s \o f) = Len(s) + Len(f)
        /\ \A i \in 1 .. Len(s) + Len(f) :
              (s \o f)[i] = IF i <= Len(s) THEN s[i] ELSE f[i - Len(s)]
    BY <1>2, <2>1, ConcatProperties, ZenonT(40)
  <2>3. /\ \A i \in 1 .. Len(s) : (s \o f)[i] = s[i]
        /\ \A i \in Len(s) + 1 .. Len(s) + n : (s \o f)[i] = taken + (i - Len(s))
    BY <1>2, <2>1, <2>2
  <2>4. QED BY <2>1, <2>2, <2>3 DEF f
<1> HIDE DEF e
<1>5. /\ y.cs = e /\ y.status = x.status /\ y.parse = x.parse /\ y.hend = x.hend /\ y.line = x.line
      /\ y.logline = x.logline /\ y.ka = x.ka /\ y.method = x.method
  BY DEF Request
<1> HIDE DEF y
<1>6. LineSoFar(stream, m, y)
  BY <1>1, <1>5 DEF LineSoFar
<1>7. \A j \in m.at - m.b + 1 .. Len(y.cs) : y.cs[j] = m.b - 1 + j
  <2>1. \A j \in m.at - m.b + 1 .. Len(s) : s[j] = m.b - 1 + j
    BY <1>1 DEF RequestSoFar
  <2> DEFINE mb == m.b
             at == m.at
             l == Len(s)
  <2>2. mb \in Nat /\ at \in Nat /\ mb <= at /\ l \in Nat /\ taken = mb - 1 + l
        /\ \A j \in at - mb + 1 .. l : s[j] = mb - 1 + j
    BY <1>1, <1>2, <2>1
  <2>3. Len(e) = l + n /\ (\A i \in 1 .. l : e[i] = s[i])
        /\ \A i \in l + 1 .. l + n : e[i] = taken + (i - l)
    BY <1>4
  <2> HIDE DEF mb, at, l, s
  <2>4. ASSUME NEW j \in at - mb + 1 .. l + n PROVE e[j] = mb - 1 + j
    <3>1. CASE j <= l
      <4>1. j \in 1 .. l /\ j \in at - mb + 1 .. l
        BY <2>2, <3>1
      <4>2. QED BY <2>2, <2>3, <4>1
    <3>2. CASE ~(j <= l)
      <4>1. j \in l + 1 .. l + n /\ taken + (j - l) = mb - 1 + j
        BY <2>2, <3>2
      <4>2. QED BY <2>3, <4>1
    <3>3. QED BY <3>1, <3>2
  <2>5. QED BY <1>5, <2>3, <2>4 DEF mb, at
<1>8. ASSUME x.method = "q"
      PROVE  FirstFrom(y.cs, 0, 1) = FirstFrom(x.cs, 0, 1) /\ Text(y) = Text(x)
  <2> DEFINE z == FirstFrom(s, 0, 1)
  <2>1. x.line = 0 /\ z \in 1 .. m.at - m.b
    BY <1>1, <1>8 DEF RequestSoFar
  <2>2. \/ z = 0
        \/ z \in 1 .. Len(s) /\ s[z] = 0 /\ \A i \in 1 .. z - 1 : s[i] # 0
    BY <1>2, FirstFromIs
  <2> HIDE DEF z, s
  <2>3. z \in 1 .. Len(s) /\ s[z] = 0 /\ \A i \in 1 .. z - 1 : s[i] # 0
    BY <2>1, <2>2
  <2>4. z <= Len(e) /\ \A i \in 1 .. z : e[i] = s[i]
    BY <1>2, <1>4, <2>3
  <2>5. FirstFrom(e, 0, 1) = z /\ SubSeq(e, 1, z - 1) = SubSeq(s, 1, z - 1)
    BY <1>2, <1>4, <2>3, <2>4, SameString
  <2>6. y.line + 1 = 1 /\ x.line + 1 = 1
    BY <1>5, <2>1
  <2>7. QED BY <1>5, <2>5, <2>6 DEF Text, s, z
<1>9. RequestSoFar(stream, m, y)
  BY <1>1, <1>5, <1>7, <1>8 DEF RequestSoFar
<1>10. taken + n = m.b - 1 + Len(y.cs)
  <2> DEFINE mb == m.b
             l == Len(s)
  <2>1. mb \in Nat /\ l \in Nat /\ taken = mb - 1 + l /\ Len(e) = l + n
    BY <1>1, <1>2, <1>4
  <2> HIDE DEF mb, l
  <2>2. taken + n = mb - 1 + Len(e)
    BY <2>1
  <2>3. QED BY <1>5, <2>2 DEF mb
<1>11. ScanState(stream, length, m, y, ev, taken + n)
  BY <1>1, <1>6, <1>9, <1>10 DEF ScanState
<1>12. QED BY <1>11 DEF y, e

LEMMA ReadHeaderSplit ==
    ASSUME ReadInv, SplitInv, read_header
    PROVE  SplitInv'
<1> DEFINE o == Scan(c)
           n == Least(sent - taken, Space(o.c))
           full == Out("full", o.c, Append(o.ev, <<"full">>))
           blocked == Out("blocked", o.c, o.ev)
           y == [o.c EXCEPT !.cs = @ \o Input(n)]
           more == Out("more", y, o.ev)
<1>1. /\ pc = "turn" /\ c.status \in Scanning
      /\ IF o.ret # "scan" THEN Dispose(o, 0)
         ELSE IF Space(o.c) < 1 THEN Dispose(full, 0)
         ELSE IF n = 0 THEN Dispose(blocked, 0)
         ELSE Dispose(more, n)
  BY DEF read_header
<1>2. /\ StreamKnown /\ length \in Int /\ Len(stream) \in Nat /\ sent \in Nat /\ taken \in Nat
      /\ taken <= sent /\ sent <= Len(stream) /\ taken + 0 = taken /\ taken <= Len(stream)
  BY StreamIsKnown
<1>3. Bounded(c) /\ NoBody(c)
  BY <1>1 DEF ReadInv, Body, Scanning
<1>4. Scanned(o, c, Len(c.cs) - c.parse)
  BY <1>1, <1>2, <1>3, ScanWithin
<1>5. Outcome(o)
  <2>1. PICK m : ScanState(stream, length, m, c, events, taken)
    BY <1>1 DEF SplitInv, Ended
  <2>2. QED BY <1>1, <1>2, <1>3, <2>1, ScanOutcome
<1> HIDE DEF o
<1>6. CASE o.ret # "scan"
  <2>1. o.ret \in {"more", "respond", "refused"} /\ Dispose(o, 0)
    BY <1>1, <1>4, <1>6 DEF Scanned
  <2>2. /\ Seqs!IsPrefix(o.ev, Meaning(Upto(stream, taken), length))
        /\ o.ret = "more" => o.c.status \in Scanning \cup {"BODY_WRITE"}
        /\ o.ret = "more" /\ o.c.status \in Scanning =>
               \E m : ScanState(stream, length, m, o.c, o.ev, taken)
        /\ o.ret = "more" /\ o.c.status = "BODY_WRITE" =>
               \E from \in 0 .. Len(stream) : BodyState(stream, length, from, o.c, o.ev, taken)
        /\ o.ret = "respond" /\ o.c.ka => \E m : NextState(stream, length, m, o.c, o.ev, taken)
    BY <1>5 DEF Outcome
  <2>3. o.ret = "more" => o.c.status # "BODY_READ"
    BY <2>2 DEF Scanning
  <2>4. QED BY <1>2, <2>1, <2>2, <2>3, DisposeSplit
<1>7. CASE o.ret = "scan"
  <2>1. PICK m : ScanState(stream, length, m, o.c, o.ev, taken)
    BY <1>5, <1>7 DEF Outcome
  <2>2. /\ Bounded(o.c) /\ o.c.status \in Scanning /\ o.c \in Request /\ Len(o.c.cs) \in Nat
        /\ o.c.parse = c.parse + (Len(c.cs) - c.parse) /\ Len(o.c.cs) = Len(c.cs)
    <3>1. /\ Bounded(o.c) /\ o.c.status \in Scanning
          /\ o.c.parse = c.parse + (Len(c.cs) - c.parse) /\ Len(o.c.cs) = Len(c.cs)
      BY <1>4, <1>7 DEF Scanned
    <3>2. QED BY <3>1 DEF Bounded, Request
  <2>3. o.c.parse = Len(o.c.cs) /\ o.c.status \notin {"BODY_READ", "BODY_WRITE"}
    <3>1. c.parse \in Nat /\ Len(c.cs) \in Nat
      BY <1>3 DEF Bounded, Request
    <3>2. QED BY <2>2, <3>1 DEF Scanning
  <2>4. Reached(stream, length, m) /\ m.ev = o.ev
    BY <2>1 DEF ScanState
  <2>5. m.at \in Nat \ {0} /\ m.at - 1 <= taken
    <3>1. m.at \in Nat \ {0} /\ m.b \in Nat /\ taken = m.b - 1 + Len(o.c.cs)
          /\ m.at <= m.b - 1 + o.c.parse + 1
      BY <2>1 DEF ScanState, LineSoFar, Reached, Reading
    <3> DEFINE at == m.at
               mb == m.b
               l == Len(o.c.cs)
    <3>2. at \in Nat \ {0} /\ mb \in Nat /\ l \in Nat /\ taken = mb - 1 + l /\ at <= mb - 1 + l + 1
      BY <2>2, <2>3, <3>1
    <3> HIDE DEF at, mb, l
    <3>3. at - 1 <= taken
      BY <3>2
    <3>4. QED BY <3>1, <3>3 DEF at
  <2>6. ASSUME NEW k \in taken .. Len(stream)
        PROVE  o.ev \in Seq(Call) /\ Seqs!IsPrefix(o.ev, Meaning(Upto(stream, k), length))
    <3>1. k \in m.at - 1 .. Len(stream)
      BY <1>2, <2>5
    <3>2. QED BY <1>2, <2>4, <3>1, ReachedMeans DEF StreamKnown
  <2>7. o.ev \in Seq(Call) /\ Seqs!IsPrefix(o.ev, Meaning(Upto(stream, taken), length))
    BY <1>2, <2>6
  <2>8. Space(o.c) = StreamSize - Len(o.c.cs) /\ StreamSize \in Nat
    BY ReadHeaderAssumption DEF Space
  <2>9. CASE Space(o.c) < 1
    <3>1. Dispose(full, 0) /\ full.c = o.c /\ full.ret = "full"
          /\ full.ev = Append(o.ev, <<"full">>)
      BY <1>1, <1>7, <2>9 DEF Out
    <3>2. Len(o.c.cs) >= StreamSize
      BY <2>2, <2>8, <2>9
    <3>3. Meaning(Upto(stream, taken), length) = o.ev \o <<<<"full">>>>
      BY <2>1, <2>2, <2>3, <3>2, AllScanned
    <3>4. <<"full">> \in Call
      BY CallsAre, EmptySeq
    <3>5. Append(o.ev, <<"full">>) = o.ev \o <<<<"full">>>>
          /\ Append(o.ev, <<"full">>) \in Seq(Call)
      BY <2>7, <3>4, TwoCalls
    <3> HIDE DEF full
    <3>6. Seqs!IsPrefix(full.ev, Meaning(Upto(stream, taken + 0), length))
      BY <1>2, <3>1, <3>3, <3>5, PrefixSelf
    <3>7. QED BY <3>1, <3>6, DisposeSplit
  <2>10. CASE ~(Space(o.c) < 1) /\ n = 0
    <3>1. Dispose(blocked, 0) /\ blocked.c = o.c /\ blocked.ret = "blocked" /\ blocked.ev = o.ev
      BY <1>1, <1>7, <2>10 DEF Out
    <3>2. Len(o.c.cs) < StreamSize
      BY <2>2, <2>8, <2>10
    <3> HIDE DEF blocked
    <3>3. QED BY <1>2, <2>1, <2>2, <2>3, <2>7, <3>1, <3>2, DisposeSplit
  <2>11. CASE ~(Space(o.c) < 1) /\ n # 0
    <3>1. Dispose(more, n) /\ more.c = y /\ more.ret = "more" /\ more.ev = o.ev
      BY <1>1, <1>7, <2>11 DEF Out
    <3>2. n \in Nat /\ n <= sent - taken
      <4>1. sent - taken \in Nat /\ Space(o.c) \in Nat
        BY <1>2, <2>2, <2>8, <2>11
      <4>2. QED BY <4>1, LeastIs
    <3> HIDE DEF n
    <3>3. y.status = o.c.status
      BY <2>2 DEF Request
    <3>4. ScanState(stream, length, m, y, o.ev, taken + n)
      <4>1. o.c.parse <= Len(o.c.cs)
        BY <2>2, <2>3
      <4>2. QED BY <2>1, <2>2, <3>2, <4>1, MoreSplit
    <3>5. taken + n \in taken .. Len(stream)
      BY <1>2, <3>2
    <3> HIDE DEF more, y
    <3>6. Seqs!IsPrefix(more.ev, Meaning(Upto(stream, taken + n), length))
      BY <2>6, <3>1, <3>5
    <3>7. QED BY <2>2, <2>3, <3>1, <3>3, <3>4, <3>6, DisposeSplit
  <2>12. QED BY <2>9, <2>10, <2>11
<1>8. QED BY <1>6, <1>7

(* Parts of the body. *)
LEMMA PieceHas ==
    ASSUME NEW s \in Seq(Nat), NEW a \in Nat, NEW w \in Nat, a + w <= Len(s), NEW d \in Nat,
           SubSeq(s, a + 1, a + w) = Positions(d + 1, d + w)
    PROVE  Holds(s, a, w, d)
<1> DEFINE u == SubSeq(s, a + 1, a + w)
<1>1. Len(s) \in Nat /\ a + 1 \in 1 .. Len(s) + 1 /\ a + w \in a .. Len(s)
  OBVIOUS
<1>2. ASSUME NEW i \in 1 .. w PROVE s[a + i] = d + i
  <2>1. \A j \in 1 .. (a + w) - (a + 1) + 1 : u[j] = s[a + 1 + j - 1]
    BY <1>1, SubSeqProperties
  <2>2. i \in 1 .. (a + w) - (a + 1) + 1 /\ a + 1 + i - 1 = a + i
    OBVIOUS
  <2>3. u[i] = d + i
    BY PlacesAre, ZenonT(40)
  <2> HIDE DEF u
  <2>4. QED BY <2>1, <2>2, <2>3
<1>3. QED BY <1>2 DEF Holds

LEMMA PieceEnd ==
    ASSUME NEW s \in Seq(Nat), NEW a \in Nat, NEW w \in Nat, a + w <= Len(s), NEW d \in Nat,
           Holds(s, a, w, d), NEW k \in 0 .. w
    PROVE  SubSeq(s, (a + k) + 1, a + w) = Positions((d + k) + 1, d + w)
<1> DEFINE e == a + k
           g == d + k
           f == w - k
<1>1. /\ e \in Nat /\ g \in Nat /\ f \in Nat /\ e + f <= Len(s) /\ e + f = a + w /\ g + f = d + w
  OBVIOUS
<1>2. ASSUME NEW i \in 1 .. f PROVE s[e + i] = g + i
  <2>1. k + i \in 1 .. w /\ a + (k + i) = e + i /\ d + (k + i) = g + i
    OBVIOUS
  <2>2. s[a + (k + i)] = d + (k + i)
    BY <2>1 DEF Holds
  <2>3. QED BY <2>1, <2>2
<1>3. Holds(s, e, f, g)
  BY <1>2 DEF Holds
<1> HIDE DEF e, f, g
<1>4. SubSeq(s, e + 1, e + f) = Positions(g + 1, g + f)
  BY <1>1, <1>3, PieceIs
<1>5. QED BY <1>1, <1>4 DEF e, g

LEMMA PlacesFirst ==
    ASSUME NEW d \in Nat, NEW w \in Nat, NEW k \in 0 .. w
    PROVE  SubSeq(Positions(d + 1, d + w), 1, k) = Positions(d + 1, d + k)
<1> DEFINE p == Positions(d + 1, d + w)
           u == SubSeq(p, 1, k)
           v == Positions(d + 1, d + k)
<1>1. p \in Seq(Nat) /\ Len(p) = w /\ \A i \in 1 .. w : p[i] = d + i
  BY PlacesAre
<1> HIDE DEF p
<1>2. v \in Seq(Nat) /\ Len(v) = k /\ \A i \in 1 .. k : v[i] = d + i
  <2>1. k \in Nat
    OBVIOUS
  <2>2. QED BY <2>1, PlacesAre
<1>3. k \in 0 .. Len(p)
  BY <1>1
<1>4. u \in Seq(Nat) /\ Len(u) = k /\ \A i \in 1 .. k : u[i] = p[i]
  BY <1>1, <1>3, SubSeqProperties
<1> HIDE DEF u, v
<1>5. \A i \in 1 .. k : u[i] = v[i]
  BY <1>1, <1>2, <1>4
<1>6. u = v
  BY <1>2, <1>4, <1>5, SeqEqual
<1>7. QED BY <1>6 DEF u, v, p

LEMMA PlacesJoin ==
    ASSUME NEW d \in Nat, NEW f \in Nat, NEW k \in Nat
    PROVE  Positions(d + 1, d + f) \o Positions((d + f) + 1, (d + f) + k) = Positions(d + 1, d + (f + k))
<1> DEFINE p == Positions(d + 1, d + f)
           q == Positions((d + f) + 1, (d + f) + k)
           u == p \o q
           v == Positions(d + 1, d + (f + k))
<1>1. p \in Seq(Nat) /\ Len(p) = f /\ \A i \in 1 .. f : p[i] = d + i
  BY PlacesAre
<1>2. q \in Seq(Nat) /\ Len(q) = k /\ \A i \in 1 .. k : q[i] = (d + f) + i
  <2> DEFINE e == d + f
  <2>1. e \in Nat
    OBVIOUS
  <2> HIDE DEF e
  <2>2. /\ Positions(e + 1, e + k) \in Seq(Nat) /\ Len(Positions(e + 1, e + k)) = k
        /\ \A i \in 1 .. k : Positions(e + 1, e + k)[i] = e + i
    BY <2>1, PlacesAre
  <2>3. QED BY <2>2 DEF e
<1>3. v \in Seq(Nat) /\ Len(v) = f + k /\ \A i \in 1 .. f + k : v[i] = d + i
  <2> DEFINE e == f + k
  <2>1. e \in Nat
    OBVIOUS
  <2> HIDE DEF e
  <2>2. /\ Positions(d + 1, d + e) \in Seq(Nat) /\ Len(Positions(d + 1, d + e)) = e
        /\ \A i \in 1 .. e : Positions(d + 1, d + e)[i] = d + i
    BY <2>1, PlacesAre
  <2>3. QED BY <2>2 DEF e
<1> HIDE DEF p, q, v
<1>4. /\ u \in Seq(Nat) /\ Len(u) = Len(p) + Len(q)
      /\ \A i \in 1 .. Len(p) + Len(q) : u[i] = IF i <= Len(p) THEN p[i] ELSE q[i - Len(p)]
  BY <1>1, <1>2, ConcatProperties
<1> HIDE DEF u
<1>5. ASSUME NEW i \in 1 .. f + k PROVE u[i] = v[i]
  <2>1. CASE i <= f
    BY <1>1, <1>2, <1>3, <1>4, <2>1
  <2>2. CASE ~(i <= f)
    <3>1. i - f \in 1 .. k /\ (d + f) + (i - f) = d + i
      BY <2>2
    <3>2. QED BY <1>1, <1>2, <1>3, <1>4, <2>2, <3>1
  <2>3. QED BY <2>1, <2>2
<1>6. u = v
  BY <1>1, <1>2, <1>3, <1>4, <1>5, SeqEqual
<1>7. QED BY <1>6 DEF u, v, p, q

(* What the bytes mean goes on from the events while a body is read. *)
LEMMA BodyMeans ==
    ASSUME ReadInv, NEW from, NEW x, NEW ev, BodyState(stream, length, from, x, ev, taken),
           NEW k \in taken .. Len(stream), x.filepos \in Nat, x.hend - x.line \in Nat
    PROVE  Seqs!IsPrefix(ev, Meaning(Upto(stream, k), length))
<1> DEFINE e == IF from + length <= k THEN <<<<"body", Positions(from + 1, from + length)>>>> ELSE <<>>
<1>1. taken \in Nat /\ Len(stream) \in Nat
  BY StreamIsKnown
<1>2. /\ from \in 0 .. Len(stream) /\ length \in Nat /\ ev \in Seq(Call)
      /\ from + x.filepos + (x.hend - x.line) <= taken
  BY DEF BodyState
<1>3. k \in from .. Len(stream)
  <2> DEFINE f == x.filepos
             w == x.hend - x.line
  <2>1. f \in Nat /\ w \in Nat /\ from + f + w <= taken /\ from \in Nat
    BY <1>1, <1>2
  <2> HIDE DEF f, w
  <2>2. QED BY <1>1, <2>1
<1>4. Meaning(Upto(stream, k), length) = ev \o e
  BY <1>3 DEF BodyState
<1>5. Positions(from + 1, from + length) \in Seq(Nat)
  BY <1>2, PlacesAre
<1> HIDE DEF e
<1>6. e \in Seq(Call)
  BY <1>5, CallsAre DEF e
<1>7. QED BY <1>2, <1>4, <1>6, PrefixConcat

LEMMA ReadBodySplit ==
    ASSUME ReadInv, SplitInv, read_body
    PROVE  SplitInv'
<1> DEFINE want == Least(c.filesize - c.filepos, BufferSize - (c.hend - c.line))
           n == Least(sent - taken, want)
           p == [c EXCEPT !.status = "BODY_WRITE", !.buf = SubSeq(@, 1, c.hend) \o Input(n),
                          !.hend = @ + n]
<1>1. /\ pc = "turn" /\ c.status = "BODY_READ"
      /\ IF want <= 0 THEN Dispose(Out("more", [c EXCEPT !.status = "BODY_WRITE"], events), 0)
         ELSE IF n = 0 THEN Dispose(Out("blocked", c, events), 0)
         ELSE Dispose(Out("more", p, events), n)
  BY DEF read_body
<1>2. /\ Len(stream) \in Nat /\ sent \in Nat /\ taken \in Nat /\ taken <= sent
      /\ sent <= Len(stream)
      /\ taken + 0 = taken /\ taken \in taken .. Len(stream)
  BY StreamIsKnown
<1>3. /\ c \in Request /\ c.inbuf /\ c.buf = <<>> /\ c.line = 0 /\ c.hend = 0
      /\ c.filesize \in Nat /\ c.filepos \in Nat /\ BufferSize \in Nat \ {0}
  BY <1>1, ReadHeaderAssumption DEF ReadInv, Body, Scanning, Bounded, Request
<1>4. PICK from \in 0 .. Len(stream) : BodyState(stream, length, from, c, events, taken)
  BY <1>1 DEF SplitInv
<1>5. /\ length \in Nat /\ c.filesize = length /\ c.filepos < length /\ taken = from + c.filepos
      /\ from \in Nat
  <2>1. /\ length \in Nat /\ c.filesize = length /\ c.filepos < length
        /\ c.hend - c.line < length - c.filepos => taken = from + c.filepos + (c.hend - c.line)
    BY <1>1, <1>4 DEF BodyState
  <2> DEFINE f == c.filepos
  <2>2. c.hend - c.line = 0 /\ f \in Nat
    BY <1>3
  <2>3. 0 < length - f /\ from \in Nat
    BY <1>2, <2>1, <2>2
  <2>4. taken = from + f + 0
    BY <2>1, <2>2, <2>3
  <2> HIDE DEF f
  <2>5. taken = from + f
    BY <2>2, <2>3, <2>4
  <2>6. QED BY <2>1, <2>3, <2>5 DEF f
<1>6. /\ want \in Nat /\ want # 0 /\ want <= length - c.filepos
  <2> DEFINE f == c.filesize - c.filepos
             g == BufferSize - (c.hend - c.line)
  <2>1. f \in Nat /\ f # 0 /\ g \in Nat /\ g # 0 /\ f = length - c.filepos
    BY <1>3, <1>5
  <2> HIDE DEF f, g
  <2>2. Least(f, g) \in {f, g} /\ Least(f, g) <= f /\ Least(f, g) <= g
    BY <2>1, LeastIs
  <2> DEFINE l == Least(f, g)
  <2> HIDE DEF l
  <2>3. l \in Nat /\ l # 0 /\ l <= f
    BY <2>1, <2>2 DEF l
  <2>4. QED BY <2>1, <2>3 DEF l, f, g
<1> HIDE DEF want
<1>7. n \in Nat /\ n <= sent - taken /\ n <= want
  <2>1. sent - taken \in Nat
    BY <1>2
  <2>2. QED BY <1>6, <2>1, LeastIs
<1> HIDE DEF n
<1>8. CASE n = 0
  <2> DEFINE o == Out("blocked", c, events)
  <2>1. o.c = c /\ o.ret = "blocked" /\ o.ev = events /\ Dispose(o, 0)
    BY <1>1, <1>6, <1>8 DEF Out
  <2>2. Seqs!IsPrefix(events, Meaning(Upto(stream, taken), length))
    BY DEF SplitInv
  <2>3. c.status \notin Scanning
    BY <1>1 DEF Scanning
  <2> HIDE DEF o
  <2>4. QED BY <1>1, <1>2, <1>4, <2>1, <2>2, <2>3, DisposeSplit
<1>9. CASE n # 0
  <2> DEFINE o == Out("more", p, events)
             b == SubSeq(c.buf, 1, c.hend) \o Input(n)
  <2>1. o.c = p /\ o.ret = "more" /\ o.ev = events /\ Dispose(o, n)
    BY <1>1, <1>6, <1>9 DEF Out
  <2>2. Input(n) \in Seq(Nat) /\ Len(Input(n)) = n /\ \A i \in 1 .. n : Input(n)[i] = taken + i
    BY <1>2, <1>7, InputSeq DEF Input
  <2>3. b = Input(n)
    <3>1. SubSeq(c.buf, 1, c.hend) = <<>>
      BY <1>3
    <3>2. QED BY <2>2, <3>1, ConcatEmptySeq
  <2>4. c.hend + n = n
    BY <1>3, <1>7
  <2>5. p = [c EXCEPT !.status = "BODY_WRITE", !.buf = b, !.hend = n]
    BY <2>4
  <2> HIDE DEF b, p, o
  <2>6. /\ p.hend = n /\ p.line = 0 /\ p.inbuf = TRUE /\ p.buf = b /\ p.filesize = length
        /\ p.filepos = c.filepos /\ p.post = c.post /\ p.status = "BODY_WRITE"
    BY <1>3, <1>5, <2>5 DEF Request
  <2>7. Pending(p) = Positions(taken + 1, taken + n)
    <3> DEFINE s == b
               a == 0
    <3>1. s \in Seq(Nat) /\ a \in Nat /\ n \in Nat /\ a + n <= Len(s) /\ taken \in Nat
          /\ Holds(s, a, n, taken)
      BY <1>2, <1>7, <2>2, <2>3 DEF Holds
    <3> HIDE DEF s, a
    <3>2. SubSeq(s, a + 1, a + n) = Positions(taken + 1, taken + n)
      BY <3>1, PieceIs
    <3>3. a + 1 = p.line + 1 /\ a + n = p.hend
      BY <1>7, <2>6 DEF a
    <3>4. QED BY <2>6, <3>2, <3>3 DEF Pending, s
  <2>8. BodyState(stream, length, from, p, events, taken + n)
    <3> DEFINE f == p.filepos
               w == p.hend - p.line
    <3>1. f \in Nat /\ w = n /\ taken = from + f /\ n <= length - f /\ f < length
      BY <1>3, <1>5, <1>6, <1>7, <2>6
    <3>2. p.post = Positions(from + 1, from + f)
      BY <1>4, <2>6 DEF BodyState
    <3>3. \A k \in from .. Len(stream) :
             Meaning(Upto(stream, k), length) =
                events \o (IF from + length <= k THEN <<<<"body", Positions(from + 1, from + length)>>>>
                           ELSE <<>>)
      BY <1>4 DEF BodyState
    <3>4. events \in Seq(Call)
      BY <1>4 DEF BodyState
    <3> HIDE DEF f, w
    <3>5. /\ from + f + 1 = taken + 1 /\ from + f + w = taken + n
          /\ from + f + w <= taken + n
          /\ (w < length - f => taken + n = from + f + w)
      BY <1>2, <1>5, <1>7, <3>1
    <3>6. Pending(p) = Positions(from + f + 1, from + f + w)
      BY <2>7, <3>5
    <3>7. QED BY <1>5, <2>6, <3>2, <3>3, <3>4, <3>5, <3>6 DEF BodyState, f, w
  <2>9. Seqs!IsPrefix(events, Meaning(Upto(stream, taken + n), length))
    <3>1. taken + n \in taken .. Len(stream)
      BY <1>2, <1>7
    <3>2. c.hend - c.line \in Nat
      BY <1>3
    <3>3. QED BY <1>3, <1>4, <3>1, <3>2, BodyMeans
  <2>10. p.status \notin Scanning
    BY <2>6 DEF Scanning
  <2>11. QED BY <2>1, <2>6, <2>8, <2>9, <2>10, DisposeSplit
<1>10. QED BY <1>8, <1>9

LEMMA WriteBodySplit ==
    ASSUME ReadInv, SplitInv, write_body
    PROVE  SplitInv'
<1> DEFINE n == Least(c.hend - c.line, c.filesize - c.filepos)
           p == [c EXCEPT !.line = 0, !.hend = 0, !.inbuf = TRUE, !.buf = <<>>]
           again == [p EXCEPT !.status = "BODY_READ"]
           Part(k) == [c EXCEPT !.post = @ \o SubSeq(Pending(c), 1, k),
                                !.filepos = @ + k, !.line = @ + k]
<1>1. /\ pc = "turn" /\ c.status = "BODY_WRITE"
      /\ \/ /\ n = 0 /\ c.filepos >= c.filesize
            /\ Dispose(Out("done", p, Append(events, <<"body", c.post>>)), 0)
         \/ n = 0 /\ c.filepos < c.filesize /\ Dispose(Out("more", again, events), 0)
         \/ \E k \in 1 .. n : Dispose(Out("more", Part(k), events), 0)
  BY DEF write_body
<1>2. /\ Len(stream) \in Nat /\ taken \in Nat /\ taken <= Len(stream) /\ taken + 0 = taken
      /\ taken \in taken .. Len(stream)
  BY StreamIsKnown
<1>3. /\ c \in Request /\ c.line \in Nat /\ c.hend \in Nat /\ c.post \in Seq(Nat)
      /\ c.filesize \in Nat /\ c.filepos \in Nat /\ c.filepos <= c.filesize
  BY DEF ReadInv, Bounded, Request
<1>4. c.line <= c.hend /\ c.hend - c.line <= c.filesize - c.filepos
  <2>1. Body(c) /\ c.status = "BODY_WRITE" /\ c.status \notin Scanning
    BY <1>1 DEF ReadInv, Scanning
  <2>2. QED BY <2>1 DEF Body
<1>5. PICK from \in 0 .. Len(stream) : BodyState(stream, length, from, c, events, taken)
  BY <1>1 DEF SplitInv
<1> DEFINE f == c.filepos
           w == c.hend - c.line
<1>6. /\ length \in Nat /\ c.filesize = length /\ events \in Seq(Call) /\ from \in Nat
      /\ c.post = Positions(from + 1, from + f)
      /\ Pending(c) = Positions(from + f + 1, from + f + w)
      /\ from + f + w <= taken
      /\ w < length - f => taken = from + f + w
      /\ \A k \in from .. Len(stream) :
            Meaning(Upto(stream, k), length) =
               events \o (IF from + length <= k THEN <<<<"body", Positions(from + 1, from + length)>>>>
                          ELSE <<>>)
  <2>1. from \in Nat
    BY <1>2
  <2>2. QED BY <1>5, <2>1 DEF BodyState
<1>7. f \in Nat /\ w \in Nat /\ f <= length /\ w <= length - f /\ c.hend = c.line + w
  <2> DEFINE h == c.hend
             a == c.line
             z == c.filesize
             p0 == c.filepos
  <2>1. /\ h \in Nat /\ a \in Nat /\ z \in Nat /\ p0 \in Nat /\ a <= h /\ h - a <= z - p0
        /\ p0 <= z /\ z = length
    BY <1>3, <1>4, <1>6
  <2> HIDE DEF h, a, z, p0
  <2>2. p0 \in Nat /\ h - a \in Nat /\ p0 <= length /\ h - a <= length - p0 /\ h = a + (h - a)
    BY <2>1
  <2>3. QED BY <2>2 DEF h, a, p0
<1>8. n = w
  <2>1. c.hend - c.line \in Int /\ c.filesize - c.filepos \in Int
    BY <1>3
  <2>2. QED BY <1>4, <2>1 DEF Least
<1> HIDE DEF n
<1>9. Seqs!IsPrefix(events, Meaning(Upto(stream, taken), length))
  BY DEF SplitInv
<1>10. ASSUME c.filepos >= c.filesize, Dispose(Out("done", p, Append(events, <<"body", c.post>>)), 0)
       PROVE  SplitInv'
  <2> DEFINE o == Out("done", p, Append(events, <<"body", c.post>>))
             e == <<"body", c.post>>
  <2>1. o.ret = "done" /\ o.ev = Append(events, e) /\ Dispose(o, 0)
    BY <1>10 DEF Out
  <2> HIDE DEF w
  <2>2. f = length
    BY <1>6, <1>7, <1>10
  <2> HIDE DEF f
  <2>3. taken \in from .. Len(stream) /\ from + length <= taken
    BY <1>2, <1>6, <1>7, <2>2
  <2>4. Meaning(Upto(stream, taken), length) = events \o <<e>>
    BY <1>6, <2>2, <2>3
  <2>5. e \in Call
    BY <1>3, CallsAre
  <2> HIDE DEF o, e
  <2>6. Append(events, e) = events \o <<e>> /\ Append(events, e) \in Seq(Call)
    BY <1>6, <2>5, TwoCalls
  <2>7. Seqs!IsPrefix(o.ev, Meaning(Upto(stream, taken + 0), length))
    BY <1>2, <2>1, <2>4, <2>6, PrefixSelf
  <2>8. QED BY <2>1, <2>7, DisposeSplit
<1>11. ASSUME n = 0, c.filepos < c.filesize, Dispose(Out("more", again, events), 0)
       PROVE  SplitInv'
  <2> DEFINE o == Out("more", again, events)
  <2>1. o.ret = "more" /\ o.ev = events /\ o.c = again /\ Dispose(o, 0)
    BY <1>11 DEF Out
  <2>2. /\ again.line = 0 /\ again.hend = 0 /\ again.inbuf = TRUE /\ again.buf = <<>>
        /\ again.status = "BODY_READ" /\ again.filesize = length /\ again.filepos = f
        /\ again.post = c.post
    BY <1>3, <1>6 DEF Request
  <2> HIDE DEF o, again
  <2>3. w = 0 /\ f < length /\ again.hend - again.line = 0
    BY <1>6, <1>8, <1>11, <2>2
  <2>4. Pending(again) = <<>>
    BY <2>2 DEF Pending
  <2> HIDE DEF f, w
  <2>5. /\ from + f <= taken /\ taken = from + f + 0 /\ from + f + 0 <= taken
        /\ from + f + 0 = from + f
    BY <1>6, <1>7, <2>3
  <2>6. Positions(from + f + 1, from + f + 0) = <<>>
    <3>1. 1 .. (from + f + 0) - (from + f + 1) + 1 = {}
      BY <1>6, <1>7
    <3>2. QED BY <3>1 DEF Positions
  <2>7. BodyState(stream, length, from, again, events, taken)
    BY <1>5, <1>6, <2>2, <2>3, <2>4, <2>5, <2>6 DEF BodyState
  <2>8. again.status \notin Scanning
    BY <2>2 DEF Scanning
  <2>9. QED BY <1>2, <1>9, <2>1, <2>2, <2>7, <2>8, DisposeSplit
<1>12. ASSUME NEW k \in 1 .. n, Dispose(Out("more", Part(k), events), 0)
       PROVE  SplitInv'
  <2> DEFINE y == Part(k)
             o == Out("more", y, events)
             g == SubSeq(Pending(c), 1, k)
             buffer == IF c.inbuf THEN c.buf ELSE c.cs
             l == c.line
  <2>1. o.ret = "more" /\ o.ev = events /\ o.c = y /\ Dispose(o, 0)
    BY <1>12 DEF Out
  <2>2. k \in 1 .. w /\ k \in Nat /\ w - k \in Nat /\ k \in 0 .. w
    BY <1>7, <1>8
  <2>3. y = [c EXCEPT !.post = c.post \o g, !.filepos = f + k, !.line = l + k]
    OBVIOUS
  <2> HIDE DEF y, o, g
  <2>4. /\ y.post = c.post \o g /\ y.filepos = f + k /\ y.line = l + k /\ y.hend = c.hend
        /\ y.inbuf = c.inbuf /\ y.buf = c.buf /\ y.cs = c.cs /\ y.filesize = length
        /\ y.status = "BODY_WRITE"
    BY <1>1, <1>3, <1>6, <2>3 DEF Request
  <2>5. /\ buffer \in Seq(Nat) /\ l \in Nat /\ l + w <= Len(buffer) /\ c.hend = l + w
        /\ Pending(c) = SubSeq(buffer, l + 1, l + w)
    <3>1. c.hend <= Len(buffer) /\ buffer \in Seq(Nat)
      BY <1>3 DEF ReadInv, Bounded, Request
    <3>2. QED BY <1>3, <1>7, <3>1 DEF Pending
  <2>6. Pending(y) = SubSeq(buffer, (l + k) + 1, l + w)
    BY <2>4, <2>5 DEF Pending
  <2> DEFINE d == from + f
             d2 == d + k
             w2 == w - k
             f2 == f + k
  <2> HIDE DEF buffer, l, f, w
  <2>7. d \in Nat /\ d2 \in Nat /\ w2 \in Nat /\ f2 \in Nat
    BY <1>6, <1>7, <2>2, <2>5
  <2>8. Pending(c) = Positions(d + 1, d + w)
    BY <1>6
  <2>9. g = Positions(d + 1, d + k)
    <3> HIDE DEF d
    <3>1. SubSeq(Positions(d + 1, d + w), 1, k) = Positions(d + 1, d + k)
      BY <1>7, <2>2, <2>7, PlacesFirst
    <3>2. QED BY <2>8, <3>1 DEF g
  <2>10. y.post = Positions(from + 1, from + f2)
    <3>1. Positions(from + 1, from + f) \o Positions((from + f) + 1, (from + f) + k)
             = Positions(from + 1, from + (f + k))
      BY <1>6, <1>7, <2>2, PlacesJoin, ZenonT(40)
    <3>2. QED BY <1>6, <2>4, <2>9, <3>1
  <2>11. SubSeq(buffer, (l + k) + 1, l + w) = Positions((d + k) + 1, d + w)
    <3> HIDE DEF d
    <3>1. SubSeq(buffer, l + 1, l + w) = Positions(d + 1, d + w)
      BY <2>5, <2>8
    <3>2. Holds(buffer, l, w, d)
      BY <1>7, <2>5, <2>7, <3>1, PieceHas
    <3>3. /\ buffer \in Seq(Nat) /\ l \in Nat /\ w \in Nat /\ l + w <= Len(buffer) /\ d \in Nat
          /\ k \in 0 .. w
      BY <1>7, <2>2, <2>5, <2>7
    <3>4. QED BY <3>2, <3>3, PieceEnd
  <2>12. /\ d2 + w2 = d + w /\ d2 = from + f2 /\ y.hend - y.line = w2
         /\ y.filepos = f2
    BY <1>6, <1>7, <2>2, <2>4, <2>5
  <2>13. d2 + w2 <= taken /\ (w2 < length - f2 => taken = d2 + w2)
    BY <1>6, <1>7, <2>2
  <2>14. Pending(y) = Positions(d2 + 1, d2 + w2)
    BY <2>6, <2>11, <2>12
  <2> HIDE DEF d, d2, w2, f2
  <2>15. BodyState(stream, length, from, y, events, taken)
    BY <1>5, <1>6, <2>4, <2>10, <2>12, <2>13, <2>14 DEF BodyState
  <2>16. y.status \notin Scanning
    BY <2>4 DEF Scanning
  <2>17. QED BY <1>2, <1>9, <2>1, <2>4, <2>15, <2>16, DisposeSplit
<1>13. QED BY <1>1, <1>10, <1>11, <1>12

(* A request that begins at the next line. *)
LEMMA FreshState ==
    ASSUME StreamKnown, NEW m, Reached(stream, length, m), m.text = <<>>, m.at = m.b,
           NEW s \in Seq(Nat), NEW read, read = m.b - 1 + Len(s),
           \A j \in 1 .. Len(s) : s[j] = m.b - 1 + j
    PROVE  ScanState(stream, length, m, Fresh(s), m.ev, read)
<1> DEFINE x == Fresh(s)
           b == m.b
<1>1. /\ x.status = "READ_HEADER" /\ x.cs = s /\ x.parse = 0 /\ x.line = 0 /\ x.hend = 0
      /\ x.logline = FALSE /\ x.ka = FALSE /\ x.method = "none"
  BY DEF Fresh
<1>2. b \in Nat \ {0} /\ m.at = b
  BY DEF Reached, Reading
<1> HIDE DEF x
<1>3. LineSoFar(stream, m, x)
  <2>1. b - 1 \in Nat /\ b <= (b - 1) + 1 /\ b - 1 \in b - 1 .. b - 1 /\ ~(b - 1 >= b)
    BY <1>2
  <2>2. \A i \in (b - 1) + 1 .. b - 1 : FALSE
    BY <1>2
  <2>3. LastLetter(stream, b, b - 1) = b - 1
    <3> DEFINE e == b - 1
               str == stream
    <3>1. /\ e \in Nat /\ b <= e + 1 /\ e \in b - 1 .. e /\ (e >= b => str[e] # "CR")
          /\ \A i \in e + 1 .. e : str[i] = "CR"
      BY <2>1, <2>2
    <3> HIDE DEF e, b, str
    <3>2. LastLetter(str, b, e) = e
      BY <1>2, <3>1, LastLetterFound
    <3>3. QED BY <3>2 DEF e, str
  <2>4. m.b - 1 + x.parse = b - 1
    BY <1>1, <1>2
  <2>5. \A i \in b .. b - 1 : FALSE
    BY <1>2
  <2> HIDE DEF b
  <2>6. QED BY <1>1, <1>2, <2>1, <2>3, <2>4, <2>5 DEF LineSoFar
<1>4. RequestSoFar(stream, m, x)
  <2>1. m.at - m.b = 0 /\ m.at - m.b + 1 = 1
    BY <1>2
  <2>2. QED BY <1>1, <2>1 DEF RequestSoFar
<1>5. QED BY <1>1, <1>3, <1>4 DEF ScanState, x

LEMMA FreeRequestSplit ==
    ASSUME ReadInv, SplitInv, pc = "respond", c.ka, c' = sanitize_request(c), pc' = "blocked",
           UNCHANGED <<stream, length, sent, taken, events>>
    PROVE  SplitInv'
<1> DEFINE s == SubSeq(c.cs, c.parse + 1, Len(c.cs))
<1>1. PICK m : NextState(stream, length, m, c, events, taken)
  BY DEF SplitInv
<1>2. /\ Reached(stream, length, m) /\ m.ev = events /\ events # <<>> /\ m.text = <<>>
      /\ m.at = m.b /\ taken = m.b - 1 + Len(c.cs) - c.parse
      /\ \A j \in c.parse + 1 .. Len(c.cs) : c.cs[j] = m.b - 1 + (j - c.parse)
  BY <1>1 DEF NextState
<1>3. c.cs \in Seq(Nat) /\ c.parse \in Nat /\ c.parse <= Len(c.cs) /\ Len(c.cs) \in Nat
  BY DEF ReadInv, Bounded, Request
<1>4. m.b \in Nat \ {0} /\ StreamKnown
  BY <1>2, StreamIsKnown DEF Reached, Reading
<1>5. s \in Seq(Nat) /\ Len(s) = Len(c.cs) - c.parse
      /\ \A i \in 1 .. Len(c.cs) - c.parse : s[i] = c.cs[c.parse + i]
  <2> DEFINE t == c.cs
             p == c.parse
             l == Len(c.cs)
  <2>1. t \in Seq(Nat) /\ p \in Nat /\ p <= l /\ l = Len(t) /\ l \in Nat
    BY <1>3
  <2> HIDE DEF t, p, l
  <2>2. p + 1 \in 1 .. Len(t) + 1 /\ l \in p .. Len(t)
    BY <2>1
  <2> DEFINE u == SubSeq(t, p + 1, l)
  <2>3. /\ u \in Seq(Nat) /\ Len(u) = IF p + 1 <= l THEN l - (p + 1) + 1 ELSE 0
        /\ \A i \in 1 .. l - (p + 1) + 1 : u[i] = t[p + 1 + i - 1]
    BY <2>1, <2>2, SubSeqProperties
  <2>4. u = s
    BY DEF t, p, l
  <2> HIDE DEF u
  <2>5. Len(u) = l - p
    BY <2>1, <2>3
  <2>6. ASSUME NEW i \in 1 .. l - p PROVE u[i] = t[p + i]
    <3>1. i \in 1 .. l - (p + 1) + 1 /\ p + 1 + i - 1 = p + i
      BY <2>1
    <3>2. QED BY <2>3, <3>1
  <2>7. QED BY <2>3, <2>4, <2>5, <2>6 DEF t, p, l
<1>6. ASSUME NEW j \in 1 .. Len(s) PROVE s[j] = m.b - 1 + j
  <2> DEFINE b == m.b
             p == c.parse
             l == Len(c.cs)
  <2>1. b \in Nat /\ p \in Nat /\ l \in Nat /\ j \in 1 .. l - p /\ j \in Int
    BY <1>3, <1>4, <1>5
  <2> HIDE DEF b, p, l
  <2>2. p + j \in p + 1 .. l /\ b - 1 + ((p + j) - p) = b - 1 + j
    BY <2>1
  <2>3. c.cs[p + j] = b - 1 + ((p + j) - p)
    BY <1>2, <2>2 DEF p, l, b
  <2>4. s[j] = c.cs[p + j]
    BY <1>5, <2>1 DEF p, l
  <2>5. QED BY <2>2, <2>3, <2>4 DEF b
<1>7. taken = m.b - 1 + Len(s)
  <2> DEFINE b == m.b
             p == c.parse
             l == Len(c.cs)
  <2>1. b \in Nat /\ p \in Nat /\ l \in Nat /\ taken = b - 1 + l - p
    BY <1>2, <1>3, <1>4
  <2> HIDE DEF b, p, l
  <2>2. taken = b - 1 + (l - p)
    BY <2>1
  <2>3. QED BY <1>5, <2>2 DEF b, p, l
<1>8. c' = Fresh(s)
  BY DEF sanitize_request
<1> HIDE DEF s
<1>9. ScanState(stream, length, m, Fresh(s), events, taken)
  BY <1>2, <1>4, <1>5, <1>6, <1>7, FreshState
<1>10. c'.status = "READ_HEADER" /\ c'.parse = 0 /\ c'.cs = s
  BY <1>8 DEF Fresh
<1>11. Seqs!IsPrefix(events, Meaning(Upto(stream, taken), length))'
  BY DEF SplitInv
<1>12. (Leftover \/ (c.parse = Len(c.cs) /\ Len(c.cs) < StreamSize))'
  <2>1. CASE s = <<>>
    <3>1. Len(s) = 0 /\ 0 < StreamSize
      BY <2>1, ReadHeaderAssumption
    <3>2. QED BY <1>10, <3>1
  <2>2. CASE s # <<>>
    BY <1>2, <1>10, <2>2 DEF Leftover
  <2>3. QED BY <2>1, <2>2
<1>13. \E k : ScanState(stream', length', k, c', events', taken')
  BY <1>8, <1>9
<1>14. QED BY <1>10, <1>11, <1>12, <1>13 DEF SplitInv, Scanning

(* The connection is closed. *)
LEMMA ClosedSplit ==
    ASSUME SplitInv, pc' = "closed", UNCHANGED <<stream, length, taken, events>>
    PROVE  SplitInv'
BY DEF SplitInv

LEMMA ReadySplit ==
    ASSUME ReadInv, SplitInv, ready_request
    PROVE  SplitInv'
<1>1. pc = "blocked" /\ taken < sent /\ pc' = "turn"
      /\ UNCHANGED <<stream, length, taken, c, events>>
  BY DEF ready_request, Readable
<1>2. taken # Len(stream)
  BY <1>1, StreamIsKnown
<1>3. ASSUME c.status \in Scanning
      PROVE  \E m : ScanState(stream', length', m, c', events', taken')
  BY <1>1, <1>2, <1>3 DEF SplitInv, Ended
<1>4. ASSUME c.status \in {"BODY_READ", "BODY_WRITE"}
      PROVE  \E from \in 0 .. Len(stream') : BodyState(stream', length', from, c', events', taken')
  BY <1>1, <1>4 DEF SplitInv
<1>5. Seqs!IsPrefix(events, Meaning(Upto(stream, taken), length))'
  BY <1>1 DEF SplitInv
<1>6. QED BY <1>1, <1>3, <1>4, <1>5 DEF SplitInv

(* When the server waits in a header, it has acted on what it has read. *)
LEMMA WaitingSplit ==
    ASSUME ReadInv, NEW m, ScanState(stream, length, m, c, events, taken),
           c.parse = Len(c.cs), Len(c.cs) < StreamSize
    PROVE  events = Meaning(Upto(stream, taken), length)
<1>1. c \in Request /\ Len(c.cs) \in Nat /\ StreamSize \in Nat
  BY ReadHeaderAssumption DEF ReadInv, Bounded, Request
<1>2. ~(Len(c.cs) >= StreamSize)
  BY <1>1
<1>3. QED BY <1>1, <1>2, AllScanned

LEMMA EofSplit ==
    ASSUME ReadInv, SplitInv, pc = "blocked", taken = sent, c.ka, c.status \in Scanning,
           c' = sanitize_request(c), stream' = SubSeq(stream, 1, sent),
           UNCHANGED <<pc, length, taken, events>>
    PROVE  SplitInv'
<1>1. /\ stream \in Seq(Byte) /\ Len(stream) \in Nat /\ taken \in Nat /\ taken <= Len(stream)
  BY StreamIsKnown
<1>2. PICK m : ScanState(stream, length, m, c, events, taken)
  BY DEF SplitInv, Ended
<1>3. ~Leftover
  <2>1. SUFFICES ASSUME Leftover PROVE FALSE
    OBVIOUS
  <2>2. c.parse = 0
    BY <2>1 DEF Leftover
  <2>3. m.b < m.at
    BY <1>2 DEF ScanState, RequestSoFar
  <2>4. m.b \in Nat /\ m.at \in Nat /\ m.at <= m.b - 1 + 0 + 1
    BY <1>2, <2>2 DEF ScanState, LineSoFar, Reached, Reading
  <2> DEFINE b == m.b
             at == m.at
  <2>5. b \in Nat /\ at \in Nat /\ at <= b - 1 + 0 + 1 /\ b < at
    BY <2>3, <2>4
  <2> HIDE DEF b, at
  <2>6. QED BY <2>5
<1>4. c.parse = Len(c.cs) /\ Len(c.cs) < StreamSize
  BY <1>3 DEF SplitInv, Ended
<1>5. events = Meaning(Upto(stream, taken), length)
  BY <1>2, <1>4, WaitingSplit
<1>6. Upto(stream', taken) = Upto(stream, taken) /\ Len(stream') = taken
  <2> DEFINE t == SubSeq(stream, 1, taken)
  <2>1. t \in Seq(Byte) /\ Len(t) = taken
    BY <1>1, SubSeqProperties
  <2> HIDE DEF t
  <2>2. SubSeq(t, 1, Len(t)) = t
    BY <2>1, SubSeqFull
  <2>3. stream' = t
    BY DEF t
  <2>4. QED BY <2>1, <2>2, <2>3 DEF Upto, t
<1>7. c'.ka = FALSE /\ c'.status = "READ_HEADER"
  BY DEF sanitize_request, Fresh
<1>8. (Meaning(Upto(stream, taken), length))' = Meaning(Upto(stream, taken), length)
  BY <1>6
<1>9. Ended'
  BY <1>5, <1>6, <1>7, <1>8 DEF Ended
<1>10. Seqs!IsPrefix(events, Meaning(Upto(stream, taken), length))'
  BY <1>8 DEF SplitInv
<1>11. QED BY <1>7, <1>9, <1>10 DEF SplitInv, Scanning

(* Every step of the specification keeps the invariant. *)
LEMMA ReadNextSplit ==
    ASSUME ReadInv, SplitInv, [ReadNext]_readVars
    PROVE  SplitInv'
<1>1. CASE read_header
  BY <1>1, ReadHeaderSplit
<1>2. CASE read_body
  BY <1>2, ReadBodySplit
<1>3. CASE write_body
  BY <1>3, WriteBodySplit
<1>4. CASE free_request
  <2>1. CASE c.ka /\ c' = sanitize_request(c) /\ pc' = "blocked"
    BY <1>4, <2>1, FreeRequestSplit DEF free_request
  <2>2. CASE pc' = "closed"
    BY <1>4, <2>2, ClosedSplit DEF free_request
  <2>3. QED BY <1>4, <2>1, <2>2 DEF free_request
<1>5. CASE ready_request
  BY <1>5, ReadySplit
<1>6. CASE Eof
  <2>1. pc = "blocked" /\ taken = sent /\ UNCHANGED <<length, taken, events>>
    BY <1>6 DEF Eof
  <2>2. CASE /\ c.ka /\ c.status \in Scanning
             /\ c' = sanitize_request(c) /\ stream' = SubSeq(stream, 1, sent) /\ UNCHANGED pc
    BY <2>1, <2>2, EofSplit
  <2>3. CASE pc' = "closed" /\ UNCHANGED stream
    BY <2>1, <2>3, ClosedSplit
  <2>4. QED BY <1>6, <2>2, <2>3 DEF Eof
<1>7. CASE Timeout
  BY <1>7, ClosedSplit DEF Timeout
<1>8. CASE Send
  BY <1>8 DEF Send, SplitInv, Ended, Leftover
<1>9. CASE UNCHANGED readVars
  BY <1>9 DEF readVars, SplitInv, Ended, Leftover
<1>10. QED BY <1>1, <1>2, <1>3, <1>4, <1>5, <1>6, <1>7, <1>8, <1>9 DEF ReadNext, Server

LEMMA ReadInitSplit == ReadInit => SplitInv
<1> SUFFICES ASSUME ReadInit PROVE SplitInv
  OBVIOUS
<1> DEFINE m == Known(1, 1, <<>>, <<>>, FALSE)
<1>1. ReadInv /\ taken = 0 /\ c = Fresh(<<>>) /\ pc = "turn" /\ events = <<>>
  BY ReadInitInv DEF ReadInit
<1>2. StreamKnown /\ Len(stream) \in Nat
  BY <1>1, StreamIsKnown
<1>3. m.b = 1 /\ m.at = 1 /\ m.text = <<>> /\ m.ev = <<>>
  BY DEF Known
<1>4. Reached(stream, length, m)
  BY <1>2, ReachedStart DEF StreamKnown
<1> HIDE DEF m
<1> DEFINE s == <<>>
<1>5. s \in Seq(Nat) /\ 0 = m.b - 1 + Len(s) /\ \A j \in 1 .. Len(s) : s[j] = m.b - 1 + j
  BY <1>3
<1> HIDE DEF s
<1>6. ScanState(stream, length, m, Fresh(s), m.ev, 0)
  BY <1>2, <1>3, <1>4, <1>5, FreshState
<1>7. ScanState(stream, length, m, c, events, taken)
  BY <1>1, <1>3, <1>6 DEF s
<1>8. Seqs!IsPrefix(events, Meaning(Upto(stream, taken), length))
  <2>1. taken \in m.at - 1 .. Len(stream)
    BY <1>1, <1>2, <1>3
  <2>2. Seqs!IsPrefix(m.ev, Meaning(Upto(stream, taken), length))
    BY <1>2, <1>4, <2>1, ReachedMeans DEF StreamKnown
  <2>3. QED BY <1>1, <1>3, <2>2
<1>9. c.status = "READ_HEADER"
  BY <1>1 DEF Fresh
<1>10. QED BY <1>1, <1>7, <1>8, <1>9 DEF SplitInv, Scanning

(* What the invariant says of a server that waits. *)
LEMMA SplitIsFree ==
    ASSUME ReadInv, SplitInv
    PROVE  SplitFree
<1>1. ASSUME pc = "blocked", ~Leftover, c.status \in Scanning
      PROVE  events = Meaning(Upto(stream, taken), length)
  <2>1. CASE Ended
    BY <2>1 DEF Ended
  <2>2. CASE ~Ended
    <3>1. PICK m : ScanState(stream, length, m, c, events, taken)
      BY <1>1, <2>2 DEF SplitInv
    <3>2. c.parse = Len(c.cs) /\ Len(c.cs) < StreamSize
      BY <1>1, <2>2 DEF SplitInv
    <3>3. QED BY <3>1, <3>2, WaitingSplit
  <2>3. QED BY <2>1, <2>2
<1>2. ASSUME pc = "blocked", c.status = "BODY_READ"
      PROVE  events = Meaning(Upto(stream, taken), length)
  <2>1. PICK from \in 0 .. Len(stream) : BodyState(stream, length, from, c, events, taken)
    BY <1>2 DEF SplitInv
  <2>2. c.line = 0 /\ c.hend = 0 /\ c.filepos \in Nat
    BY <1>2 DEF ReadInv, Body, Scanning, Bounded, Request
  <2>3. Len(stream) \in Nat /\ taken \in Nat /\ taken <= Len(stream)
    BY StreamIsKnown
  <2> DEFINE f == c.filepos
             w == c.hend - c.line
  <2>4. /\ length \in Nat /\ events \in Seq(Call) /\ f < length
        /\ w < length - f => taken = from + f + w
        /\ \A k \in from .. Len(stream) :
              Meaning(Upto(stream, k), length) =
                 events \o (IF from + length <= k THEN <<<<"body", Positions(from + 1, from + length)>>>>
                            ELSE <<>>)
    BY <1>2, <2>1 DEF BodyState
  <2>5. f \in Nat /\ w = 0 /\ from \in Nat
    BY <2>2, <2>3
  <2> HIDE DEF f, w
  <2>6. taken \in from .. Len(stream) /\ ~(from + length <= taken)
    BY <2>3, <2>4, <2>5
  <2>7. Meaning(Upto(stream, taken), length) = events \o <<>>
    BY <2>4, <2>6
  <2>8. QED BY <2>4, <2>7, ConcatEmptySeq
<1>3. /\ Seqs!IsPrefix(events, Meaning(Upto(stream, taken), length))
      /\ pc = "blocked" => c.status \in Scanning \cup {"BODY_READ"}
  BY DEF SplitInv
<1>4. pc = "blocked" /\ ~Leftover => events = Meaning(Upto(stream, taken), length)
  BY <1>1, <1>2, <1>3
<1>5. QED BY <1>3, <1>4 DEF SplitFree, Upto

(* For every size of the buffers, every stream and every content length,   *)
(* and however the bytes are cut into reads, the calls that read_header    *)
(* and write_body have made are the first of those that the bytes read so  *)
(* far mean, line by line, and all of them when the server waits for more, *)
(* but for a request that was read along with the one before.              *)
THEOREM StreamSplit == ReadSpec => []SplitFree
<1>1. ReadInit => ReadInv /\ SplitInv
  BY ReadInitInv, ReadInitSplit
<1>2. ReadInv /\ SplitInv /\ [ReadNext]_readVars => (ReadInv /\ SplitInv)'
  BY ReadNextInv, ReadNextSplit
<1>3. ReadInv /\ SplitInv => SplitFree
  BY SplitIsFree
<1>4. QED BY <1>1, <1>2, <1>3, PTL DEF ReadSpec
=============================================================================
