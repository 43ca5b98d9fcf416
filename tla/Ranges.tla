------------------------------- MODULE Ranges -------------------------------
(***************************************************************************)
(* range.c: the byte ranges of a request from the characters of its Range  *)
(* headers (range_parse) through ranges_fixup, which knows the size of the *)
(* file, to complete_response, which takes one range after the other; and  *)
(* the pool that ranges come from and go back to.  Numbers are unsigned    *)
(* long and wrap; -1 marks an end that was not given.  The structures are  *)
(* counted, the lists of a request are sequences.                          *)
(***************************************************************************)
EXTENDS Integers, Lists

CONSTANTS
    Modulus,    \* unsigned long counts modulo this
    UIntMax,    \* (unsigned) -1, which differs from -1 when long is wider than int
    Digits,     \* the digits that occur
    Sizes,      \* the sizes of files
    SendMax,    \* system_bufsize: the most that one write takes
    MaxChars    \* bound on the characters of all Range headers

ASSUME RangeAssumption ==
    /\ Modulus \in Nat /\ Modulus % 2 = 0
    /\ UIntMax \in 1 .. Modulus - 1
    /\ Digits \subseteq 0 .. 9
    /\ Sizes \subseteq 1 .. Modulus \div 2 - 1
    /\ SendMax \in Nat \ {0}
    /\ MaxChars \in Nat

Long == 0 .. Modulus - 1
Minus1 == Modulus - 1
INT_MAX == UIntMax \div 2
ByteRange == [start : Long, stop : Long]

VARIABLES
    phase,                  \* header: options are read; parse: inside range_parse;
                            \* send: the response; end: only free_request is left
    mode, start, stop,      \* of range_parse
    ranges, numranges,      \* of the request
    filesize,
    pool, allocated,        \* ranges in the pool, ranges from malloc
    chars                   \* characters still to come

parser == <<mode, start, stop>>
vars == <<phase, parser, ranges, numranges, filesize, pool, allocated, chars>>

Modes == {"initial", "startnum", "gap1", "gap2", "stopnum"}
Codes == {"digit", "white", "comma", "hyphen", "null", "other"}

TypeOK ==
    /\ phase \in {"header", "parse", "send", "end"}
    /\ mode \in Modes /\ {start, stop} \subseteq Long
    /\ ranges \in Seq(ByteRange) /\ numranges \in Nat
    /\ filesize \in Sizes \cup {0}
    /\ {pool, allocated} \subseteq Nat
    /\ chars \in 0 .. MaxChars

Init ==
    /\ phase = "header"
    /\ mode = "initial" /\ start = 0 /\ stop = 0
    /\ ranges = <<>> /\ numranges = 0 /\ filesize = 0
    /\ pool = 0 /\ allocated = 0 /\ chars = MaxChars
-----------------------------------------------------------------------------
(* The pool after n pushes and then k pops; a pop from the empty pool is a *)
(* malloc.                                                                 *)
Pool(n, k) ==
    /\ pool' = IF pool + n >= k THEN pool + n - k ELSE 0
    /\ allocated' = IF pool + n >= k THEN allocated ELSE allocated + k - pool - n

(* Mutant: the ranges that an error discards are not returned. *)
range_abortLeaks == /\ ranges' = <<[start |-> 0, stop |-> Minus1]>>
                    /\ Pool(0, 1)
                    /\ UNCHANGED numranges

range_abort == /\ ranges' = <<[start |-> 0, stop |-> Minus1]>>
               /\ Pool(Len(ranges), 1)
               /\ UNCHANGED numranges

range_add(a, b) == /\ ranges' = Append(ranges, [start |-> a, stop |-> b])
                   /\ numranges' = numranges + 1
                   /\ Pool(0, 1)

(* The table stable: what a character does in each mode (PB, PE: a digit   *)
(* of the beginning or the end; DB, DE: no beginning, no end), whether it  *)
(* submits (SR) or aborts (AR) the range, and the mode after it.           *)
Do(act, end, next) == [act |-> act, end |-> end, mode |-> next]

stable(m, c) ==
    CASE m \in {"initial", "startnum"} /\ c = "digit"      -> Do("PB", "", "startnum")
      [] m = "initial" /\ c \in {"white", "comma", "null"} -> Do("", "", "initial")
      [] m = "initial" /\ c = "hyphen"                     -> Do("DB", "", "gap2")
      [] m \in {"startnum", "gap1"} /\ c = "white"         -> Do("", "", "gap1")
      [] m \in {"startnum", "gap1"} /\ c = "hyphen"        -> Do("", "", "gap2")
      [] m \in {"gap2", "stopnum"} /\ c = "digit"         -> Do("PE", "", "stopnum")
      [] m = "gap2" /\ c = "white"                         -> Do("", "", "gap2")
      [] m = "gap2" /\ c \in {"comma", "null"}             -> Do("DE", "SR", "initial")
      [] m = "stopnum" /\ c \in {"white", "comma", "null"} -> Do("", "SR", "initial")
      [] OTHER                                             -> Do("", "AR", "initial")

(* process_option_line: a Range header, unless an earlier one left a mark. *)
(* One that does not begin with "bytes=" is refused.                       *)
RangeHeader ==
    /\ phase = "header" /\ chars > 0
    /\ ~(ranges # <<>> /\ ranges[1].stop = INT_MAX)
    /\ mode' = "initial" /\ start' = 0 /\ stop' = 0
    /\ phase' \in {"parse", "end"}
    /\ UNCHANGED <<ranges, numranges, filesize, pool, allocated, chars>>

(* range_parse, one character of code c; d is its value if it is a digit.   *)
range_parse(c, d) ==
    LET f == stable(mode, c)
        a == CASE f.act = "PB" -> (start * 10 + d) % Modulus
               [] f.act = "DB" -> Minus1
               [] OTHER        -> start
        b == CASE f.act = "PE" -> (stop * 10 + d) % Modulus
               [] f.act = "DE" -> Minus1
               [] OTHER        -> stop
        abort == f.end = "AR" \/ (f.end = "SR" /\ a = b /\ a = UIntMax)
        submit == f.end = "SR" /\ ~abort
    IN  /\ phase = "parse"
        /\ c = "null" \/ chars > 0
        /\ chars' = IF c = "null" THEN chars ELSE chars - 1
        /\ mode' = f.mode
        /\ start' = IF submit THEN 0 ELSE a
        /\ stop' = IF submit THEN 0 ELSE b
        /\ phase' = IF abort THEN "end" ELSE IF c = "null" THEN "header" ELSE "parse"
        /\ \/ abort /\ range_abort
           \/ submit /\ range_add(a, b)
           \/ ~abort /\ ~submit /\ UNCHANGED <<ranges, numranges, pool, allocated>>
        /\ UNCHANGED filesize
-----------------------------------------------------------------------------
(* Mutant: an end beyond the file stays (only a missing one is replaced).  *)
FixedUnclipped(r, size) ==
    LET b == IF r.stop \in {UIntMax, Minus1} THEN size - 1 ELSE r.stop
    IN  IF r.start = Minus1 THEN [start |-> (size - b) % Modulus, stop |-> size - 1]
        ELSE [start |-> r.start, stop |-> b]

(* ranges_fixup for one range: the end is clipped to the file before a     *)
(* missing beginning is computed from it.                                  *)
Fixed(r, size) ==
    LET b == IF r.stop = UIntMax \/ r.stop >= size THEN size - 1 ELSE r.stop
    IN  IF r.start = Minus1 THEN [start |-> size - b, stop |-> size - 1]
        ELSE [start |-> r.start, stop |-> b]

(* Mutant: a range of one byte is taken for an empty one. *)
DroppedOneByte(r) == r.start >= Modulus \div 2 \/ r.start >= r.stop

(* (long) r->start < 0 || r->start > r->stop *)
Dropped(r) == r.start >= Modulus \div 2 \/ r.start > r.stop

FixedSeq(rs, size) == [i \in DOMAIN rs |-> Fixed(rs[i], size)]

(* init_get: the ranges of the request, or the whole file; without a range *)
(* that is left, the answer is 416.  The dropped ranges go to the pool.    *)
ranges_fixup(size) ==
    LET rs == IF ranges = <<>> THEN <<[start |-> 0, stop |-> Minus1]>> ELSE ranges
        fixed == FixedSeq(rs, size)
        kept == Kept(fixed, {i \in DOMAIN fixed : ~Dropped(fixed[i])})
    IN  /\ phase = "header"
        /\ filesize' = size
        /\ ranges' = kept
        /\ Pool(Len(rs) - Len(kept), Len(rs) - Len(ranges))
        /\ phase' = IF kept = <<>> THEN "end" ELSE "send"
        /\ UNCHANGED <<parser, numranges, chars>>

(* The first range is done.  Only a response that counts several ranges    *)
(* goes on with the next one.                                              *)
complete_response ==
    /\ ranges' = Tail(ranges)
    /\ Pool(1, 0)
    /\ phase' = IF numranges > 1 /\ ranges' # <<>> THEN "send" ELSE "end"

(* process_get: the system accepts n bytes of the first range.             *)
process_get(n) ==
    LET left == ranges[1].stop + 1 - ranges[1].start
    IN  /\ phase = "send"
        /\ n <= left
        /\ \/ n = left /\ complete_response
           \/ /\ n < left
              /\ ranges' = [ranges EXCEPT ![1].start = @ + n]
              /\ UNCHANGED <<phase, pool, allocated>>
        /\ UNCHANGED <<parser, numranges, filesize, chars>>

(* A HEAD request has nothing to send.                                     *)
head_response == /\ phase = "send" /\ complete_response
                 /\ UNCHANGED <<parser, numranges, filesize, chars>>

(* free_request, when the response is complete or the request failed, or   *)
(* the file is empty and no range is looked at: ranges_reset, and the next *)
(* request.                                                                *)
ranges_reset ==
    /\ phase # "parse"
    /\ phase' = "header"
    /\ ranges' = <<>> /\ numranges' = 0 /\ filesize' = 0
    /\ Pool(Len(ranges), 0)
    /\ UNCHANGED <<parser, chars>>

(* SIGHUP returns the pool to malloc.                                      *)
range_pool_empty ==
    /\ phase # "parse"
    /\ pool' = 0
    /\ allocated' = allocated - pool
    /\ UNCHANGED <<phase, parser, ranges, numranges, filesize, chars>>

Next ==
    \/ RangeHeader
    \/ \E c \in Codes, d \in Digits : range_parse(c, d)
    \/ \E size \in Sizes : ranges_fixup(size)
    \/ \E n \in 1 .. SendMax : process_get(n)
    \/ head_response \/ ranges_reset \/ range_pool_empty

Spec == Init /\ [][Next]_vars
-----------------------------------------------------------------------------
(* What is sent lies in the file, whatever numbers the header contained:   *)
(* process_get takes the bytes from start to stop out of the mapping.      *)
(* Before that, the parser's numbers keep the width of their types.        *)
RangesWithin ==
    /\ TypeOK
    /\ phase = "send" =>
       \A i \in DOMAIN ranges :
          ranges[i].start <= ranges[i].stop /\ ranges[i].stop < filesize

(* Every range that malloc returned is in the pool or belongs to the       *)
(* request: dropping, aborting, completing and resetting lose none and     *)
(* push none twice.                                                        *)
NoRangeLost == allocated = pool + Len(ranges)

(* The bytes that a range given in a header stands for (RFC 2616, 14.35).  *)
Suffix(r) == r.start = Minus1
Asked(r, size) ==
    IF Suffix(r) THEN {b \in 0 .. size - 1 : b >= size - r.stop}
    ELSE {b \in 0 .. size - 1 : b >= r.start /\ b <= r.stop}

(* ranges_fixup keeps what was asked for: a suffix shorter than the file,  *)
(* a range with or without an end, in order, and drops what has no byte in *)
(* the file; and numranges says whether there are several parts, which is  *)
(* what complete_response goes by.                                         *)
ShorterThan(size, r) == Suffix(r) => r.stop < size
FixupExact ==
    [][\A size \in Sizes :
         /\ phase = "header" /\ phase' \in {"send", "end"} /\ filesize' = size
         /\ ranges # <<>>
         /\ \A i \in DOMAIN ranges : ShorterThan(size, ranges[i])
         => LET asked == [i \in DOMAIN ranges |-> Asked(ranges[i], size)]
                sent == [i \in DOMAIN ranges' |-> ranges'[i].start .. ranges'[i].stop]
            IN  /\ sent = Kept(asked, {i \in DOMAIN asked : asked[i] # {}})
                /\ Len(ranges') > 1 => numranges' > 1]_vars

(* range.c: a range without a beginning is the last N bytes of the entity; *)
(* of a file of at most N bytes that is the whole file.  The code clips N  *)
(* to the last offset first and leaves out the first byte.                 *)
SuffixWhole ==
    [][\A size \in Sizes :
         /\ phase = "header" /\ phase' \in {"send", "end"} /\ filesize' = size
         /\ Len(ranges) = 1 /\ Suffix(ranges[1]) /\ ranges[1].stop \in size .. Minus1 - 1
         => ranges' = <<[start |-> 0, stop |-> size - 1]>>]_vars
=============================================================================
