-------------------------------- MODULE Uri ---------------------------------
(***************************************************************************)
(* The pure functions that a request's URI and host go through: unescape_  *)
(* uri, clean_pathname and check_host (util.c), each with a definition of  *)
(* what it should compute.  A string is a sequence of characters.          *)
(***************************************************************************)
EXTENDS Integers, Sequences, Lists

CONSTANTS
    Char,            \* the characters, NUL and whatever stands for a part of a path included
    Decode(_, _)     \* HEX_TO_DECIMAL: the character of two hex digits

ASSUME UriAssumption ==
    /\ {"NUL", "/"} \subseteq Char
    /\ \A x, y \in Char : Decode(x, y) \in Char

(* The characters of a string, which its terminator ends.                  *)
Text == Char \ {"NUL"}

(* The first of the places I, or 0.                                        *)
FirstOf(I) == IF I = {} THEN 0 ELSE CHOOSE i \in I : \A j \in I : i <= j

(* A string ends at its first NUL.                                         *)
CString(s) ==
    LET n == FirstOf({i \in 1 .. Len(s) : s[i] = "NUL"})
    IN  IF n = 0 THEN s ELSE SubSeq(s, 1, n - 1)

(* unescape_uri, a character at a time: %xx is decoded, ? begins the query *)
(* string, and # a fragment in which only a ? is looked for.               *)
UnescapeChar(st, x) ==
    CASE st.mode = "copy" ->
           (CASE x = "%" -> [st EXCEPT !.mode = "hex"]
              [] x = "?" -> [st EXCEPT !.mode = "query"]
              [] x = "#" -> [st EXCEPT !.mode = "fragment"]
              [] OTHER -> [st EXCEPT !.uri = Append(@, x)])
      [] st.mode = "hex" -> [st EXCEPT !.mode = "hex2", !.digit = x]
      [] st.mode = "hex2" ->
           [st EXCEPT !.mode = "copy", !.uri = Append(@, Decode(st.digit, x))]
      [] st.mode = "query" -> [st EXCEPT !.query = Append(@, x)]
      [] st.mode = "fragment" -> IF x = "?" THEN [st EXCEPT !.mode = "query"] ELSE st

unescape_uri(s) ==
    LET st[i \in 0 .. Len(s)] ==
            IF i = 0 THEN [mode |-> "copy", digit |-> "NUL", uri |-> <<>>, query |-> <<>>]
            ELSE UnescapeChar(st[i - 1], s[i])
        end == st[Len(s)]
    IN  [ok |-> end.mode \notin {"hex", "hex2"}, uri |-> CString(end.uri), query |-> end.query]

(* The character at i, or the terminator.                                  *)
At(s, i) == IF i <= Len(s) THEN s[i] ELSE "NUL"

(* After a slash only one unsafe part is skipped.                          *)
AfterSlashOnce(s, i) ==
    CASE At(s, i) = "/" -> i + 1
      [] At(s, i) = "." /\ At(s, i + 1) = "/" -> i + 2
      [] At(s, i) = "." /\ At(s, i + 1) = "." /\ At(s, i + 2) = "/" -> i + 3
      [] OTHER -> i

(* After a slash, all of /, ./ and ../ are skipped.                        *)
AfterSlash(s, i) ==
    LET skip[j \in 1 .. Len(s) + 1] ==
            CASE At(s, j) = "/" -> skip[j + 1]
              [] At(s, j) = "." /\ At(s, j + 1) = "/" -> skip[j + 2]
              [] At(s, j) = "." /\ At(s, j + 1) = "." /\ At(s, j + 2) = "/" -> skip[j + 3]
              [] OTHER -> j
    IN  skip[i]

clean_pathname(s) ==
    LET clean[i \in 1 .. Len(s) + 1] ==
            IF i > Len(s) THEN <<>>
            ELSE IF s[i] = "/" THEN <<"/">> \o clean[AfterSlash(s, i + 1)]
            ELSE <<s[i]>> \o clean[i + 1]
    IN  clean[1]

Alnum == {"a", "b", "1"}

(* check_host: letters, digits, - and single dots; the ends are letters or *)
(* digits.                                                                 *)
check_host(h) ==
    /\ h # <<>> /\ h[1] \in Alnum /\ Len(h) <= 63
    /\ \A i \in 2 .. Len(h) :
          \/ h[i] \in Alnum \cup {"-"}
          \/ h[i] = "." /\ h[i - 1] # "."
    /\ h[Len(h)] \in Alnum
-----------------------------------------------------------------------------
(* What they should compute *)

(* The places of the parts that are empty, . or .. and of the slashes      *)
(* behind them; the parts before the first and behind the last slash stay. *)
Unclean(s) ==
    {i \in 1 .. Len(s) :
       \E a, b \in 1 .. Len(s) :
          /\ a < i /\ i <= b /\ s[a] = "/" /\ s[b] = "/"
          /\ SubSeq(s, a + 1, b - 1) \in {<<>>, <<".">>, <<".", ".">>}}

Cleaned(s) == Kept(s, 1 .. Len(s) \ Unclean(s))

(* The labels of a host name: what is between two dots, or an end.         *)
HostLabels(h) ==
    LET P == {0, Len(h) + 1} \cup {i \in 1 .. Len(h) : h[i] = "."}
    IN  {SubSeq(h, e[1] + 1, e[2] - 1) :
           e \in {e \in P \X P : e[1] < e[2] /\ \A j \in P : ~(e[1] < j /\ j < e[2])}}
=============================================================================
