----------------------------- MODULE ReadHeader -----------------------------
(***************************************************************************)
(* How the bytes of a connection become requests: the scanner of           *)
(* read_header, the body of a POST on its way to the temporary file        *)
(* (read_body, write_body), and what free_request and sanitize_request do  *)
(* with the bytes of the next request that were read along (read.c,        *)
(* request.c).                                                             *)
(*                                                                         *)
(* The client sends the bytes of stream in pieces of any size.  The        *)
(* server's buffers hold positions of the stream, 0 where a terminator     *)
(* was written.  A byte is CR, LF, one that is refused, or a letter; the   *)
(* first letter of a line says what the line is:                           *)
(*   g, o   a GET of HTTP/1.1 (with keepalive) or of HTTP/0.9              *)
(*   p, q   a POST of HTTP/1.x or of HTTP/0.9                              *)
(*   x      an option, and a malformed request line                        *)
(***************************************************************************)
EXTENDS Integers, Sequences
Seqs == INSTANCE SequencesExt

CONSTANTS
    Streams,       \* what clients send
    Lengths,       \* content lengths; -1 is missing, invalid or too large
    StreamSize,    \* CLIENT_STREAM_SIZE
    BufferSize,    \* BUFFER_SIZE
    MaxHeader      \* MAX_HEADER_LENGTH

Byte == {"CR", "LF", "bad", "g", "o", "p", "q", "x"}

ASSUME ReadHeaderAssumption ==
    /\ {StreamSize, BufferSize, MaxHeader} \subseteq Nat \ {0}
    /\ Lengths \subseteq Nat \cup {-1}
    /\ Streams \subseteq Seq(Byte)

VARIABLES
    stream,    \* what the client sends on this connection
    length,    \* the Content-Length of its POST
    sent,      \* how much of stream has been sent
    taken,     \* how much of it the server has read
    c,         \* the request
    pc,        \* turn, blocked, respond or closed
    why,       \* why the connection was closed
    events     \* history: the calls that the bytes led to

readVars == <<stream, length, sent, taken, c, pc, why, events>>

Scanning == {"READ_HEADER", "ONE_CR", "ONE_LF", "TWO_CR"}

(* header_line and header_end are positions in client_stream, or in buffer *)
(* when inbuf is true; positions count from 0.                             *)
Request == [status : Scanning \cup {"BODY_READ", "BODY_WRITE", "WRITE"},
            cs : Seq(Nat),                     \* client_stream, of client_stream_pos bytes
            parse : Nat,                       \* parse_pos
            line : Nat, hend : Nat,
            inbuf : BOOLEAN, buf : Seq(Nat),   \* buffer
            logline : BOOLEAN, ka : BOOLEAN, method : {"none", "g", "o", "p", "q"},
            filesize : Nat, filepos : Nat,
            post : Seq(Nat)]                   \* the temporary file

ReadTypeOK ==
    /\ length \in Lengths \cup {0} /\ sent \in 0 .. Len(stream) /\ taken \in 0 .. sent
    /\ c \in Request
    /\ pc \in {"turn", "blocked", "respond", "closed"}
    /\ why \in {"open", "done", "refused", "full", "eof", "timeout"}

(* sanitize_request of a new connection, or after a request with keepalive *)
(* (bytes that were read and not parsed move to the front).                *)
Fresh(cs) == [status |-> "READ_HEADER", cs |-> cs, parse |-> 0, line |-> 0, hend |-> 0,
              inbuf |-> FALSE, buf |-> <<>>, logline |-> FALSE, ka |-> FALSE,
              method |-> "none", filesize |-> 0, filepos |-> 0, post |-> <<>>]

(* The rest is kept from the start of the last line.                       *)
sanitize_requestLine(x) == Fresh(SubSeq(x.cs, x.line + 1, Len(x.cs)))

sanitize_request(x) == Fresh(SubSeq(x.cs, x.parse + 1, Len(x.cs)))

ReadInit ==
    /\ stream \in Streams
    /\ length \in IF {"p", "q"} \cap Seqs!ToSet(stream) # {} THEN Lengths ELSE {0}
    /\ sent = 0 /\ taken = 0 /\ c = Fresh(<<>>)
    /\ pc = "turn" /\ why = "open" /\ events = <<>>
-----------------------------------------------------------------------------
(* read_header *)

(* A call's result: its return value, the request and the events so far;   *)
(* while the scan goes on the return value is "scan".                      *)
Out(n, x, ev) == [ret |-> n, c |-> x, ev |-> ev]
Refused(x, ev) == Out("refused", [x EXCEPT !.ka = FALSE], Append(ev, <<"refused">>))

(* The first place of b in s from at on, or 0.                             *)
FirstFrom(s, b, at) ==
    LET I == {i \in at .. Len(s) : s[i] = b}
    IN  IF I = {} THEN 0 ELSE CHOOSE i \in I : \A j \in I : i <= j

(* The string that begins at header_line.                                  *)
Text(x) == SubSeq(x.cs, x.line + 1, FirstFrom(x.cs, 0, x.line + 1) - 1)

Letter(text) == IF text = <<>> THEN "none" ELSE stream[text[1]]

(* process_header_end: a POST gets its temporary file, anything else is    *)
(* answered.                                                               *)
process_header_end(x, ev) ==
    IF x.method \in {"p", "q"} THEN Out("more", [x EXCEPT !.post = <<>>], Append(ev, <<"end">>))
    ELSE Out("respond", [x EXCEPT !.status = "WRITE"], Append(ev, <<"end">>))

(* The end of a line: it is the request line or an option.  HTTP/0.9 needs *)
(* no more, and header_line stays where it is.                             *)
LineEnd(x, ev) ==
    LET t == [x EXCEPT !.cs[x.hend + 1] = 0]
        text == Text(t)
        kind == Letter(text)
    IN  IF t.hend - t.line >= MaxHeader THEN Refused(t, ev)
        ELSE IF t.logline
        THEN IF kind # "x" THEN Refused(t, Append(ev, <<"option", text>>))
             ELSE Out("scan", [t EXCEPT !.line = t.parse], Append(ev, <<"option", text>>))
        ELSE IF kind \notin {"g", "o", "p", "q"} THEN Refused([t EXCEPT !.logline = TRUE], ev)
        ELSE LET l == [t EXCEPT !.logline = TRUE, !.method = kind, !.ka = (kind = "g")]
                 seen == Append(ev, <<"request", text>>)
             IN  IF kind \in {"o", "q"} THEN process_header_end(l, seen)
                 ELSE Out("scan", [l EXCEPT !.line = l.parse], seen)

(* The end of the header: what follows in the buffer is the body of a      *)
(* POST, as far as its length goes.                                        *)
HeaderEnd(x, ev) ==
    LET o == process_header_end(x, ev)
        p == o.c
        body == Len(p.cs) - p.parse
    IN  IF o.ret # "more" THEN o
        ELSE IF length < 0 THEN Refused(p, o.ev)
        ELSE Out("more", [p EXCEPT !.status = "BODY_WRITE", !.filesize = length, !.filepos = 0,
                              !.line = p.parse,
                              !.hend = p.parse + (IF body > length THEN length ELSE body)],
                 o.ev)

(* The scanner's states.                                                   *)
Step(status, b) ==
    CASE status = "READ_HEADER" -> (CASE b = "CR" -> "ONE_CR" [] b = "LF" -> "ONE_LF"
                                      [] OTHER -> "READ_HEADER")
      [] status = "ONE_CR" -> (CASE b = "CR" -> "ONE_CR" [] b = "LF" -> "ONE_LF"
                                 [] OTHER -> "READ_HEADER")
      [] status = "ONE_LF" -> (CASE b = "CR" -> "TWO_CR" [] b = "LF" -> "BODY_READ"
                                 [] OTHER -> "READ_HEADER")
      [] status = "TWO_CR" -> (CASE b = "CR" -> "TWO_CR" [] b = "LF" -> "BODY_READ"
                                 [] OTHER -> "READ_HEADER")

(* One byte.                                                               *)
ScanByte(o, at) ==
    LET x == o.c
        b == stream[at]
        s == Step(x.status, b)
        p == [x EXCEPT !.status = s, !.parse = @ + 1,
                       !.hend = IF x.status = "READ_HEADER" /\ b \in {"CR", "LF"}
                                THEN x.parse ELSE @]
    IN  CASE o.ret # "scan" -> o
          [] o.ret = "scan" /\ b = "bad" -> Refused(x, o.ev)
          [] o.ret = "scan" /\ b # "bad" /\ s = "ONE_LF" -> LineEnd(p, o.ev)
          [] o.ret = "scan" /\ b # "bad" /\ s = "BODY_READ" -> HeaderEnd(p, o.ev)
          [] OTHER -> Out("scan", p, o.ev)

(* The bytes that were read and not parsed, one after the other.           *)
Scan(x) ==
    LET scan[i \in 0 .. Len(x.cs) - x.parse] ==
            IF i = 0 THEN Out("scan", x, events) ELSE ScanByte(scan[i - 1], x.cs[x.parse + i])
    IN  scan[Len(x.cs) - x.parse]

Least(a, b) == IF a < b THEN a ELSE b

(* The room for more of the header.                                        *)
SpaceOneMore(x) == StreamSize + 1 - Len(x.cs)

Space(x) == StreamSize - Len(x.cs)

(* What read(2) takes from the socket.                                     *)
Input(n) == [i \in 1 .. n |-> taken + i]

(* What becomes of the connection: the event loop takes it back (-1),      *)
(* free_request closes it, or it has another turn.                         *)
Dispose(o, n) ==
    /\ c' = o.c /\ events' = o.ev /\ taken' = taken + n
    /\ CASE o.ret = "more" -> pc' = "turn" /\ UNCHANGED why
         [] o.ret = "blocked" -> pc' = "blocked" /\ UNCHANGED why
         [] o.ret = "respond" -> pc' = "respond" /\ UNCHANGED why
         [] o.ret \in {"refused", "full", "done"} -> pc' = "closed" /\ why' = o.ret
    /\ UNCHANGED <<stream, length, sent>>

(* read_header that takes what it has read for parsed, and waits for more. *)
read_headerWaits ==
    /\ pc = "turn" /\ c.status \in Scanning
    /\ LET o == Scan(c)
           n == Least(sent - taken, Space(o.c))
       IN  IF o.ret # "scan" THEN Dispose(o, 0)
           ELSE IF Space(o.c) < 1
           THEN Dispose(Out("full", o.c, Append(o.ev, <<"full">>)), 0)
           ELSE Dispose(Out("blocked", [o.c EXCEPT !.cs = @ \o Input(n)], o.ev), n)

(* What was read is scanned, and if the header goes on, more is read.      *)
read_header ==
    /\ pc = "turn" /\ c.status \in Scanning
    /\ LET o == Scan(c)
           n == Least(sent - taken, Space(o.c))
       IN  IF o.ret # "scan" THEN Dispose(o, 0)
           ELSE IF Space(o.c) < 1
           THEN Dispose(Out("full", o.c, Append(o.ev, <<"full">>)), 0)
           ELSE IF n = 0 THEN Dispose(Out("blocked", o.c, o.ev), 0)
           ELSE Dispose(Out("more", [o.c EXCEPT !.cs = @ \o Input(n)], o.ev), n)
-----------------------------------------------------------------------------
(* The body of a POST *)

(* The next bytes to write: from client_stream first, then from buffer.    *)
Pending(x) == SubSeq(IF x.inbuf THEN x.buf ELSE x.cs, x.line + 1, x.hend)

read_body ==
    /\ pc = "turn" /\ c.status = "BODY_READ"
    /\ LET want == Least(c.filesize - c.filepos, BufferSize - (c.hend - c.line))
           n == Least(sent - taken, want)
           p == [c EXCEPT !.status = "BODY_WRITE", !.buf = SubSeq(@, 1, c.hend) \o Input(n),
                          !.hend = @ + n]
       IN  IF want <= 0 THEN Dispose(Out("more", [c EXCEPT !.status = "BODY_WRITE"], events), 0)
           ELSE IF n = 0 THEN Dispose(Out("blocked", c, events), 0)
           ELSE Dispose(Out("more", p, events), n)

(* The file may take less than it is given.  With all of it there the CGI  *)
(* starts.                                                                 *)
write_body ==
    /\ pc = "turn" /\ c.status = "BODY_WRITE"
    /\ LET n == Least(c.hend - c.line, c.filesize - c.filepos)
           p == [c EXCEPT !.line = 0, !.hend = 0, !.inbuf = TRUE, !.buf = <<>>]
       IN  \/ /\ n = 0 /\ c.filepos >= c.filesize
              /\ Dispose(Out("done", p, Append(events, <<"body", c.post>>)), 0)
           \/ /\ n = 0 /\ c.filepos < c.filesize
              /\ Dispose(Out("more", [p EXCEPT !.status = "BODY_READ"], events), 0)
           \/ \E k \in 1 .. n :
                 Dispose(Out("more", [c EXCEPT !.post = @ \o SubSeq(Pending(c), 1, k),
                                          !.filepos = @ + k, !.line = @ + k], events), 0)
-----------------------------------------------------------------------------
(* free_request at the end of a response: with keepalive the request       *)
(* starts over and waits for the socket; the response may have ended it.   *)
free_request ==
    /\ pc = "respond"
    /\ \/ /\ c.ka
          /\ c' = sanitize_request(c) /\ pc' = "blocked"
          /\ UNCHANGED why
       \/ /\ pc' = "closed" /\ why' = "done"
          /\ UNCHANGED c
    /\ UNCHANGED <<stream, length, sent, taken, events>>

(* The socket can be read.                                                 *)
Readable == taken < sent

(* The event loop finds the socket readable.                               *)
ready_request ==
    /\ pc = "blocked" /\ Readable
    /\ pc' = "turn"
    /\ UNCHANGED <<stream, length, sent, taken, c, why, events>>

(* The client closes its side or the connection breaks: while a header is  *)
(* read, keepalive has free_request start over, and the next read ends it. *)
Eof ==
    /\ pc = "blocked" /\ taken = sent
    /\ \/ /\ c.ka
          /\ c.status \in Scanning
          /\ c' = sanitize_request(c) /\ stream' = SubSeq(stream, 1, sent)
          /\ UNCHANGED <<pc, why>>
       \/ /\ ~c.ka \/ c.status \notin Scanning
          /\ pc' = "closed" /\ why' = "eof"
          /\ UNCHANGED <<stream, c>>
    /\ UNCHANGED <<length, sent, taken, events>>

Timeout ==
    /\ pc = "blocked"
    /\ pc' = "closed" /\ why' = "timeout"
    /\ UNCHANGED <<stream, length, sent, taken, c, events>>

Send ==
    /\ sent < Len(stream) /\ pc # "closed"
    /\ sent' = sent + 1
    /\ UNCHANGED <<stream, length, taken, c, pc, why, events>>

Server == read_header \/ read_body \/ write_body \/ free_request \/ ready_request

ReadNext == Server \/ Eof \/ Timeout \/ Send

ReadSpec == ReadInit /\ [][ReadNext]_readVars

(* Runnable is ENABLED <<Server>>_readVars in simpler words; the first     *)
(* condition is WF_readVars(Server).                                       *)
Runnable == pc \in {"turn", "respond"} \/ (pc = "blocked" /\ Readable)

(* The server runs and what the client sends arrives.                      *)
FairSpec ==
    /\ ReadSpec
    /\ []<>(~Runnable) \/ []<><<Server>>_readVars
    /\ WF_readVars(Send)
-----------------------------------------------------------------------------
(* The reference: what a stream of bytes means, by its LFs alone, not byte *)
(* by byte.  A line ends with LF, the CRs before it do not belong to it; a *)
(* line of nothing else ends the header.                                   *)
LastLetter(s, at, to) ==
    LET I == {i \in at .. to : s[i] # "CR"}
    IN  IF I = {} THEN at - 1 ELSE CHOOSE i \in I : \A j \in I : j <= i
Positions(from, to) == [i \in 1 .. to - from + 1 |-> from + i - 1]

(* What the lines so far mean: b is where the request begins, at the next  *)
(* line, text the request line as far as it is known, ev the calls; over   *)
(* that nothing follows.                                                   *)
Known(b, at, text, ev, over) ==
    [b |-> b, at |-> at, text |-> text, ev |-> ev, over |-> over]

(* One line more; n is the length of a body.  A header has StreamSize      *)
(* bytes at most.  An HTTP/0.9 POST has its request line taken for its     *)
(* first option.                                                           *)
Line(s, n, m) ==
    LET lf == FirstFrom(s, "LF", m.at)
        bad == FirstFrom(s, "bad", m.at)
        limit == m.b + StreamSize - 1
        last == LastLetter(s, m.at, lf - 1)
        line == Positions(m.at, last)
        kind == IF line = <<>> THEN "none" ELSE s[m.at]
        method == IF m.text = <<>> THEN "none" ELSE s[m.text[1]]
        again == method = "q" /\ m.at = FirstFrom(s, "LF", m.b) + 1
        body == <<"body", Positions(lf + 1, lf + n)>>
        More(text, ev) == Known(m.b, lf + 1, text, m.ev \o ev, FALSE)
        Stop(ev) == Known(m.b, m.at, m.text, m.ev \o ev, TRUE)
    IN  IF m.over THEN m
        ELSE IF bad # 0 /\ bad <= limit /\ (lf = 0 \/ bad < lf) THEN Stop(<<<<"refused">>>>)
        ELSE IF lf = 0 \/ lf > limit THEN IF Len(s) >= limit THEN Stop(<<<<"full">>>>) ELSE m
        ELSE IF m.text # <<>> /\ line = <<>>
        THEN CASE method = "g" -> Known(lf + 1, lf + 1, <<>>, Append(m.ev, <<"end">>), FALSE)
               [] method # "g" /\ n < 0 -> Stop(<<<<"end">>, <<"refused">>>>)
               [] method # "g" /\ n >= 0 ->
                     Stop(IF lf + n <= Len(s) THEN <<<<"end">>, body>> ELSE <<<<"end">>>>)
        ELSE IF last + 1 - (IF again THEN m.b ELSE m.at) >= MaxHeader THEN Stop(<<<<"refused">>>>)
        ELSE IF m.text = <<>>
        THEN CASE kind \in {"g", "p"} -> More(line, <<<<"request", line>>>>)
               [] kind = "q" -> More(line, <<<<"request", line>>, <<"end">>>>)
               [] kind = "o" -> Stop(<<<<"request", line>>, <<"end">>>>)
               [] OTHER -> Stop(<<<<"refused">>>>)
        ELSE IF again \/ kind # "x"
        THEN Stop(<<<<"option", IF again THEN m.text ELSE line>>, <<"refused">>>>)
        ELSE More(m.text, <<<<"option", line>>>>)

LinesOf(s, n) ==
    LET lines[i \in 0 .. Len(s) + 1] ==
            IF i = 0 THEN Known(1, 1, <<>>, <<>>, FALSE) ELSE Line(s, n, lines[i - 1])
    IN  lines

(* After as many lines as a stream may have.                               *)
Meaning(s, n) == LinesOf(s, n)[Len(s) + 1].ev

(* Bytes of the next request are in client_stream and nobody looks at them *)
(* until more arrive.                                                      *)
Leftover == pc = "blocked" /\ c.parse = 0 /\ c.cs # <<>> /\ events # <<>>

(* However the stream is cut into reads, also between CR and LF, and       *)
(* whatever was read along with the request before, read_header makes the  *)
(* calls that the bytes mean, in order, each once, with the right lines,   *)
(* and the CGI gets the right body; when the server waits it has made all. *)
SplitFree ==
    LET m == Meaning(SubSeq(stream, 1, taken), length)
    IN  Seqs!IsPrefix(events, m) /\ (pc = "blocked" /\ ~Leftover => events = m)

(* Nothing is stored behind client_stream or buffer, and the scanner never *)
(* gets ahead of what was read; nor do the terminator it writes behind a   *)
(* line and the part of a body that goes to the temporary file.            *)
StreamBounds ==
    /\ ReadTypeOK
    /\ Len(c.cs) <= StreamSize /\ c.parse <= Len(c.cs) /\ Len(c.buf) <= BufferSize
    /\ c.hend <= IF c.inbuf THEN Len(c.buf) ELSE Len(c.cs)
    /\ c.status \in Scanning \ {"READ_HEADER"} => c.hend < c.parse
    /\ c.filepos <= c.filesize /\ c.filepos = Len(c.post)

(* All that the client sends is acted on or the connection closed, unless  *)
(* the next request was read along with the one before.                    *)
Served == <>[](pc = "closed" \/ Leftover \/ events = Meaning(stream, length))
-----------------------------------------------------------------------------
(* CHANGES: pipelining works, so the server does not wait for the client   *)
(* while it has a request that it has read and not acted on.               *)
Answered(ev) == Len(SelectSeq(ev, LAMBDA e : e[1] = "end"))

Pipelining ==
    pc = "blocked" =>
        Answered(events) = Answered(Meaning(SubSeq(stream, 1, taken), length))
=============================================================================
