------------------------------ MODULE Transfer ------------------------------
(***************************************************************************)
(* The bytes of one response on their way to the client: req_write and     *)
(* req_flush (buffer.c), the start of a response (get.c, cgi.c), its       *)
(* handlers (process_get, pipe.c, cgi_header.c), the end of a part         *)
(* (response.c) and the turns of process_requests that call them.          *)
(*                                                                         *)
(* The bytes of a response are numbered as the client should get them: the *)
(* header is 1 .. HeaderLen, and what follows, body, part headers and      *)
(* closing boundary, has the numbers after it.  A unit stands for many     *)
(* bytes.  The client empties the socket while the server works, also      *)
(* between the flush and the handler of one turn.                          *)
(***************************************************************************)
EXTENDS Integers, Sequences

CONSTANTS
    BufferSize,    \* BUFFER_SIZE
    HeaderLen,     \* length of the response header
    Reserve,       \* the 256 bytes kept for what follows a part
    PartLen,       \* length of a part header or of the closing boundary
    Room,          \* the room in an empty socket buffer
    Files,         \* the lengths of the ranges of a request
    OutputLen,     \* the output of the child process
    CgiHeaders     \* the lengths of the part of it that is a CGI's header

ASSUME TransferAssumption ==
    /\ {BufferSize, HeaderLen, Reserve, PartLen, Room, OutputLen} \subseteq Nat \ {0}
    /\ HeaderLen < BufferSize \div 2 /\ CgiHeaders \subseteq 1 .. OutputLen
    /\ PartLen <= Reserve /\ HeaderLen + Reserve < BufferSize
    /\ Files \subseteq Seq(Nat \ {0}) /\ <<>> \notin Files

VARIABLES
    kind,     \* what kind of response this is
    parts,    \* the lengths of the ranges that were asked for
    q,        \* the request, its socket and its pipe
    pc,       \* start, turn, handler, blocked or end
    wait,     \* what a blocked request waits for
    raced,    \* history: bytes passed the ones the buffer still held
    closed    \* how the response ended

vars == <<kind, parts, q, pc, wait, raced, closed>>

FileKinds == {"mmap", "sendfile", "shuffle"}
(* A CGI whose header gets a 200, for a GET or a HEAD, that sends its own  *)
(* status, that redirects, that answers HTTP/0.9; a directory listing; a   *)
(* child that writes to the socket.                                        *)
CgiKinds == {"plain", "head", "status", "redirect", "http09"}
Kinds == FileKinds \cup CgiKinds \cup {"listing", "gunzip"}

Closing == {"DEAD"}
Slots == 0 .. BufferSize + 1      \* the last one is behind the array
Neighbour == 1                    \* what is there

Least(a, b) == IF a < b THEN a ELSE b

Request == [status : {"WRITE", "IOSHUFFLE", "PIPE_READ", "PIPE_WRITE", "DONE"} \cup Closing,
            buf : [Slots -> Nat],                  \* buffer, 0 where unused
            start : Nat, end : Nat,                \* buffer_start, buffer_end
            line : Nat, hend : Nat,                \* header_line, header_end
            cgi : {"PARSE", "BUFFER", "DONE"},     \* cgi_status
            head : Nat,                            \* length of the CGI's header
            ranges : Seq(Nat),                     \* what is left of each range
            file : Nat, open : BOOLEAN,            \* what is left of the file
            next : Nat,                            \* the byte produced last
            sent : Seq(Nat),                       \* what the client was sent
            room : 0 .. Room,                      \* room in the socket
            pipe : Nat, output : Nat]              \* in the pipe, to be produced

TypeOK ==
    /\ kind \in Kinds /\ q \in Request
    /\ pc \in {"start", "turn", "handler", "blocked", "end"}
    /\ wait \in {"none", "socket", "pipe"}
    /\ raced \in BOOLEAN
    /\ closed \in {"no", "complete", "dropped", "dead", "error"}

(* The sum of the ranges.                                                  *)
Total(s) == LET sum[i \in 0 .. Len(s)] == IF i = 0 THEN 0 ELSE sum[i - 1] + s[i]
            IN  sum[Len(s)]

(* A file may be shorter than it was when its size was looked up, where it *)
(* is read and not mapped, and the socket may still hold bytes of an       *)
(* earlier response.                                                       *)
Init ==
    /\ kind \in Kinds
    /\ parts \in IF kind \in FileKinds THEN Files ELSE {<<>>}
    /\ \E size \in IF kind \in {"shuffle", "sendfile"} THEN 0 .. Total(parts) ELSE {0},
          head \in IF kind \in CgiKinds THEN CgiHeaders ELSE {0}, free \in 0 .. Room :
          q = [status |-> "WRITE", start |-> 0, end |-> 0,
               buf |-> [i \in Slots |-> IF i > BufferSize THEN Neighbour ELSE 0],
               line |-> 0, hend |-> 0, cgi |-> "PARSE", head |-> head, ranges |-> parts,
               file |-> size, open |-> TRUE, next |-> 0, sent |-> <<>>, room |-> free,
               pipe |-> 0, output |-> IF kind \in FileKinds THEN 0 ELSE OutputLen]
    /\ pc = "start" /\ wait = "none" /\ raced = FALSE /\ closed = "no"
-----------------------------------------------------------------------------
(* buffer.c *)

Bytes(from, n) == [i \in 1 .. n |-> from + i]
Cut(buf, from, to) == [i \in 1 .. to - from |-> buf[from + i - 1]]
Put(buf, at, s) ==
    [i \in Slots |-> IF i \in at .. at + Len(s) - 1 THEN s[i - at + 1] ELSE buf[i]]

Out(n, x) == [ret |-> n, q |-> x]

(* req_write without the test for room: memcpy writes what there is.       *)
req_writeUnchecked(x, s) == [x EXCEPT !.buf = Put(@, x.end, s), !.end = @ + Len(s)]

req_write(x, s) ==
    IF x.status \in Closing THEN x
    ELSE IF x.end + Len(s) > BufferSize THEN [x EXCEPT !.status = "DEAD"]
    ELSE [x EXCEPT !.buf = Put(@, x.end, s), !.end = @ + Len(s)]

(* Bytes that follow what was produced before.                             *)
Written(x, n) == [req_write(x, Bytes(x.next, n)) EXCEPT !.next = @ + n]

(* The header of a response, and of an error page.                         *)
Header(x) == req_write(x, Bytes(0, HeaderLen))

(* write(2): the socket takes what it has room for.                        *)
Taken(x, s) == Least(Len(s), x.room)
Send(x, s) == [x EXCEPT !.room = @ - Taken(x, s), !.sent = @ \o SubSeq(s, 1, Taken(x, s))]

(* req_flush that starts over after a partial write.                       *)
req_flushAgain(x) ==
    LET s == Cut(x.buf, x.start, x.end)
    IN  IF x.status \in Closing THEN Out(-2, x)
        ELSE IF s # <<>> /\ x.room = 0 THEN Out(-1, x)
        ELSE IF Taken(x, s) = Len(s) THEN Out(0, [Send(x, s) EXCEPT !.start = 0, !.end = 0])
        ELSE Out(x.end, Send(x, s))

(* req_flush: -2 error, -1 blocked, otherwise how much is stored.          *)
req_flush(x) ==
    LET s == Cut(x.buf, x.start, x.end)
    IN  IF x.status \in Closing THEN Out(-2, x)
        ELSE IF s # <<>> /\ x.room = 0 THEN Out(-1, x)
        ELSE IF Taken(x, s) = Len(s) THEN Out(0, [Send(x, s) EXCEPT !.start = 0, !.end = 0])
        ELSE Out(x.end, [Send(x, s) EXCEPT !.start = @ + Taken(x, s)])
-----------------------------------------------------------------------------
(* response.c and get.c *)

(* The closing boundary is written to a request that is already DONE.      *)
complete_responseUnfinished(x) ==
    LET p == [x EXCEPT !.ranges = Tail(@)]
    IN  IF Len(parts) = 1 \/ p.ranges = <<>> THEN Out(0, [p EXCEPT !.status = "DONE"])
        ELSE Out(1, Written(p, PartLen))

(* The header of the next part is longer than the closing boundary.        *)
complete_responseLonger(x) ==
    LET p == [x EXCEPT !.ranges = Tail(@)]
    IN  IF Len(parts) = 1 THEN Out(0, [p EXCEPT !.status = "DONE"])
        ELSE IF p.ranges # <<>> THEN Out(1, Written(p, PartLen + 1))
        ELSE Out(1, req_flush([Written(p, PartLen) EXCEPT !.status = "DONE"]).q)

(* One range is done: the whole response is, or the header of the next     *)
(* part follows, or the closing boundary.  DONE also replaces the DEAD of  *)
(* a boundary that did not fit.                                            *)
complete_response(x) ==
    LET p == [x EXCEPT !.ranges = Tail(@)]
    IN  IF Len(parts) = 1 THEN Out(0, [p EXCEPT !.status = "DONE"])
        ELSE IF p.ranges # <<>> THEN Out(1, Written(p, PartLen))
        ELSE Out(1, req_flush([Written(p, PartLen) EXCEPT !.status = "DONE"]).q)

(* The end of init_get: the header is written, and as much of the first    *)
(* range of a mapping as the buffer holds.                                 *)
init_get(x) ==
    LET h == [Header(x) EXCEPT !.next = HeaderLen,
                               !.status = IF kind = "mmap" THEN "WRITE" ELSE "IOSHUFFLE"]
        want == h.ranges[1]
        n == Least(BufferSize - h.end, want)
        p == [Written(h, n) EXCEPT !.ranges[1] = @ - n]
    IN  IF kind # "mmap" \/ BufferSize - h.end <= Reserve THEN Out(1, h)
        ELSE IF n = want THEN complete_response(p) ELSE Out(1, p)

(* process_get and io_shuffle_sendfile: from the file to the socket.  At   *)
(* the end of a file that was cut short sendfile sends nothing, which is   *)
(* taken for a socket that is full.                                        *)
process_get(x) ==
    LET s == Bytes(x.next, IF kind = "sendfile" THEN Least(x.ranges[1], x.file)
                           ELSE x.ranges[1])
        k == Taken(x, s)
        p == [Send(x, s) EXCEPT !.next = @ + k, !.ranges[1] = @ - k,
                                !.file = IF kind = "sendfile" THEN @ - k ELSE @]
    IN  IF k = 0 THEN Out(-1, x)
        ELSE IF p.ranges[1] = 0 THEN complete_response(p) ELSE Out(1, p)
-----------------------------------------------------------------------------
(* pipe.c: io_shuffle *)

(* The second half: the buffer is written to the socket.                   *)
ShuffleOut(x) ==
    LET s == Cut(x.buf, x.start, x.end)
    IN  IF s = <<>> /\ ~x.open THEN Out(0, x)
        ELSE IF s = <<>> THEN Out(1, [x EXCEPT !.start = 0, !.end = 0])
        ELSE IF x.room = 0 THEN Out(-1, x)
        ELSE IF Taken(x, s) = Len(s) THEN Out(1, [Send(x, s) EXCEPT !.start = 0, !.end = 0])
        ELSE Out(1, [Send(x, s) EXCEPT !.start = @ + Taken(x, s)])

(* The first half: what is left of the range is read behind what the       *)
(* buffer holds, keeping the reserve; at the end of the file it is closed. *)
io_shuffle(x) ==
    LET n == Least(BufferSize - x.end - Reserve, x.ranges[1])
        m == Least(n, x.file)
        p == [x EXCEPT !.buf = Put(@, x.end, Bytes(x.next, m)), !.end = @ + m,
                       !.next = @ + m, !.file = @ - m, !.ranges[1] = @ - m]
    IN  IF n <= 0 \/ ~x.open THEN ShuffleOut(x)
        ELSE IF m = 0 THEN ShuffleOut([x EXCEPT !.open = FALSE])
        ELSE IF p.ranges[1] = 0 THEN complete_response(p) ELSE ShuffleOut(p)
-----------------------------------------------------------------------------
(* cgi.c, cgi_header.c and pipe.c *)

(* init_cgi after the fork: a CGI's header is read into the second half of *)
(* the buffer, a listing into all of it.                                   *)
init_cgi(x) ==
    LET at == IF kind = "listing" THEN 0 ELSE BufferSize \div 2
    IN  Out(1, [x EXCEPT !.status = "PIPE_READ", !.line = at, !.hend = at,
                         !.cgi = IF kind = "listing" THEN "BUFFER" ELSE "PARSE"])

(* get_dir: the header of a listing, or of a file that a child unpacks,    *)
(* is flushed before the child starts.                                     *)
get_dir(x) ==
    LET h == req_flush([Header(x) EXCEPT !.next = HeaderLen]).q
    IN  IF kind = "listing" THEN init_cgi(h) ELSE Out(0, h)

(* An error page, from an empty buffer.                                    *)
ErrorPage(x) == req_flush(Header([x EXCEPT !.start = 0, !.end = 0])).q

(* process_cgi_header: no header was found (502); HTTP/0.9 gets the rest   *)
(* from the last byte of the header; the CGI's own status line begins one  *)
(* byte earlier; a redirect is answered; otherwise a 200 header is written *)
(* and the CGI's data, for HEAD its header, moved behind it, if it fits.   *)
process_cgi_header(x) ==
    LET found == x.next - HeaderLen >= x.head
        last == x.line + x.head - 1
        p == IF kind = "head" /\ found THEN [x EXCEPT !.hend = last, !.cgi = "DONE"]
             ELSE [x EXCEPT !.cgi = IF @ = "DONE" THEN @ ELSE "BUFFER"]
        h == Header(p)
        data == Cut(p.buf, p.line, p.hend)
        moved == [h EXCEPT !.buf = Put(@, h.end, data), !.end = @ + Len(data),
                           !.line = h.end + Len(data), !.hend = h.end + Len(data)]
    IN  CASE ~found -> Out(0, ErrorPage(p))
          [] found /\ kind = "http09" -> Out(1, [p EXCEPT !.line = last])
          [] found /\ kind = "status" ->
                Out(1, [p EXCEPT !.line = @ - 1, !.buf = Put(@, x.line - 1, <<HeaderLen>>)])
          [] found /\ kind = "redirect" -> Out(1, [ErrorPage(p) EXCEPT !.status = "DONE"])
          [] found /\ kind \in {"plain", "head"} ->
                IF h.end + Len(data) > BufferSize THEN Out(0, ErrorPage(p))
                ELSE Out(IF kind = "head" THEN 0 ELSE 1, req_flush(moved).q)

(* write_from_pipe that reads again after the end of the output.           *)
write_from_pipeReads(x) ==
    LET s == Cut(x.buf, x.line, x.hend)
        p == [Send(x, s) EXCEPT !.line = @ + Taken(x, s)]
        front(y) == [y EXCEPT !.status = "PIPE_READ", !.line = 0, !.hend = 0]
    IN  IF s = <<>> THEN Out(1, front(x))
        ELSE IF x.room = 0 THEN Out(-1, x)
        ELSE IF Taken(x, s) = Len(s) THEN Out(1, front(p)) ELSE Out(1, p)

write_from_pipe(x) ==
    LET s == Cut(x.buf, x.line, x.hend)
        p == [Send(x, s) EXCEPT !.line = @ + Taken(x, s)]
        front(y) == [y EXCEPT !.status = "PIPE_READ", !.line = 0, !.hend = 0]
    IN  IF s = <<>> THEN (IF x.cgi = "DONE" THEN Out(0, x) ELSE Out(1, front(x)))
        ELSE IF x.room = 0 THEN Out(-1, x)
        ELSE IF Taken(x, s) = Len(s) THEN Out(1, front(p)) ELSE Out(1, p)

(* The space left is one byte more than BUFFER_SIZE - header_end.          *)
Space(x) == BufferSize - (x.hend - 1)

(* The terminator behind what was read.                                    *)
Ended(x) == [x EXCEPT !.buf = Put(@, x.hend, <<0>>)]

(* read_from_pipe: a full buffer, nothing to read, the end of the output,  *)
(* or more of it; then the header is parsed or the data passed on.         *)
read_from_pipe(x) ==
    LET n == Least(Space(x), x.pipe)
        p == Ended([x EXCEPT !.buf = Put(@, x.hend, Bytes(x.next, n)), !.next = @ + n,
                             !.hend = @ + n, !.pipe = @ - n])
        eof == [Ended(x) EXCEPT !.status = "PIPE_WRITE", !.cgi = "DONE"]
    IN  IF Space(x) = 0 /\ x.cgi = "PARSE"
        THEN process_cgi_header([Ended(x) EXCEPT !.cgi = "BUFFER"])
        ELSE IF Space(x) = 0 THEN Out(1, [x EXCEPT !.status = "PIPE_WRITE"])
        ELSE IF n = 0 /\ x.output > 0 THEN Out(-1, x)
        ELSE IF n = 0 /\ x.cgi = "PARSE" THEN process_cgi_header(eof)
        ELSE IF n = 0 THEN Out(1, eof)
        ELSE IF x.cgi # "PARSE" THEN write_from_pipe(p)
        ELSE IF p.next - HeaderLen >= p.head
        THEN process_cgi_header([p EXCEPT !.cgi = "DONE"])
        ELSE Out(1, p)
-----------------------------------------------------------------------------
(* request.c and queue.c *)

(* block_request: what is in the buffer waits for the socket, a request in *)
(* PIPE_READ for its pipe, even when it was its write that blocked.        *)
block_request(x) ==
    IF x.end # 0 \/ x.status # "PIPE_READ" THEN "socket" ELSE "pipe"

(* free_request: the rest of the buffer is flushed; a part of it keeps the *)
(* request alive, but a flush that blocks is taken for a complete one.     *)
free_request(x) ==
    LET o == req_flush([x EXCEPT !.status = "DONE"])
    IN  IF x.status \in Closing
        THEN q' = x /\ pc' = "end" /\ closed' = "dead"
        ELSE /\ q' = o.q
             /\ pc' = IF o.ret > 0 THEN "turn" ELSE "end"
             /\ closed' = IF o.ret > 0 THEN "no"
                          ELSE IF o.ret = -1 THEN "dropped" ELSE "complete"

(* What becomes of the request, by the handler's return value.             *)
Dispose(o) ==
    \/ /\ o.ret = -1
       /\ q' = o.q /\ pc' = "blocked" /\ wait' = block_request(o.q)
       /\ UNCHANGED closed
    \/ /\ o.ret = 0
       /\ free_request(o.q)
       /\ UNCHANGED wait
    \/ /\ o.ret > 0
       /\ q' = o.q /\ pc' = "turn"
       /\ UNCHANGED <<wait, closed>>

(* The header is complete and the response begins.  A child that shares    *)
(* the socket may overtake what is left in the buffer.                     *)
Start ==
    /\ pc = "start"
    /\ Dispose(CASE kind \in FileKinds -> init_get(q)
                 [] kind \in CgiKinds -> init_cgi([q EXCEPT !.next = HeaderLen])
                 [] kind \in {"listing", "gunzip"} -> get_dir(q))
    /\ raced' = (kind = "gunzip" /\ get_dir(q).q.end # 0)
    /\ UNCHANGED <<kind, parts>>

(* The handlers that write past the buffer.                                *)
Direct(x) == \/ x.status \in {"WRITE", "PIPE_READ", "PIPE_WRITE"}
             \/ x.status = "IOSHUFFLE" /\ kind = "sendfile"

(* A turn begins with a flush of the buffer; the handler runs unless that  *)
(* blocks, on a buffer that may still hold a part of it.                   *)
Flush ==
    /\ pc = "turn"
    /\ LET o == IF q.end # 0 THEN req_flush(q) ELSE Out(0, q)
       IN  \/ /\ o.ret = -1
              /\ Dispose(o)
           \/ /\ o.ret # -1
              /\ q' = o.q /\ pc' = "handler"
              /\ UNCHANGED <<wait, closed>>
    /\ UNCHANGED <<kind, parts, raced>>

Handled(x) ==
    CASE x.status = "WRITE" -> process_get(x)
      [] x.status = "IOSHUFFLE" -> IF kind = "sendfile" THEN process_get(x) ELSE io_shuffle(x)
      [] x.status = "PIPE_READ" -> read_from_pipe(x)
      [] x.status = "PIPE_WRITE" -> write_from_pipe(x)
      [] x.status = "DONE" -> req_flush(x)
      [] x.status \in Closing -> Out(0, [x EXCEPT !.end = 0])

Handler ==
    /\ pc = "handler"
    /\ Dispose(Handled(q))
    /\ raced' = (raced \/ (q.end # 0 /\ Direct(q) /\ Handled(q) # Out(-1, q)))
    /\ UNCHANGED <<kind, parts>>

(* The event loop makes the request ready again.                           *)
ready_request ==
    /\ pc = "blocked"
    /\ \/ wait = "socket" /\ q.room > 0
       \/ wait = "pipe" /\ (q.pipe > 0 \/ q.output = 0)
    /\ pc' = "turn" /\ wait' = "none"
    /\ UNCHANGED <<kind, parts, q, raced, closed>>

(* Nothing wakes a request that waits for more of a file that was cut      *)
(* short: the socket has room and sendfile nothing to send.                *)
Stalled == /\ pc = "blocked" /\ kind = "sendfile"
           /\ q.status = "IOSHUFFLE" /\ q.file = 0

Server == Start \/ Flush \/ Handler \/ ready_request
-----------------------------------------------------------------------------
(* The client, the network and the child *)

Drain ==
    /\ q.room < Room
    /\ q' = [q EXCEPT !.room = Room]
    /\ UNCHANGED <<kind, parts, pc, wait, raced, closed>>

(* The connection breaks: a write fails, or the request times out; or a    *)
(* mapped file was cut short (the SIGBUS that process_get catches).        *)
Break ==
    /\ pc \in {"turn", "handler", "blocked"}
    /\ pc' = "end" /\ closed' = "error"
    /\ UNCHANGED <<kind, parts, q, wait, raced>>

(* update_blocked: time_last stays where it is while a request only        *)
(* blocks, so a stalled one meets REQUEST_TIMEOUT.                         *)
Timeout ==
    /\ Stalled
    /\ pc' = "end" /\ closed' = "error"
    /\ UNCHANGED <<kind, parts, q, wait, raced>>

(* The child writes to the pipe, or to the socket it shares.               *)
Child ==
    /\ q.output > 0 /\ pc # "start"
    /\ IF kind = "gunzip"
       THEN /\ q.room > 0
            /\ q' = [Send(q, Bytes(q.next, 1)) EXCEPT !.next = @ + 1, !.output = @ - 1]
       ELSE \E n \in 1 .. q.output :
               q' = [q EXCEPT !.pipe = @ + n, !.output = @ - n]
    /\ UNCHANGED <<kind, parts, pc, wait, raced, closed>>

Next == Server \/ Drain \/ Break \/ Timeout \/ Child

Spec == Init /\ [][Next]_vars

(* Runnable is ENABLED <<Server>>_vars in simpler words; the first         *)
(* condition is WF_vars(Server).                                           *)
Runnable ==
    \/ pc \in {"start", "turn", "handler"}
    \/ pc = "blocked" /\ wait = "socket" /\ q.room > 0
    \/ pc = "blocked" /\ wait = "pipe" /\ (q.pipe > 0 \/ q.output = 0)

(* The server and the child run, the client reads, and the clock goes on.  *)
FairSpec ==
    /\ Spec
    /\ []<>(~Runnable) \/ []<><<Server>>_vars
    /\ WF_vars(Drain) /\ WF_vars(Child) /\ SF_vars(Timeout)
-----------------------------------------------------------------------------
(* buffer_end stays in the buffer and buffer_start, as long as it is used, *)
(* behind it (the DEAD case of process_requests resets only buffer_end),   *)
(* and the pipe's data goes no further than the array, for all turns; no   *)
(* count of bytes that are left falls below zero.                          *)
BufferBounds ==
    /\ TypeOK
    /\ q.end <= BufferSize /\ (q.status \notin Closing => q.start <= q.end)
    /\ q.line <= q.hend /\ q.hend <= BufferSize + 1

(* The client gets the bytes in order, each once and none left out, over   *)
(* every partial write, until a handler that writes past the buffer finds  *)
(* a part of it unsent and yet room in the socket.  io_shuffle writes      *)
(* through the buffer and needs no such condition.                         *)
InOrder ==
    ~raced => /\ \A i \in 1 .. Len(q.sent) - 1 : q.sent[i + 1] = q.sent[i] + 1
              /\ q.sent # <<>> => q.sent[1] \in
                    CASE kind = "status" -> {HeaderLen, 1}
                      [] kind = "http09" -> {HeaderLen + q.head, 1}
                      [] OTHER -> {1}

Half == BufferSize - BufferSize \div 2 + 1

Expected == HeaderLen + (IF kind \in FileKinds
                         THEN Total(parts) + (IF Len(parts) = 1 THEN 0 ELSE Len(parts) * PartLen)
                         ELSE IF kind = "head" THEN q.head - 1 ELSE OutputLen)

(* The header alone: a redirect, or the error page for a CGI whose header  *)
(* does not fit in half the buffer.                                        *)
Replaced == /\ q.sent = Bytes(0, HeaderLen)
            /\ kind = "redirect" \/ (kind \in CgiKinds /\ q.head > Half)

(* io_shuffle met the end of the file and sent all that there was.         *)
CutShort == ~q.open /\ q.file = 0 /\ q.sent[Len(q.sent)] = q.next

(* A response that ends well has been sent to its last byte, closing       *)
(* boundary included, over every partial write, unless the file was cut    *)
(* short or the header alone is the answer.  After a race the order is     *)
(* lost, but of a single range still no byte is left out and none is sent  *)
(* twice.                                                                  *)
AllSent ==
    closed = "complete" /\ (kind = "gunzip" => q.output = 0) =>
        IF ~raced THEN /\ q.sent # <<>>
                       /\ q.sent[Len(q.sent)] = Expected \/ CutShort \/ Replaced
        ELSE kind \in FileKinds /\ Len(parts) = 1 =>
                /\ Len(q.sent) = Expected
                /\ \A b \in 1 .. Expected : \E i \in 1 .. Expected : q.sent[i] = b

(* The server gives a response up by itself only when several ranges are   *)
(* asked for and the first ends so close to the end of the buffer that the *)
(* header of the next part does not fit, or a race left too little of it.  *)
DiesOnlyAtTheEdge ==
    closed = "dead" =>
        /\ kind \in {"mmap", "sendfile"} /\ Len(parts) > 1
        /\ raced \/ /\ kind = "mmap"
                    /\ parts[1] \in BufferSize - HeaderLen - PartLen + 1 .. BufferSize - HeaderLen

(* Every response ends, whatever the sizes of the writes.                  *)
Ends == <>(pc = "end")
-----------------------------------------------------------------------------
(* get.c: the header of the next part fits in the bytes kept for it.       *)
PartFits == closed # "dead"

(* pipe.c: the terminator behind the pipe's data overwrites nothing.       *)
NeighbourKept == q.buf[BufferSize + 1] = Neighbour
=============================================================================
