------------------------------ MODULE Handlers ------------------------------
(***************************************************************************)
(* What the handlers called by process_requests may do to a request.  A    *)
(* handler is the set of its outcomes: the value it returns (-1 blocked, 0 *)
(* complete, 1 more to do) and the request it leaves behind.  Which outcome *)
(* is taken depends on the client, the file system, the CGI program and    *)
(* the kernel.  Bytes are counted in units: `buffer` is the unsent part of *)
(* req->buffer, pos and parse are client_stream_pos and parse_pos, and     *)
(* `steps` bounds how many more calls of a transfer handler can find       *)
(* something to do (the size of a body, a file or the output of a CGI).    *)
(* EINTR is no outcome of a read or write: the descriptors do not block,   *)
(* and a call that does not wait is not interrupted.                       *)
(***************************************************************************)
EXTENDS Integers

CONSTANTS
    KaMax,           \* ka_max, the KeepAliveMax directive
    StreamSize,      \* CLIENT_STREAM_SIZE
    BufferSize,      \* BUFFER_SIZE
    TransferSteps,   \* bound on the steps of one transfer
    RequestTimeout   \* REQUEST_TIMEOUT, in ticks of the clock

ASSUME HandlerAssumption ==
    /\ {KaMax, TransferSteps, RequestTimeout} \subseteq Nat
    /\ {StreamSize, BufferSize} \subseteq Nat \ {0}

(* REQ_STATUS; READ_HEADER stands for the four states of the line scanner  *)
(* (READ_HEADER, ONE_CR, ONE_LF, TWO_CR).                                  *)
Closing == {"TIMED_OUT", "DEAD"}
Status == {"READ_HEADER", "BODY_READ", "BODY_WRITE", "WRITE", "PIPE_READ",
           "PIPE_WRITE", "IOSHUFFLE", "DONE"} \cup Closing

(* The pointer and descriptor fields that free_request has to release.     *)
Resource == {"data_fd", "post_data_fd", "mmap", "ranges"}

(* response_status by class: none yet, below 400, 4xx, 5xx. *)
Response == {0, 200, 400, 500}

(* struct request.  `owns` is the set of resource fields that are not      *)
(* null, `idle` is current_time - time_last, and `lost` is history: the    *)
(* resources this connection leaked, and "response" when buffered bytes of *)
(* a response were thrown away on a working socket.                        *)
Request == [status    : Status,
            keepalive : {"INACTIVE", "ACTIVE", "STOPPED"},
            response  : Response,
            logline   : BOOLEAN,
            parse     : 0 .. StreamSize,
            buffer    : 0 .. BufferSize,
            steps     : 0 .. TransferSteps,
            owns      : SUBSET Resource,
            kacount   : 0 .. KaMax,
            pos       : 0 .. StreamSize,
            idle      : 0 .. RequestTimeout + 1,
            lost      : SUBSET (Resource \cup {"response"})]

(* memset up to the field fd, then status = READ_HEADER: what was read     *)
(* ahead of the parser moves to the front of client_stream when the        *)
(* connection is kept, and is forgotten when the structure is new.         *)
sanitize_request(q, new_req) ==
    [status |-> "READ_HEADER", keepalive |-> "INACTIVE", response |-> 0,
     logline |-> FALSE, parse |-> 0, buffer |-> 0, steps |-> 0, owns |-> {},
     kacount |-> IF new_req THEN KaMax ELSE q.kacount,
     pos     |-> IF new_req THEN 0 ELSE q.pos - q.parse,
     idle    |-> IF new_req THEN 0 ELSE q.idle,
     lost    |-> IF new_req THEN {} ELSE q.lost \cup q.owns]

Out(n, q) == [ret |-> n, q |-> q]
Outs(n, Q) == {Out(n, q) : q \in Q}

SQUASH_KA(q) == [q EXCEPT !.keepalive = "STOPPED"]
Dead(q) == [q EXCEPT !.status = "DEAD"]

(* A resource field is assigned: what it referred to before is lost.       *)
Acquire(q, x) == [q EXCEPT !.owns = @ \cup {x}, !.lost = @ \cup (q.owns \cap {x})]

(* A resource is released and its field set to null.                       *)
Release(q, x) == [q EXCEPT !.owns = @ \ {x}]

(* One more step of a transfer, while there are any.                       *)
Step(q) == IF q.steps > 0 THEN {[q EXCEPT !.steps = @ - 1]} ELSE {}
-----------------------------------------------------------------------------
(* buffer.c *)

(* req_write: the bytes go into the buffer; without room the request dies. *)
(* HTTP/0.9 responses have no header and may write nothing.                *)
req_write(q) ==
    IF q.status \in Closing
    THEN {q}
    ELSE {[q EXCEPT !.buffer = n] : n \in q.buffer .. BufferSize} \cup {Dead(q)}

(* req_flush: -2 error, -1 blocked, otherwise how much is stored.          *)
req_flush(q) ==
    IF q.status \in Closing THEN {Out(-2, q)}
    ELSE IF q.buffer = 0 THEN {Out(0, q)}
    ELSE {Out(-1, q), Out(-2, [Dead(q) EXCEPT !.buffer = 0])}
         \cup {Out(n, [q EXCEPT !.buffer = n]) : n \in 0 .. q.buffer - 1}

Flushed(Q) == UNION {{o.q : o \in req_flush(q)} : q \in Q}
-----------------------------------------------------------------------------
(* response.c *)

(* The responses that end the connection: redirects and 304 (class 200),   *)
(* 4xx and 5xx.  All squash keepalive, write a page and flush it.          *)
send_r(q, code) == Flushed(req_write([SQUASH_KA(q) EXCEPT !.response = code]))

Refuse(q) == Outs(0, UNION {send_r(q, c) : c \in {200, 400, 500}})

(* 200, 204 and 206 only fill the buffer.                                  *)
send_ok(q) == req_write([q EXCEPT !.response = 200])

(* complete_response that stays in its status after the closing boundary.  *)
complete_responseGoesOn(q) ==
    LET p == Release(q, "ranges")
    IN  {Out(0, [p EXCEPT !.status = "DONE"])}
        \cup Outs(1, UNION {req_write(x) : x \in Step(q)})
        \cup Outs(1, Flushed(req_write(p)))

(* One range is done and goes back to the pool: the response is complete,  *)
(* or the header of the next part is written, or the closing boundary.     *)
complete_response(q) ==
    LET p == Release(q, "ranges")
    IN  {Out(0, [p EXCEPT !.status = "DONE"])}
        \cup Outs(1, UNION {req_write(x) : x \in Step(q)})
        \cup Outs(1, Flushed({[x EXCEPT !.status = "DONE"] : x \in req_write(p)}))
-----------------------------------------------------------------------------
(* cgi.c and get.c: starting a response *)

(* After the fork: the child writes to the socket itself (NPH, gunzip), or *)
(* its output is read from a pipe.                                         *)
CgiRuns(q) ==
    LET p == Release(q, "post_data_fd")
    IN  {Out(0, p), Out(1, [Acquire(p, "data_fd") EXCEPT !.status = "PIPE_READ",
                                                        !.steps = TransferSteps])}

(* The environment or the pipes fail (no response is sent), the fork fails *)
(* (500), or the child runs.                                               *)
init_cgi(q) ==
    LET k == SQUASH_KA(q)
    IN  {Out(0, k)} \cup Outs(0, send_r(k, 500)) \cup CgiRuns(k)

(* The body is a file of a known size, mapped or read through data_fd; a   *)
(* HEAD or a short file is complete at once, and a file truncated under    *)
(* the mapping raises SIGBUS.                                              *)
SendFile(q) ==
    LET r == IF "ranges" \in q.owns THEN q ELSE Acquire(q, "ranges")
        f == {Acquire(r, "mmap"), [Acquire(r, "data_fd") EXCEPT !.status = "IOSHUFFLE"]}
        S == UNION {send_ok(x) : x \in f}
    IN  Outs(1, S) \cup (UNION {complete_response(x) : x \in S})
        \cup Outs(0, UNION {send_r([x EXCEPT !.buffer = 0], 500) :
                            x \in {y \in S : "mmap" \in y.owns}})

(* A compressed file is sent through a child: the header, and for a HEAD   *)
(* no more than that.                                                      *)
Generate(q) ==
    LET S == Flushed(send_ok(q))
    IN  Outs(0, S) \cup (UNION {init_cgi(x) : x \in S})

(* get_dir: an index file (init_get goes on with it), a compressed one or  *)
(* a listing through a child, a cached listing, or an error.               *)
get_dir(q) == Generate(SQUASH_KA(q)) \cup Refuse(q)

(* A file is open: it is not a regular one, it was not modified, it is     *)
(* empty, or no range lies in it.                                          *)
CheckFile(q) ==
    Refuse(q) \cup Refuse(Release(q, "ranges")) \cup Outs(0, send_ok(q))

(* init_get: the file cannot be opened, is compressed, is a directory      *)
(* (without a slash: moved), fails a test, or is sent.                     *)
init_get(q) ==
    Refuse(q) \cup Generate(q) \cup get_dir(q) \cup CheckFile(q) \cup SendFile(q)
-----------------------------------------------------------------------------
(* get.c and pipe.c: continuing a response *)

(* process_get: write straight to the socket.                              *)
process_get(q) ==
    {Out(-1, q), Out(0, Dead(q))} \cup Outs(1, Step(q)) \cup complete_response(q)

(* io_shuffle: read behind what the buffer holds (end of file closes the   *)
(* descriptor), then write what the buffer holds.                          *)
io_shuffle(q) ==
    LET open == "data_fd" \in q.owns
        more == IF open THEN {[q EXCEPT !.buffer = n] : n \in q.buffer .. BufferSize}
                ELSE {}
        rest == IF open THEN {Release(q, "data_fd")} ELSE {q}
    IN  Outs(-1, more \cup rest) \cup {Out(0, Dead(x)) : x \in more \cup rest}
        \cup (UNION {complete_response(x) : x \in more})
        \cup Outs(0, {x \in rest : x.buffer = 0})
        \cup Outs(1, UNION {{[y EXCEPT !.buffer = n] : n \in 0 .. y.buffer} :
                            y \in UNION {Step(x) : x \in more \cup rest}})

(* io_shuffle_sendfile: as process_get, or ENOSYS from sendfile.           *)
io_shuffle_sendfile(q) == process_get(q) \cup io_shuffle(q)

(* The end of the CGI's header: no header (502), HTTP/0.9 or its own       *)
(* status line, a redirect, a header that does not fit, or a 200 that is   *)
(* merged with it and flushed.                                             *)
process_cgi_header(q) ==
    LET ok == Flushed(send_ok(q))
    IN  Outs(0, send_r(q, 500)) \cup Outs(0, send_r([q EXCEPT !.buffer = 0], 500))
        \cup {Out(1, q)}
        \cup Outs(1, {[x EXCEPT !.status = "DONE"] : x \in send_r(q, 200) \cup send_r(q, 400)})
        \cup Outs(0, ok) \cup Outs(1, ok)

write_from_pipe(q) ==
    {Out(-1, q), Out(0, Dead(q)), Out(0, q)}
    \cup Outs(1, UNION {{x, [x EXCEPT !.status = "PIPE_READ"]} : x \in Step(q)})

(* read_from_pipe: blocked, failed, end of file or a full buffer           *)
(* (PIPE_WRITE), more of the header, its end, or data passed on at once.   *)
read_from_pipe(q) ==
    LET P == UNION {{x, [x EXCEPT !.status = "PIPE_WRITE"]} : x \in Step(q)}
    IN  {Out(-1, q), Out(0, Dead(q))} \cup Outs(1, P)
        \cup (UNION {process_cgi_header(x) \cup write_from_pipe(x) : x \in P})
        \cup process_cgi_header([q EXCEPT !.status = "PIPE_WRITE"])
-----------------------------------------------------------------------------
(* read.c *)

(* write_body: the body is complete (init_cgi), the chunk in memory is     *)
(* written and more has to be read, part of it is written, the temporary   *)
(* file blocks or fails.                                                   *)
write_body(q) ==
    init_cgi(q) \cup {Out(1, [q EXCEPT !.status = "BODY_READ"]), Out(-1, q)}
    \cup Outs(1, Step(q)) \cup Outs(0, send_r(q, 500))

(* read_body: a chunk is read or none is needed, the client is slow, the   *)
(* read fails (boa_perror, then 400), or the body ends early.              *)
read_body(q) ==
    {Out(-1, q)} \cup Outs(1, {[x EXCEPT !.status = "BODY_WRITE"] : x \in Step(q)})
    \cup {Out(0, [x EXCEPT !.response = 400]) : x \in send_r(q, 500)}
    \cup Outs(0, send_r(q, 400))

(* process_header_end once the request line is known: a bad URI, host,     *)
(* path or redirect is answered at once; a POST gets its temporary file, a *)
(* CGI or a GET starts.  `body` is the status that a POST goes on with.    *)
process_header_end(q, body) ==
    LET w == [q EXCEPT !.steps = TransferSteps]
        post == Acquire([w EXCEPT !.status = body], "post_data_fd")
    IN  Refuse(q)
        \cup {Out(1, post)} \cup Outs(0, send_r(Release(post, "post_data_fd"), 500))
        \cup (IF "post_data_fd" \in q.owns THEN {}
              ELSE init_cgi(w) \cup init_get([w EXCEPT !.status = "WRITE"]))

(* The request line: HTTP/1.1 activates keepalive.                         *)
process_logline(q) == {[q EXCEPT !.logline = TRUE, !.keepalive = k] :
                          k \in {q.keepalive, "ACTIVE"}}

(* An option line: Connection sets keepalive until it is stopped, Range    *)
(* adds ranges, the others change nothing that is modelled.                *)
process_option_line(q) ==
    LET ka == IF KaMax = 0 \/ q.keepalive = "STOPPED" THEN {q.keepalive}
              ELSE {q.keepalive, "ACTIVE", "STOPPED"}
        P == {[q EXCEPT !.keepalive = k] : k \in ka}
    IN  P \cup {[p EXCEPT !.owns = @ \cup {"ranges"}] : p \in P}

(* The request after the scanner has consumed the stream up to p and the   *)
(* lines that end before p.                                                *)
Scanned(q, p) ==
    LET at == [q EXCEPT !.parse = p]
        line == IF q.logline THEN {at} ELSE process_logline(at)
    IN  {at} \cup UNION {process_option_line(x) : x \in line}

(* The end of the header: a POST goes on with its body unless its          *)
(* Content-Length is missing or wrong.                                     *)
EndOfHeader(q) ==
    LET P == process_header_end(q, "BODY_WRITE")
    IN  P \cup Outs(0, UNION {send_r(o.q, 400) :
                              o \in {p \in P : p.ret = 1 /\ p.q.status = "BODY_WRITE"}})

(* Everything is scanned: no room for more, nothing to read, the end of    *)
(* the stream or an error (the status stays), or more bytes.               *)
ReadMore(q) ==
    IF q.pos = StreamSize THEN {Out(0, [Dead(q) EXCEPT !.response = 400])}
    ELSE {Out(-1, q), Out(0, [q EXCEPT !.response = 400])}
         \cup {Out(1, [q EXCEPT !.pos = n]) : n \in q.pos + 1 .. StreamSize}

(* read_header: scan what was read before; an illegal byte, line or option *)
(* ends the request (a malformed option line without a response).  An      *)
(* HTTP/0.9 request ends with its first line, but a POST of HTTP/0.9 stays *)
(* in the scanner and meets process_header_end again.                      *)
read_header(q) ==
    LET mid == UNION {Scanned(q, p) : p \in q.parse + 1 .. q.pos}
        line == {x \in mid : x.logline}
    IN  (UNION {Refuse(x) : x \in mid})
        \cup Outs(0, line)
        \cup (UNION {EndOfHeader(x) : x \in line})
        \cup (IF q.logline THEN {}
              ELSE UNION {process_header_end(x, "READ_HEADER") : x \in line})
        \cup (UNION {ReadMore(x) : x \in {y \in mid \cup {q} : y.parse = q.pos}})
-----------------------------------------------------------------------------
(* The switch of process_requests. *)
Dispatch(q) ==
    CASE q.status = "READ_HEADER" -> read_header(q)
      [] q.status = "BODY_READ"   -> read_body(q)
      [] q.status = "BODY_WRITE"  -> write_body(q)
      [] q.status = "WRITE"       -> process_get(q)
      [] q.status = "PIPE_READ"   -> read_from_pipe(q)
      [] q.status = "PIPE_WRITE"  -> write_from_pipe(q)
      [] q.status = "IOSHUFFLE"   -> io_shuffle_sendfile(q)
      [] q.status = "DONE"        -> {IF o.ret = -2 THEN Out(0, Dead(o.q))
                                      ELSE IF o.ret > 0 THEN Out(1, o.q) ELSE o :
                                      o \in req_flush(q)}
      [] q.status \in Closing     -> {Out(0, [SQUASH_KA(q) EXCEPT !.buffer = 0])}

(* One turn of a request: what is left in the buffer is flushed first; if  *)
(* that blocks or fails the handler is not called, but it is called on a   *)
(* buffer that is only partly flushed.                                     *)
Turn(q) ==
    IF q.buffer = 0 \/ q.status \in Closing THEN Dispatch(q)
    ELSE UNION {IF o.ret = -2 THEN {Out(0, Dead(o.q))}
                ELSE IF o.ret = -1 THEN {o}
                ELSE Dispatch(o.q) : o \in req_flush(q)}
=============================================================================
