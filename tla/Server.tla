------------------------------- MODULE Server -------------------------------
(***************************************************************************)
(* The server loop of boa: loop and update_blocked (poll.c),               *)
(* process_requests, get_request and free_request (request.c), and the     *)
(* signal flags (signals.c).  One process runs the loop; clients, the      *)
(* clock and the operator act between its steps.  The handlers are the     *)
(* outcome sets of Handlers, the lists the sequences of RequestLists.      *)
(* The descriptor arrays of poll.c are abstracted to what poll can report: *)
(* any event for a blocked request, a waiting connection for the server    *)
(* socket.                                                                 *)
(***************************************************************************)
EXTENDS RequestLists, Handlers

CONSTANTS
    KaTimeout,   \* ka_timeout, the KeepAliveTimeout directive, in ticks
    MaxConns,    \* the values a configuration may give to max_connections
    Arrivals,    \* bound on the connections clients open
    Restarts     \* bound on the SIGHUPs

ASSUME ServerAssumption ==
    /\ {KaTimeout, Arrivals, Restarts} \subseteq Nat
    /\ MaxConns \subseteq Nat \ {0}

VARIABLES
    pc,                  \* where the loop is
    ready, block, free,  \* request_ready, request_block, request_free
    current, retval,     \* of process_requests and update_blocked
    req,                 \* the request structures
    total_connections, max_connections, pending_requests,
    watch_server,        \* of loop
    sigterm_flag, sighup_flag,
    backlog,             \* connections waiting on the server socket
    arrivals, restarts   \* connections and SIGHUPs still to come

lists == <<ready, block, free>>
env == <<backlog, arrivals, restarts>>
signals == <<sigterm_flag, sighup_flag>>
limits == <<total_connections, max_connections>>
vars == <<pc, lists, current, retval, req, limits, pending_requests,
          watch_server, signals, env>>

Listed == Elems(ready) \cup Elems(block) \cup Elems(free)

TypeOK ==
    /\ pc \in {"top", "poll", "inpoll", "update", "entry", "handle", "accept",
               "dispose", "exit"}
    /\ {ready, block, free} \subseteq Seq(Requests)
    /\ current \in Requests \cup {NULL}
    /\ retval \in -1 .. 1
    /\ req \in [Requests -> Request]
    /\ total_connections \in 0 .. Arrivals
    /\ max_connections \in MaxConns
    /\ {pending_requests, watch_server, sighup_flag} \subseteq BOOLEAN
    /\ sigterm_flag \in 0 .. 2
    /\ {backlog, arrivals} \subseteq 0 .. Arrivals
    /\ restarts \in 0 .. Restarts

(* A structure that malloc has not handed out yet.  Nothing of it is read  *)
(* before new_request clears it; Blank also stands for the structures on   *)
(* the free list, for the same reason.                                     *)
Blank == [status |-> "DEAD", keepalive |-> "INACTIVE", response |-> 0,
          logline |-> FALSE, parse |-> 0, buffer |-> 0, steps |-> 0, owns |-> {},
          kacount |-> 0, pos |-> 0, idle |-> 0, lost |-> {}]

Init ==
    /\ pc = "top"
    /\ ready = <<>> /\ block = <<>> /\ free = <<>>
    /\ current = NULL /\ retval = 1
    /\ req = [r \in Requests |-> Blank]
    /\ total_connections = 0
    /\ max_connections \in MaxConns
    /\ pending_requests = FALSE /\ watch_server = TRUE
    /\ sigterm_flag = 0 /\ sighup_flag = FALSE
    /\ backlog = 0 /\ arrivals = Arrivals /\ restarts = Restarts
-----------------------------------------------------------------------------
(* request.c: get_request *)

(* accept fails: nobody is waiting, or an abnormal error.                  *)
AcceptFails ==
    /\ pending_requests' = FALSE
    /\ backlog' \in {backlog, IF backlog > 0 THEN backlog - 1 ELSE 0}
    /\ UNCHANGED <<ready, free, req, total_connections>>

(* The descriptor is too large, getsockname fails or malloc fails: the     *)
(* connection is closed before a structure is taken.                       *)
AcceptDropped ==
    /\ backlog > 0
    /\ backlog' = backlog - 1
    /\ UNCHANGED <<ready, free, req, total_connections, pending_requests>>

(* new_request: the head of the free list, else a structure from malloc.   *)
new_request(r) == IF free # <<>> THEN r = free[1] ELSE r \in Requests \ Listed

(* new_request that leaves the structure on the free list.                 *)
FreeAfterNewKept == free

FreeAfterNew == IF free # <<>> THEN Tail(free) ELSE free

(* The connection is counted before its socket is set up.                  *)
AcceptFreedCounted(r) ==
    /\ backlog > 0 /\ new_request(r)
    /\ backlog' = backlog - 1
    /\ free' = Push(FreeAfterNew, r)
    /\ total_connections' = total_connections + 1
    /\ UNCHANGED <<ready, req, pending_requests>>

(* Setting up the socket fails after the structure was taken.              *)
AcceptFreed(r) ==
    /\ backlog > 0 /\ new_request(r)
    /\ backlog' = backlog - 1
    /\ free' = Push(FreeAfterNew, r)
    /\ UNCHANGED <<ready, req, total_connections, pending_requests>>

(* The limit is tested before the connection is counted.                   *)
AcceptedUncounted(r) ==
    LET conn == sanitize_request(req[r], TRUE)
        over == total_connections > max_connections
    IN  /\ backlog > 0 /\ new_request(r)
        /\ backlog' = backlog - 1
        /\ free' = FreeAfterNew
        /\ ready' = Push(ready, r)
        /\ total_connections' = total_connections + 1
        /\ pending_requests' = IF over THEN FALSE ELSE pending_requests
        /\ \E q \in IF over THEN {[x EXCEPT !.status = "DONE"] : x \in send_r(conn, 500)}
                    ELSE {conn} :
              req' = [req EXCEPT ![r] = q]

(* The connection is accepted.  Over the limit it is answered with a 503   *)
(* and accepting stops for this round.                                     *)
Accepted(r) ==
    LET conn == sanitize_request(req[r], TRUE)
        over == total_connections + 1 > max_connections
    IN  /\ backlog > 0 /\ new_request(r)
        /\ backlog' = backlog - 1
        /\ free' = FreeAfterNew
        /\ ready' = Push(ready, r)
        /\ total_connections' = total_connections + 1
        /\ pending_requests' = IF over THEN FALSE ELSE pending_requests
        /\ \E q \in IF over THEN {[x EXCEPT !.status = "DONE"] : x \in send_r(conn, 500)}
                    ELSE {conn} :
              req' = [req EXCEPT ![r] = q]

get_request ==
    \/ AcceptFails
    \/ AcceptDropped
    \/ \E r \in Requests : AcceptFreed(r) \/ Accepted(r)
-----------------------------------------------------------------------------
(* request.c: free_request *)

KeepAlive(q) == /\ q.status \notin Closing
                /\ q.keepalive = "ACTIVE"
                /\ q.response \notin {0, 500}
                /\ q.kacount > 0

(* free_request that forgets the ranges.                                   *)
ReleasedButRanges(q) == [q EXCEPT !.owns = @ \ (Resource \ {"ranges"})]

(* Every resource field that is set is released.                           *)
Released(q) == [q EXCEPT !.owns = @ \ Resource]

(* What free_request finds after its own flush of the buffer: -1 (blocked) *)
(* is not told apart from 0, so the unsent bytes are dropped.              *)
FinalFlush(q) ==
    IF q.buffer = 0 \/ q.status \in Closing THEN {Out(0, q)}
    ELSE {IF o.ret = -2 THEN Out(0, Dead(o.q))
          ELSE IF o.ret > 0 THEN Out(1, o.q)
          ELSE Out(0, [o.q EXCEPT !.lost = IF o.ret = -1 THEN @ \cup {"response"} ELSE @]) :
          o \in req_flush([q EXCEPT !.status = "DONE"])}

(* The structure of a connection that is kept, and of one that is closed.  *)
KeptOpen(q) == [sanitize_request(Released(q), FALSE) EXCEPT !.kacount = q.kacount - 1]

Closed(q) == [Blank EXCEPT !.lost = q.lost \cup Released(q).owns]

(* The end of a request: kept on the block list for the next request of    *)
(* its connection, or closed.  A response that is partly flushed stays     *)
(* ready.                                                                  *)
free_request(r, q) ==
    \E o \in FinalFlush(q) :
       \/ /\ o.ret = 1
          /\ req' = [req EXCEPT ![r] = o.q]
          /\ UNCHANGED <<lists, total_connections>>
       \/ /\ o.ret = 0 /\ KeepAlive(o.q)
          /\ req' = [req EXCEPT ![r] = KeptOpen(o.q)]
          /\ ready' = Remove(ready, r)
          /\ block' = Push(block, r)
          /\ UNCHANGED <<free, total_connections>>
       \/ /\ o.ret = 0 /\ ~KeepAlive(o.q)
          /\ req' = [req EXCEPT ![r] = Closed(o.q)]
          /\ ready' = Remove(ready, r)
          /\ free' = Push(free, r)
          /\ total_connections' = total_connections - 1
          /\ UNCHANGED block
-----------------------------------------------------------------------------
(* poll.c: loop *)

(* sigterm_stage1_run: the first pass that sees SIGTERM enters lame duck   *)
(* mode; sigterm_stage2_run exits when no request is left.                 *)
sigterm_stage1_run == IF sigterm_flag = 0 THEN 0 ELSE 2

sigterm_stage2_run == sigterm_flag # 0 /\ ready = <<>> /\ block = <<>>

(* sighup_run re-reads the configuration; like the exit it empties the     *)
(* free list.                                                              *)
sighup_run ==
    /\ sighup_flag' = FALSE
    /\ max_connections' \in IF sighup_flag THEN MaxConns ELSE {max_connections}

free_requests == free' = IF sighup_flag \/ sigterm_stage2_run THEN <<>> ELSE free

(* The server socket is watched below the limit, and not after SIGTERM.    *)
WatchServer(max) == sigterm_flag = 0 /\ total_connections < max

(* The top of the loop: the signals are looked at, and the descriptors to  *)
(* watch are known; without one, poll is not called.                       *)
LoopTop ==
    /\ pc = "top"
    /\ sighup_run /\ free_requests
    /\ sigterm_flag' = sigterm_stage1_run
    /\ watch_server' = WatchServer(max_connections')
    /\ pending_requests' = FALSE
    /\ pc' = IF sigterm_stage2_run THEN "exit"
             ELSE IF watch_server' \/ block # <<>> THEN "poll" ELSE "entry"
    /\ UNCHANGED <<ready, block, current, retval, req, total_connections, env>>

(* The call of poll; a signal that arrived before it does not interrupt it. *)
CallPoll ==
    /\ pc = "poll"
    /\ pc' = "inpoll"
    /\ UNCHANGED <<lists, current, retval, req, limits, pending_requests,
                   watch_server, signals, env>>

(* poll returns at once when a request is ready, after default_timeout     *)
(* when one is blocked, and otherwise only when a client connects.         *)
PollEnds == ready # <<>> \/ block # <<>> \/ (watch_server /\ backlog > 0)

PollReturn ==
    /\ pc = "inpoll"
    /\ PollEnds
    /\ pending_requests' = (sigterm_flag = 0 /\ watch_server /\ backlog > 0)
    /\ current' = First(block)
    /\ pc' = IF block = <<>> THEN "entry" ELSE "update"
    /\ UNCHANGED <<lists, retval, req, limits, watch_server, signals, env>>

(* update_blocked for one request: an error on its descriptor, one of the  *)
(* two timeouts, an event, or none of these.                               *)
KeepAliveTimeout(q) == q.kacount < KaMax /\ q.idle >= KaTimeout /\ ~q.logline

Unblocked(q) ==
    {Dead(q)} \cup
    (IF q.idle > RequestTimeout \/ KeepAliveTimeout(q)
     THEN {[q EXCEPT !.status = "TIMED_OUT"]} ELSE {q})

(* Only the keepalive timeout.                                             *)
StillBlockedUntimed(q) == ~KeepAliveTimeout(q)

StillBlocked(q) == q.idle <= RequestTimeout /\ ~KeepAliveTimeout(q)

(* current->next is read when the request has already moved.              *)
update_blockedLate ==
    /\ pc = "update"
    /\ \/ /\ StillBlocked(req[current])
          /\ current' = After(block, current)
          /\ UNCHANGED <<ready, block, req>>
       \/ /\ \E q \in Unblocked(req[current]) : req' = [req EXCEPT ![current] = q]
          /\ block' = Remove(block, current)
          /\ ready' = Push(ready, current)
          /\ current' = After(ready', current)
    /\ pc' = IF current' = NULL THEN "entry" ELSE "update"
    /\ UNCHANGED <<free, retval, limits, pending_requests, watch_server, signals, env>>

update_blocked ==
    /\ pc = "update"
    /\ current' = After(block, current)
    /\ pc' = IF current' = NULL THEN "entry" ELSE "update"
    /\ \/ /\ StillBlocked(req[current])
          /\ UNCHANGED <<ready, block, req>>
       \/ /\ \E q \in Unblocked(req[current]) : req' = [req EXCEPT ![current] = q]
          /\ block' = Remove(block, current)
          /\ ready' = Push(ready, current)
    /\ UNCHANGED <<free, retval, limits, pending_requests, watch_server, signals, env>>
-----------------------------------------------------------------------------
(* request.c: process_requests *)

(* The ready list is only walked when a client has connected.              *)
EnterProcessPending ==
    /\ pc = "entry"
    /\ IF pending_requests THEN get_request
       ELSE UNCHANGED <<ready, free, req, total_connections, pending_requests, backlog>>
    /\ current' = IF pending_requests THEN First(ready') ELSE NULL
    /\ pc' = IF current' = NULL THEN "top" ELSE "handle"
    /\ UNCHANGED <<block, retval, max_connections, watch_server, signals, arrivals, restarts>>

EnterProcess ==
    /\ pc = "entry"
    /\ IF pending_requests THEN get_request
       ELSE UNCHANGED <<ready, free, req, total_connections, pending_requests, backlog>>
    /\ current' = First(ready')
    /\ pc' = IF current' = NULL THEN "top" ELSE "handle"
    /\ UNCHANGED <<block, retval, max_connections, watch_server, signals, arrivals, restarts>>

(* A request gets its turn; during a shutdown it will be its last.         *)
Handle ==
    /\ pc = "handle"
    /\ \E o \in Turn(req[current]) :
          /\ retval' = o.ret
          /\ req' = [req EXCEPT ![current] = IF sigterm_flag # 0 THEN SQUASH_KA(o.q) ELSE o.q]
    /\ pc' = IF pending_requests THEN "accept" ELSE "dispose"
    /\ UNCHANGED <<lists, current, limits, pending_requests, watch_server, signals, env>>

(* One more connection is accepted before current->next is read.           *)
AcceptMore ==
    /\ pc = "accept"
    /\ get_request
    /\ pc' = "dispose"
    /\ UNCHANGED <<block, current, retval, max_connections, watch_server, signals,
                   arrivals, restarts>>

(* What becomes of the request, by the handler's return value; `current`   *)
(* moves on before the request leaves the list, and retval is reset for    *)
(* the next turn.                                                          *)
Dispose ==
    LET touched == [req[current] EXCEPT !.idle = 0]
    IN  /\ pc = "dispose"
        /\ current' = After(ready, current)
        /\ pc' = IF current' = NULL THEN "top" ELSE "handle"
        /\ \/ /\ retval = -1
              /\ ready' = Remove(ready, current)
              /\ block' = Push(block, current)
              /\ UNCHANGED <<free, req, total_connections>>
           \/ /\ retval = 0
              /\ free_request(current, touched)
           \/ /\ retval = 1
              /\ req' = [req EXCEPT ![current] = touched]
              /\ UNCHANGED <<lists, total_connections>>
        /\ retval' = 1
        /\ UNCHANGED <<max_connections, pending_requests, watch_server, signals, env>>
-----------------------------------------------------------------------------
(* Clients, the clock and the operator *)

Connect ==
    /\ pc # "exit" /\ arrivals > 0
    /\ arrivals' = arrivals - 1
    /\ backlog' = backlog + 1
    /\ UNCHANGED <<pc, lists, current, retval, req, limits, pending_requests,
                   watch_server, signals, restarts>>

(* Time passes for every connection.  The loop reads the clock after poll  *)
(* (update_blocked works with that one reading) and before each turn.      *)
Tick ==
    /\ pc \in {"inpoll", "handle", "exit"}
    /\ req' = [r \in Requests |->
                 IF r \in Elems(ready) \cup Elems(block) /\ req[r].idle <= RequestTimeout
                 THEN [req[r] EXCEPT !.idle = @ + 1] ELSE req[r]]
    /\ UNCHANGED <<pc, lists, current, retval, limits, pending_requests,
                   watch_server, signals, env>>

(* A signal handler sets its flag; in poll it also interrupts the call,    *)
(* and the loop starts over.                                               *)
Interrupted == IF pc = "inpoll" THEN "top" ELSE pc

SigTerm ==
    /\ pc # "exit" /\ sigterm_flag = 0
    /\ sigterm_flag' = 1
    /\ pc' = Interrupted
    /\ UNCHANGED <<lists, current, retval, req, limits, pending_requests,
                   watch_server, sighup_flag, env>>

SigHup ==
    /\ pc # "exit" /\ restarts > 0
    /\ restarts' = restarts - 1
    /\ sighup_flag' = TRUE
    /\ pc' = Interrupted
    /\ UNCHANGED <<lists, current, retval, req, limits, pending_requests,
                   watch_server, sigterm_flag, backlog, arrivals>>
-----------------------------------------------------------------------------
Loop == \/ LoopTop \/ CallPoll \/ PollReturn \/ update_blocked
        \/ EnterProcess \/ Handle \/ AcceptMore \/ Dispose

Next == Loop \/ Connect \/ Tick \/ SigTerm \/ SigHup

Spec == Init /\ [][Next]_vars

(* When the loop and the clock can take a step, and what their steps look  *)
(* like among those of Next: <<Loop>>_vars and <<Tick>>_vars in simpler    *)
(* words.                                                                  *)
Runnable ==
    /\ pc # "exit"
    /\ pc = "inpoll" => PollEnds
LoopStep ==
    /\ <<pc, current>>' # <<pc, current>>
    /\ ~(sigterm_flag = 0 /\ sigterm_flag' = 1) /\ restarts' = restarts
Ticking ==
    /\ pc \in {"inpoll", "handle", "exit"}
    /\ \E r \in Elems(ready) \cup Elems(block) : req[r].idle <= RequestTimeout
TickStep == <<pc, current>>' = <<pc, current>> /\ req' # req

(* The process is scheduled (WF_vars(Loop)), and the clock it reads goes   *)
(* on (SF_vars(Tick)).  Nothing is assumed of the clients, of the operator *)
(* or of the outcomes of the handlers.                                     *)
FairSpec ==
    /\ Spec
    /\ []<>(~Runnable) \/ []<><<LoopStep>>_vars
    /\ <>[](~Ticking) \/ []<><<TickStep>>_vars
-----------------------------------------------------------------------------
(* Safety *)

(* A request structure is on one list at most, and once: accepting inside  *)
(* the traversals, blocking, unblocking, keeping and freeing never copy    *)
(* one.                                                                    *)
ListsSeparate ==
    /\ Distinct(ready) /\ Distinct(block) /\ Distinct(free)
    /\ Elems(ready) \cap Elems(block) = {}
    /\ Elems(ready) \cap Elems(free) = {}
    /\ Elems(block) \cap Elems(free) = {}

(* The cursor of each traversal is on the list it traverses, although the  *)
(* loop body takes requests off the list and get_request adds to it; so    *)
(* current->next is the next request of that list.                         *)
CursorOnList ==
    /\ pc \in {"handle", "accept", "dispose"} => current \in Elems(ready)
    /\ pc = "update" => current \in Elems(block)

(* total_connections counts the structures in use: each accept is undone   *)
(* by exactly one close, on every path through free_request.               *)
Accounting == total_connections = Len(ready) + Len(block)

(* No more than max_connections are served: a connection that get_request  *)
(* takes without room for it has had its answer when get_request returns   *)
(* (the 503, status DONE), and no other is taken in this pass; so the      *)
(* limit is never exceeded by more than that one, although                 *)
(* pending_requests allows to accept for a whole pass over the ready list. *)
AcceptWithinLimit ==
    [][\A r \in Elems(ready') \ (Elems(ready) \cup Elems(block)) :
         total_connections >= max_connections =>
            /\ total_connections = max_connections
            /\ req'[r].status = "DONE"
            /\ ~pending_requests']_vars

(* A handler finds the pointers it dereferences: process_get the mapping   *)
(* and its range, io_shuffle its range, the pipe handlers the pipe and the *)
(* body handlers the temporary file, whatever the handler before did; and  *)
(* what they leave behind is a request.                                    *)
HandlersEquipped ==
    /\ TypeOK
    /\ \A r \in Elems(ready) \cup Elems(block) :
          LET q == req[r]
          IN  (pc \in {"accept", "dispose"} /\ current = r)
              \/ /\ q.status = "WRITE" => {"mmap", "ranges"} \subseteq q.owns
                 /\ q.status = "IOSHUFFLE" => "ranges" \in q.owns
                 /\ q.status \in {"PIPE_READ", "PIPE_WRITE"} => "data_fd" \in q.owns
                 /\ q.status \in {"BODY_READ", "BODY_WRITE"} => "post_data_fd" \in q.owns

(* No connection leaks the descriptor of a file or of a pipe, a mapping or *)
(* a range, on any path from read_header to free_request.  The temporary   *)
(* file of a request body is left out: PostDataClosed below is not true.   *)
NoLeak == \A r \in Requests : req[r].lost \cap {"data_fd", "mmap", "ranges"} = {}
-----------------------------------------------------------------------------
(* Liveness, under FairSpec *)

(* Once SIGTERM has been seen the server exits: no client can hold a       *)
(* connection open for ever.                                               *)
ShutdownEnds == (sigterm_flag = 2) ~> (pc = "exit")

(* A blocked request is made ready again, by an event or by a timeout.     *)
BlockedEnds == \A r \in Requests : r \in Elems(block) ~> r \notin Elems(block)

(* A ready request gets its turn and the turn ends, although new           *)
(* connections go in front of it.                                          *)
ReadyServed == \A r \in Requests :
    r \in Elems(ready) ~> (pc = "dispose" /\ current = r)
-----------------------------------------------------------------------------
(* What the documentation and the comments say of the server; the code     *)
(* does otherwise.                                                         *)

(* docs/boa.texi: once boa reaches MaxConnections, it stops accepting      *)
(* connections.                                                            *)
StopsAtLimit ==
    [][total_connections' > total_connections => total_connections < max_connections]_vars

(* request.c: free_request flushes exactly as the DONE state does, so no   *)
(* buffered part of a response is thrown away on a working connection.     *)
ResponseFlushed == \A r \in Requests : "response" \notin req[r].lost

(* request.c: free_request deallocates what a request holds, its temporary *)
(* file for the body included.                                             *)
PostDataClosed == \A r \in Requests : "post_data_fd" \notin req[r].lost

(* poll.c: a keepalive timeout is one where nothing has been read yet.     *)
KeepAliveTimeoutUnread ==
    [][\A r \in Requests :
         /\ req'[r].status = "TIMED_OUT" /\ req[r].status # "TIMED_OUT"
         /\ req[r].idle <= RequestTimeout
         => req[r].pos = 0]_vars

(* SIGTERM makes the server exit, once the requests under way are done.    *)
SigTermExits == (sigterm_flag # 0) ~> (pc = "exit")
=============================================================================
