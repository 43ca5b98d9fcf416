----------------------------- MODULE SelectLoop -----------------------------
(***************************************************************************)
(* loop and fdset_update of select.c, the event loop of a build without    *)
(* poll.  The descriptors to watch are bits of two sets, which select      *)
(* overwrites with its results: fdset_update puts back the bits of the     *)
(* requests that stay blocked, ready_request clears the bit of one that    *)
(* does not, and free_request those of the descriptors it closes.          *)
(* Descriptors are not numbered: Watched says that the bits select is      *)
(* given are all of descriptors that were added since max_fd was reset,    *)
(* and open, so neither max_fd nor EBADF matters.                          *)
(***************************************************************************)
EXTENDS Blocking

CONSTANT Server    \* the server socket

ASSUME ServerAssumption == Server \notin Requests

VARIABLE fds       \* the bits of block_read_fdset and block_write_fdset

vars == <<pc, requests, flags, fds>>

(* The bit a request waits with, BOA_FD_SET of block_request.              *)
Bit(r, w) == <<r, CASE w = "buffer" -> "write" [] w = "file" -> "data" [] OTHER -> w>>
ServerBit == <<Server, "read">>
Bits == (Requests \X {"read", "write", "data", "post"}) \cup {ServerBit}

Watching == {Bit(r, want[r]) : r \in Blocked}

TypeOK ==
    /\ BlockingTypeOK
    /\ fds \subseteq Bits

Init == BlockingInit /\ fds = {}
-----------------------------------------------------------------------------
Block(r, w) ==
    /\ Blocks(r, w)
    /\ fds' = fds \cup {Bit(r, w)}

(* free_request clears the bits of data_fd and post_data_fd, which it      *)
(* closes.  They may have been closed before, but not after a timeout,     *)
(* when free_request is all that is called.                                *)
DataCleared(r) == LET B == {Bit(r, "data"), Bit(r, "post")}
                  IN  IF r \in late THEN {B} ELSE SUBSET B

(* The connection is kept by free_request for another request,             *)
KeepAlive(r) ==
    /\ Blocks(r, "read")
    /\ \E D \in DataCleared(r) :
          fds' = (fds \cup {Bit(r, "read")}) \ (D \cup {Bit(r, "write")})

(* or closed, with the bits of its socket.                                 *)
Close(r) ==
    /\ free_request(r)
    /\ \E D \in DataCleared(r) : fds' = fds \ (D \cup {Bit(r, "read"), Bit(r, "write")})

process_requests ==
    \/ \E r \in Requests :
          \/ \E w \in Waits : Block(r, w)
          \/ KeepAlive(r) \/ Close(r)
          \/ (get_request(r) \/ StaysReady(r)) /\ UNCHANGED fds
    \/ (PassBegins \/ PassEnds) /\ UNCHANGED fds
-----------------------------------------------------------------------------
(* The top of the loop: lame duck mode and its end,                        *)
LameDuck ==
    /\ pc = "top" /\ sigterm_flag # 0
    /\ sigterm_flag' = 2
    /\ fds' = fds \ {ServerBit}
    /\ pc' = IF Opened = {} THEN "exit" ELSE "poll"
    /\ pending_requests' = FALSE
    /\ UNCHANGED <<requests, interrupts>>

(* or the server socket is watched, up to one connection over the limit.   *)
WatchServer ==
    /\ pc = "top" /\ sigterm_flag = 0
    /\ fds' = IF Cardinality(Opened) > MaxConnections THEN fds \ {ServerBit}
              ELSE fds \cup {ServerBit}
    /\ pc' = "poll"
    /\ pending_requests' = FALSE
    /\ UNCHANGED <<requests, sigterm_flag, interrupts>>

(* What select leaves of the bits: the watched descriptors on which the    *)
(* awaited thing has happened, and anything of the others.                 *)
Selected(left) ==
    \A r \in Blocked : Bit(r, want[r]) \in left <=>
                          Bit(r, want[r]) \in fds /\ W!Occurred(r)'

(* select returns with an event, after 0 seconds when a request is ready   *)
(* and after default_timeout when one is blocked.                          *)
SelectReturn ==
    /\ pc = "poll"
    /\ TimePasses
    /\ fds' \in SUBSET fds
    /\ Selected(fds')
    /\ Opened # {} \/ ServerBit \in fds'
    /\ pending_requests' = (sigterm_flag = 0 /\ ServerBit \in fds')
    /\ pc' = "update"
    /\ UNCHANGED <<sigterm_flag, interrupts>>

(* The bit ready_request clears, by the status of the request: one that    *)
(* has timed out, with nothing in its buffer, is taken for a reader.       *)
ClearedBit(r) == IF r \in late /\ want[r] # "buffer" THEN Bit(r, "read")
                 ELSE Bit(r, want[r])

(* fdset_update puts back no bit at all.                                   *)
PutBackNone(S) == {}

(* The bits of the requests that stay blocked; io_shuffle's wait for its   *)
(* file is not put back.                                                   *)
PutBack(S) == {Bit(r, want[r]) : r \in {x \in Blocked \ S : want[x] # "file"}}

(* fdset_update that does not look at the clock.                           *)
FoundReadyUntimed == {r \in Blocked : Bit(r, want[r]) \in fds}

(* fdset_update that does not look for the bit of a request with something *)
(* in its buffer.                                                          *)
FoundReadyBuffered ==
    {r \in Blocked : r \in late \/ want[r] = "buffer" \/ Bit(r, want[r]) \in fds}

FoundReady == {r \in Blocked : r \in late \/ Bit(r, want[r]) \in fds}

(* ready_request that clears the bit only of a request in time.            *)
fdset_updateUncleared ==
    /\ pc = "update"
    /\ MakeReady(FoundReady)
    /\ fds' = fds \cup PutBack(FoundReady)
    /\ pc' = "entry"
    /\ UNCHANGED flags

fdset_update ==
    /\ pc = "update"
    /\ MakeReady(FoundReady)
    /\ fds' = (fds \ {ClearedBit(r) : r \in FoundReady}) \cup PutBack(FoundReady)
    /\ pc' = "entry"
    /\ UNCHANGED flags
-----------------------------------------------------------------------------
Loop == LameDuck \/ WatchServer \/ SelectReturn \/ fdset_update \/ process_requests

Next == Loop \/ ((SigTerm \/ Interrupt) /\ UNCHANGED fds)

Spec == Init /\ [][Next]_vars

(* The process is scheduled; nothing is assumed of the outside.            *)
FairSpec == Spec /\ WF_vars(Loop)
-----------------------------------------------------------------------------
(* Whenever select is called, interrupted rounds included, the sets hold   *)
(* the bits of the blocked requests, although the call before overwrote    *)
(* them and fdset_update does not put back every kind of wait; and besides *)
(* the server's no other bit, although ready_request clears the wrong one  *)
(* after a timeout: free_request has cleared it by then.                   *)
Watched == TypeOK /\ (pc = "poll" => fds \ {ServerBit} = Watching)

(* A bit is left behind, set without a request that waits for it, only by  *)
(* a request that timed out in the round in which its event came.          *)
LeftBits == {b \in fds : b[1] \in Requests} \ Watching

LeftOnlyByTimeout ==
    [][\A b \in LeftBits' \ LeftBits : pc = "update" /\ b[1] \in late]_vars

(* A request is made ready only when what it waits for has happened or its *)
(* time is up, and after that it is closed.                                *)
EW == INSTANCE EventWait WITH waiting <- Blocked, loose <- {}

WakesWithCause == EW!Spec

(* A request whose event has occurred is made ready.                       *)
EventWakes == EW!EventWakes
=============================================================================
