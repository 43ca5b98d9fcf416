------------------------------ MODULE PollLoop ------------------------------
(***************************************************************************)
(* loop and update_blocked of poll.c with their descriptor arrays.  The    *)
(* current array, pfds, is filled by the requests that block (BOA_FD_SET)  *)
(* and by the server socket; poll writes its results into it, and          *)
(* update_blocked copies the entries of the requests that stay blocked to  *)
(* the other array, which becomes the current one.  A request knows its    *)
(* entry by its index, pollfd_id.                                          *)
(*                                                                         *)
(* The sequence pfds is the current array up to pfd_len.  The code never   *)
(* clears what earlier rounds left behind pfd_len, in the other array and  *)
(* in the revents of a new entry; the model takes it to be anything:       *)
(* "stale" results, and the entry Stale for a descriptor that is read from *)
(* there.                                                                  *)
(***************************************************************************)
EXTENDS Blocking

CONSTANTS Server, Unknown   \* the server socket, a descriptor of another time

ASSUME ServerAssumption ==
    Server \notin Requests /\ Unknown \notin Requests \cup {Server}

VARIABLES
    pfds, server_pfd, watch_server,
    pollfd_id         \* of each request, counted from 1

arrays == <<pfds, server_pfd, watch_server, pollfd_id>>
vars == <<pc, requests, flags, arrays>>

Entry == [who : Requests \cup {Server, Unknown}, wait : Waits,
          revents : {"none", "event", "stale"}]

NewEntry(who, wait) == [who |-> who, wait |-> wait, revents |-> "stale"]
Stale == NewEntry(Unknown, "read")

(* The array entry at an index that may lie behind pfd_len.                *)
At(i) == IF i \in DOMAIN pfds THEN pfds[i] ELSE Stale

TypeOK ==
    /\ BlockingTypeOK
    /\ pfds \in Seq(Entry)
    /\ server_pfd \in Nat
    /\ watch_server \in BOOLEAN
    /\ pollfd_id \in [Requests -> Nat]

Init ==
    /\ BlockingInit
    /\ pfds = <<>> /\ server_pfd = 1 /\ watch_server = TRUE
    /\ pollfd_id = [r \in Requests |-> 0]
-----------------------------------------------------------------------------
(* block_request and the keepalive of free_request append with BOA_FD_SET. *)
Block(r, w) ==
    /\ Blocks(r, w)
    /\ pfds' = Append(pfds, NewEntry(r, w))
    /\ pollfd_id' = [pollfd_id EXCEPT ![r] = Len(pfds')]
    /\ UNCHANGED <<server_pfd, watch_server>>

process_requests ==
    \/ \E r \in Requests :
          \/ \E w \in Waits : Block(r, w)
          \/ (get_request(r) \/ StaysReady(r) \/ free_request(r)) /\ UNCHANGED arrays
    \/ (PassBegins \/ PassEnds) /\ UNCHANGED arrays
-----------------------------------------------------------------------------
(* SIGTERM removes the server's entry: the others are copied to the other  *)
(* array.  The copy uses the index of the target on both sides, so it is   *)
(* the last entry that goes, and none when server_pfd, which may be of an  *)
(* earlier round, is not in the array.                                     *)
RemoveServer ==
    pfds' = LET left == IF server_pfd \in DOMAIN pfds THEN Len(pfds) - 1 ELSE Len(pfds)
            IN  [i \in 1 .. left |-> NewEntry(pfds[i].who, pfds[i].wait)]

(* SIGTERM has been seen: lame duck mode, and the exit when it is over.    *)
LameDuck ==
    /\ pc = "top" /\ sigterm_flag # 0
    /\ sigterm_flag' = 2
    /\ \/ /\ sigterm_flag = 1
          /\ RemoveServer
          /\ watch_server' = FALSE
       \/ /\ sigterm_flag = 2
          /\ UNCHANGED <<pfds, watch_server>>
    /\ pc' = IF Opened = {} THEN "exit" ELSE "poll"
    /\ pending_requests' = FALSE
    /\ UNCHANGED <<requests, interrupts, server_pfd, pollfd_id>>

(* The position of the server's entry is not remembered.                   *)
WatchServerUnnoted ==
    /\ pc = "top" /\ sigterm_flag = 0
    /\ watch_server' = (Cardinality(Opened) < MaxConnections)
    /\ pfds' = IF watch_server' THEN Append(pfds, NewEntry(Server, "read")) ELSE pfds
    /\ pc' = "poll"
    /\ pending_requests' = FALSE
    /\ UNCHANGED <<requests, sigterm_flag, interrupts, server_pfd, pollfd_id>>

(* Otherwise the server socket is appended while there is room.            *)
WatchServer ==
    /\ pc = "top" /\ sigterm_flag = 0
    /\ watch_server' = (Cardinality(Opened) < MaxConnections)
    /\ \/ /\ watch_server'
          /\ pfds' = Append(pfds, NewEntry(Server, "read"))
          /\ server_pfd' = Len(pfds')
       \/ /\ ~watch_server'
          /\ UNCHANGED <<pfds, server_pfd>>
    /\ pc' = "poll"
    /\ pending_requests' = FALSE
    /\ UNCHANGED <<requests, sigterm_flag, interrupts, pollfd_id>>

(* What poll can report of an entry: POLLERR and POLLNVAL are events too,  *)
(* the latter for a server socket that is closed.  The entry of a request  *)
(* that is not blocked, or not on this descriptor, may show anything.      *)
Reported(e) ==
    CASE e.who \in Blocked /\ e.wait = want[e.who] ->
            {IF e.who \in happened' \/ e.wait \in {"file", "post"} THEN "event" ELSE "none"}
      [] e.who = Server /\ sigterm_flag = 2 -> {"event"}
      [] OTHER -> {"none", "event"}

(* poll returns with an event, after 0 seconds when a request is ready and *)
(* after default_timeout when one is blocked; with no entry it is not      *)
(* called.                                                                 *)
PollReturn ==
    /\ pc = "poll"
    /\ TimePasses
    /\ \E rev \in [DOMAIN pfds -> {"none", "event"}] :
          /\ \A i \in DOMAIN pfds : rev[i] \in Reported(pfds[i])
          /\ Opened # {} \/ \E i \in DOMAIN pfds : rev[i] # "none"
          /\ pfds' = [i \in DOMAIN pfds |-> [pfds[i] EXCEPT !.revents = rev[i]]]
          /\ pending_requests' = (/\ pfds # <<>> /\ sigterm_flag = 0 /\ watch_server
                                  /\ rev[server_pfd] = "event")
    /\ pc' = "update"
    /\ UNCHANGED <<sigterm_flag, interrupts,
                   server_pfd, watch_server, pollfd_id>>

(* poll reports POLLNVAL or POLLERR for the server socket: the server      *)
(* exits, whatever its requests are doing.                                 *)
ServerFails ==
    /\ pc = "poll" /\ sigterm_flag = 0 /\ watch_server
    /\ pc' = "exit"
    /\ UNCHANGED <<requests, flags, arrays>>

(* update_blocked that does not look at the clock.                         *)
FoundReadyUntimed(S) ==
    \A r \in Blocked : \/ At(pollfd_id[r]).revents = "stale"
                       \/ r \in S <=> At(pollfd_id[r]).revents = "event"

(* update_blocked that takes one event for everybody's.                    *)
FoundReadyAll(S) ==
    \A r \in Blocked : r \in S <=> \/ r \in late
                                  \/ \E i \in DOMAIN pfds : pfds[i].revents = "event"

(* A request is found ready when its entry shows an event or an error, or  *)
(* when it has timed out; a stale result may be anything.                  *)
FoundReady(S) ==
    \A r \in Blocked : \/ At(pollfd_id[r]).revents = "stale" /\ (r \in late => r \in S)
                       \/ r \in S <=> (r \in late \/ At(pollfd_id[r]).revents = "event")

(* update_blocked that copies the entries in the order of the old array.   *)
update_blockedKeepsIds ==
    /\ pc = "update"
    /\ \E S \in SUBSET Blocked :
          /\ FoundReady(S)
          /\ MakeReady(S)
    /\ pfds' = [i \in DOMAIN block' |-> NewEntry(At(pollfd_id[block'[i]]).who,
                                                 At(pollfd_id[block'[i]]).wait)]
    /\ pc' = "entry"
    /\ UNCHANGED <<flags, server_pfd, watch_server, pollfd_id>>

(* update_blocked: the entries of the requests that stay blocked go to the *)
(* other array, in the order of the block list, and the arrays are         *)
(* swapped.                                                                *)
update_blocked ==
    /\ pc = "update"
    /\ \E S \in SUBSET Blocked :
          /\ FoundReady(S)
          /\ MakeReady(S)
    /\ pfds' = [i \in DOMAIN block' |-> NewEntry(At(pollfd_id[block'[i]]).who,
                                                 At(pollfd_id[block'[i]]).wait)]
    /\ pollfd_id' = [r \in Requests |-> IF r \in Elems(block') THEN IndexOf(block', r) ELSE 0]
    /\ pc' = "entry"
    /\ UNCHANGED <<flags, server_pfd, watch_server>>
-----------------------------------------------------------------------------
Loop == \/ LameDuck \/ WatchServer \/ PollReturn \/ ServerFails
        \/ update_blocked \/ process_requests

Next == Loop \/ ((SigTerm \/ Interrupt) /\ UNCHANGED arrays)

Spec == Init /\ [][Next]_vars

(* The process is scheduled; nothing is assumed of the outside.            *)
FairSpec == Spec /\ WF_vars(Loop)
-----------------------------------------------------------------------------
(* A blocked request is watched when the array that poll will be given has *)
(* its descriptor, with what it waits for, at its pollfd_id.               *)
WatchedAt(r) == /\ At(pollfd_id[r]).who = r
                /\ At(pollfd_id[r]).wait = want[r]

Unwatched == {r \in Blocked : ~WatchedAt(r)}

(* Until SIGTERM has been seen every blocked request is watched, at every  *)
(* point of the loop: blocking, the copies between the arrays and the      *)
(* rounds that poll does not finish never separate a request from its      *)
(* entry.  The removal of the server's entry loses one request at most,    *)
(* and no other request has its place.                                     *)
Watched ==
    /\ sigterm_flag # 2 => Unwatched = {}
    /\ Cardinality(Unwatched) <= 1
    /\ \A r, s \in Blocked : r # s => pollfd_id[r] # pollfd_id[s]

(* The array that poll is given has nothing but one entry for each blocked *)
(* request and the server's entries: one, and one more for each round that *)
(* a signal interrupted; the last one is where the loop looks.  The other  *)
(* variables keep their types.  Once SIGTERM has been seen this says       *)
(* nothing of the array: the removal of the server's entry may leave it    *)
(* there.                                                                  *)
ServerEntries == {i \in DOMAIN pfds : pfds[i].who = Server}

NothingElse ==
    /\ TypeOK
    /\ sigterm_flag # 2 =>
         /\ Len(pfds) = Len(block) + Cardinality(ServerEntries)
         /\ Cardinality(ServerEntries) <= 1 + Interrupts - interrupts
         /\ pc \in {"poll", "update"} /\ watch_server => server_pfd \in ServerEntries

(* A request that is not lost is made ready only when what it waits for    *)
(* has happened or its time is up: a result of an earlier poll is never    *)
(* read for it.  A server that exits leaves all of them.                   *)
EW == INSTANCE EventWait WITH
        waiting <- Blocked, loose <- IF pc = "exit" THEN Requests ELSE Unwatched

WakesWithCause == EW!Spec

(* A request whose event has occurred is made ready.                       *)
EventWakes == EW!EventWakes

(* poll.c: SIGTERM removes the server's entry, and no other: the requests  *)
(* under way are still watched.                                            *)
NoneLost == Unwatched = {}
=============================================================================
