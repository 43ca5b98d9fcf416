------------------------------ MODULE Blocking ------------------------------
(***************************************************************************)
(* What poll.c and select.c have in common: the blocked and the ready      *)
(* requests, the turns of process_requests and the signals.  What a        *)
(* request does in its turn is left to Server and Handlers; here it blocks *)
(* on something, stays ready or closes.                                    *)
(***************************************************************************)
EXTENDS RequestLists, FiniteSets

CONSTANTS
    Waits,            \* what a blocked request can wait for
    MaxConnections,   \* max_connections
    Interrupts        \* bound on the signals, SIGTERM aside

ASSUME BlockingAssumption ==
    /\ IsFiniteSet(Requests)
    /\ MaxConnections \in Nat \ {0} /\ Interrupts \in Nat
    /\ "read" \in Waits
    /\ Waits \subseteq {"read", "write", "buffer", "data", "file", "post"}

VARIABLES
    pc,               \* where the loop is
    block, ready,     \* request_block and request_ready
    turn,             \* ready requests whose turn of this pass is to come
    want,             \* what each blocked request waits for
    happened,         \* blocked requests for which it has happened
    late,             \* requests that have timed out
    pending_requests, sigterm_flag,
    interrupts        \* signals still to come

requests == <<block, ready, turn, want, happened, late>>
flags == <<pending_requests, sigterm_flag, interrupts>>

Blocked == Elems(block)
Opened == ready \cup Blocked

(* The abstract specification, for what has occurred.                      *)
W == INSTANCE EventWait WITH waiting <- Blocked, loose <- {}

BlockingTypeOK ==
    /\ pc \in {"top", "poll", "update", "entry", "process", "exit"}
    /\ block \in Seq(Requests)
    /\ {ready, turn, happened, late} \subseteq SUBSET Requests
    /\ want \in [Requests -> Waits]
    /\ pending_requests \in BOOLEAN
    /\ sigterm_flag \in 0 .. 2
    /\ interrupts \in 0 .. Interrupts

BlockingInit ==
    /\ pc = "top" /\ block = <<>> /\ ready = {} /\ turn = {}
    /\ happened = {} /\ late = {}
    /\ want = [r \in Requests |-> "read"]
    /\ pending_requests = FALSE /\ sigterm_flag = 0
    /\ interrupts = Interrupts
-----------------------------------------------------------------------------
(* Up to the return of poll or select, and the reading of the clock after  *)
(* it, anything may happen on the descriptors, and time passes.            *)
TimePasses ==
    /\ happened' \in {happened \cup S : S \in SUBSET Blocked}
    /\ late' \in {late \cup S : S \in SUBSET Blocked}
    /\ UNCHANGED <<block, ready, turn, want>>

(* The requests that the loop found ready leave the block list, and every  *)
(* ready request gets a turn.                                              *)
MakeReady(S) ==
    /\ block' = Kept(block, {i \in DOMAIN block : block[i] \notin S})
    /\ ready' = ready \cup S
    /\ turn' = ready'
    /\ happened' = happened \ S
    /\ UNCHANGED late
    /\ want' = [r \in Requests |-> IF r \in S THEN "read" ELSE want[r]]

(* get_request: a connection is accepted when process_requests is entered, *)
(* and then gets a turn, or after the turn of another request.             *)
Accepted(r) ==
    /\ pending_requests /\ r \notin Opened
    /\ ready' = ready \cup {r}
    /\ UNCHANGED <<block, want, happened, late, flags>>

PassBegins ==
    /\ pc = "entry"
    /\ pc' = "process"
    /\ \/ UNCHANGED <<requests, flags>>
       \/ \E r \in Requests : Accepted(r) /\ turn' = turn \cup {r}

get_request(r) ==
    /\ pc = "process" /\ turn # ready
    /\ Accepted(r)
    /\ UNCHANGED <<pc, turn>>

(* The turn of a request that blocks: block_request, or free_request when  *)
(* it keeps the connection; one that has timed out does neither.           *)
Blocks(r, w) ==
    /\ pc = "process" /\ r \in turn \ late
    /\ ready' = ready \ {r} /\ turn' = turn \ {r}
    /\ block' = Push(block, r)
    /\ want' = [want EXCEPT ![r] = w]
    /\ UNCHANGED <<pc, happened, late, flags>>

(* The turn of a request that stays ready,                                 *)
StaysReady(r) ==
    /\ pc = "process" /\ r \in turn \ late
    /\ turn' = turn \ {r}
    /\ UNCHANGED <<pc, block, ready, want, happened, late, flags>>

(* and of a request that is closed.                                        *)
free_request(r) ==
    /\ pc = "process" /\ r \in turn
    /\ ready' = ready \ {r} /\ turn' = turn \ {r}
    /\ late' = late \ {r}
    /\ UNCHANGED <<pc, block, want, happened, flags>>

PassEnds ==
    /\ pc = "process" /\ turn = {}
    /\ pc' = "top"
    /\ UNCHANGED <<requests, flags>>
-----------------------------------------------------------------------------
(* SIGTERM sets its flag, which the loop reads at its top; in the call of  *)
(* poll or select it also makes the call fail with EINTR, unless it came   *)
(* just before the call.                                                   *)
SigTerm ==
    /\ pc \in {"top", "poll"} /\ sigterm_flag = 0
    /\ sigterm_flag' = 1
    /\ pc' \in {"top", pc}
    /\ UNCHANGED <<requests, pending_requests, interrupts>>

(* SIGHUP, SIGCHLD and SIGALRM matter here only when they interrupt.       *)
Interrupt ==
    /\ pc = "poll" /\ interrupts > 0
    /\ interrupts' = interrupts - 1
    /\ pc' = "top"
    /\ UNCHANGED <<requests, pending_requests, sigterm_flag>>
=============================================================================
