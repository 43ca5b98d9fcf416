----------------------------- MODULE EventWait ------------------------------
(***************************************************************************)
(* What the event loops of boa promise the requests.  A request that       *)
(* cannot go on says what it waits for; the loop makes it ready again when *)
(* that has happened or when its time is up, and not otherwise; one whose  *)
(* time is up never waits again, it can only be closed.  `loose`           *)
(* holds the requests whose condition the loop has lost track of: nothing  *)
(* is promised to them.  poll.c and select.c are two implementations.      *)
(***************************************************************************)
CONSTANTS
    Requests,     \* the request structures
    Waits         \* what a blocked request can wait for

(* "read" and "write" wait for the client's socket, "buffer" too, to write *)
(* what is left in the buffer; "data" waits for the pipe of a CGI, "file"  *)
(* for the file of io_shuffle, "post" for the file of a body.              *)

VARIABLES
    ready,        \* requests on request_ready
    waiting,      \* requests on request_block
    want,         \* what each of them waits for
    happened,     \* waiting requests for which it has happened
    late,         \* requests whose time is up
    loose         \* requests the loop lost track of

vars == <<ready, waiting, want, happened, late, loose>>

(* A regular file can always be read and written.  An error on a           *)
(* descriptor, or its end, is an event for the request that waits for it.  *)
Occurred(r) == r \in happened \/ want[r] \in {"file", "post"}

Init ==
    /\ ready = {} /\ waiting = {} /\ happened = {} /\ late = {} /\ loose = {}
    /\ want = [r \in Requests |-> "read"]

(* get_request accepts a connection, and free_request closes it.           *)
Open(r) ==
    /\ r \notin ready \cup waiting
    /\ ready' = ready \cup {r}
    /\ UNCHANGED <<waiting, want, happened, late>>

Close(r) ==
    /\ r \in ready
    /\ ready' = ready \ {r}
    /\ late' = late \ {r}
    /\ UNCHANGED <<waiting, want, happened>>

Wait(r, w) ==
    /\ r \in ready \ late
    /\ ready' = ready \ {r}
    /\ waiting' = waiting \cup {r}
    /\ want' = [want EXCEPT ![r] = w]
    /\ UNCHANGED <<happened, late>>

(* The loop makes requests ready, each for a reason; what they waited for  *)
(* does not matter any more.                                               *)
Wake(S) ==
    /\ \A r \in S : Occurred(r) \/ r \in late \cup loose
    /\ waiting' = waiting \ S
    /\ ready' = ready \cup S
    /\ happened' = happened \ S
    /\ UNCHANGED late
    /\ want' = [r \in Requests |-> IF r \in S THEN "read" ELSE want[r]]

(* Things happen on the descriptors, and time passes.                      *)
Happen ==
    /\ happened \subseteq happened' /\ happened' \subseteq happened \cup waiting
    /\ late \subseteq late' /\ late' \subseteq late \cup waiting
    /\ UNCHANGED <<ready, waiting, want>>

Next ==
    /\ loose' \subseteq Requests
    /\ \/ \E r \in Requests : Open(r) \/ Close(r) \/ \E w \in Waits : Wait(r, w)
       \/ \E S \in SUBSET waiting : Wake(S)
       \/ Happen

Spec == Init /\ [][Next]_vars
-----------------------------------------------------------------------------
(* A request whose condition holds, or whose time is up, is made ready,    *)
(* unless the loop lost track of it.                                       *)
EventWakes == \A r \in Requests :
    (r \in waiting /\ (Occurred(r) \/ r \in late))
        ~> (r \notin waiting \/ r \in loose)
=============================================================================
