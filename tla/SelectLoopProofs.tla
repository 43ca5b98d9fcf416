-------------------------- MODULE SelectLoopProofs --------------------------
(***************************************************************************)
(* That the select loop calls select with the bits of the blocked requests *)
(* and no others, that bits are left behind only by requests that timed    *)
(* out, and that the loop implements EventWait, for every set of requests, *)
(* every kind of wait, every limit on connections and every number of      *)
(* signals.                                                                *)
(***************************************************************************)
EXTENDS SelectLoop, ListsProofs, TLAPS

(* Where the bits are in a round.  Outside of fdset_update every blocked   *)
(* request has its bit.  At the start of fdset_update select has           *)
(* overwritten the bits: the ones that fdset_update will not put back, of  *)
(* requests that wait for a file, are still there, and a bit means that    *)
(* its event has occurred.                                                 *)
BitsKept ==
    \A r \in Blocked : pc # "update" \/ want[r] = "file" => Bit(r, want[r]) \in fds

BitsTrue ==
    pc = "update" =>
        \A r \in Blocked : Bit(r, want[r]) \in fds => W!Occurred(r)

(* No bit but the server's and those of the blocked requests is set, apart *)
(* from what a request has left that timed out and is about to be freed.   *)
BitsOwn ==
    \A b \in fds : \/ b = ServerBit
                   \/ \E r \in Blocked : b = Bit(r, want[r])
                   \/ b[1] \in late \cap turn

(* A ready request is not blocked, only ready requests have a turn, in     *)
(* process_requests, and every request that timed out and is not blocked   *)
(* any more is still to have its own.                                      *)
TurnsReady ==
    /\ turn \subseteq ready /\ ready \cap Blocked = {}
    /\ late \subseteq Blocked \cup turn
    /\ pc \notin {"entry", "process"} => turn = {}

SelectInv == TypeOK /\ TurnsReady /\ BitsKept /\ BitsTrue /\ BitsOwn

(* The bits of two requests differ, whatever they wait for, and the bit of *)
(* a request differs from that of the server socket.                       *)
LEMMA BitsApart ==
    /\ \A r \in Requests, w \in Waits : Bit(r, w) \in Bits /\ Bit(r, w)[1] = r
    /\ \A r \in Requests, w \in Waits : Bit(r, w) # ServerBit
    /\ \A r, s \in Requests : \A v, w : r # s => Bit(r, v) # Bit(s, w)
    /\ \A r \in Requests : /\ Bit(r, "read") # Bit(r, "write")
                           /\ Bit(r, "read") # Bit(r, "data")
                           /\ Bit(r, "read") # Bit(r, "post")
    /\ \A b \in Bits, r \in Requests :
          b[1] = r => b \in {Bit(r, "read"), Bit(r, "write"), Bit(r, "data"), Bit(r, "post")}
BY BlockingAssumption, ServerAssumption DEF Bit, ServerBit, Bits

(* A blocked request is one of the requests, and waits for something.      *)
LEMMA BlockedTyped ==
    ASSUME BlockingTypeOK
    PROVE  Blocked \subseteq Requests /\ \A r \in Blocked : want[r] \in Waits
BY DEF BlockingTypeOK, Blocked, Elems

(* What fdset_update does to the lists: the requests of S go from the one  *)
(* to the other.                                                           *)
LEMMA MadeReady ==
    ASSUME BlockingTypeOK, TurnsReady, NEW S \in SUBSET Blocked, MakeReady(S),
           pc' = "entry"
    PROVE  /\ block' \in Seq(Requests)
           /\ {ready', turn', happened', late'} \subseteq SUBSET Requests
           /\ want' \in [Requests -> Waits]
           /\ Blocked' = Blocked \ S
           /\ \A r \in Blocked \ S : want'[r] = want[r]
           /\ TurnsReady'
<1>1. block \in Seq(Requests) /\ Blocked \subseteq Requests
  BY BlockedTyped DEF BlockingTypeOK
<1>2. block' \in Seq(Requests) /\ Blocked' = Blocked \ S
  <2>1. PICK K : K = {i \in DOMAIN block : block[i] \notin S}
    OBVIOUS
  <2>2. Kept(block, K) \in Seq(Requests) /\ Elems(Kept(block, K)) = Elems(block) \ S
    BY <1>1, <2>1, KeptWithout
  <2>3. block' = Kept(block, K)
    BY <2>1 DEF MakeReady
  <2> QED
    BY <2>2, <2>3 DEF Blocked
<1>3. /\ {ready', turn', happened', late'} \subseteq SUBSET Requests
      /\ want' \in [Requests -> Waits]
      /\ \A r \in Blocked \ S : want'[r] = want[r]
  BY <1>1, BlockingAssumption DEF MakeReady, BlockingTypeOK
<1>4. TurnsReady'
  BY <1>2 DEF MakeReady, TurnsReady
<1> QED
  BY <1>2, <1>3, <1>4

(* What a request that blocks does to the lists.                           *)
LEMMA BlocksOne ==
    ASSUME BlockingTypeOK, TurnsReady, NEW r \in Requests, NEW w \in Waits, Blocks(r, w)
    PROVE  /\ BlockingTypeOK' /\ TurnsReady' /\ pc = "process" /\ pc' = pc
           /\ r \notin Blocked /\ Blocked' = Blocked \cup {r}
           /\ want'[r] = w /\ \A s \in Blocked : want'[s] = want[s]
           /\ r \notin late /\ late' = late /\ turn' = turn \ {r}
<1>1. block \in Seq(Requests) /\ Blocked \subseteq Requests
  BY BlockedTyped DEF BlockingTypeOK
<1>2. block' \in Seq(Requests) /\ Blocked' = Blocked \cup {r}
  <2>1. Push(block, r) \in Seq(Requests)
    BY <1>1, PushPlaces
  <2>2. Elems(Push(block, r)) = Elems(block) \cup {r}
    BY <1>1, PushElems
  <2> QED
    BY <2>1, <2>2 DEF Blocks, Blocked
<1>3. r \notin Blocked
  BY DEF Blocks, TurnsReady
<1>4. TurnsReady'
  BY <1>2 DEF TurnsReady, Blocks
<1>5. /\ want' \in [Requests -> Waits] /\ want'[r] = w
      /\ \A s \in Blocked : want'[s] = want[s]
  BY <1>1, <1>3 DEF Blocks, BlockingTypeOK
<1>6. BlockingTypeOK'
  BY <1>2, <1>5 DEF BlockingTypeOK, Blocks, flags
<1> QED
  BY <1>2, <1>3, <1>4, <1>5, <1>6 DEF Blocks

(* The steps of process_requests that neither block nor close: a           *)
(* connection is accepted, a turn is over, the pass begins or ends.        *)
QuietTurn ==
    \/ \E r \in Requests : get_request(r) \/ StaysReady(r)
    \/ PassBegins \/ PassEnds

(* They leave what is blocked alone.                                       *)
LEMMA QuietTurns ==
    ASSUME BlockingTypeOK, TurnsReady, QuietTurn
    PROVE  /\ BlockingTypeOK' /\ TurnsReady' /\ pc # "update" /\ pc' # "update"
           /\ Blocked' = Blocked /\ want' = want /\ happened' = happened /\ late' = late
           /\ late \cap turn \subseteq turn'
<1>1. /\ UNCHANGED <<block, want, happened, late, flags>>
      /\ pc # "update" /\ pc' \in {"process", "top"}
      /\ {ready', turn'} \subseteq SUBSET Requests
      /\ turn' \subseteq ready' /\ ready' \cap Blocked = {}
      /\ pc' # "process" => turn' = {}
      /\ late \cap turn \subseteq turn'
  <2>1. CASE \E r \in Requests : get_request(r)
    BY <2>1 DEF get_request, Accepted, Opened, BlockingTypeOK, TurnsReady, flags
  <2>2. CASE \E r \in Requests : StaysReady(r)
    BY <2>2 DEF StaysReady, BlockingTypeOK, TurnsReady, flags
  <2>3. CASE PassBegins
    BY <2>3 DEF PassBegins, Accepted, Opened, BlockingTypeOK, TurnsReady, flags, requests
  <2>4. CASE PassEnds
    BY <2>4 DEF PassEnds, BlockingTypeOK, TurnsReady, flags, requests
  <2> QED
    BY <2>1, <2>2, <2>3, <2>4 DEF QuietTurn
<1>2. Blocked' = Blocked
  BY <1>1 DEF Blocked
<1>3. TurnsReady'
  BY <1>1, <1>2 DEF TurnsReady
<1>4. BlockingTypeOK'
  BY <1>1 DEF BlockingTypeOK, flags
<1> QED
  BY <1>1, <1>2, <1>3, <1>4

(* The signals leave the lists alone.                                      *)
LEMMA SignalsQuiet ==
    ASSUME BlockingTypeOK, TurnsReady, SigTerm \/ Interrupt
    PROVE  /\ BlockingTypeOK' /\ TurnsReady' /\ pc # "update" /\ pc' # "update"
           /\ Blocked' = Blocked /\ UNCHANGED requests
<1>1. UNCHANGED requests /\ pc \in {"top", "poll"} /\ pc' \in {"top", "poll"}
  BY DEF SigTerm, Interrupt
<1>2. Blocked' = Blocked /\ TurnsReady'
  BY <1>1 DEF Blocked, TurnsReady, requests
<1>3. sigterm_flag' \in 0 .. 2 /\ interrupts' \in 0 .. Interrupts /\ pending_requests' = pending_requests
  BY BlockingAssumption DEF SigTerm, Interrupt, BlockingTypeOK
<1>4. BlockingTypeOK'
  BY <1>1, <1>3 DEF BlockingTypeOK, requests
<1> QED
  BY <1>1, <1>2, <1>4

(* Initially nothing is blocked, and no bit is set.                        *)
LEMMA SelectInvInit == Init => SelectInv
<1> SUFFICES ASSUME Init PROVE SelectInv
  OBVIOUS
<1>1. BlockingTypeOK
  <2>1. /\ pc = "top" /\ block = <<>> /\ ready = {} /\ turn = {}
        /\ happened = {} /\ late = {} /\ pending_requests = FALSE
        /\ sigterm_flag = 0 /\ interrupts = Interrupts
    BY DEF Init, BlockingInit
  <2>2. want \in [Requests -> Waits]
    BY BlockingAssumption DEF Init, BlockingInit
  <2>3. sigterm_flag \in 0 .. 2 /\ interrupts \in 0 .. Interrupts
    BY <2>1, BlockingAssumption
  <2>4. block \in Seq(Requests)
    BY <2>1
  <2> QED
    BY <2>1, <2>2, <2>3, <2>4 DEF BlockingTypeOK
<1>2. Blocked = {}
  BY DEF Init, BlockingInit, Blocked, Elems
<1> QED
  BY <1>1, <1>2 DEF Init, BlockingInit, SelectInv, TypeOK, TurnsReady, BitsKept, BitsTrue, BitsOwn

(* A request that blocks sets its bit; no other request loses its own,     *)
(* even when free_request clears the bit for writing.                      *)
LEMMA BlockKeepsInv ==
    ASSUME SelectInv, NEW r \in Requests, NEW w \in Waits, Block(r, w) \/ (w = "read" /\ KeepAlive(r))
    PROVE  SelectInv'
<1>1. BlockingTypeOK /\ TurnsReady /\ fds \subseteq Bits
  BY DEF SelectInv, TypeOK
<1>2. Blocks(r, w)
  BY DEF Block, KeepAlive
<1>3. /\ BlockingTypeOK' /\ TurnsReady' /\ pc = "process" /\ pc' = pc
      /\ r \notin Blocked /\ Blocked' = Blocked \cup {r}
      /\ want'[r] = w /\ \A s \in Blocked : want'[s] = want[s]
      /\ r \notin late /\ late' = late /\ turn' = turn \ {r}
  BY <1>1, <1>2, BlocksOne
<1>4. /\ fds' \subseteq fds \cup {Bit(r, w)} /\ fds' \subseteq Bits /\ Bit(r, w) \in fds'
      /\ \A s \in Blocked, v \in Waits : Bit(s, v) \in fds => Bit(s, v) \in fds'
  <2>1. /\ Bit(r, w) \in Bits
        /\ \A s \in Blocked, v \in Waits :
              Bit(s, v) \notin {Bit(r, "write"), Bit(r, "data"), Bit(r, "post")}
    BY <1>1, <1>3, BitsApart, BlockedTyped
  <2>2. w = "read" => Bit(r, w) \notin {Bit(r, "write"), Bit(r, "data"), Bit(r, "post")}
    BY BitsApart
  <2>3. ASSUME w = "read", KeepAlive(r)
        PROVE  \E D \in SUBSET {Bit(r, "write"), Bit(r, "data"), Bit(r, "post")} :
                  fds' = (fds \cup {Bit(r, "read")}) \ D
    BY <2>3 DEF KeepAlive, DataCleared
  <2> QED
    BY <1>1, <2>1, <2>2, <2>3 DEF Block
<1>5. \A s \in Blocked : Bit(s, want[s]) \in fds /\ want[s] \in Waits
  BY <1>1, <1>3, BlockedTyped DEF SelectInv, BitsKept
<1>6. BitsKept'
  <2> SUFFICES ASSUME NEW s \in Blocked' PROVE Bit(s, want'[s]) \in fds'
    BY DEF BitsKept, Bit
  <2> QED
    BY <1>3, <1>4, <1>5
<1>7. BitsTrue'
  BY <1>3 DEF BitsTrue
<1>8. BitsOwn'
  <2> SUFFICES ASSUME NEW b \in fds', b # ServerBit, b # Bit(r, w)
               PROVE  (\E s \in Blocked' : b = Bit(s, want'[s])) \/ b[1] \in late' \cap turn'
    BY <1>3 DEF BitsOwn, Bit
  <2>1. (\E s \in Blocked : b = Bit(s, want[s])) \/ b[1] \in late \cap turn
    BY <1>4 DEF SelectInv, BitsOwn
  <2> QED
    BY <1>3, <2>1
<1> QED
  BY <1>3, <1>4, <1>6, <1>7, <1>8 DEF SelectInv, TypeOK

(* A request that is closed takes its bits with it: after a timeout its    *)
(* other descriptors were still open, and free_request has cleared their   *)
(* bits, and those of the socket, whichever way ready_request left them.   *)
LEMMA CloseKeepsInv ==
    ASSUME SelectInv, NEW r \in Requests, Close(r)
    PROVE  SelectInv' /\ Blocked' = Blocked /\ want' = want /\ fds' \subseteq fds
<1>1. BlockingTypeOK /\ TurnsReady /\ fds \subseteq Bits
  BY DEF SelectInv, TypeOK
<1>2. /\ pc = "process" /\ pc' = pc /\ r \in turn /\ ready' = ready \ {r}
      /\ turn' = turn \ {r} /\ late' = late \ {r}
      /\ UNCHANGED <<block, want, happened, flags>>
  BY DEF Close, free_request
<1>3. Blocked' = Blocked /\ r \notin Blocked
  BY <1>1, <1>2 DEF Blocked, TurnsReady
<1>4. TurnsReady'
  BY <1>1, <1>2, <1>3 DEF TurnsReady
<1>5. BlockingTypeOK'
  BY <1>1, <1>2 DEF BlockingTypeOK, flags
<1>6. PICK D \in DataCleared(r) : fds' = fds \ (D \cup {Bit(r, "read"), Bit(r, "write")})
  BY DEF Close
<1>7. /\ D \subseteq {Bit(r, "data"), Bit(r, "post")}
      /\ r \in late => D = {Bit(r, "data"), Bit(r, "post")}
  BY DEF DataCleared
<1>8. \A s \in Blocked : Bit(s, want[s]) \in fds'
  <2> SUFFICES ASSUME NEW s \in Blocked PROVE Bit(s, want[s]) \in fds'
    OBVIOUS
  <2>1. Bit(s, want[s]) \in fds
    BY <1>2 DEF SelectInv, BitsKept
  <2>2. Bit(s, want[s]) \notin {Bit(r, "read"), Bit(r, "write"), Bit(r, "data"), Bit(r, "post")}
    BY <1>1, <1>3, BlockedTyped, BitsApart
  <2> QED
    BY <1>6, <1>7, <2>1, <2>2
<1>9. BitsKept' /\ BitsTrue'
  BY <1>2, <1>3, <1>8 DEF BitsKept, BitsTrue, Bit
<1>10. BitsOwn'
  <2> SUFFICES ASSUME NEW b \in fds', b # ServerBit
               PROVE  (\E s \in Blocked : b = Bit(s, want[s])) \/ b[1] \in late' \cap turn'
    BY <1>2, <1>3 DEF BitsOwn, Bit
  <2>1. b \in fds /\ b \in Bits
    BY <1>1, <1>6
  <2>2. (\E s \in Blocked : b = Bit(s, want[s])) \/ b[1] \in late \cap turn
    BY <2>1 DEF SelectInv, BitsOwn
  <2>3. ASSUME b[1] = r, r \in late PROVE FALSE
    <3>1. b \in {Bit(r, "read"), Bit(r, "write"), Bit(r, "data"), Bit(r, "post")}
      BY <2>1, <2>3, BitsApart
    <3> QED
      BY <1>6, <1>7, <2>3, <3>1
  <2> QED
    BY <1>2, <2>2, <2>3
<1> QED
  BY <1>1, <1>2, <1>3, <1>4, <1>5, <1>6, <1>9, <1>10 DEF SelectInv, TypeOK

(* A step that changes neither the requests that wait, nor the bits but    *)
(* for that of the server, outside of fdset_update.                        *)
LEMMA ServerBitKeepsInv ==
    ASSUME SelectInv, BlockingTypeOK', TurnsReady',
           pc # "update", pc' # "update", Blocked' = Blocked, want' = want,
           late' = late, late \cap turn \subseteq turn',
           fds' \in {fds, fds \cup {ServerBit}, fds \ {ServerBit}}
    PROVE  SelectInv'
<1>1. BlockingTypeOK /\ fds \subseteq Bits
  BY DEF SelectInv, TypeOK
<1>2. ServerBit \in Bits
  BY DEF Bits
<1>3. \A s \in Blocked : Bit(s, want[s]) \in fds /\ Bit(s, want[s]) # ServerBit
  BY <1>1, BlockedTyped, BitsApart DEF SelectInv, BitsKept
<1>4. BitsKept'
  <2> SUFFICES ASSUME NEW s \in Blocked' PROVE Bit(s, want'[s]) \in fds'
    BY DEF BitsKept, Bit
  <2> QED
    BY <1>3
<1>5. BitsTrue' /\ fds' \subseteq Bits
  BY <1>1, <1>2 DEF BitsTrue
<1>6. BitsOwn'
  <2> SUFFICES ASSUME NEW b \in fds', b # ServerBit
               PROVE  (\E s \in Blocked : b = Bit(s, want[s])) \/ b[1] \in late' \cap turn'
    BY DEF BitsOwn, Bit
  <2> QED
    BY DEF SelectInv, BitsOwn
<1> QED
  BY <1>4, <1>5, <1>6 DEF SelectInv, TypeOK

(* select takes the bits of events that have not occurred, and none of a   *)
(* request that waits for a file.                                          *)
LEMMA SelectReturnKeepsInv == SelectInv /\ SelectReturn => SelectInv'
<1> SUFFICES ASSUME SelectInv, SelectReturn PROVE SelectInv'
  OBVIOUS
<1>1. BlockingTypeOK /\ TurnsReady /\ fds \subseteq Bits /\ pc = "poll" /\ pc' = "update"
  BY DEF SelectInv, TypeOK, SelectReturn
<1>2. Blocked' = Blocked /\ want' = want /\ ready' = ready /\ turn' = turn /\ block' = block
  BY DEF SelectReturn, TimePasses, Blocked
<1>3. happened' \in SUBSET Requests /\ late' \in SUBSET Requests
  <2>1. Blocked \subseteq Requests
    BY <1>1, BlockedTyped
  <2>2. happened \subseteq Requests /\ late \subseteq Requests
    BY <1>1 DEF BlockingTypeOK
  <2>3. /\ happened' \in {happened \cup S : S \in SUBSET Blocked}
        /\ late' \in {late \cup S : S \in SUBSET Blocked}
    BY DEF SelectReturn, TimePasses
  <2> QED
    BY <2>1, <2>2, <2>3
<1>4. BlockingTypeOK'
  <2>1. pending_requests' \in BOOLEAN
    BY DEF SelectReturn
  <2> QED
    BY <1>1, <1>2, <1>3, <2>1 DEF BlockingTypeOK, SelectReturn
<1>5. late' \subseteq late \cup Blocked /\ turn = {}
  <2>1. late' \in {late \cup S : S \in SUBSET Blocked}
    BY DEF SelectReturn, TimePasses
  <2> QED
    BY <1>1, <2>1 DEF TurnsReady
<1>6. TurnsReady'
  BY <1>1, <1>2, <1>5 DEF TurnsReady
<1>7. fds' \subseteq fds
  BY DEF SelectReturn
<1>8. \A r \in Blocked : Bit(r, want[r]) \in fds' <=> r \in happened' \/ want'[r] \in {"file", "post"}
  BY <1>1 DEF SelectReturn, Selected, W!Occurred, SelectInv, BitsKept
<1>9. BitsKept' /\ BitsTrue'
  BY <1>1, <1>2, <1>8 DEF BitsKept, BitsTrue, W!Occurred, Bit
<1>10. BitsOwn'
  <2> SUFFICES ASSUME NEW b \in fds', b # ServerBit
               PROVE  \E s \in Blocked : b = Bit(s, want[s])
    BY <1>2 DEF BitsOwn, Bit
  <2> QED
    BY <1>5, <1>7 DEF SelectInv, BitsOwn
<1> QED
  BY <1>1, <1>4, <1>6, <1>7, <1>9, <1>10 DEF SelectInv, TypeOK

(* fdset_update puts back the bits of all that stay blocked: one that does *)
(* not wait with its bit in the sets does not wait for a file.             *)
LEMMA fdset_updateKeepsInv == SelectInv /\ fdset_update => SelectInv'
<1> SUFFICES ASSUME SelectInv, fdset_update PROVE SelectInv'
  OBVIOUS
<1>1. /\ BlockingTypeOK /\ TurnsReady /\ fds \subseteq Bits
      /\ pc' = "entry" /\ UNCHANGED flags
  BY DEF SelectInv, TypeOK, fdset_update
<1>2. PICK S \in SUBSET Blocked : S = FoundReady
  BY DEF FoundReady
<1>3. MakeReady(S)
  BY <1>2 DEF fdset_update
<1>4. /\ block' \in Seq(Requests)
      /\ {ready', turn', happened', late'} \subseteq SUBSET Requests
      /\ want' \in [Requests -> Waits]
      /\ Blocked' = Blocked \ S
      /\ \A r \in Blocked \ S : want'[r] = want[r]
      /\ TurnsReady'
  BY <1>1, <1>3, MadeReady DEF fdset_update
<1>5. BlockingTypeOK'
  BY <1>1, <1>4 DEF BlockingTypeOK, flags
<1>6. \A r \in Blocked : r \in Requests /\ want[r] \in Waits /\ Bit(r, want[r]) \in Bits
  BY <1>1, BlockedTyped, BitsApart
<1>7. fds' \subseteq fds \cup {Bit(r, want[r]) : r \in Blocked}
  BY DEF fdset_update, PutBack
<1>8. BitsKept'
  <2> SUFFICES ASSUME NEW r \in Blocked' PROVE Bit(r, want'[r]) \in fds'
    BY DEF BitsKept, Bit
  <2>1. r \in Blocked /\ r \notin FoundReady /\ want'[r] = want[r]
    BY <1>2, <1>4
  <2>2. want[r] # "file"
    BY <2>1 DEF FoundReady, SelectInv, BitsKept
  <2>3. Bit(r, want[r]) \in PutBack(FoundReady)
    BY <2>1, <2>2 DEF PutBack
  <2> QED
    BY <2>1, <2>3 DEF fdset_update
<1>9. BitsTrue'
  BY <1>1 DEF BitsTrue
<1>10. BitsOwn'
  <2> SUFFICES ASSUME NEW b \in fds', b # ServerBit
               PROVE  (\E s \in Blocked' : b = Bit(s, want'[s])) \/ b[1] \in late' \cap turn'
    BY DEF BitsOwn, Bit
  <2>1. CASE b \in PutBack(FoundReady)
    BY <1>2, <1>4, <2>1 DEF PutBack
  <2>2. CASE b \in fds /\ b \notin {ClearedBit(r) : r \in FoundReady}
    <3>1. turn = {}
      BY <1>1 DEF TurnsReady, fdset_update
    <3>2. PICK s \in Blocked : b = Bit(s, want[s])
      BY <2>2, <3>1 DEF SelectInv, BitsOwn
    <3>3. s \in FoundReady
      BY <2>2, <3>2 DEF FoundReady
    <3>4. b # ClearedBit(s)
      BY <2>2, <3>3
    <3>5. s \in late
      BY <3>2, <3>4 DEF ClearedBit
    <3>6. b[1] = s /\ s \in late' /\ s \in turn'
      BY <1>1, <1>2, <1>3, <3>2, <3>3, <3>5, BlockedTyped, BitsApart DEF MakeReady
    <3> QED
      BY <3>6
  <2> QED
    BY <2>1, <2>2 DEF fdset_update
<1> QED
  BY <1>1, <1>4, <1>5, <1>6, <1>7, <1>8, <1>9, <1>10 DEF SelectInv, TypeOK

(* Every step of the loop, and every signal, keeps the invariant.          *)
LEMMA SelectInvStep == SelectInv /\ [Next]_vars => SelectInv'
<1> SUFFICES ASSUME SelectInv, [Next]_vars PROVE SelectInv'
  OBVIOUS
<1>1. BlockingTypeOK /\ TurnsReady
  BY DEF SelectInv, TypeOK
<1>2. CASE LameDuck \/ WatchServer
  <2>1. /\ UNCHANGED requests /\ pc = "top" /\ pc' \in {"poll", "exit"}
        /\ fds' \in {fds, fds \cup {ServerBit}, fds \ {ServerBit}}
        /\ sigterm_flag' \in 0 .. 2 /\ interrupts' = interrupts
        /\ pending_requests' = FALSE
    BY <1>1, <1>2 DEF LameDuck, WatchServer, BlockingTypeOK
  <2>2. /\ Blocked' = Blocked /\ TurnsReady' /\ want' = want
        /\ late' = late /\ turn' = turn
    BY <1>1, <2>1 DEF Blocked, TurnsReady, requests
  <2>3. BlockingTypeOK'
    BY <1>1, <2>1 DEF BlockingTypeOK, requests
  <2> QED
    BY <2>1, <2>2, <2>3, ServerBitKeepsInv
<1>3. CASE SelectReturn
  BY <1>3, SelectReturnKeepsInv
<1>4. CASE fdset_update
  BY <1>4, fdset_updateKeepsInv
<1>5. CASE \E r \in Requests, w \in Waits : Block(r, w) \/ (w = "read" /\ KeepAlive(r))
  BY <1>5, BlockKeepsInv
<1>6. CASE QuietTurn /\ UNCHANGED fds
  BY <1>1, <1>6, QuietTurns, ServerBitKeepsInv
<1>7. CASE (SigTerm \/ Interrupt) /\ UNCHANGED fds
  BY <1>1, <1>7, SignalsQuiet, ServerBitKeepsInv DEF requests
<1>8. CASE UNCHANGED vars
  <2>1. UNCHANGED <<pc, requests, flags, fds, block, ready, turn, want, happened, late>>
    BY <1>8 DEF vars, requests
  <2>2. TypeOK' /\ TurnsReady' /\ Blocked' = Blocked
    BY <2>1 DEF SelectInv, TypeOK, BlockingTypeOK, TurnsReady, Blocked, flags
  <2>3. BitsKept' /\ BitsTrue' /\ BitsOwn'
    BY <2>1, <2>2 DEF SelectInv, BitsKept, BitsTrue, BitsOwn, W!Occurred, Bit
  <2> QED
    BY <2>2, <2>3 DEF SelectInv
<1>9. CASE \E r \in Requests : Close(r)
  BY <1>9, CloseKeepsInv
<1> QED
  BY <1>2, <1>3, <1>4, <1>5, <1>6, <1>7, <1>8, <1>9, BlockingAssumption
  DEF Next, Loop, process_requests, QuietTurn

(* Whenever select is called the sets hold the bits of the blocked         *)
(* requests, the server's, and no others: the reset of the sets by         *)
(* fdset_update misses nobody, although it puts back no wait for a file,   *)
(* and what a timeout leaves is gone with the request.                     *)
THEOREM SelectWatches == Spec => []Watched
<1>1. SelectInv => Watched
  <2> SUFFICES ASSUME SelectInv PROVE Watched
    OBVIOUS
  <2>1. ASSUME pc = "poll" PROVE fds \ {ServerBit} = Watching
    <3>1. BlockingTypeOK /\ turn = {}
      BY <2>1 DEF SelectInv, TypeOK, TurnsReady
    <3>2. fds \ {ServerBit} \subseteq Watching
      BY <3>1 DEF SelectInv, BitsOwn, Watching
    <3>3. \A r \in Blocked : Bit(r, want[r]) \in fds /\ Bit(r, want[r]) # ServerBit
      BY <2>1, <3>1, BlockedTyped, BitsApart DEF SelectInv, BitsKept
    <3> QED
      BY <3>2, <3>3 DEF Watching
  <2> QED
    BY <2>1 DEF SelectInv, Watched
<1> QED
  BY <1>1, SelectInvInit, SelectInvStep, PTL DEF Spec

(* Which bits are left behind by a step: none but those of requests that   *)
(* timed out in the round in which their event came.                       *)
LEMMA LeftStep ==
    SelectInv /\ [Next]_vars =>
        \A b \in LeftBits' \ LeftBits : pc = "update" /\ b[1] \in late
<1> SUFFICES ASSUME SelectInv, [Next]_vars, NEW b \in LeftBits' \ LeftBits
             PROVE  pc = "update" /\ b[1] \in late
  OBVIOUS
<1>1. /\ BlockingTypeOK /\ TurnsReady
      /\ b \in fds' /\ b[1] \in Requests /\ b \notin Watching'
      /\ b \notin fds \/ b \in Watching
  BY DEF LeftBits, SelectInv, TypeOK
<1>2. \A r \in Blocked' : b # Bit(r, want'[r])
  BY <1>1 DEF Watching, Bit
<1>3. b # ServerBit
  BY <1>1, ServerAssumption DEF ServerBit
<1>4. CASE Blocked' = Blocked /\ want' = want /\ fds' \subseteq fds \cup {ServerBit}
  BY <1>1, <1>2, <1>3, <1>4 DEF Watching
<1>5. CASE \E r \in Requests, w \in Waits : Block(r, w) \/ (w = "read" /\ KeepAlive(r))
  <2>1. PICK r \in Requests, w \in Waits : Block(r, w) \/ (w = "read" /\ KeepAlive(r))
    BY <1>5
  <2>2. Blocks(r, w) /\ fds' \subseteq fds \cup {Bit(r, w)}
    BY <2>1 DEF Block, KeepAlive
  <2>3. /\ r \notin Blocked /\ Blocked' = Blocked \cup {r}
        /\ want'[r] = w /\ \A s \in Blocked : want'[s] = want[s]
    BY <1>1, <2>2, BlocksOne
  <2>4. b # Bit(r, w)
    BY <1>2, <2>3
  <2>5. PICK s \in Blocked : b = Bit(s, want[s])
    BY <1>1, <2>2, <2>4 DEF Watching
  <2> QED
    BY <1>2, <2>3, <2>5
<1>6. CASE fdset_update
  <2>1. PICK S \in SUBSET Blocked : S = FoundReady
    BY DEF FoundReady
  <2>2. /\ Blocked' = Blocked \ S
        /\ \A r \in Blocked \ S : want'[r] = want[r]
    BY <1>1, <1>6, <2>1, MadeReady DEF fdset_update
  <2>3. b \notin PutBack(FoundReady)
    BY <1>2, <2>1, <2>2 DEF PutBack
  <2>4. b \in fds /\ b \notin {ClearedBit(r) : r \in FoundReady}
    BY <1>1, <1>6, <2>3 DEF fdset_update
  <2>5. PICK r \in Blocked : b = Bit(r, want[r])
    BY <1>1, <2>4 DEF Watching
  <2>6. r \in FoundReady
    BY <2>4, <2>5 DEF FoundReady
  <2>7. b # ClearedBit(r)
    BY <2>4, <2>6
  <2>8. r \in late
    BY <2>5, <2>7 DEF ClearedBit
  <2>9. b[1] = r
    BY <1>1, <2>5, BlockedTyped, BitsApart
  <2> QED
    BY <1>6, <2>8, <2>9 DEF fdset_update
<1>7. CASE LameDuck \/ WatchServer \/ SelectReturn
  <2>1. Blocked' = Blocked /\ want' = want /\ fds' \subseteq fds \cup {ServerBit}
    BY <1>7 DEF LameDuck, WatchServer, SelectReturn, TimePasses, Blocked, requests
  <2> QED
    BY <1>4, <2>1
<1>8. CASE QuietTurn /\ UNCHANGED fds
  BY <1>1, <1>4, <1>8, QuietTurns
<1>9. CASE (SigTerm \/ Interrupt) /\ UNCHANGED fds
  BY <1>1, <1>4, <1>9, SignalsQuiet DEF requests
<1>10. CASE UNCHANGED vars
  BY <1>4, <1>10 DEF vars, requests, Blocked
<1>11. CASE \E r \in Requests : Close(r)
  BY <1>4, <1>11, CloseKeepsInv
<1> QED
  BY <1>5, <1>6, <1>7, <1>8, <1>9, <1>10, <1>11, BlockingAssumption
  DEF Next, Loop, process_requests, QuietTurn

(* A bit set without a request that waits for it is left only by a request *)
(* that timed out in the round in which its event came: ready_request      *)
(* clears the bit of every other one.                                      *)
THEOREM SelectLeaves == Spec => LeftOnlyByTimeout
BY SelectInvInit, SelectInvStep, LeftStep, PTL DEF Spec, LeftOnlyByTimeout

(* The lists start empty.                                                  *)
LEMMA SelectRefinesInit == Init => EW!Init
BY DEF Init, BlockingInit, EW!Init, Blocked, Elems

(* What a step of the loop is to the requests: one of them is accepted,    *)
(* closed or blocked, some are made ready for a cause, or nothing but what *)
(* happens outside.                                                        *)
LEMMA SelectRefinesStep == SelectInv /\ [Next]_vars => [EW!Next]_EW!vars
<1> SUFFICES ASSUME SelectInv, [Next]_vars, ~UNCHANGED vars PROVE EW!Next
  <2>1. UNCHANGED vars => UNCHANGED EW!vars
    BY DEF vars, requests, EW!vars, Blocked
  <2> QED
    BY <2>1
<1>1. BlockingTypeOK /\ TurnsReady
  BY DEF SelectInv, TypeOK
<1>2. CASE UNCHANGED <<ready, want, happened, late>> /\ Blocked' = Blocked
  <2>1. EW!Happen
    BY <1>2 DEF EW!Happen
  <2> QED
    BY <1>1, <2>1 DEF EW!Next
<1>3. CASE \E r \in Requests, w \in Waits : Blocks(r, w)
  <2>1. PICK r \in Requests, w \in Waits : Blocks(r, w)
    BY <1>3
  <2>2. Blocked' = Blocked \cup {r} /\ r \in ready \ late
    BY <1>1, <2>1, BlocksOne DEF Blocks, TurnsReady
  <2>3. EW!Wait(r, w)
    BY <2>1, <2>2 DEF EW!Wait, Blocks
  <2> QED
    BY <1>1, <2>3 DEF EW!Next
<1>4. CASE QuietTurn
  <2>1. Blocked' = Blocked /\ want' = want /\ happened' = happened /\ late' = late
    BY <1>1, <1>4, QuietTurns
  <2>2. CASE \E r \in Requests : Accepted(r)
    <3>1. PICK r \in Requests : Accepted(r)
      BY <2>2
    <3>2. EW!Open(r)
      BY <2>1, <3>1 DEF EW!Open, Accepted, Opened
    <3> QED
      BY <1>1, <3>2 DEF EW!Next
  <2>3. CASE ready' = ready
    BY <1>2, <2>1, <2>3
  <2> QED
    BY <1>4, <2>2, <2>3
    DEF QuietTurn, get_request, StaysReady, PassBegins, PassEnds, requests
<1>5. CASE SelectReturn
  <2>1. /\ Blocked' = Blocked /\ UNCHANGED <<ready, want>>
        /\ happened' \in {happened \cup S : S \in SUBSET Blocked}
        /\ late' \in {late \cup S : S \in SUBSET Blocked}
    BY <1>5 DEF SelectReturn, TimePasses, Blocked
  <2>2. /\ happened \subseteq happened' /\ happened' \subseteq happened \cup Blocked
        /\ late \subseteq late' /\ late' \subseteq late \cup Blocked
    BY <2>1
  <2>3. EW!Happen
    BY <2>1, <2>2 DEF EW!Happen
  <2> QED
    BY <1>1, <2>3 DEF EW!Next
<1>6. CASE fdset_update
  <2>1. PICK S \in SUBSET Blocked : S = FoundReady
    BY DEF FoundReady
  <2>2. MakeReady(S) /\ Blocked' = Blocked \ S
    BY <1>1, <1>6, <2>1, MadeReady DEF fdset_update
  <2>3. \A r \in S : EW!Occurred(r) \/ r \in late
    <3> SUFFICES ASSUME NEW r \in S, r \notin late PROVE EW!Occurred(r)
      OBVIOUS
    <3>1. Bit(r, want[r]) \in fds
      BY <2>1 DEF FoundReady
    <3>2. W!Occurred(r)
      BY <1>6, <3>1 DEF SelectInv, BitsTrue, fdset_update
    <3> QED
      BY <3>2 DEF W!Occurred, EW!Occurred
  <2>4. EW!Wake(S)
    BY <2>2, <2>3 DEF EW!Wake, MakeReady
  <2> QED
    BY <1>1, <2>4 DEF EW!Next
<1>7. CASE LameDuck \/ WatchServer \/ SigTerm \/ Interrupt
  BY <1>2, <1>7 DEF LameDuck, WatchServer, SigTerm, Interrupt, requests, Blocked
<1>8. CASE \E r \in Requests : Close(r)
  <2>1. PICK r \in Requests : Close(r)
    BY <1>8
  <2>2. Blocked' = Blocked
    BY <2>1 DEF Close, free_request, Blocked
  <2>3. EW!Close(r)
    BY <1>1, <2>1, <2>2 DEF EW!Close, Close, free_request, TurnsReady
  <2> QED
    BY <2>3 DEF EW!Next
<1> QED
  BY <1>3, <1>4, <1>5, <1>6, <1>7, <1>8, BlockingAssumption
  DEF Next, Loop, process_requests, QuietTurn, Block, KeepAlive

(* The select loop implements EventWait: a request is made ready only when *)
(* what it waits for has happened or its time is up, it is closed after    *)
(* its time is up, and only accept, close, block_request and ready_request *)
(* move a request.                                                         *)
THEOREM SelectRefines == Spec => WakesWithCause
BY SelectInvInit, SelectInvStep, SelectRefinesInit, SelectRefinesStep, PTL
DEF Spec, WakesWithCause, EW!Spec
=============================================================================
