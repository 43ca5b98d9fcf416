--------------------------- MODULE PollLoopProofs ---------------------------
(***************************************************************************)
(* That the poll loop never separates a blocked request from its array     *)
(* entry before SIGTERM and loses one at most after it, that the arrays    *)
(* hold nothing else, and that the loop implements EventWait, for every    *)
(* finite set of requests, every kind of wait, every limit on connections  *)
(* and every number of signals.                                            *)
(***************************************************************************)
EXTENDS PollLoop, ListsProofs, FiniteSetTheorems, TLAPS

(* A ready request is not blocked, no request is blocked twice, and only   *)
(* ready requests have a turn.                                             *)
TurnsReady == turn \subseteq ready /\ ready \cap Blocked = {} /\ Distinct(block)

(* No two requests have the same place; from update_blocked to the end of  *)
(* the pass, when requests block, every place is in the array: a lost      *)
(* request then has the entry that was copied for it.                      *)
PlacesApart ==
    /\ \A r, s \in Blocked : r # s => pollfd_id[r] # pollfd_id[s]
    /\ pc \in {"entry", "process"} =>
         \A r \in Blocked : pollfd_id[r] \in DOMAIN pfds

(* Nobody is lost before SIGTERM has been seen, and one at most after it.  *)
LostOne ==
    /\ sigterm_flag # 2 => \A r \in Blocked : WatchedAt(r)
    /\ \A r, s \in Unwatched : r = s

(* After poll the entry of a request that is not lost has a result, and an *)
(* event in it has occurred.                                               *)
ResultsTrue ==
    pc = "update" =>
        \A r \in Blocked \ Unwatched :
            /\ At(pollfd_id[r]).revents # "stale"
            /\ At(pollfd_id[r]).revents = "event" => W!Occurred(r)

(* The array until SIGTERM has been seen: the entries of the blocked       *)
(* requests and those of the server, of which there are none from          *)
(* update_blocked to the end of the pass, and before poll one for each     *)
(* round that was interrupted.                                             *)
EntriesCounted ==
    sigterm_flag # 2 =>
        /\ Len(pfds) = Len(block) + Cardinality(ServerEntries)
        /\ Cardinality(ServerEntries) <= 1 + Interrupts - interrupts
        /\ pc \in {"entry", "process"} => ServerEntries = {}
        /\ pc = "top" /\ sigterm_flag = 0 =>
             Cardinality(ServerEntries) <= Interrupts - interrupts
        /\ pc \in {"poll", "update"} /\ watch_server => server_pfd \in ServerEntries

PollInv == TypeOK /\ TurnsReady /\ PlacesApart /\ LostOne /\ ResultsTrue /\ EntriesCounted

(* A blocked request is one of the requests, and waits for something.      *)
LEMMA BlockedTyped ==
    ASSUME BlockingTypeOK
    PROVE  Blocked \subseteq Requests /\ \A r \in Blocked : want[r] \in Waits
BY DEF BlockingTypeOK, Blocked, Elems

(* What update_blocked does to the lists: the requests of S go from the    *)
(* one to the other.                                                       *)
LEMMA MadeReady ==
    ASSUME BlockingTypeOK, TurnsReady, NEW S \in SUBSET Blocked, MakeReady(S)
    PROVE  /\ block' \in Seq(Requests)
           /\ {ready', turn', happened', late'} \subseteq SUBSET Requests
           /\ want' \in [Requests -> Waits]
           /\ Blocked' = Blocked \ S
           /\ \A r \in Blocked \ S : want'[r] = want[r]
           /\ TurnsReady'
<1>1. block \in Seq(Requests) /\ Blocked \subseteq Requests
  BY BlockedTyped DEF BlockingTypeOK
<1>2. /\ block' \in Seq(Requests) /\ Blocked' = Blocked \ S
      /\ Distinct(block) => Distinct(block')
  <2>1. PICK K : K = {i \in DOMAIN block : block[i] \notin S}
    OBVIOUS
  <2>2. /\ Kept(block, K) \in Seq(Requests) /\ Elems(Kept(block, K)) = Elems(block) \ S
        /\ Distinct(block) => Distinct(Kept(block, K))
    BY <1>1, <2>1, KeptWithout
  <2>3. block' = Kept(block, K)
    BY <2>1 DEF MakeReady
  <2> QED
    BY <2>2, <2>3 DEF Blocked
<1>3. /\ {ready', turn', happened', late'} \subseteq SUBSET Requests
      /\ want' \in [Requests -> Waits]
      /\ \A r \in Blocked \ S : want'[r] = want[r]
  BY <1>1, BlockingAssumption DEF MakeReady, BlockingTypeOK
<1>4. TurnsReady'
  BY <1>2 DEF MakeReady, TurnsReady
<1> QED
  BY <1>2, <1>3, <1>4

(* What a request that blocks does to the lists.                           *)
LEMMA BlocksOne ==
    ASSUME BlockingTypeOK, TurnsReady, NEW r \in Requests, NEW w \in Waits, Blocks(r, w)
    PROVE  /\ BlockingTypeOK' /\ TurnsReady' /\ pc = "process" /\ pc' = pc
           /\ r \notin Blocked /\ Blocked' = Blocked \cup {r}
           /\ Len(block') = Len(block) + 1
           /\ want'[r] = w /\ \A s \in Blocked : want'[s] = want[s]
<1>1. block \in Seq(Requests) /\ Blocked \subseteq Requests
  BY BlockedTyped DEF BlockingTypeOK
<1>2. r \notin Blocked /\ Distinct(block)
  BY DEF Blocks, TurnsReady
<1>3. /\ block' \in Seq(Requests) /\ Blocked' = Blocked \cup {r} /\ Distinct(block')
      /\ Len(block') = Len(block) + 1
  <2>1. Push(block, r) \in Seq(Requests) /\ Len(Push(block, r)) = Len(block) + 1
    BY <1>1, PushPlaces
  <2>2. Elems(Push(block, r)) = Elems(block) \cup {r} /\ Distinct(Push(block, r))
    BY <1>1, <1>2, PushElems DEF Blocked
  <2> QED
    BY <2>1, <2>2 DEF Blocks, Blocked
<1>4. TurnsReady'
  BY <1>3 DEF TurnsReady, Blocks
<1>5. /\ want' \in [Requests -> Waits] /\ want'[r] = w
      /\ \A s \in Blocked : want'[s] = want[s]
  BY <1>1, <1>2 DEF Blocks, BlockingTypeOK
<1>6. BlockingTypeOK'
  BY <1>3, <1>5 DEF BlockingTypeOK, Blocks, flags
<1> QED
  BY <1>2, <1>3, <1>4, <1>5, <1>6 DEF Blocks

(* The steps of process_requests that block nobody: a connection is        *)
(* accepted or closed, a turn is over, the pass begins or ends.            *)
QuietTurn ==
    \/ \E r \in Requests : get_request(r) \/ StaysReady(r) \/ free_request(r)
    \/ PassBegins \/ PassEnds

(* They leave what is blocked alone.                                       *)
LEMMA QuietTurns ==
    ASSUME BlockingTypeOK, TurnsReady, QuietTurn
    PROVE  /\ BlockingTypeOK' /\ TurnsReady'
           /\ pc \in {"entry", "process"} /\ pc' \in {"process", "top"}
           /\ Blocked' = Blocked /\ UNCHANGED <<block, want, happened, flags>>
<1>1. /\ UNCHANGED <<block, want, happened, flags>>
      /\ pc \in {"entry", "process"} /\ pc' \in {"process", "top"}
      /\ {ready', turn', late'} \subseteq SUBSET Requests
      /\ turn' \subseteq ready' /\ ready' \cap Blocked = {}
  <2>1. CASE \E r \in Requests : get_request(r)
    BY <2>1 DEF get_request, Accepted, Opened, BlockingTypeOK, TurnsReady, flags
  <2>2. CASE \E r \in Requests : StaysReady(r) \/ free_request(r)
    BY <2>2 DEF StaysReady, free_request, BlockingTypeOK, TurnsReady, flags
  <2>3. CASE PassBegins
    BY <2>3 DEF PassBegins, Accepted, Opened, BlockingTypeOK, TurnsReady, flags, requests
  <2>4. CASE PassEnds
    BY <2>4 DEF PassEnds, BlockingTypeOK, TurnsReady, flags, requests
  <2> QED
    BY <2>1, <2>2, <2>3, <2>4 DEF QuietTurn
<1>2. Blocked' = Blocked
  BY <1>1 DEF Blocked
<1>3. TurnsReady'
  BY <1>1, <1>2 DEF TurnsReady
<1>4. BlockingTypeOK'
  BY <1>1 DEF BlockingTypeOK, flags
<1> QED
  BY <1>1, <1>2, <1>3, <1>4

(* The signals leave the lists alone.                                      *)
LEMMA SignalsQuiet ==
    ASSUME BlockingTypeOK, TurnsReady, SigTerm \/ Interrupt
    PROVE  /\ BlockingTypeOK' /\ TurnsReady'
           /\ pc \in {"top", "poll"} /\ pc' \in {"top", "poll"}
           /\ Blocked' = Blocked /\ UNCHANGED requests
<1>1. UNCHANGED requests /\ pc \in {"top", "poll"} /\ pc' \in {"top", "poll"}
  BY DEF SigTerm, Interrupt
<1>2. Blocked' = Blocked /\ TurnsReady'
  BY <1>1 DEF Blocked, TurnsReady, requests
<1>3. sigterm_flag' \in 0 .. 2 /\ interrupts' \in 0 .. Interrupts /\ pending_requests' = pending_requests
  BY BlockingAssumption DEF SigTerm, Interrupt, BlockingTypeOK
<1>4. BlockingTypeOK'
  BY <1>1, <1>3 DEF BlockingTypeOK, requests
<1> QED
  BY <1>1, <1>2, <1>4

(* The server's entries can be counted.                                    *)
LEMMA ServerEntriesFinite ==
    ASSUME NEW p \in Seq(Entry)
    PROVE  LET E == {i \in DOMAIN p : p[i].who = Server}
           IN  IsFiniteSet(E) /\ Cardinality(E) \in Nat
<1> DEFINE E == {i \in DOMAIN p : p[i].who = Server}
<1>1. IsFiniteSet(1 .. Len(p))
  BY FS_Interval
<1>2. E \subseteq 1 .. Len(p)
  OBVIOUS
<1>3. IsFiniteSet(E) /\ Cardinality(E) \in Nat
  BY <1>1, <1>2, FS_Subset, FS_CardinalityType
<1> QED
  BY <1>3

(* A new entry is an entry, at the end of the array.                       *)
LEMMA Appended ==
    ASSUME NEW p \in Seq(Entry), NEW who \in Requests \cup {Server, Unknown}, NEW w \in Waits
    PROVE  LET q == Append(p, NewEntry(who, w))
           IN  /\ q \in Seq(Entry) /\ Len(q) = Len(p) + 1
               /\ DOMAIN q = 1 .. Len(p) + 1
               /\ \A i \in DOMAIN p : q[i] = p[i]
               /\ q[Len(p) + 1] = NewEntry(who, w)
<1>1. NewEntry(who, w) \in Entry
  BY DEF NewEntry, Entry
<1> QED
  BY <1>1

(* A request is watched when its place is in the array, with its entry:    *)
(* what lies behind the array is of another descriptor.                    *)
LEMMA WatchedEntry ==
    ASSUME NEW r \in Requests
    PROVE  /\ WatchedAt(r) <=> /\ pollfd_id[r] \in DOMAIN pfds
                               /\ pfds[pollfd_id[r]].who = r
                               /\ pfds[pollfd_id[r]].wait = want[r]
           /\ WatchedAt(r)' <=> /\ pollfd_id'[r] \in DOMAIN pfds'
                                /\ pfds'[pollfd_id'[r]].who = r
                                /\ pfds'[pollfd_id'[r]].wait = want'[r]
BY ServerAssumption DEF WatchedAt, At, Stale, NewEntry

(* The facts that the steps start from.                                    *)
LEMMA PollTyped ==
    ASSUME PollInv
    PROVE  /\ BlockingTypeOK /\ TurnsReady /\ Blocked \subseteq Requests
           /\ pfds \in Seq(Entry) /\ server_pfd \in Nat /\ watch_server \in BOOLEAN
           /\ pollfd_id \in [Requests -> Nat] /\ Len(pfds) \in Nat
           /\ DOMAIN pfds = 1 .. Len(pfds)
BY BlockedTyped DEF PollInv, TypeOK

(* Initially nothing is blocked, and the arrays are empty.                 *)
LEMMA PollInvInit == Init => PollInv
<1> SUFFICES ASSUME Init PROVE PollInv
  OBVIOUS
<1>1. /\ pc = "top" /\ block = <<>> /\ ready = {} /\ turn = {}
      /\ happened = {} /\ late = {} /\ pending_requests = FALSE
      /\ sigterm_flag = 0 /\ interrupts = Interrupts
      /\ pfds = <<>> /\ server_pfd = 1 /\ watch_server = TRUE
  BY DEF Init, BlockingInit
<1>2. want \in [Requests -> Waits]
  BY BlockingAssumption DEF Init, BlockingInit
<1>3. sigterm_flag \in 0 .. 2 /\ interrupts \in 0 .. Interrupts
  BY <1>1, BlockingAssumption
<1>4. block \in Seq(Requests) /\ Blocked = {} /\ Distinct(block)
  BY <1>1 DEF Blocked, Elems, Distinct
<1>5. BlockingTypeOK
  BY <1>1, <1>2, <1>3, <1>4 DEF BlockingTypeOK
<1>6. TypeOK
  <2>1. pollfd_id \in [Requests -> Nat]
    BY DEF Init
  <2> QED
    BY <1>1, <1>5, <2>1 DEF TypeOK
<1>7. ServerEntries = {} /\ Cardinality(ServerEntries) = 0 /\ Len(pfds) = 0 /\ Len(block) = 0
  BY <1>1, FS_EmptySet DEF ServerEntries
<1>8. EntriesCounted
  BY <1>1, <1>7, BlockingAssumption DEF EntriesCounted
<1>9. Unwatched = {}
  BY <1>4 DEF Unwatched
<1> QED
  BY <1>1, <1>4, <1>6, <1>8, <1>9
  DEF PollInv, TurnsReady, PlacesApart, LostOne, ResultsTrue

(* A step that leaves the arrays and what is blocked alone, before poll or *)
(* outside of update_blocked.                                              *)
LEMMA ArraysKept ==
    ASSUME PollInv, BlockingTypeOK', TurnsReady', UNCHANGED <<block, want, arrays>>,
           pc' # "update", pc' \in {"entry", "process"} => pc \in {"entry", "process"},
           sigterm_flag' # 2 => sigterm_flag # 2
    PROVE  /\ TypeOK' /\ PlacesApart' /\ LostOne' /\ ResultsTrue'
           /\ Blocked' = Blocked /\ Unwatched' = Unwatched /\ ServerEntries' = ServerEntries
<1>1. UNCHANGED <<block, want, pfds, server_pfd, watch_server, pollfd_id>>
  BY DEF arrays
<1>2. Blocked' = Blocked /\ ServerEntries' = ServerEntries
  BY <1>1 DEF Blocked, ServerEntries
<1>3. \A r \in Blocked : WatchedAt(r)' <=> WatchedAt(r)
  BY <1>1 DEF WatchedAt, At, Stale
<1>4. Unwatched' = Unwatched
  BY <1>2, <1>3 DEF Unwatched
<1>5. TypeOK'
  BY <1>1 DEF PollInv, TypeOK
<1>6. PlacesApart'
  BY <1>1, <1>2 DEF PollInv, PlacesApart
<1>7. LostOne'
  BY <1>2, <1>3, <1>4 DEF PollInv, LostOne
<1> QED
  BY <1>2, <1>4, <1>5, <1>6, <1>7 DEF ResultsTrue

(* So do the turns that block nobody,                                      *)
LEMMA QuietKeepsInv ==
    ASSUME PollInv, QuietTurn, UNCHANGED arrays
    PROVE  PollInv'
<1>1. /\ BlockingTypeOK' /\ TurnsReady'
      /\ pc \in {"entry", "process"} /\ pc' \in {"process", "top"}
      /\ UNCHANGED <<block, want, flags>>
  BY PollTyped, QuietTurns
<1>2. /\ TypeOK' /\ PlacesApart' /\ LostOne' /\ ResultsTrue'
      /\ ServerEntries' = ServerEntries
  BY <1>1, ArraysKept DEF flags
<1>3. EntriesCounted'
  <2> SUFFICES ASSUME sigterm_flag # 2 PROVE EntriesCounted'
    BY <1>1 DEF EntriesCounted, flags
  <2>1. ServerEntries = {} /\ Len(pfds) = Len(block) + Cardinality(ServerEntries)
    BY <1>1 DEF PollInv, EntriesCounted
  <2>2. Cardinality(ServerEntries) = 0
    BY <2>1, FS_EmptySet
  <2>3. Interrupts \in Nat /\ interrupts \in 0 .. Interrupts
    BY BlockingAssumption, PollTyped DEF BlockingTypeOK
  <2>4. /\ ServerEntries' = {} /\ Cardinality(ServerEntries') = 0
        /\ Len(pfds') = Len(block') /\ Len(block') \in Nat /\ interrupts' = interrupts
    <3>1. block \in Seq(Requests)
      BY PollTyped DEF BlockingTypeOK
    <3> QED
      BY <1>1, <1>2, <2>1, <2>2, <3>1 DEF arrays, flags
  <2>5. /\ Len(pfds') = Len(block') + Cardinality(ServerEntries')
        /\ Cardinality(ServerEntries') <= 1 + Interrupts - interrupts'
        /\ Cardinality(ServerEntries') <= Interrupts - interrupts'
    BY <2>3, <2>4
  <2> QED
    BY <1>1, <2>4, <2>5 DEF EntriesCounted
<1> QED
  BY <1>1, <1>2, <1>3 DEF PollInv

(* and the signals: a round that one of them interrupts leaves the         *)
(* server's entry behind.                                                  *)
LEMMA SignalKeepsInv ==
    ASSUME PollInv, SigTerm \/ Interrupt, UNCHANGED arrays
    PROVE  PollInv'
<1>1. /\ BlockingTypeOK' /\ TurnsReady'
      /\ pc \in {"top", "poll"} /\ pc' \in {"top", "poll"}
      /\ UNCHANGED <<block, want>>
      /\ sigterm_flag' # 2 => sigterm_flag # 2
  BY PollTyped, SignalsQuiet DEF requests, SigTerm, Interrupt
<1>2. /\ TypeOK' /\ PlacesApart' /\ LostOne' /\ ResultsTrue'
      /\ ServerEntries' = ServerEntries
  BY <1>1, ArraysKept
<1>3. EntriesCounted'
  <2> SUFFICES ASSUME sigterm_flag # 2 PROVE EntriesCounted'
    BY <1>1 DEF EntriesCounted
  <2> DEFINE n == Cardinality(ServerEntries)
  <2>1. /\ Len(pfds) = Len(block) + n /\ n <= 1 + Interrupts - interrupts
        /\ pc = "top" /\ sigterm_flag = 0 => n <= Interrupts - interrupts
        /\ pc = "poll" /\ watch_server => server_pfd \in ServerEntries
    BY DEF PollInv, EntriesCounted
  <2>2. Cardinality(ServerEntries') = n /\ n \in Nat
    BY <1>2, PollTyped, ServerEntriesFinite DEF ServerEntries
  <2>3. Interrupts \in Nat /\ interrupts \in 0 .. Interrupts
    BY BlockingAssumption, PollTyped DEF BlockingTypeOK
  <2> HIDE DEF n
  <2>4. CASE SigTerm
    <3>1. sigterm_flag' = 1 /\ interrupts' = interrupts /\ pc' \in {"top", pc}
      BY <2>4 DEF SigTerm
    <3> QED
      BY <1>1, <1>2, <2>1, <2>2, <3>1 DEF EntriesCounted, arrays
  <2>5. CASE Interrupt
    <3>1. interrupts' = interrupts - 1 /\ pc' = "top"
      BY <2>5 DEF Interrupt
    <3>2. n <= 1 + Interrupts - interrupts' /\ n <= Interrupts - interrupts'
      BY <2>1, <2>2, <2>3, <3>1
    <3> QED
      BY <1>1, <1>2, <2>1, <2>2, <3>1, <3>2 DEF EntriesCounted, arrays
  <2> QED
    BY <2>4, <2>5
<1> QED
  BY <1>1, <1>2, <1>3 DEF PollInv

(* A request that blocks gets the entry behind the last one, and its place *)
(* is nobody else's.                                                       *)
LEMMA BlockKeepsInv ==
    ASSUME PollInv, NEW r \in Requests, NEW w \in Waits, Block(r, w)
    PROVE  PollInv'
<1> DEFINE n == Len(pfds)
<1>1. /\ BlockingTypeOK /\ TurnsReady /\ Blocked \subseteq Requests
      /\ pfds \in Seq(Entry) /\ server_pfd \in Nat /\ watch_server \in BOOLEAN
      /\ pollfd_id \in [Requests -> Nat] /\ n \in Nat /\ DOMAIN pfds = 1 .. n
  BY PollTyped
<1>2. /\ BlockingTypeOK' /\ TurnsReady' /\ pc = "process" /\ pc' = pc
      /\ r \notin Blocked /\ Blocked' = Blocked \cup {r}
      /\ Len(block') = Len(block) + 1
      /\ want'[r] = w /\ \A s \in Blocked : want'[s] = want[s]
  BY <1>1, BlocksOne DEF Block
<1>3. /\ pfds' \in Seq(Entry) /\ Len(pfds') = n + 1 /\ DOMAIN pfds' = 1 .. n + 1
      /\ \A i \in DOMAIN pfds : pfds'[i] = pfds[i]
      /\ pfds'[n + 1] = NewEntry(r, w)
  BY <1>1, Appended DEF Block
<1>4. UNCHANGED <<server_pfd, watch_server, flags>>
  BY DEF Block, Blocks
<1>5. pollfd_id' = [pollfd_id EXCEPT ![r] = n + 1]
  BY <1>3 DEF Block
<1> HIDE DEF n
<1>6. pollfd_id'[r] = n + 1 /\ \A s \in Blocked : pollfd_id'[s] = pollfd_id[s]
  BY <1>1, <1>2, <1>5
<1>7. TypeOK'
  BY <1>1, <1>2, <1>3, <1>4, <1>5 DEF TypeOK
<1>8. \A s \in Blocked : pollfd_id[s] \in 1 .. n
  BY <1>1, <1>2 DEF PollInv, PlacesApart
<1>9. PlacesApart'
  <2>1. \A s, t \in Blocked' : s # t => pollfd_id'[s] # pollfd_id'[t]
    <3>1. \A s, t \in Blocked : s # t => pollfd_id'[s] # pollfd_id'[t]
      BY <1>6 DEF PollInv, PlacesApart
    <3>2. \A s \in Blocked : pollfd_id'[s] # pollfd_id'[r]
      BY <1>1, <1>6, <1>8
    <3> QED
      BY <1>2, <3>1, <3>2
  <2>2. \A s \in Blocked' : pollfd_id'[s] \in DOMAIN pfds'
    BY <1>1, <1>2, <1>3, <1>6, <1>8
  <2> QED
    BY <2>1, <2>2 DEF PlacesApart
<1>10. WatchedAt(r)'
  BY <1>1, <1>2, <1>3, <1>6, WatchedEntry DEF NewEntry
<1>11. \A s \in Blocked : WatchedAt(s)' <=> WatchedAt(s)
  <2> SUFFICES ASSUME NEW s \in Blocked PROVE WatchedAt(s)' <=> WatchedAt(s)
    OBVIOUS
  <2>1. /\ pollfd_id'[s] = pollfd_id[s] /\ pollfd_id[s] \in DOMAIN pfds
        /\ pollfd_id[s] \in DOMAIN pfds' /\ want'[s] = want[s]
    BY <1>1, <1>2, <1>3, <1>6, <1>8
  <2> QED
    BY <1>1, <1>3, <2>1, WatchedEntry
<1>12. Unwatched' = Unwatched
  BY <1>2, <1>10, <1>11 DEF Unwatched
<1>13. LostOne'
  BY <1>2, <1>4, <1>10, <1>11, <1>12 DEF PollInv, LostOne, flags
<1>14. ServerEntries' = ServerEntries
  <2>1. pfds'[n + 1].who # Server
    BY <1>3, ServerAssumption DEF NewEntry
  <2>2. \A i \in DOMAIN pfds' : i \in DOMAIN pfds \/ i = n + 1
    BY <1>1, <1>3
  <2>3. DOMAIN pfds \subseteq DOMAIN pfds'
    BY <1>1, <1>3
  <2> QED
    BY <1>3, <2>1, <2>2, <2>3 DEF ServerEntries
<1>15. EntriesCounted'
  <2> SUFFICES ASSUME sigterm_flag # 2 PROVE EntriesCounted'
    BY <1>4 DEF EntriesCounted, flags
  <2>1. /\ n = Len(block) + Cardinality(ServerEntries) /\ ServerEntries = {}
        /\ Cardinality(ServerEntries) <= 1 + Interrupts - interrupts
    BY <1>2 DEF PollInv, EntriesCounted, n
  <2>2. Cardinality(ServerEntries) = 0 /\ Len(block) \in Nat
    BY <1>1, <2>1, FS_EmptySet DEF BlockingTypeOK
  <2>3. Len(pfds') = Len(block') + Cardinality(ServerEntries')
    BY <1>2, <1>3, <1>14, <2>1, <2>2
  <2> QED
    BY <1>2, <1>4, <1>14, <2>1, <2>3 DEF EntriesCounted, flags
<1> QED
  BY <1>2, <1>7, <1>9, <1>13, <1>15 DEF PollInv, ResultsTrue

(* The removal of the server's entry shortens the array: a request whose   *)
(* entry was the last one loses it, and there is one at most.              *)
LEMMA LameDuckKeepsInv == PollInv /\ LameDuck => PollInv'
<1> SUFFICES ASSUME PollInv, LameDuck PROVE PollInv'
  OBVIOUS
<1> DEFINE n == Len(pfds)
<1>1. /\ BlockingTypeOK /\ TurnsReady /\ Blocked \subseteq Requests
      /\ pfds \in Seq(Entry) /\ server_pfd \in Nat /\ watch_server \in BOOLEAN
      /\ pollfd_id \in [Requests -> Nat] /\ n \in Nat /\ DOMAIN pfds = 1 .. n
  BY PollTyped
<1>2. /\ UNCHANGED <<block, ready, turn, want, happened, late, interrupts, server_pfd, pollfd_id>>
      /\ sigterm_flag' = 2 /\ pc' \in {"poll", "exit"} /\ pending_requests' = FALSE
  BY DEF LameDuck, requests
<1>3. Blocked' = Blocked /\ TurnsReady'
  BY <1>1, <1>2 DEF Blocked, TurnsReady
<1>4. BlockingTypeOK'
  <2>1. pending_requests' \in BOOLEAN
    BY <1>2
  <2>2. sigterm_flag' \in 0 .. 2
    BY <1>2
  <2>3. pc' \in {"top", "poll", "update", "entry", "process", "exit"}
    BY <1>2
  <2> QED
    BY <1>1, <1>2, <2>1, <2>2, <2>3 DEF BlockingTypeOK
<1>5. PlacesApart' /\ ResultsTrue' /\ EntriesCounted'
  BY <1>2, <1>3 DEF PollInv, PlacesApart, ResultsTrue, EntriesCounted
<1>6. CASE sigterm_flag = 2 /\ UNCHANGED <<pfds, watch_server>>
  <2>1. \A r \in Blocked : WatchedAt(r)' <=> WatchedAt(r)
    BY <1>2, <1>6 DEF WatchedAt, At, Stale
  <2>2. Unwatched' = Unwatched
    BY <1>3, <2>1 DEF Unwatched
  <2>3. LostOne'
    BY <1>2, <2>2 DEF PollInv, LostOne
  <2> QED
    BY <1>1, <1>2, <1>3, <1>4, <1>5, <1>6, <2>3 DEF PollInv, TypeOK
<1>7. CASE sigterm_flag = 1 /\ RemoveServer /\ watch_server' = FALSE
  <2>1. PICK m \in {n, n - 1} \cap Nat : pfds' = [i \in 1 .. m |-> NewEntry(pfds[i].who, pfds[i].wait)]
    <3>1. server_pfd \in DOMAIN pfds => n - 1 \in Nat
      BY <1>1
    <3> QED
      BY <1>1, <1>7, <3>1 DEF RemoveServer
  <2> HIDE DEF n
  <2>2. m \in Nat /\ 1 .. m \subseteq 1 .. n /\ 1 .. n \subseteq (1 .. m) \cup {n}
    BY <1>1, <2>1
  <2>3. /\ pfds' \in Seq(Entry) /\ DOMAIN pfds' = 1 .. m
        /\ \A i \in 1 .. m : pfds'[i].who = pfds[i].who /\ pfds'[i].wait = pfds[i].wait
    <3>1. ASSUME NEW i \in 1 .. m PROVE NewEntry(pfds[i].who, pfds[i].wait) \in Entry
      <4>1. pfds[i] \in Entry
        BY <1>1, <2>2
      <4> QED
        BY <4>1 DEF NewEntry, Entry
    <3> QED
      BY <2>1, <2>2, <3>1 DEF NewEntry
  <2>4. \A r \in Blocked : /\ pollfd_id[r] \in DOMAIN pfds /\ pfds[pollfd_id[r]].who = r
                           /\ pfds[pollfd_id[r]].wait = want[r]
    BY <1>1, <1>7, WatchedEntry DEF PollInv, LostOne
  <2>5. \A r \in Unwatched' : r \in Blocked /\ pollfd_id[r] = n
    <3> SUFFICES ASSUME NEW r \in Blocked, ~WatchedAt(r)', pollfd_id[r] # n PROVE FALSE
      BY <1>3 DEF Unwatched
    <3>1. pollfd_id[r] \in 1 .. m
      BY <1>1, <2>2, <2>4
    <3>2. WatchedAt(r)'
      BY <1>1, <1>2, <2>2, <2>3, <2>4, <3>1, WatchedEntry
    <3> QED
      BY <3>2
  <2>6. LostOne'
    BY <1>2, <2>4, <2>5 DEF LostOne
  <2>7. TypeOK'
    BY <1>1, <1>2, <1>4, <1>7, <2>3 DEF TypeOK
  <2> QED
    BY <1>3, <1>5, <2>6, <2>7 DEF PollInv
<1> QED
  BY <1>6, <1>7 DEF LameDuck

(* The server's entry goes behind the last one, in a round that may follow *)
(* interrupted ones.                                                       *)
LEMMA WatchServerKeepsInv == PollInv /\ WatchServer => PollInv'
<1> SUFFICES ASSUME PollInv, WatchServer PROVE PollInv'
  OBVIOUS
<1> DEFINE n == Len(pfds)
           c == Cardinality(ServerEntries)
<1>1. /\ BlockingTypeOK /\ TurnsReady /\ Blocked \subseteq Requests
      /\ pfds \in Seq(Entry) /\ server_pfd \in Nat /\ watch_server \in BOOLEAN
      /\ pollfd_id \in [Requests -> Nat] /\ n \in Nat /\ DOMAIN pfds = 1 .. n
  BY PollTyped
<1>2. /\ UNCHANGED <<block, ready, turn, want, happened, late, sigterm_flag, interrupts, pollfd_id>>
      /\ pc = "top" /\ sigterm_flag = 0 /\ pc' = "poll" /\ pending_requests' = FALSE
      /\ watch_server' \in BOOLEAN
  BY DEF WatchServer, requests
<1>3. Blocked' = Blocked /\ TurnsReady'
  BY <1>1, <1>2 DEF Blocked, TurnsReady
<1>4. BlockingTypeOK'
  <2>1. pending_requests' \in BOOLEAN
    BY <1>2
  <2> QED
    BY <1>1, <1>2, <2>1 DEF BlockingTypeOK
<1>5. PlacesApart' /\ ResultsTrue'
  BY <1>2, <1>3 DEF PollInv, PlacesApart, ResultsTrue
<1>6. /\ IsFiniteSet(ServerEntries) /\ c \in Nat /\ n = Len(block) + c
      /\ c <= Interrupts - interrupts
      /\ Interrupts \in Nat /\ interrupts \in 0 .. Interrupts /\ Len(block) \in Nat
  <2>1. IsFiniteSet(ServerEntries) /\ c \in Nat
    BY <1>1, ServerEntriesFinite DEF ServerEntries
  <2>2. n = Len(block) + c /\ c <= Interrupts - interrupts
    BY <1>2 DEF PollInv, EntriesCounted
  <2> QED
    BY <1>1, <2>1, <2>2, BlockingAssumption DEF BlockingTypeOK
<1>7. \A r \in Blocked : WatchedAt(r)
  BY <1>2 DEF PollInv, LostOne
<1> HIDE DEF n, c
<1>8. CASE watch_server' /\ pfds' = Append(pfds, NewEntry(Server, "read")) /\ server_pfd' = Len(pfds')
  <2>1. /\ pfds' \in Seq(Entry) /\ Len(pfds') = n + 1 /\ DOMAIN pfds' = 1 .. n + 1
        /\ \A i \in DOMAIN pfds : pfds'[i] = pfds[i]
        /\ pfds'[n + 1] = NewEntry(Server, "read")
    <3>1. "read" \in Waits /\ pfds \in Seq(Entry)
      BY <1>1, BlockingAssumption
    <3> QED
      BY ONLY <1>8, <3>1, Appended DEF n
  <2>2. \A r \in Blocked : WatchedAt(r)'
    <3> SUFFICES ASSUME NEW r \in Blocked PROVE WatchedAt(r)'
      OBVIOUS
    <3>1. /\ pollfd_id[r] \in DOMAIN pfds /\ pfds[pollfd_id[r]].who = r
          /\ pfds[pollfd_id[r]].wait = want[r]
      BY <1>1, <1>7, WatchedEntry
    <3>2. pollfd_id[r] \in DOMAIN pfds'
      BY <1>1, <2>1, <3>1
    <3> QED
      BY <1>1, <1>2, <2>1, <3>1, <3>2, WatchedEntry
  <2>3. LostOne'
    BY <1>3, <2>2 DEF LostOne, Unwatched
  <2>4. ServerEntries' = ServerEntries \cup {n + 1} /\ n + 1 \notin ServerEntries
    <3>1. pfds'[n + 1].who = Server
      BY <2>1 DEF NewEntry
    <3>2. /\ \A i \in DOMAIN pfds' : i \in DOMAIN pfds \/ i = n + 1
          /\ DOMAIN pfds \subseteq DOMAIN pfds'
          /\ n + 1 \in DOMAIN pfds' /\ n + 1 \notin DOMAIN pfds
      BY <1>1, <2>1
    <3> QED
      BY <2>1, <3>1, <3>2 DEF ServerEntries
  <2>5. Cardinality(ServerEntries') = c + 1
    BY <1>6, <2>4, FS_AddElement DEF c
  <2>6. server_pfd' = n + 1 /\ server_pfd' \in ServerEntries' /\ server_pfd' \in Nat
    BY <1>1, <1>8, <2>1, <2>4
  <2>7. EntriesCounted'
    <3>1. /\ Len(pfds') = Len(block') + Cardinality(ServerEntries')
          /\ Cardinality(ServerEntries') <= 1 + Interrupts - interrupts'
      BY <1>2, <1>6, <2>1, <2>5
    <3> QED
      BY <1>2, <2>6, <3>1 DEF EntriesCounted
  <2>8. TypeOK'
    BY <1>1, <1>2, <1>4, <2>1, <2>6 DEF TypeOK
  <2> QED
    BY <1>3, <1>5, <2>3, <2>7, <2>8 DEF PollInv
<1>9. CASE ~watch_server' /\ UNCHANGED <<pfds, server_pfd>>
  <2>1. \A r \in Blocked : WatchedAt(r)'
    BY <1>2, <1>7, <1>9 DEF WatchedAt, At, Stale
  <2>2. LostOne'
    BY <1>3, <2>1 DEF LostOne, Unwatched
  <2>3. ServerEntries' = ServerEntries /\ Cardinality(ServerEntries') = c
    BY <1>9 DEF ServerEntries, c
  <2>4. /\ Len(pfds') = Len(block') + Cardinality(ServerEntries')
        /\ Cardinality(ServerEntries') <= 1 + Interrupts - interrupts'
    BY <1>2, <1>6, <1>9, <2>3 DEF n
  <2>5. EntriesCounted'
    BY <1>2, <1>9, <2>4 DEF EntriesCounted
  <2>6. TypeOK'
    BY <1>1, <1>2, <1>4, <1>9 DEF TypeOK
  <2> QED
    BY <1>3, <1>5, <2>2, <2>5, <2>6 DEF PollInv
<1> QED
  BY <1>8, <1>9 DEF WatchServer

(* poll writes its results, and nothing else, into the array: an event for *)
(* a watched request is what that request waits for.                       *)
LEMMA PollReturnKeepsInv == PollInv /\ PollReturn => PollInv'
<1> SUFFICES ASSUME PollInv, PollReturn PROVE PollInv'
  OBVIOUS
<1>1. /\ BlockingTypeOK /\ TurnsReady /\ Blocked \subseteq Requests
      /\ pfds \in Seq(Entry) /\ server_pfd \in Nat /\ watch_server \in BOOLEAN
      /\ pollfd_id \in [Requests -> Nat]
  BY PollTyped
<1>2. /\ UNCHANGED <<block, ready, turn, want, sigterm_flag, interrupts,
                     server_pfd, watch_server, pollfd_id>>
      /\ pc = "poll" /\ pc' = "update"
      /\ happened' \in {happened \cup S : S \in SUBSET Blocked}
      /\ late' \in {late \cup S : S \in SUBSET Blocked}
  BY DEF PollReturn, TimePasses
<1>3. Blocked' = Blocked /\ TurnsReady'
  BY <1>1, <1>2 DEF Blocked, TurnsReady
<1>4. BlockingTypeOK'
  <2>1. happened \subseteq Requests /\ late \subseteq Requests
    BY <1>1 DEF BlockingTypeOK
  <2>2. happened' \subseteq Requests /\ late' \subseteq Requests
    BY <1>1, <1>2, <2>1
  <2>3. pending_requests' \in BOOLEAN
    BY DEF PollReturn
  <2> QED
    BY <1>1, <1>2, <2>2, <2>3 DEF BlockingTypeOK
<1>5. PICK rev \in [DOMAIN pfds -> {"none", "event"}] :
         /\ \A i \in DOMAIN pfds : rev[i] \in Reported(pfds[i])
         /\ pfds' = [i \in DOMAIN pfds |-> [pfds[i] EXCEPT !.revents = rev[i]]]
  BY DEF PollReturn
<1>6. /\ pfds' \in Seq(Entry) /\ DOMAIN pfds' = DOMAIN pfds /\ Len(pfds') = Len(pfds)
      /\ \A i \in DOMAIN pfds : /\ pfds'[i].who = pfds[i].who /\ pfds'[i].wait = pfds[i].wait
                                /\ pfds'[i].revents = rev[i]
  <2>1. ASSUME NEW i \in DOMAIN pfds
        PROVE  /\ pfds'[i] \in Entry /\ pfds'[i].who = pfds[i].who
               /\ pfds'[i].wait = pfds[i].wait /\ pfds'[i].revents = rev[i]
    <3>1. pfds[i] \in Entry /\ rev[i] \in {"none", "event"}
      BY <1>1, <1>5
    <3>2. pfds'[i] = [pfds[i] EXCEPT !.revents = rev[i]]
      BY <1>5
    <3> QED
      BY <3>1, <3>2 DEF Entry
  <2>2. DOMAIN pfds' = DOMAIN pfds
    BY <1>5
  <2>3. pfds' \in Seq(Entry) /\ Len(pfds') = Len(pfds)
    <3>1. pfds' = [i \in 1 .. Len(pfds) |-> pfds'[i]]
      BY <1>1, <1>5
    <3>2. pfds' \in [1 .. Len(pfds) -> Entry] /\ Len(pfds) \in Nat
      BY <1>1, <2>1, <3>1
    <3> QED
      BY <3>2
  <2> QED
    BY <2>1, <2>2, <2>3
<1>7. \A r \in Blocked : WatchedAt(r)' <=> WatchedAt(r)
  BY <1>1, <1>2, <1>6, WatchedEntry
<1>8. Unwatched' = Unwatched /\ ServerEntries' = ServerEntries
  BY <1>3, <1>6, <1>7 DEF Unwatched, ServerEntries
<1>9. LostOne' /\ PlacesApart'
  BY <1>2, <1>3, <1>7, <1>8 DEF PollInv, LostOne, PlacesApart
<1>10. ResultsTrue'
  <2> SUFFICES ASSUME NEW r \in Blocked, WatchedAt(r)
               PROVE  /\ At(pollfd_id[r])'.revents # "stale"
                      /\ At(pollfd_id[r])'.revents = "event" => W!Occurred(r)'
    BY <1>3, <1>7 DEF ResultsTrue, Unwatched
  <2> DEFINE i == pollfd_id[r]
  <2>1. i \in DOMAIN pfds /\ pfds[i].who = r /\ pfds[i].wait = want[r]
    BY <1>1, WatchedEntry
  <2>2. rev[i] = IF r \in happened' \/ want[r] \in {"file", "post"} THEN "event" ELSE "none"
    <3>1. Reported(pfds[i]) =
            {IF r \in happened' \/ want[r] \in {"file", "post"} THEN "event" ELSE "none"}
      BY <1>1, <2>1, ServerAssumption DEF Reported
    <3> QED
      BY <1>5, <2>1, <3>1
  <2>3. At(pollfd_id[r])'.revents = rev[i]
    BY <1>2, <1>6, <2>1 DEF At
  <2> QED
    BY <1>2, <2>2, <2>3 DEF W!Occurred
<1>11. EntriesCounted'
  BY <1>2, <1>6, <1>8 DEF PollInv, EntriesCounted
<1> QED
  BY <1>1, <1>2, <1>3, <1>4, <1>6, <1>9, <1>10, <1>11 DEF PollInv, TypeOK

(* The exit on an error of the server socket leaves everything as it was.  *)
LEMMA ServerFailsKeepsInv == PollInv /\ ServerFails => PollInv'
<1> SUFFICES ASSUME PollInv, ServerFails PROVE PollInv'
  OBVIOUS
<1>1. /\ pc = "poll" /\ pc' = "exit"
      /\ UNCHANGED <<block, ready, turn, want, happened, late, pending_requests,
                     sigterm_flag, interrupts, arrays>>
  BY DEF ServerFails, requests, flags
<1>2. BlockingTypeOK' /\ Blocked' = Blocked
  BY <1>1, PollTyped DEF BlockingTypeOK, Blocked
<1>3. TurnsReady'
  BY <1>1, <1>2 DEF PollInv, TurnsReady
<1>4. /\ TypeOK' /\ PlacesApart' /\ LostOne' /\ ResultsTrue'
      /\ ServerEntries' = ServerEntries
  BY <1>1, <1>2, <1>3, ArraysKept
<1>5. EntriesCounted'
  BY <1>1, <1>4 DEF PollInv, EntriesCounted, arrays
<1> QED
  BY <1>3, <1>4, <1>5 DEF PollInv

(* update_blocked gives every request that stays blocked the place it has  *)
(* on the block list, and copies to it what stood at its old one.          *)
LEMMA update_blockedKeepsInv == PollInv /\ update_blocked => PollInv'
<1> SUFFICES ASSUME PollInv, update_blocked PROVE PollInv'
  OBVIOUS
<1>1. /\ BlockingTypeOK /\ TurnsReady /\ Blocked \subseteq Requests
      /\ pfds \in Seq(Entry) /\ server_pfd \in Nat /\ watch_server \in BOOLEAN
      /\ pollfd_id \in [Requests -> Nat]
  BY PollTyped
<1>2. PICK S \in SUBSET Blocked : MakeReady(S)
  BY DEF update_blocked
<1>3. /\ block' \in Seq(Requests)
      /\ {ready', turn', happened', late'} \subseteq SUBSET Requests
      /\ want' \in [Requests -> Waits]
      /\ Blocked' = Blocked \ S
      /\ \A r \in Blocked \ S : want'[r] = want[r]
      /\ TurnsReady'
  BY <1>1, <1>2, MadeReady
<1>4. UNCHANGED <<flags, server_pfd, watch_server>> /\ pc' = "entry"
  BY DEF update_blocked
<1>5. BlockingTypeOK'
  BY <1>1, <1>3, <1>4 DEF BlockingTypeOK, flags
<1>6. \A i \in Nat : At(i) \in Entry
  <2>1. Stale \in Entry
    BY BlockingAssumption DEF Stale, NewEntry, Entry
  <2>2. \A i \in DOMAIN pfds : pfds[i] \in Entry
    BY <1>1
  <2> QED
    BY <2>1, <2>2 DEF At
<1>7. /\ DOMAIN pfds' = DOMAIN block' /\ DOMAIN block' = 1 .. Len(block') /\ Len(block') \in Nat
      /\ \A i \in DOMAIN block' :
            pfds'[i] = NewEntry(At(pollfd_id[block'[i]]).who, At(pollfd_id[block'[i]]).wait)
  BY <1>3 DEF update_blocked
<1>8. pfds' \in Seq(Entry) /\ Len(pfds') = Len(block')
  <2>1. ASSUME NEW i \in 1 .. Len(block') PROVE pfds'[i] \in Entry
    <3>1. block'[i] \in Requests
      BY <1>3
    <3>2. At(pollfd_id[block'[i]]) \in Entry
      BY <1>1, <1>6, <3>1
    <3> QED
      BY <1>7, <3>2 DEF NewEntry, Entry
  <2>2. pfds' = [i \in 1 .. Len(block') |-> pfds'[i]]
    BY <1>7 DEF update_blocked
  <2>3. pfds' \in [1 .. Len(block') -> Entry]
    BY <2>1, <2>2
  <2> QED
    BY <1>7, <2>3
<1>9. ASSUME NEW r \in Blocked'
      PROVE  /\ r \in Blocked \ S
             /\ pollfd_id'[r] \in DOMAIN block' /\ block'[pollfd_id'[r]] = r
  <2>1. r \in Elems(block') /\ r \in Blocked \ S /\ r \in Requests
    BY <1>1, <1>3 DEF Blocked
  <2>2. IndexOf(block', r) \in 1 .. Len(block') /\ block'[IndexOf(block', r)] = r
    BY <1>3, <2>1, IndexOfPlace
  <2>3. pollfd_id'[r] = IndexOf(block', r)
    BY <2>1 DEF update_blocked
  <2> QED
    BY <1>7, <2>1, <2>2, <2>3
<1>10. pollfd_id' \in [Requests -> Nat]
  <2>1. ASSUME NEW r \in Requests
        PROVE  (IF r \in Elems(block') THEN IndexOf(block', r) ELSE 0) \in Nat
    BY <1>3, IndexOfPlace
  <2> QED
    BY <2>1 DEF update_blocked
<1>11. PlacesApart'
  BY <1>7, <1>9 DEF PlacesApart
<1>12. \A r \in Blocked' : WatchedAt(r)' <=> WatchedAt(r)
  <2> SUFFICES ASSUME NEW r \in Blocked' PROVE WatchedAt(r)' <=> WatchedAt(r)
    OBVIOUS
  <2>1. /\ r \in Requests /\ want'[r] = want[r] /\ pollfd_id'[r] \in DOMAIN pfds'
        /\ pfds'[pollfd_id'[r]] = NewEntry(At(pollfd_id[r]).who, At(pollfd_id[r]).wait)
    BY <1>1, <1>3, <1>7, <1>9
  <2>2. /\ pfds'[pollfd_id'[r]].who = At(pollfd_id[r]).who
        /\ pfds'[pollfd_id'[r]].wait = At(pollfd_id[r]).wait
    BY <2>1 DEF NewEntry
  <2>3. WatchedAt(r)' <=> At(pollfd_id[r]).who = r /\ At(pollfd_id[r]).wait = want[r]
    BY <2>1, <2>2, WatchedEntry
  <2> QED
    BY <2>3 DEF WatchedAt
<1>13. LostOne'
  <2>1. Unwatched' \subseteq Unwatched
    BY <1>3, <1>12 DEF Unwatched
  <2> QED
    BY <1>3, <1>4, <1>12, <2>1 DEF PollInv, LostOne, flags
<1>14. EntriesCounted'
  <2> SUFFICES ASSUME sigterm_flag # 2 PROVE EntriesCounted'
    BY <1>4 DEF EntriesCounted, flags
  <2>1. ASSUME NEW i \in DOMAIN pfds' PROVE pfds'[i].who # Server
    <3>1. block'[i] \in Blocked
      BY <1>3, <1>7 DEF Blocked, Elems
    <3>2. At(pollfd_id[block'[i]]).who = block'[i]
      BY <3>1 DEF PollInv, LostOne, WatchedAt
    <3>3. pfds'[i].who = block'[i]
      BY <1>7, <3>2 DEF NewEntry
    <3> QED
      BY <1>1, <3>1, <3>3, ServerAssumption
  <2>2. ServerEntries' = {} /\ Cardinality(ServerEntries') = 0
    BY <2>1, FS_EmptySet DEF ServerEntries
  <2>3. Interrupts \in Nat /\ interrupts' \in 0 .. Interrupts
    BY <1>5, BlockingAssumption DEF BlockingTypeOK
  <2>4. /\ Len(pfds') = Len(block') + Cardinality(ServerEntries')
        /\ Cardinality(ServerEntries') <= 1 + Interrupts - interrupts'
    BY <1>7, <1>8, <2>2, <2>3
  <2> QED
    BY <1>4, <2>2, <2>4 DEF EntriesCounted
<1> QED
  BY <1>1, <1>3, <1>4, <1>5, <1>8, <1>10, <1>11, <1>13, <1>14
  DEF PollInv, TypeOK, ResultsTrue

(* Every step of the loop, and every signal, keeps the invariant.          *)
LEMMA PollInvStep == PollInv /\ [Next]_vars => PollInv'
<1> SUFFICES ASSUME PollInv, [Next]_vars PROVE PollInv'
  OBVIOUS
<1>1. CASE LameDuck
  BY <1>1, LameDuckKeepsInv
<1>2. CASE WatchServer
  BY <1>2, WatchServerKeepsInv
<1>3. CASE PollReturn
  BY <1>3, PollReturnKeepsInv
<1>4. CASE update_blocked
  BY <1>4, update_blockedKeepsInv
<1>5. CASE \E r \in Requests, w \in Waits : Block(r, w)
  BY <1>5, BlockKeepsInv
<1>6. CASE QuietTurn /\ UNCHANGED arrays
  BY <1>6, QuietKeepsInv
<1>7. CASE (SigTerm \/ Interrupt) /\ UNCHANGED arrays
  BY <1>7, SignalKeepsInv
<1>8. CASE ServerFails
  BY <1>8, ServerFailsKeepsInv
<1>9. CASE UNCHANGED vars
  <2>1. UNCHANGED <<pc, block, ready, turn, want, happened, late, pending_requests,
                    sigterm_flag, interrupts, pfds, server_pfd, watch_server, pollfd_id>>
    BY <1>9 DEF vars, requests, flags, arrays
  <2>2. Blocked' = Blocked /\ ServerEntries' = ServerEntries /\ TypeOK' /\ TurnsReady'
    BY <2>1 DEF PollInv, Blocked, ServerEntries, TypeOK, BlockingTypeOK, TurnsReady
  <2>3. \A r \in Blocked : WatchedAt(r)' <=> WatchedAt(r)
    BY <2>1 DEF WatchedAt, At, Stale
  <2>4. Unwatched' = Unwatched
    BY <2>2, <2>3 DEF Unwatched
  <2>5. PlacesApart' /\ LostOne' /\ EntriesCounted'
    BY <2>1, <2>2, <2>3, <2>4 DEF PollInv, PlacesApart, LostOne, EntriesCounted
  <2>6. ResultsTrue'
    BY <2>1, <2>2, <2>4 DEF PollInv, ResultsTrue, At, W!Occurred
  <2> QED
    BY <2>2, <2>5, <2>6 DEF PollInv
<1> QED
  BY <1>1, <1>2, <1>3, <1>4, <1>5, <1>6, <1>7, <1>8, <1>9
  DEF Next, Loop, process_requests, QuietTurn

(* Until SIGTERM has been seen every blocked request has its descriptor    *)
(* and what it waits for at its pollfd_id, through block_request, the      *)
(* copies of update_blocked and interrupted rounds; the removal of the     *)
(* server's entry loses one request at most; no two have the same place.   *)
(* And the arrays that poll is given hold nothing else but the server's    *)
(* entries, the last of which is where the loop looks.                     *)
THEOREM PollWatches == Spec => [](Watched /\ NothingElse)
<1>1. PollInv => Watched /\ NothingElse
  <2> SUFFICES ASSUME PollInv PROVE Watched /\ NothingElse
    OBVIOUS
  <2>1. Cardinality(Unwatched) <= 1
    <3>1. CASE Unwatched = {}
      BY <3>1, FS_EmptySet
    <3>2. CASE Unwatched # {}
      <4>1. PICK r \in Unwatched : Unwatched = {r}
        BY <3>2 DEF PollInv, LostOne
      <4>2. Cardinality(Unwatched) = 1
        BY <4>1, FS_Singleton
      <4> QED
        BY <4>2
    <3> QED
      BY <3>1, <3>2
  <2>2. sigterm_flag # 2 => Unwatched = {}
    BY DEF PollInv, LostOne, Unwatched
  <2>3. Watched
    BY <2>1, <2>2 DEF PollInv, PlacesApart, Watched
  <2>4. NothingElse
    BY DEF PollInv, EntriesCounted, NothingElse
  <2> QED
    BY <2>3, <2>4
<1> QED
  BY <1>1, PollInvInit, PollInvStep, PTL DEF Spec

(* The lists start empty, and nobody is lost.                              *)
LEMMA PollRefinesInit == Init => EW!Init
BY DEF Init, BlockingInit, EW!Init, Unwatched, Blocked, Elems

(* What a step of the loop is to the requests: one of them is accepted,    *)
(* closed or blocked, some are made ready for a cause, or nothing but what *)
(* happens outside.                                                        *)
LEMMA PollRefinesStep == PollInv /\ PollInv' /\ [Next]_vars => [EW!Next]_EW!vars
<1> SUFFICES ASSUME PollInv, PollInv', [Next]_vars, ~UNCHANGED vars PROVE EW!Next
  <2>1. ASSUME UNCHANGED vars PROVE UNCHANGED EW!vars
    <3>1. UNCHANGED <<pc, block, ready, want, happened, late, pfds, pollfd_id>>
      BY <2>1 DEF vars, requests, arrays
    <3>2. Blocked' = Blocked /\ Unwatched' = Unwatched
      BY <3>1 DEF Blocked, Unwatched, WatchedAt, At, Stale
    <3> QED
      BY <3>1, <3>2 DEF EW!vars
  <2> QED
    BY <2>1
<1>1. BlockingTypeOK /\ TurnsReady /\ Blocked \subseteq Requests
  BY PollTyped
<1>2. (IF pc = "exit" THEN Requests ELSE Unwatched)' \subseteq Requests
  <2>1. block' \in Seq(Requests)
    BY DEF PollInv, TypeOK, BlockingTypeOK
  <2> QED
    BY <2>1 DEF Unwatched, Blocked, Elems
<1>3. CASE UNCHANGED <<ready, want, happened, late>> /\ Blocked' = Blocked
  <2>1. EW!Happen
    BY <1>3 DEF EW!Happen
  <2> QED
    BY <1>2, <2>1 DEF EW!Next
<1>4. CASE \E r \in Requests, w \in Waits : Blocks(r, w)
  <2>1. PICK r \in Requests, w \in Waits : Blocks(r, w)
    BY <1>4
  <2>2. Blocked' = Blocked \cup {r} /\ r \in ready \ late
    BY <1>1, <2>1, BlocksOne DEF Blocks, TurnsReady
  <2>3. EW!Wait(r, w)
    BY <2>1, <2>2 DEF EW!Wait, Blocks
  <2> QED
    BY <1>2, <2>3 DEF EW!Next
<1>5. CASE QuietTurn
  <2>1. Blocked' = Blocked /\ want' = want /\ happened' = happened
    BY <1>1, <1>5, QuietTurns
  <2>2. CASE \E r \in Requests : Accepted(r)
    <3>1. PICK r \in Requests : Accepted(r)
      BY <2>2
    <3>2. EW!Open(r)
      BY <2>1, <3>1 DEF EW!Open, Accepted, Opened
    <3> QED
      BY <1>2, <3>2 DEF EW!Next
  <2>3. CASE \E r \in Requests : free_request(r)
    <3>1. PICK r \in Requests : free_request(r)
      BY <2>3
    <3>2. EW!Close(r)
      BY <1>1, <2>1, <3>1 DEF EW!Close, free_request, TurnsReady
    <3> QED
      BY <1>2, <3>2 DEF EW!Next
  <2>4. CASE ready' = ready /\ late' = late
    BY <1>3, <2>1, <2>4
  <2> QED
    BY <1>5, <2>2, <2>3, <2>4
    DEF QuietTurn, get_request, StaysReady, PassBegins, PassEnds, requests
<1>6. CASE PollReturn
  <2>1. /\ Blocked' = Blocked /\ UNCHANGED <<ready, want>>
        /\ happened' \in {happened \cup S : S \in SUBSET Blocked}
        /\ late' \in {late \cup S : S \in SUBSET Blocked}
    BY <1>6 DEF PollReturn, TimePasses, Blocked
  <2>2. /\ happened \subseteq happened' /\ happened' \subseteq happened \cup Blocked
        /\ late \subseteq late' /\ late' \subseteq late \cup Blocked
    BY <2>1
  <2>3. EW!Happen
    BY <2>1, <2>2 DEF EW!Happen
  <2> QED
    BY <1>2, <2>3 DEF EW!Next
<1>7. CASE update_blocked
  <2>1. PICK S \in SUBSET Blocked : FoundReady(S) /\ MakeReady(S)
    BY <1>7 DEF update_blocked
  <2>2. Blocked' = Blocked \ S
    BY <1>1, <2>1, MadeReady
  <2>3. ASSUME NEW r \in S
        PROVE  EW!Occurred(r) \/ r \in late \cup (IF pc = "exit" THEN Requests ELSE Unwatched)
    <3>1. CASE r \in Unwatched
      BY <1>7, <3>1 DEF update_blocked
    <3>2. CASE r \notin Unwatched
      <4>1. /\ At(pollfd_id[r]).revents # "stale"
            /\ At(pollfd_id[r]).revents = "event" => W!Occurred(r)
        BY <1>7, <3>2 DEF PollInv, ResultsTrue, update_blocked
      <4>2. r \in late \/ At(pollfd_id[r]).revents = "event"
        BY <2>1, <4>1 DEF FoundReady
      <4> QED
        BY <4>1, <4>2 DEF W!Occurred, EW!Occurred
    <3> QED
      BY <3>1, <3>2
  <2>4. EW!Wake(S)
    BY <2>1, <2>2, <2>3 DEF EW!Wake, MakeReady
  <2> QED
    BY <1>2, <2>4 DEF EW!Next
<1>8. CASE LameDuck \/ WatchServer \/ ServerFails \/ SigTerm \/ Interrupt
  BY <1>3, <1>8 DEF LameDuck, WatchServer, ServerFails, SigTerm, Interrupt, requests, Blocked
<1> QED
  BY <1>4, <1>5, <1>6, <1>7, <1>8 DEF Next, Loop, process_requests, QuietTurn, Block

(* The poll loop implements EventWait: a request that is not lost by the   *)
(* removal of the server's entry is made ready only when what it waits for *)
(* has happened or its time is up; no result of an earlier poll is read    *)
(* for it.  A server that exits leaves all requests.                       *)
THEOREM PollRefines == Spec => WakesWithCause
BY PollInvInit, PollInvStep, PollRefinesInit, PollRefinesStep, PTL
DEF Spec, WakesWithCause, EW!Spec
=============================================================================
