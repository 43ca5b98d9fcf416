---------------------------- MODULE CgiEnvProofs ----------------------------
(***************************************************************************)
(* Proofs about CgiEnv, for any number of requests, any limit, any CGIEnv  *)
(* lines and any number of variables: free_request frees the strings of    *)
(* its own request only, and all of them unless SIGHUP moved the boundary; *)
(* and a program is started with strings that are in use, the common ones  *)
(* first.                                                                  *)
(***************************************************************************)
EXTENDS CgiEnv, SequenceTheorems, TLAPS

(* What is true of a request q in structure r while the common array has c *)
(* strings.  Behind the common strings, and before cgi_env_index, there    *)
(* are strings of the request only; and while the array has not grown, all *)
(* of them are there, in order.                                            *)
Boundary(r, q, c) == \A i \in c .. q.index - 1 : q.env[i] \in {<<r, n>> : n \in 1 .. q.made}

Exact(r, q, c) ==
    ~q.grown /\ (q.state \in {"options", "cgi"} \/ q.made > 0) =>
        /\ q.index = c + q.made
        /\ \A n \in 1 .. q.made : q.env[c + n - 1] = <<r, n>>

Good(r, q, c) ==
    /\ q \in Request
    /\ q.made <= q.index
    /\ q.state = "read" => q.index = 0 /\ q.made = 0
    /\ Boundary(r, q, c)
    /\ Exact(r, q, c)

(* The inductive invariant.                                                *)
EnvInv ==
    /\ TypeOK /\ OwnFreed /\ NoStringLost
    /\ \A r \in Requests : Good(r, req[r], Len(common))

(* The strings of a request are strings.                                   *)
LEMMA OwnIsString ==
    ASSUME NEW r \in Requests, NEW n \in 1 .. EnvMax
    PROVE  <<r, n>> \in String
  BY DEF String

(* What add_cgi_env does to a request: the strings it adds follow those    *)
(* that are there, and nothing else changes.                               *)
LEMMA AddsAtIndex ==
    ASSUME NEW r \in Requests, NEW q \in Request, q.made <= q.index, NEW n \in Nat
    PROVE  LET p == add_cgi_env(r, q, n)
           IN  /\ p \in Request /\ p.made <= p.index
               /\ p.state = q.state /\ p.grown = q.grown
               /\ p.index - q.index = p.made - q.made
               /\ p.made >= q.made
               /\ \A i \in 0 .. EnvMax :
                     p.env[i] = IF i \in q.index .. p.index - 1
                                THEN <<r, q.made + 1 + i - q.index>> ELSE q.env[i]
  <1> DEFINE k == IF n <= EnvMax - q.index THEN n ELSE EnvMax - q.index
             e == [i \in 0 .. EnvMax |-> IF i \in q.index .. q.index + k - 1
                                         THEN <<r, q.made + 1 + i - q.index>> ELSE q.env[i]]
             p == add_cgi_env(r, q, n)
  <1>0. q.made <= q.index
    OBVIOUS
  <1>1. /\ q.index \in 0 .. EnvMax /\ q.made \in 0 .. EnvMax /\ EnvMax \in Nat
        /\ q.env \in [0 .. EnvMax -> String \cup {NULL, Stale}]
    BY CgiEnvAssumption DEF Request
  <1>2. k \in Nat /\ q.index + k <= EnvMax
    BY <1>1
  <1>3. p = [q EXCEPT !.index = q.index + k, !.made = q.made + k, !.env = e]
    BY <1>1 DEF add_cgi_env, Room
  <1>4. e \in [0 .. EnvMax -> String \cup {NULL, Stale}]
    <2>1. ASSUME NEW i \in 0 .. EnvMax PROVE e[i] \in String \cup {NULL, Stale}
      <3>1. CASE i \in q.index .. q.index + k - 1
        <4> HIDE DEF k
        <4>1. i >= q.index /\ i <= q.index + k - 1
          BY <1>1, <1>2, <3>1
        <4>2. q.made + 1 + i - q.index \in 1 .. EnvMax
          <5> DEFINE x == q.index
                     m == q.made
          <5>1. /\ x \in Nat /\ m \in Nat /\ k \in Nat /\ i \in Nat /\ EnvMax \in Nat
                /\ m <= x /\ x + k <= EnvMax /\ i >= x /\ i <= x + k - 1
            BY <1>0, <1>1, <1>2, <4>1
          <5> HIDE DEF x, m
          <5>2. m + 1 + i - x \in 1 .. EnvMax
            BY ONLY <5>1
          <5> QED
            BY <5>2 DEF x, m
        <4>3. e[i] = <<r, q.made + 1 + i - q.index>>
          BY <3>1
        <4> QED
          BY <4>2, <4>3, OwnIsString
      <3>2. CASE i \notin q.index .. q.index + k - 1
        <4> HIDE DEF k
        <4> QED
          BY <1>1, <3>2
      <3> QED
        BY <3>1, <3>2
    <2> HIDE DEF k
    <2> QED
      BY <2>1
  <1> HIDE DEF k, e, p
  <1>5. /\ p.index = q.index + k /\ p.made = q.made + k /\ p.env = e
        /\ p.state = q.state /\ p.grown = q.grown
    BY <1>3 DEF Request
  <1>6. p \in Request
    <2>1. q.index + k \in 0 .. EnvMax /\ q.made + k \in 0 .. EnvMax
      BY <1>1, <1>2
    <2> QED
      BY <1>3, <1>4, <2>1 DEF Request
  <1>7. \A i \in 0 .. EnvMax :
           p.env[i] = IF i \in q.index .. p.index - 1
                      THEN <<r, q.made + 1 + i - q.index>> ELSE q.env[i]
    BY <1>1, <1>2, <1>5 DEF e
  <1> QED
    BY <1>0, <1>1, <1>2, <1>5, <1>6, <1>7 DEF p

(* So add_cgi_env keeps what is true of a request.                         *)
LEMMA AddKeepsGood ==
    ASSUME NEW r \in Requests, NEW q, NEW c \in Nat, NEW n \in Nat,
           Good(r, q, c), q.state = "options"
    PROVE  Good(r, add_cgi_env(r, q, n), c) /\ add_cgi_env(r, q, n).state = "options"
  <1> DEFINE p == add_cgi_env(r, q, n)
  <1>1. /\ q \in Request /\ q.made <= q.index
        /\ q.index \in 0 .. EnvMax /\ q.made \in 0 .. EnvMax /\ EnvMax \in Nat
    BY CgiEnvAssumption DEF Good, Request
  <1>2. /\ p \in Request /\ p.made <= p.index
        /\ p.state = q.state /\ p.grown = q.grown
        /\ p.index - q.index = p.made - q.made
        /\ p.made >= q.made
        /\ \A i \in 0 .. EnvMax :
              p.env[i] = IF i \in q.index .. p.index - 1
                         THEN <<r, q.made + 1 + i - q.index>> ELSE q.env[i]
    BY <1>1, AddsAtIndex
  <1> HIDE DEF p
  <1>3. p.index \in 0 .. EnvMax /\ p.made \in 0 .. EnvMax
    BY <1>2 DEF Request
  <1>4. Boundary(r, p, c)
    <2> SUFFICES ASSUME NEW i \in c .. p.index - 1
                 PROVE  \E m \in 1 .. p.made : p.env[i] = <<r, m>>
      BY DEF Boundary
    <2>1. i \in 0 .. EnvMax
      BY <1>1, <1>3
    <2>2. CASE i \in q.index .. p.index - 1
      <3>1. q.made + 1 + i - q.index \in 1 .. p.made
        BY <1>1, <1>2, <1>3, <2>2
      <3> QED
        BY <1>2, <2>1, <2>2, <3>1
    <2>3. CASE i \notin q.index .. p.index - 1
      <3>1. i \in c .. q.index - 1
        BY <1>1, <1>3, <2>3
      <3>2. PICK m \in 1 .. q.made : q.env[i] = <<r, m>>
        BY <3>1 DEF Good, Boundary
      <3>3. m \in 1 .. p.made
        BY <1>1, <1>2, <1>3
      <3> QED
        BY <1>2, <2>1, <2>3, <3>2, <3>3
    <2> QED
      BY <2>2, <2>3
  <1>5. Exact(r, p, c)
    <2> SUFFICES ASSUME ~p.grown
                 PROVE  /\ p.index = c + p.made
                        /\ \A m \in 1 .. p.made : p.env[c + m - 1] = <<r, m>>
      BY DEF Exact
    <2>1. q.index = c + q.made /\ \A m \in 1 .. q.made : q.env[c + m - 1] = <<r, m>>
      BY <1>2 DEF Good, Exact
    <2>2. p.index = c + p.made
      BY <1>1, <1>2, <1>3, <2>1
    <2>3. ASSUME NEW m \in 1 .. p.made PROVE p.env[c + m - 1] = <<r, m>>
      <3>1. c + m - 1 \in 0 .. EnvMax
        BY <1>1, <1>3, <2>2
      <3>2. CASE m \in 1 .. q.made
        <4>1. c + m - 1 \notin q.index .. p.index - 1
          BY <1>1, <1>3, <2>1, <3>2
        <4> QED
          BY <1>2, <2>1, <3>1, <3>2, <4>1
      <3>3. CASE m \notin 1 .. q.made
        <4>1. c + m - 1 \in q.index .. p.index - 1 /\ q.made + 1 + (c + m - 1) - q.index = m
          BY <1>1, <1>3, <2>1, <2>2, <3>3
        <4> QED
          BY <1>2, <3>1, <4>1
      <3> QED
        BY <3>2, <3>3
    <2> QED
      BY <2>2, <2>3
  <1> QED
    BY <1>2, <1>4, <1>5 DEF Good, p

(* A request that is refused or goes on keeps its array.                   *)
LEMMA StateKeepsGood ==
    ASSUME NEW r \in Requests, NEW q, NEW c \in Nat, Good(r, q, c), q.state = "options",
           NEW s \in {"options", "cgi", "over"}
    PROVE  Good(r, [q EXCEPT !.state = s], c)
  <1> DEFINE p == [q EXCEPT !.state = s]
  <1>1. q \in Request
    BY DEF Good
  <1>2. /\ p \in Request /\ p.state = s /\ p.index = q.index /\ p.made = q.made
        /\ p.grown = q.grown /\ p.env = q.env
    BY <1>1 DEF Request
  <1> HIDE DEF p
  <1>3. Boundary(r, p, c)
    BY <1>2 DEF Good, Boundary
  <1>4. Exact(r, p, c)
    BY <1>2 DEF Good, Exact
  <1> QED
    BY <1>2, <1>3, <1>4 DEF Good, p

(* complete_env writes common strings below the boundary and the           *)
(* terminator at the index: neither is among the strings in between.       *)
LEMMA CompleteKeepsGood ==
    ASSUME TypeOK, NEW r \in Requests, Good(r, req[r], Len(common)),
           req[r].state = "options", NEW n \in Nat
    PROVE  /\ Good(r, complete_env(r, n), Len(common))
           /\ complete_env(r, n).state = "options"
  <1> DEFINE c == Len(common)
             copied == [i \in DOMAIN req[r].env |->
                          IF i < Len(common) THEN common[i + 1] ELSE req[r].env[i]]
             q == [req[r] EXCEPT !.env = copied]
             a == add_cgi_env(r, q, n)
             p == [a EXCEPT !.env = [a.env EXCEPT ![a.index] = NULL]]
  <1>1. /\ req[r] \in Request /\ c \in Nat /\ EnvMax \in Nat
        /\ common \in Seq({"common"} \X (1 .. EnvMax + 1))
        /\ req[r].env \in [0 .. EnvMax -> String \cup {NULL, Stale}]
        /\ req[r].index \in 0 .. EnvMax /\ req[r].made \in 0 .. EnvMax
    BY CgiEnvAssumption DEF TypeOK, Good, Request
  <1>2. copied \in [0 .. EnvMax -> String \cup {NULL, Stale}]
    <2> SUFFICES ASSUME NEW i \in 0 .. EnvMax, i < c
                 PROVE  common[i + 1] \in String
      BY <1>1
    <2>1. i + 1 \in 1 .. Len(common)
      BY <1>1
    <2>2. common[i + 1] \in {"common"} \X (1 .. EnvMax + 1)
      BY <1>1, <2>1
    <2> QED
      BY <2>2 DEF String
  <1>3. \A i \in c .. req[r].index - 1 : copied[i] = req[r].env[i]
    BY <1>1
  <1> HIDE DEF copied
  <1>4. /\ q \in Request /\ q.state = "options" /\ q.index = req[r].index
        /\ q.made = req[r].made /\ q.grown = req[r].grown /\ q.env = copied
    BY <1>1, <1>2 DEF Request
  <1> HIDE DEF q
  <1>5. Good(r, q, c)
    <2>1. Boundary(r, q, c)
      <3> SUFFICES ASSUME NEW i \in c .. q.index - 1
                   PROVE  q.env[i] \in {<<r, m>> : m \in 1 .. q.made}
        BY DEF Boundary
      <3>1. q.env[i] = req[r].env[i]
        BY <1>3, <1>4
      <3> QED
        BY <1>4, <3>1 DEF Good, Boundary
    <2>2. Exact(r, q, c)
      <3> SUFFICES ASSUME ~q.grown
                   PROVE  /\ q.index = c + q.made
                          /\ \A m \in 1 .. q.made : q.env[c + m - 1] = <<r, m>>
        BY DEF Exact
      <3>1. /\ req[r].index = c + req[r].made
            /\ \A m \in 1 .. req[r].made : req[r].env[c + m - 1] = <<r, m>>
        BY <1>4 DEF Good, Exact
      <3>2. ASSUME NEW m \in 1 .. q.made PROVE q.env[c + m - 1] = <<r, m>>
        <4>1. c + m - 1 \in c .. req[r].index - 1
          BY <1>1, <1>4, <3>1
        <4> QED
          BY <1>3, <1>4, <3>1, <4>1
      <3> QED
        BY <1>4, <3>1, <3>2
    <2> QED
      BY <1>4, <2>1, <2>2 DEF Good
  <1>6. Good(r, a, c) /\ a.state = "options"
    BY <1>1, <1>4, <1>5, AddKeepsGood
  <1> HIDE DEF a
  <1>7. /\ a \in Request /\ a.index \in 0 .. EnvMax /\ a.made \in 0 .. EnvMax
        /\ a.env \in [0 .. EnvMax -> String \cup {NULL, Stale}]
    BY <1>6 DEF Good, Request
  <1>8. /\ p \in Request /\ p.state = a.state /\ p.index = a.index /\ p.made = a.made
        /\ p.grown = a.grown /\ p.env = [a.env EXCEPT ![a.index] = NULL]
    BY <1>7 DEF Request
  <1> HIDE DEF p
  <1>9. Boundary(r, p, c)
    <2> SUFFICES ASSUME NEW i \in c .. p.index - 1
                 PROVE  p.env[i] \in {<<r, m>> : m \in 1 .. p.made}
      BY DEF Boundary
    <2>1. i \in 0 .. EnvMax /\ i # a.index /\ i \in c .. a.index - 1
      BY <1>1, <1>7, <1>8
    <2>2. p.env[i] = a.env[i]
      BY <1>7, <1>8, <2>1
    <2> QED
      BY <1>6, <1>8, <2>1, <2>2 DEF Good, Boundary
  <1>10. Exact(r, p, c)
    <2> SUFFICES ASSUME ~p.grown
                 PROVE  /\ p.index = c + p.made
                        /\ \A m \in 1 .. p.made : p.env[c + m - 1] = <<r, m>>
      BY DEF Exact
    <2>1. a.index = c + a.made /\ \A m \in 1 .. a.made : a.env[c + m - 1] = <<r, m>>
      BY <1>6, <1>8 DEF Good, Exact
    <2>2. ASSUME NEW m \in 1 .. p.made PROVE p.env[c + m - 1] = <<r, m>>
      <3>1. c + m - 1 \in 0 .. EnvMax /\ c + m - 1 # a.index
        BY <1>1, <1>7, <1>8, <2>1
      <3> QED
        BY <1>7, <1>8, <2>1, <3>1
    <2> QED
      BY <1>8, <2>1, <2>2
  <1>11. Good(r, p, c) /\ p.state = "options"
    BY <1>6, <1>8, <1>9, <1>10 DEF Good
  <1>12. p = complete_env(r, n)
    BY DEF complete_env, p, a, q, copied
  <1> QED
    BY <1>11, <1>12

(* A step of one request that leaves the common array alone, and after     *)
(* which the request is good, keeps the invariant.                         *)
LEMMA OneRequest ==
    ASSUME EnvInv, NEW r \in Requests, NEW q, Good(r, q, Len(common)),
           req' = [req EXCEPT ![r] = q], UNCHANGED <<common, running>>,
           wild' = {}, leaking' = {}
    PROVE  EnvInv'
  <1>1. req \in [Requests -> Request] /\ q \in Request
    BY DEF EnvInv, TypeOK, Good
  <1>2. req' \in [Requests -> Request]
    BY <1>1
  <1>3. TypeOK'
    BY <1>2 DEF EnvInv, TypeOK
  <1>4. ASSUME NEW s \in Requests PROVE Good(s, req'[s], Len(common'))
    <2>1. CASE s = r
      BY <1>1, <2>1
    <2>2. CASE s # r
      BY <1>1, <2>2 DEF EnvInv
    <2> QED
      BY <2>1, <2>2
  <1>5. (\A s \in Requests : Good(s, req[s], Len(common)))'
    BY <1>4
  <1> QED
    BY <1>3, <1>5 DEF EnvInv, OwnFreed, NoStringLost

(* The invariant holds before the first request: cgi_env_index is zero.    *)
LEMMA InitEnvInv == Init => EnvInv
  <1> SUFFICES ASSUME Init PROVE EnvInv
    OBVIOUS
  <1> DEFINE q == [state |-> "read", index |-> 0, made |-> 0, grown |-> FALSE,
                   env |-> [i \in 0 .. EnvMax |-> Stale]]
  <1>1. EnvMax \in Nat /\ CommonCount \in 1 .. EnvMax
    BY CgiEnvAssumption
  <1>2. q \in Request
    BY <1>1 DEF Request
  <1>3. \A r \in Requests : req[r] = q
    BY DEF Init
  <1>4. common \in Seq({"common"} \X (1 .. EnvMax + 1)) /\ Len(common) = CommonCount
    <2>1. \A n \in 1 .. CommonCount : <<"common", n>> \in {"common"} \X (1 .. EnvMax + 1)
      BY <1>1
    <2> QED
      BY <1>1, <2>1 DEF Init, create_common_env
  <1>5. TypeOK
    BY <1>1, <1>2, <1>4 DEF Init, TypeOK
  <1>6. ASSUME NEW r \in Requests PROVE Good(r, req[r], Len(common))
    <2>1. Boundary(r, q, Len(common)) /\ Exact(r, q, Len(common))
      BY <1>1, <1>4 DEF Boundary, Exact
    <2>2. q.made <= q.index /\ (q.state = "read" => q.index = 0 /\ q.made = 0)
      OBVIOUS
    <2> HIDE DEF q
    <2>3. Good(r, q, Len(common))
      BY <1>2, <2>1, <2>2 DEF Good
    <2> QED
      BY <1>3, <2>3
  <1> QED
    BY <1>5, <1>6 DEF EnvInv, OwnFreed, NoStringLost, Init

(* SIGHUP only moves the boundary up.                                      *)
LEMMA SighupKeeps == EnvInv /\ sighup_run => EnvInv'
  <1> SUFFICES ASSUME EnvInv, sighup_run PROVE EnvInv'
    OBVIOUS
  <1> DEFINE S == {"common"} \X (1 .. EnvMax + 1)
  <1>1. PICK n \in CgiEnvLines : common' = add_to_common_env(common, n)
    BY DEF sighup_run
  <1> DEFINE k == IF Len(common) + n <= EnvMax THEN n ELSE EnvMax + 1 - Len(common)
             more == [j \in 1 .. k |-> <<"common", Len(common) + j>>]
  <1>2. /\ n \in Nat /\ EnvMax \in Nat /\ CommonCount \in Nat /\ common \in Seq(S)
        /\ Len(common) \in Nat /\ Len(common) >= CommonCount /\ Len(common) <= EnvMax
        /\ req \in [Requests -> Request]
    BY CgiEnvAssumption DEF EnvInv, TypeOK, sighup_run
  <1>3. k \in Nat /\ Len(common) + k <= EnvMax + 1
    BY <1>2
  <1>4. common' = common \o more
    BY <1>1 DEF add_to_common_env
  <1> HIDE DEF k
  <1>5. more \in Seq(S) /\ Len(more) = k
    <2>1. \A j \in 1 .. k : <<"common", Len(common) + j>> \in S
      BY <1>2, <1>3
    <2> QED
      BY <1>3, <2>1
  <1> HIDE DEF more, S
  <1>6. common' \in Seq(S) /\ Len(common') = Len(common) + k
    BY <1>2, <1>4, <1>5, ConcatProperties
  <1>7. ASSUME NEW r \in Requests
        PROVE  /\ req'[r] \in Request
               /\ Good(r, req'[r], Len(common'))
    <2> DEFINE q == req[r]
               p == [q EXCEPT !.grown = q.grown \/ (q.state # "read" /\ common' # common)]
    <2>1. q \in Request /\ Good(r, q, Len(common))
      BY <1>2 DEF EnvInv
    <2>2. req'[r] = p
      BY DEF sighup_run
    <2>3. (q.grown \/ (q.state # "read" /\ common' # common)) \in BOOLEAN
      OBVIOUS
    <2>4. /\ p \in Request /\ p.state = q.state /\ p.index = q.index /\ p.made = q.made
          /\ p.env = q.env /\ p.grown = (q.grown \/ (q.state # "read" /\ common' # common))
          /\ q.index \in 0 .. EnvMax
      BY <2>1, <2>3 DEF Request
    <2> HIDE DEF p, q
    <2>5. Boundary(r, p, Len(common'))
      <3> SUFFICES ASSUME NEW i \in Len(common') .. p.index - 1
                   PROVE  p.env[i] \in {<<r, m>> : m \in 1 .. p.made}
        BY DEF Boundary
      <3>1. i \in Len(common) .. q.index - 1
        BY <1>2, <1>3, <1>6, <2>4
      <3> QED
        BY <2>1, <2>4, <3>1 DEF Good, Boundary
    <2>6. Exact(r, p, Len(common'))
      <3> SUFFICES ASSUME ~p.grown, p.state \in {"options", "cgi"} \/ p.made > 0
                   PROVE  /\ p.index = Len(common') + p.made
                          /\ \A m \in 1 .. p.made : p.env[Len(common') + m - 1] = <<r, m>>
        BY DEF Exact
      <3>1. q.state # "read"
        BY <2>1, <2>4 DEF Good
      <3>2. ~q.grown /\ common' = common
        BY <2>4, <3>1
      <3> QED
        BY <2>1, <2>4, <3>2 DEF Good, Exact
    <2> QED
      BY <2>1, <2>2, <2>4, <2>5, <2>6 DEF Good
  <1>8. req' \in [Requests -> Request]
    BY <1>7 DEF sighup_run
  <1>9. TypeOK'
    <2>1. running' = (Len(common') <= EnvMax)
      BY DEF sighup_run
    <2>2. running' \in BOOLEAN /\ (running' => Len(common') <= EnvMax)
      <3> DEFINE P == Len(common') <= EnvMax
      <3>1. running' = P
        BY <2>1
      <3>2. P \in BOOLEAN
        OBVIOUS
      <3> HIDE DEF P
      <3>3. running' \in BOOLEAN /\ (running' => P)
        BY <3>1, <3>2, Zenon
      <3> QED
        BY <3>3 DEF P
    <2>3. Len(common') >= CommonCount
      BY <1>2, <1>3, <1>6
    <2> QED
      BY <1>6, <1>8, <2>2, <2>3 DEF TypeOK, S
  <1>10. (\A r \in Requests : Good(r, req[r], Len(common)))'
    BY <1>7
  <1> QED
    BY <1>9, <1>10 DEF EnvInv, OwnFreed, NoStringLost, sighup_run

(* The request line sets the index to the boundary: no string lies         *)
(* between them yet.                                                       *)
LEMMA LoglineKeeps ==
    ASSUME EnvInv, NEW r \in Requests, process_logline(r)
    PROVE  EnvInv'
  <1> DEFINE p == [req[r] EXCEPT !.state = "options", !.index = Len(common),
                                 !.made = 0, !.grown = FALSE]
             o == [req[r] EXCEPT !.state = "over"]
  <1>1. /\ req[r] \in Request /\ Good(r, req[r], Len(common)) /\ req[r].state = "read"
        /\ Len(common) \in 0 .. EnvMax /\ EnvMax \in Nat
    BY CgiEnvAssumption DEF EnvInv, TypeOK, process_logline
  <1>2. wild' = {} /\ leaking' = {} /\ UNCHANGED <<common, running>>
        /\ (req' = [req EXCEPT ![r] = p] \/ req' = [req EXCEPT ![r] = o])
    BY DEF process_logline, Becomes, EnvInv, OwnFreed, NoStringLost
  <1>3. Good(r, p, Len(common))
    <2>0. 0 \in 0 .. EnvMax
      BY <1>1
    <2>1. /\ p \in Request /\ p.state = "options" /\ p.index = Len(common) /\ p.made = 0
      BY <1>1, <2>0 DEF Request
    <2> HIDE DEF p
    <2>2. Boundary(r, p, Len(common)) /\ Exact(r, p, Len(common))
      BY <1>1, <2>1 DEF Boundary, Exact
    <2> QED
      BY <1>1, <2>1, <2>2 DEF Good
  <1>4. Good(r, o, Len(common))
    <2>1. /\ o \in Request /\ o.state = "over" /\ o.index = 0 /\ o.made = 0
      BY <1>1 DEF Request, Good
    <2> HIDE DEF o
    <2>2. Boundary(r, o, Len(common)) /\ Exact(r, o, Len(common))
      BY <1>1, <2>1 DEF Boundary, Exact
    <2> QED
      BY <2>1, <2>2 DEF Good
  <1> HIDE DEF p, o
  <1> QED
    BY <1>2, <1>3, <1>4, OneRequest

(* A header line of the request adds one or two strings, or ends it.       *)
LEMMA OptionKeeps ==
    ASSUME EnvInv, NEW r \in Requests, process_option_line(r)
    PROVE  EnvInv'
  <1>1. /\ Good(r, req[r], Len(common)) /\ req[r].state = "options" /\ Len(common) \in Nat
    BY DEF EnvInv, TypeOK, process_option_line
  <1>2. wild' = {} /\ leaking' = {} /\ UNCHANGED <<common, running>>
    BY DEF process_option_line, Becomes, EnvInv, OwnFreed, NoStringLost
  <1>3. ASSUME NEW n \in {1, 2},
               LET q == add_cgi_env(r, req[r], n)
               IN  Becomes(r, IF q.made = req[r].made + n THEN q ELSE [q EXCEPT !.state = "over"])
        PROVE  EnvInv'
    <2> DEFINE q == add_cgi_env(r, req[r], n)
    <2>1. Good(r, q, Len(common)) /\ q.state = "options"
      BY <1>1, AddKeepsGood
    <2>2. Good(r, [q EXCEPT !.state = "over"], Len(common))
      BY <1>1, <2>1, StateKeepsGood
    <2>3. \/ req' = [req EXCEPT ![r] = q]
          \/ req' = [req EXCEPT ![r] = [q EXCEPT !.state = "over"]]
      BY <1>3 DEF Becomes
    <2> HIDE DEF q
    <2> QED
      BY <1>2, <2>1, <2>2, <2>3, OneRequest
  <1>4. CASE Becomes(r, [req[r] EXCEPT !.state = "over"])
    <2>1. Good(r, [req[r] EXCEPT !.state = "over"], Len(common))
      BY <1>1, StateKeepsGood
    <2>2. req' = [req EXCEPT ![r] = [req[r] EXCEPT !.state = "over"]]
      BY <1>4 DEF Becomes
    <2> QED
      BY <1>2, <2>1, <2>2, OneRequest
  <1> QED
    BY <1>3, <1>4 DEF process_option_line

(* init_cgi adds the strings of complete_env and starts the program.       *)
LEMMA CgiKeeps ==
    ASSUME EnvInv, NEW r \in Requests, init_cgi(r)
    PROVE  EnvInv'
  <1>1. /\ TypeOK /\ Good(r, req[r], Len(common)) /\ req[r].state = "options"
        /\ Len(common) \in Nat
    BY DEF EnvInv, TypeOK, init_cgi
  <1>2. wild' = {} /\ leaking' = {} /\ UNCHANGED <<common, running>>
    BY DEF init_cgi, Becomes, EnvInv, OwnFreed, NoStringLost
  <1>3. PICK n \in Standard :
           \/ req' = [req EXCEPT ![r] = [complete_env(r, n) EXCEPT !.state = "cgi"]]
           \/ req' = [req EXCEPT ![r] = [complete_env(r, n) EXCEPT !.state = "over"]]
    BY DEF init_cgi, Becomes
  <1> DEFINE q == complete_env(r, n)
  <1>4. n \in Nat
    BY CgiEnvAssumption
  <1>5. Good(r, q, Len(common)) /\ q.state = "options"
    BY <1>1, <1>4, CompleteKeepsGood
  <1> HIDE DEF q
  <1>6. /\ Good(r, [q EXCEPT !.state = "cgi"], Len(common))
        /\ Good(r, [q EXCEPT !.state = "over"], Len(common))
    BY <1>1, <1>5, StateKeepsGood
  <1>7. \/ req' = [req EXCEPT ![r] = [q EXCEPT !.state = "cgi"]]
        \/ req' = [req EXCEPT ![r] = [q EXCEPT !.state = "over"]]
    BY <1>3 DEF q
  <1> QED
    BY <1>2, <1>6, <1>7, OneRequest

(* What free_request frees are strings of the request (Boundary), and, if  *)
(* the common array has not grown, each of them (Exact).                   *)
LEMMA FreeKeeps ==
    ASSUME EnvInv, NEW r \in Requests, free_request(r)
    PROVE  EnvInv'
  <1> DEFINE c == Len(common)
             q == req[r]
             p == sanitize_request(r)
  <1>1. /\ q \in Request /\ Good(r, q, c) /\ c \in Nat /\ EnvMax \in Nat
        /\ q.index \in 0 .. EnvMax /\ q.made \in 0 .. EnvMax
        /\ q.env \in [0 .. EnvMax -> String \cup {NULL, Stale}]
    BY CgiEnvAssumption DEF EnvInv, TypeOK, Request
  <1>2. Freed(r) \subseteq Own(r)
    BY <1>1 DEF Freed, Own, Good, Boundary
  <1>3. wild' = {}
    BY <1>2 DEF free_request, EnvInv, OwnFreed
  <1>4. q.grown \/ Own(r) \subseteq Freed(r)
    <2> SUFFICES ASSUME ~q.grown, NEW n \in 1 .. q.made
                 PROVE  <<r, n>> \in Freed(r)
      BY DEF Own
    <2>1. q.index = c + q.made /\ q.env[c + n - 1] = <<r, n>>
      BY <1>1 DEF Good, Exact
    <2>2. c + n - 1 \in c .. q.index - 1
      BY <1>1, <2>1
    <2>3. <<r, n>> # NULL
      BY <1>1 DEF NULL
    <2> QED
      BY <2>1, <2>2, <2>3 DEF Freed
  <1>5. leaking' = {}
    BY <1>4 DEF free_request, EnvInv, NoStringLost
  <1>6. Good(r, p, c)
    <2>0. 0 \in 0 .. EnvMax
      BY <1>1
    <2>1. /\ p \in Request /\ p.state = "read" /\ p.index = 0 /\ p.made = 0
      BY <1>1, <2>0 DEF Request, sanitize_request
    <2> HIDE DEF p
    <2>2. Boundary(r, p, c) /\ Exact(r, p, c)
      BY <1>1, <2>1 DEF Boundary, Exact
    <2> QED
      BY <2>1, <2>2 DEF Good
  <1>7. req' = [req EXCEPT ![r] = p] /\ UNCHANGED <<common, running>>
    BY DEF free_request
  <1> HIDE DEF p
  <1> QED
    BY <1>3, <1>5, <1>6, <1>7, OneRequest

(* EnvInv holds in every state.                                            *)
LEMMA EnvInvariant == Spec => []EnvInv
  <1>1. Init => EnvInv
    BY InitEnvInv
  <1>2. EnvInv /\ [Next]_vars => EnvInv'
    <2> SUFFICES ASSUME EnvInv, [Next]_vars PROVE EnvInv'
      OBVIOUS
    <2>1. CASE sighup_run
      BY <2>1, SighupKeeps
    <2>2. ASSUME NEW r \in Requests, process_logline(r) PROVE EnvInv'
      BY <2>2, LoglineKeeps
    <2>3. ASSUME NEW r \in Requests, process_option_line(r) PROVE EnvInv'
      BY <2>3, OptionKeeps
    <2>4. ASSUME NEW r \in Requests, init_cgi(r) PROVE EnvInv'
      BY <2>4, CgiKeeps
    <2>5. ASSUME NEW r \in Requests, free_request(r) PROVE EnvInv'
      BY <2>5, FreeKeeps
    <2>6. CASE UNCHANGED vars
      BY <2>6 DEF vars, EnvInv, TypeOK, OwnFreed, NoStringLost, Good, Boundary, Exact
    <2> QED
      BY <2>1, <2>2, <2>3, <2>4, <2>5, <2>6 DEF Next
  <1> QED
    BY <1>1, <1>2, PTL DEF Spec

(* For any number of request structures, any size of the arrays and any    *)
(* order of requests and SIGHUPs the environment arrays keep their bounds, *)
(* free_request never frees a string of the server or of an earlier        *)
(* request (OwnFreed), and a request during which the common array has not *)
(* grown frees all of its strings (NoStringLost).                          *)
THEOREM EnvCorrect == Spec => [](TypeOK /\ OwnFreed /\ NoStringLost)
  <1>1. EnvInv => TypeOK /\ OwnFreed /\ NoStringLost
    BY DEF EnvInv
  <1> QED
    BY <1>1, EnvInvariant, PTL
-----------------------------------------------------------------------------
(* What complete_env leaves in the array: below the index there are common *)
(* strings and strings of the request only, the last one that was made is  *)
(* the last one before the terminator, and no common string that lies      *)
(* below the place where the request began is written over.                *)
LEMMA CompletePlaces ==
    ASSUME TypeOK, NEW r \in Requests, Good(r, req[r], Len(common)), NEW n \in Nat \ {0},
           complete_env(r, n).made = req[r].made + n
    PROVE  LET p == complete_env(r, n)
           IN  /\ p \in Request /\ p.grown = req[r].grown
               /\ p.index = req[r].index + n
               /\ p.env[p.index] = NULL
               /\ \A i \in req[r].index .. p.index - 1 :
                     p.env[i] = <<r, req[r].made + 1 + i - req[r].index>>
               /\ \A i \in 0 .. p.index - 1 :
                     \/ i < Len(common) /\ p.env[i] = common[i + 1]
                     \/ \E m \in 1 .. p.made : p.env[i] = <<r, m>>
               /\ \A i \in 0 .. req[r].index - 1 : i < Len(common) => p.env[i] = common[i + 1]
  <1> DEFINE c == Len(common)
             copied == [i \in DOMAIN req[r].env |->
                          IF i < Len(common) THEN common[i + 1] ELSE req[r].env[i]]
             q == [req[r] EXCEPT !.env = copied]
             a == add_cgi_env(r, q, n)
             p == [a EXCEPT !.env = [a.env EXCEPT ![a.index] = NULL]]
  <1>1. /\ req[r] \in Request /\ c \in Nat /\ EnvMax \in Nat
        /\ common \in Seq({"common"} \X (1 .. EnvMax + 1))
        /\ req[r].env \in [0 .. EnvMax -> String \cup {NULL, Stale}]
        /\ req[r].index \in 0 .. EnvMax /\ req[r].made \in 0 .. EnvMax
        /\ req[r].made <= req[r].index
    BY CgiEnvAssumption DEF TypeOK, Good, Request
  <1>2. copied \in [0 .. EnvMax -> String \cup {NULL, Stale}]
    <2> SUFFICES ASSUME NEW i \in 0 .. EnvMax, i < c
                 PROVE  common[i + 1] \in String
      BY <1>1
    <2>1. i + 1 \in 1 .. Len(common)
      BY <1>1
    <2>2. common[i + 1] \in {"common"} \X (1 .. EnvMax + 1)
      BY <1>1, <2>1
    <2> QED
      BY <2>2 DEF String
  <1>3. \A i \in 0 .. EnvMax : copied[i] = IF i < c THEN common[i + 1] ELSE req[r].env[i]
    BY <1>1
  <1>4. p = complete_env(r, n)
    BY DEF complete_env
  <1> HIDE DEF copied
  <1>5. /\ q \in Request /\ q.index = req[r].index
        /\ q.made = req[r].made /\ q.grown = req[r].grown /\ q.env = copied
    BY <1>1, <1>2 DEF Request
  <1> HIDE DEF q
  <1>6. /\ a \in Request /\ a.grown = q.grown
        /\ a.index - q.index = a.made - q.made
        /\ \A i \in 0 .. EnvMax :
              a.env[i] = IF i \in q.index .. a.index - 1
                         THEN <<r, q.made + 1 + i - q.index>> ELSE q.env[i]
    <2>1. n \in Nat /\ q.made <= q.index
      BY <1>1, <1>5
    <2> QED
      BY <1>5, <2>1, AddsAtIndex
  <1> HIDE DEF a
  <1>7. /\ a.index \in 0 .. EnvMax /\ a.made \in 0 .. EnvMax
        /\ a.env \in [0 .. EnvMax -> String \cup {NULL, Stale}]
    BY <1>6 DEF Request
  <1>8. /\ p \in Request /\ p.index = a.index /\ p.made = a.made /\ p.grown = a.grown
        /\ p.env = [a.env EXCEPT ![a.index] = NULL]
    BY <1>6, <1>7 DEF Request
  <1> HIDE DEF p
  <1>9. p.made = req[r].made + n /\ p.index = req[r].index + n
    BY <1>1, <1>4, <1>5, <1>6, <1>7, <1>8
  <1>10. p.env[p.index] = NULL /\ \A i \in 0 .. p.index - 1 : p.env[i] = a.env[i]
    <2>1. p.env[a.index] = NULL /\ \A i \in 0 .. EnvMax : i # a.index => p.env[i] = a.env[i]
      BY <1>7, <1>8
    <2>2. \A i \in 0 .. a.index - 1 : i \in 0 .. EnvMax /\ i # a.index
      BY <1>1, <1>7
    <2> QED
      BY <1>8, <2>1, <2>2
  <1> DEFINE ri == req[r].index
             rm == req[r].made
  <1>0. /\ ri \in Nat /\ rm \in Nat /\ n \in Nat /\ n >= 1
        /\ p.made = rm + n /\ p.index = ri + n
    BY <1>1, <1>9
  <1>11. ASSUME NEW i \in req[r].index .. p.index - 1
         PROVE  /\ p.env[i] = <<r, req[r].made + 1 + i - req[r].index>>
                /\ req[r].made + 1 + i - req[r].index \in 1 .. p.made
    <2>1. i \in 0 .. p.index - 1 /\ i \in 0 .. EnvMax /\ i \in q.index .. a.index - 1
      BY <1>1, <1>5, <1>7, <1>8
    <2>2. p.env[i] = a.env[i] /\ a.env[i] = <<r, q.made + 1 + i - q.index>>
      BY <1>6, <1>10, <2>1
    <2>3. req[r].made + 1 + i - req[r].index \in 1 .. p.made
      <3>1. i \in ri .. ri + n - 1
        BY <1>0
      <3> HIDE DEF ri, rm
      <3>2. rm + 1 + i - ri \in 1 .. rm + n
        BY <1>0, <3>1
      <3> QED
        BY <1>0, <3>2 DEF ri, rm
    <2> QED
      BY <1>5, <2>2, <2>3
  <1>12. ASSUME NEW i \in 0 .. req[r].index - 1
         PROVE  /\ i < c => p.env[i] = common[i + 1]
                /\ i >= c => p.env[i] = req[r].env[i] /\ i \in c .. req[r].index - 1
    <2>1. i \in 0 .. p.index - 1 /\ i \in 0 .. EnvMax /\ i \notin q.index .. a.index - 1
      BY <1>1, <1>5, <1>7, <1>9
    <2>2. p.env[i] = copied[i]
      BY <1>5, <1>6, <1>10, <2>1
    <2>3. i >= c => i \in c .. req[r].index - 1
      BY <1>1
    <2> QED
      BY <1>1, <1>3, <2>1, <2>2, <2>3
  <1>13. ASSUME NEW i \in 0 .. p.index - 1
         PROVE  \/ i < c /\ p.env[i] = common[i + 1]
                \/ \E m \in 1 .. p.made : p.env[i] = <<r, m>>
    <2>1. CASE i \in req[r].index .. p.index - 1
      BY <1>11, <2>1
    <2>2. CASE i \in 0 .. req[r].index - 1 /\ i < c
      BY <1>12, <2>2
    <2>3. CASE i \in 0 .. req[r].index - 1 /\ i >= c
      <3>1. PICK m \in 1 .. req[r].made : p.env[i] = <<r, m>>
        BY <1>12, <2>3 DEF Good, Boundary
      <3>2. m \in 1 .. p.made
        BY <1>1, <1>9
      <3> QED
        BY <3>1, <3>2
    <2>4. \/ i \in ri .. p.index - 1
          \/ i \in 0 .. ri - 1 /\ (i < c \/ i >= c)
      <3>1. i \in Nat /\ i <= p.index - 1 /\ p.index \in Nat /\ c \in Nat
        BY <1>0, <1>1
      <3> HIDE DEF ri
      <3> QED
        BY <1>0, <3>1
    <2> QED
      BY <2>1, <2>2, <2>3, <2>4
  <1> QED
    BY <1>4, <1>5, <1>6, <1>8, <1>9, <1>10, <1>11, <1>12, <1>13

(* The environment of a program: the array up to its first terminator,     *)
(* which is the one that complete_env wrote.                               *)
LEMMA StartedEnv ==
    ASSUME TypeOK, NEW r \in Requests, Good(r, req[r], Len(common)),
           req[r].state = "options", NEW n \in Nat \ {0},
           complete_env(r, n).made = req[r].made + n
    PROVE  LET p == complete_env(r, n)
               g == Environment(p)
           IN  /\ Range(g) \subseteq Range(common) \cup {<<r, m>> : m \in 1 .. p.made}
               /\ \A m \in p.made - n + 1 .. p.made : <<r, m>> \in Range(g)
               /\ ~p.grown => g = common \o [m \in 1 .. p.made |-> <<r, m>>]
  <1> DEFINE c == Len(common)
             p == complete_env(r, n)
             g == Environment(p)
  <1>1. /\ p \in Request /\ p.grown = req[r].grown
        /\ p.index = req[r].index + n
        /\ p.env[p.index] = NULL
        /\ \A i \in req[r].index .. p.index - 1 :
              p.env[i] = <<r, req[r].made + 1 + i - req[r].index>>
        /\ \A i \in 0 .. p.index - 1 :
              \/ i < Len(common) /\ p.env[i] = common[i + 1]
              \/ \E m \in 1 .. p.made : p.env[i] = <<r, m>>
        /\ \A i \in 0 .. req[r].index - 1 : i < Len(common) => p.env[i] = common[i + 1]
    BY CompletePlaces
  <1>2. Good(r, p, c) /\ p.state = "options"
    BY CompleteKeepsGood
  <1> HIDE DEF p
  <1>3. /\ c \in Nat /\ EnvMax \in Nat
        /\ common \in Seq({"common"} \X (1 .. EnvMax + 1)) /\ DOMAIN common = 1 .. c
        /\ req[r].index \in 0 .. EnvMax /\ req[r].made \in 0 .. EnvMax
        /\ p.index \in 0 .. EnvMax /\ p.made \in 0 .. EnvMax /\ DOMAIN p.env = 0 .. EnvMax
    BY <1>1, CgiEnvAssumption DEF TypeOK, Good, Request
  <1>4. p.index \in 1 .. EnvMax
    BY <1>1, <1>3
  <1>5. ASSUME NEW i \in 0 .. p.index - 1 PROVE p.env[i] # NULL
    <2>1. CASE i < c /\ p.env[i] = common[i + 1]
      <3>1. i + 1 \in 1 .. c
        <4>1. c \in Nat /\ i \in Nat /\ i < c
          BY <1>3, <2>1
        <4> HIDE DEF c
        <4> QED
          BY ONLY <4>1
      <3>2. common[i + 1] \in {"common"} \X (1 .. EnvMax + 1)
        BY <1>3, <3>1
      <3>3. PICK m \in 1 .. EnvMax + 1 : common[i + 1] = <<"common", m>>
        BY <3>2
      <3>4. m # 0
        OBVIOUS
      <3> QED
        BY <2>1, <3>3, <3>4 DEF NULL
    <2>2. CASE \E m \in 1 .. p.made : p.env[i] = <<r, m>>
      <3>1. PICK m \in 1 .. p.made : p.env[i] = <<r, m>>
        BY <2>2
      <3>2. m # 0
        BY <1>3
      <3> QED
        BY <3>1, <3>2 DEF NULL
    <2> QED
      BY <1>1, <2>1, <2>2
  <1> DEFINE N == {i \in DOMAIN p.env : p.env[i] = NULL}
  <1>6. Min(N) = p.index
    <2>0. p.index \in DOMAIN p.env /\ \A i \in DOMAIN p.env : i \in 0 .. p.index - 1 \/ p.index <= i
      BY <1>3, <1>4
    <2>1. p.index \in N /\ \A i \in N : p.index <= i
      BY <1>1, <1>5, <2>0
    <2>2. \A i \in N : i \in Int
      BY <1>3
    <2> HIDE DEF N
    <2>3. \A x \in N : (\A y \in N : x =< y) => x = p.index
      BY <1>3, <2>1, <2>2
    <2> QED
      BY <2>1, <2>3 DEF Min
  <1>7. g = [i \in 1 .. p.index |-> p.env[i - 1]]
    BY <1>6 DEF Environment
  <1> HIDE DEF g, N
  <1>8. Range(g) \subseteq Range(common) \cup {<<r, m>> : m \in 1 .. p.made}
    <2> SUFFICES ASSUME NEW i \in 1 .. p.index
                 PROVE  p.env[i - 1] \in Range(common) \cup {<<r, m>> : m \in 1 .. p.made}
      BY <1>7 DEF Range
    <2>1. i - 1 \in 0 .. p.index - 1
      BY <1>3
    <2>2. CASE i - 1 < c /\ p.env[i - 1] = common[i]
      <3>1. i \in DOMAIN common
        BY <1>3, <2>2
      <3> QED
        BY <2>2, <3>1 DEF Range
    <2>3. i = i - 1 + 1
      BY <1>3
    <2> QED
      BY <1>1, <2>1, <2>2, <2>3
  <1>9. ASSUME NEW m \in p.made - n + 1 .. p.made PROVE <<r, m>> \in Range(g)
    <2>1. PICK ri \in Nat, rm \in Nat : ri = req[r].index /\ rm = req[r].made
      BY <1>3
    <2>2. p.made = rm + n /\ p.index = ri + n /\ n \in Nat
      BY <1>1, <2>1 DEF p
    <2>3. m \in rm + 1 .. rm + n
      <3>1. m \in (rm + n) - n + 1 .. rm + n
        BY <2>2, Zenon
      <3> QED
        BY ONLY <2>1, <2>2, <3>1
    <2>4. PICK i \in Nat : i = ri + (m - rm) - 1
      BY ONLY <2>1, <2>2, <2>3
    <2>5. ri \in Nat /\ rm \in Nat /\ n \in Nat /\ m \in Nat /\ rm + 1 <= m /\ m <= rm + n
      BY ONLY <2>1, <2>2, <2>3
    <2>6. /\ i \in ri .. ri + n - 1 /\ i + 1 \in 1 .. ri + n
          /\ rm + 1 + i - ri = m /\ (i + 1) - 1 = i
      BY ONLY <2>4, <2>5
    <2>7. p.env[i] = <<r, m>>
      <3>1. i \in req[r].index .. p.index - 1 /\ req[r].made + 1 + i - req[r].index = m
        BY ONLY <2>1, <2>2, <2>6
      <3> QED
        BY <1>1, <3>1
    <2>8. g[i + 1] = <<r, m>> /\ i + 1 \in DOMAIN g
      BY <1>7, <2>2, <2>6, <2>7
    <2> QED
      BY <2>8 DEF Range
  <1>10. ASSUME ~p.grown PROVE g = common \o [m \in 1 .. p.made |-> <<r, m>>]
    <2> DEFINE o == [m \in 1 .. p.made |-> <<r, m>>]
               T == ({"common"} \X (1 .. EnvMax + 1)) \cup ({r} \X (1 .. EnvMax))
    <2>1. p.index = c + p.made /\ \A m \in 1 .. p.made : p.env[c + m - 1] = <<r, m>>
      BY <1>2, <1>10 DEF Good, Exact
    <2>2. req[r].index = c + req[r].made
      BY <1>1, <1>10 DEF Good, Exact
    <2>3. common \in Seq(T) /\ o \in Seq(T) /\ Len(o) = p.made
      <3>1. \A m \in 1 .. p.made : <<r, m>> \in T
        BY <1>3
      <3>2. p.made \in Nat
        BY <1>3
      <3>3. \A i \in 1 .. c : common[i] \in T
        BY <1>3
      <3>4. common = [i \in 1 .. c |-> common[i]]
        BY <1>3
      <3> HIDE DEF T
      <3>5. o \in Seq(T) /\ Len(o) = p.made
        BY <3>1, <3>2
      <3>6. common \in Seq(T)
        <4> HIDE DEF c
        <4>1. [i \in 1 .. c |-> common[i]] \in Seq(T)
          BY <1>3, <3>3
        <4> QED
          BY <3>4, <4>1
      <3> QED
        BY <3>5, <3>6
    <2>4. \A i \in 1 .. p.made : o[i] = <<r, i>>
      OBVIOUS
    <2> HIDE DEF o, T
    <2>5. /\ DOMAIN (common \o o) = 1 .. c + p.made
          /\ \A i \in 1 .. c + p.made :
                (common \o o)[i] = IF i <= c THEN common[i] ELSE o[i - c]
      BY <2>3, ConcatProperties
    <2>6. ASSUME NEW i \in 1 .. p.index PROVE g[i] = (common \o o)[i]
      <3>1. g[i] = p.env[i - 1] /\ i \in 1 .. c + p.made
        BY <1>7, <2>1
      <3>2. CASE i <= c
        <4>1. i - 1 \in 0 .. req[r].index - 1 /\ i - 1 < c /\ i - 1 + 1 = i
          <5> DEFINE x == req[r].index
                     m == req[r].made
          <5>1. c \in Nat /\ x \in Nat /\ m \in Nat /\ i \in Nat /\ i >= 1
            BY <1>3
          <5>2. i <= c /\ x = c + m
            BY <2>2, <3>2
          <5> HIDE DEF c, x, m
          <5>3. i - 1 \in 0 .. x - 1 /\ i - 1 < c /\ i - 1 + 1 = i
            BY ONLY <5>1, <5>2
          <5> QED
            BY <5>3 DEF x, m
        <4> QED
          BY <1>1, <2>5, <3>1, <3>2, <4>1
      <3>3. CASE i > c
        <4>1. i - c \in 1 .. p.made /\ c + (i - c) - 1 = i - 1 /\ ~(i <= c)
          BY <1>3, <3>1, <3>3
        <4> QED
          BY <2>1, <2>4, <2>5, <3>1, <4>1
      <3>4. i <= c \/ i > c
        BY <1>3
      <3> QED
        BY <3>2, <3>3, <3>4
    <2>7. DOMAIN g = 1 .. p.index /\ g = [i \in 1 .. p.index |-> g[i]]
      BY <1>7
    <2>8. common \o o = [i \in 1 .. c + p.made |-> (common \o o)[i]]
      <3>1. common \o o \in Seq(T)
        BY <2>3, ConcatProperties
      <3>2. ASSUME NEW f \in Seq(T) PROVE f = [i \in DOMAIN f |-> f[i]]
        OBVIOUS
      <3>3. common \o o = [i \in DOMAIN (common \o o) |-> (common \o o)[i]]
        BY <3>1, <3>2, Zenon
      <3> QED
        BY <2>5, <3>3, Zenon
    <2>9. g = common \o o
      BY <2>1, <2>6, <2>7, <2>8
    <2> QED
      BY <2>9 DEF o
  <1> QED
    BY <1>8, <1>9, <1>10 DEF p, g

(* The environments that were given out, as a function of the requests.    *)
ChildInv == ChildEnv /\ given = [r \in Requests |-> given[r]]

(* A step of one request that does not leave it with a running program     *)
(* touches no environment but, perhaps, its own.                           *)
LEMMA OthersKept ==
    ASSUME EnvInv, ChildInv, NEW r \in Requests, NEW q \in Request, q.state # "cgi",
           req' = [req EXCEPT ![r] = q], common' = common,
           given' = given \/ given' = [given EXCEPT ![r] = <<>>]
    PROVE  ChildInv'
  <1>1. req \in [Requests -> Request] /\ req'[r] = q
    BY DEF EnvInv, TypeOK
  <1>2. given' = [s \in Requests |-> given'[s]]
    BY DEF ChildInv
  <1>3. ASSUME NEW s \in Requests, s # r PROVE req'[s] = req[s] /\ given'[s] = given[s]
    BY <1>1, <1>3 DEF ChildInv
  <1>4. ASSUME NEW s \in Requests, req'[s].state = "cgi"
        PROVE  /\ Range(given'[s]) \subseteq Range(common') \cup Own(s)'
               /\ Added(s, given[s])'
               /\ ~req'[s].grown => given'[s] = common' \o [n \in 1 .. req'[s].made |-> <<s, n>>]
    <2>1. s # r
      BY <1>1, <1>4
    <2>2. req'[s] = req[s] /\ given'[s] = given[s] /\ Own(s)' = Own(s)
      BY <1>3, <2>1 DEF Own
    <2>3. Added(s, given[s])' <=> Added(s, given[s])
      BY <2>2 DEF Added
    <2> QED
      BY <1>4, <2>2, <2>3 DEF ChildInv, ChildEnv
  <1> QED
    BY <1>2, <1>4 DEF ChildInv, ChildEnv

(* A program is started.                                                   *)
LEMMA StartKeeps ==
    ASSUME EnvInv, ChildInv, NEW r \in Requests, NEW n \in Standard,
           req[r].state = "options",
           complete_env(r, n).made = req[r].made + n,
           given' = [given EXCEPT ![r] = Environment(complete_env(r, n))],
           req' = [req EXCEPT ![r] = [complete_env(r, n) EXCEPT !.state = "cgi"]],
           common' = common
    PROVE  ChildInv'
  <1> DEFINE p == complete_env(r, n)
             g == Environment(p)
             q == [p EXCEPT !.state = "cgi"]
  <1>1. req \in [Requests -> Request] /\ TypeOK /\ Good(r, req[r], Len(common)) /\ n \in Nat \ {0}
    BY CgiEnvAssumption DEF EnvInv, TypeOK
  <1>2. /\ Range(g) \subseteq Range(common) \cup {<<r, m>> : m \in 1 .. p.made}
        /\ \A m \in p.made - n + 1 .. p.made : <<r, m>> \in Range(g)
        /\ ~p.grown => g = common \o [m \in 1 .. p.made |-> <<r, m>>]
    BY <1>1, StartedEnv
  <1>3. p \in Request
    BY <1>1, CompletePlaces
  <1> HIDE DEF p
  <1>4. q.made = p.made /\ q.grown = p.grown
    BY <1>3 DEF Request
  <1>5. req'[r] = q /\ given'[r] = g
    BY <1>1 DEF ChildInv, p
  <1> HIDE DEF g, q
  <1>6. given' = [s \in Requests |-> given'[s]]
    BY DEF ChildInv
  <1>7. ASSUME NEW s \in Requests, s # r PROVE req'[s] = req[s] /\ given'[s] = given[s]
    BY <1>1, <1>7 DEF ChildInv
  <1>8. ASSUME NEW s \in Requests, req'[s].state = "cgi"
        PROVE  /\ Range(given'[s]) \subseteq Range(common') \cup Own(s)'
               /\ Added(s, given[s])'
               /\ ~req'[s].grown => given'[s] = common' \o [m \in 1 .. req'[s].made |-> <<s, m>>]
    <2>1. CASE s = r
      <3>1. Own(s)' = {<<r, m>> : m \in 1 .. p.made}
        BY <1>4, <1>5, <2>1 DEF Own
      <3>2. req'[s].made = p.made /\ req'[s].grown = p.grown /\ given'[s] = g
        BY <1>4, <1>5, <2>1
      <3>3. Added(s, given[s])'
        BY <1>2, <2>1, <3>2 DEF Added
      <3> QED
        BY <1>2, <2>1, <3>1, <3>2, <3>3
    <2>2. CASE s # r
      <3>1. req'[s] = req[s] /\ given'[s] = given[s] /\ Own(s)' = Own(s)
        BY <1>7, <2>2 DEF Own
      <3>2. Added(s, given[s])' <=> Added(s, given[s])
        BY <3>1 DEF Added
      <3> QED
        BY <1>8, <3>1, <3>2 DEF ChildInv, ChildEnv
    <2> QED
      BY <2>1, <2>2
  <1> QED
    BY <1>6, <1>8 DEF ChildInv, ChildEnv

(* SIGHUP adds common strings behind those that a program was given.       *)
LEMMA SighupChild == ASSUME EnvInv, ChildInv, sighup_run PROVE ChildInv'
  <1>1. PICK n \in CgiEnvLines : common' = add_to_common_env(common, n)
    BY DEF sighup_run
  <1> DEFINE k == IF Len(common) + n <= EnvMax THEN n ELSE EnvMax + 1 - Len(common)
             more == [j \in 1 .. k |-> <<"common", Len(common) + j>>]
             S == {"common"} \X (1 .. EnvMax + 1)
  <1>2. /\ n \in Nat /\ EnvMax \in Nat /\ common \in Seq(S)
        /\ Len(common) \in Nat /\ Len(common) <= EnvMax
        /\ req \in [Requests -> Request]
    BY CgiEnvAssumption DEF EnvInv, TypeOK, sighup_run
  <1>3. k \in Nat /\ Len(common) + k <= EnvMax + 1
    BY <1>2
  <1>4. common' = common \o more
    BY <1>1 DEF add_to_common_env
  <1> HIDE DEF k
  <1>5. more \in Seq(S)
    <2>1. \A j \in 1 .. k : <<"common", Len(common) + j>> \in S
      BY <1>2, <1>3
    <2> QED
      BY <1>3, <2>1
  <1> HIDE DEF more, S
  <1>6. Range(common) \subseteq Range(common')
    <2> SUFFICES ASSUME NEW i \in DOMAIN common PROVE common[i] \in Range(common')
      BY DEF Range
    <2>1. /\ i \in 1 .. Len(common) /\ common \o more \in Seq(S)
          /\ Len(common \o more) = Len(common) + Len(more) /\ Len(more) \in Nat
          /\ \A j \in 1 .. Len(common) + Len(more) :
                (common \o more)[j] = IF j <= Len(common) THEN common[j] ELSE more[j - Len(common)]
      BY <1>2, <1>5, ConcatProperties
    <2>2. i \in 1 .. Len(common) + Len(more) /\ i <= Len(common)
      BY <1>2, <2>1
    <2>3. i \in DOMAIN common' /\ common'[i] = common[i]
      BY <1>4, <2>1, <2>2
    <2> QED
      BY <2>3 DEF Range
  <1>7. ASSUME NEW r \in Requests
        PROVE  /\ req'[r].state = req[r].state /\ req'[r].made = req[r].made
               /\ ~req'[r].grown => ~req[r].grown /\ (req[r].state # "read" => common' = common)
    <2> DEFINE q == req[r]
               b == q.grown \/ (q.state # "read" /\ common' # common)
               p == [q EXCEPT !.grown = b]
    <2>1. q \in Request
      BY <1>2
    <2>2. req'[r] = p
      BY DEF sighup_run
    <2>3. b \in BOOLEAN
      OBVIOUS
    <2>4. p.state = q.state /\ p.made = q.made /\ p.grown = b
      BY <2>1, <2>3 DEF Request
    <2> HIDE DEF p
    <2> QED
      BY <2>2, <2>4
  <1>8. given' = given
    BY DEF sighup_run
  <1>9. ASSUME NEW r \in Requests, req'[r].state = "cgi"
        PROVE  /\ Range(given'[r]) \subseteq Range(common') \cup Own(r)'
               /\ Added(r, given[r])'
               /\ ~req'[r].grown => given'[r] = common' \o [m \in 1 .. req'[r].made |-> <<r, m>>]
    <2>1. Own(r)' = Own(r)
      BY <1>7 DEF Own
    <2>2. /\ Range(given[r]) \subseteq Range(common) \cup Own(r)
          /\ Added(r, given[r])
          /\ ~req[r].grown => given[r] = common \o [m \in 1 .. req[r].made |-> <<r, m>>]
      BY <1>7, <1>9 DEF ChildInv, ChildEnv
    <2>3. ~req'[r].grown => ~req[r].grown /\ common' = common
      BY <1>7, <1>9
    <2>4. Added(r, given[r])' <=> Added(r, given[r])
      BY <1>7, <1>8 DEF Added
    <2> QED
      BY <1>6, <1>7, <1>8, <2>1, <2>2, <2>3, <2>4
  <1> QED
    BY <1>8, <1>9 DEF ChildInv, ChildEnv

(* For any limit, any CGIEnv lines and any number of variables: a program  *)
(* gets strings of the server and of its own request only, among them      *)
(* every variable that complete_env adds, and exactly the common strings   *)
(* and the request's when the common array has not grown in between.       *)
THEOREM ChildrenCorrect == Spec => []ChildEnv
  <1>1. Init => ChildInv
    BY DEF Init, ChildInv, ChildEnv
  <1>2. EnvInv /\ ChildInv /\ [Next]_vars => ChildInv'
    <2> SUFFICES ASSUME EnvInv, ChildInv, [Next]_vars PROVE ChildInv'
      OBVIOUS
    <2>1. CASE sighup_run
      BY <2>1, SighupChild
    <2>2. ASSUME NEW r \in Requests, process_logline(r) PROVE ChildInv'
      <3> DEFINE p == [req[r] EXCEPT !.state = "options", !.index = Len(common),
                                     !.made = 0, !.grown = FALSE]
                 o == [req[r] EXCEPT !.state = "over"]
      <3>1. /\ req[r] \in Request /\ Len(common) \in 0 .. EnvMax /\ 0 \in 0 .. EnvMax
        BY <2>2, CgiEnvAssumption DEF EnvInv, TypeOK, process_logline
      <3>2. p \in Request /\ p.state = "options" /\ o \in Request /\ o.state = "over"
        BY <3>1 DEF Request
      <3>3. /\ req' = [req EXCEPT ![r] = p] \/ req' = [req EXCEPT ![r] = o]
            /\ common' = common /\ given' = given
        BY <2>2 DEF process_logline, Becomes
      <3> HIDE DEF p, o
      <3> QED
        BY <3>2, <3>3, OthersKept
    <2>3. ASSUME NEW r \in Requests, process_option_line(r) PROVE ChildInv'
      <3>1. /\ Good(r, req[r], Len(common)) /\ req[r].state = "options" /\ Len(common) \in Nat
            /\ common' = common /\ given' = given
        <4>1. Good(r, req[r], Len(common)) /\ Len(common) \in Nat
          BY DEF EnvInv, TypeOK
        <4>2. req[r].state = "options" /\ common' = common /\ given' = given
          BY <2>3 DEF process_option_line, Becomes
        <4> QED
          BY <4>1, <4>2
      <3>2. PICK q : /\ req' = [req EXCEPT ![r] = q]
                     /\ \/ \E n \in {1, 2} : LET a == add_cgi_env(r, req[r], n)
                                             IN  q = a \/ q = [a EXCEPT !.state = "over"]
                        \/ q = [req[r] EXCEPT !.state = "over"]
        BY <2>3 DEF process_option_line, Becomes
      <3>3. ASSUME NEW a, Good(r, a, Len(common)), a.state = "options"
            PROVE  /\ a \in Request /\ a.state # "cgi"
                   /\ [a EXCEPT !.state = "over"] \in Request
                   /\ [a EXCEPT !.state = "over"].state # "cgi"
        BY <3>3 DEF Good, Request
      <3>4. \A n \in {1, 2} : /\ Good(r, add_cgi_env(r, req[r], n), Len(common))
                              /\ add_cgi_env(r, req[r], n).state = "options"
        BY <3>1, AddKeepsGood
      <3>5. q \in Request /\ q.state # "cgi"
        BY <3>1, <3>2, <3>3, <3>4
      <3> QED
        BY <3>1, <3>2, <3>5, OthersKept
    <2>4. ASSUME NEW r \in Requests, init_cgi(r) PROVE ChildInv'
      <3>1. PICK n \in Standard :
              \/ /\ complete_env(r, n).made = req[r].made + n
                 /\ given' = [given EXCEPT ![r] = Environment(complete_env(r, n))]
                 /\ req' = [req EXCEPT ![r] = [complete_env(r, n) EXCEPT !.state = "cgi"]]
              \/ /\ req' = [req EXCEPT ![r] = [complete_env(r, n) EXCEPT !.state = "over"]]
                 /\ given' = given
        BY <2>4 DEF init_cgi, Becomes
      <3>2. req[r].state = "options" /\ common' = common
        BY <2>4 DEF init_cgi, Becomes
      <3>3. CASE /\ req' = [req EXCEPT ![r] = [complete_env(r, n) EXCEPT !.state = "over"]]
                 /\ given' = given
        <4> DEFINE a == complete_env(r, n)
        <4>1. n \in Nat /\ TypeOK /\ Good(r, req[r], Len(common))
          BY CgiEnvAssumption DEF EnvInv
        <4>2. a \in Request
          BY <3>2, <4>1, CompleteKeepsGood DEF Good
        <4> HIDE DEF a
        <4>3. PICK q : q = [a EXCEPT !.state = "over"]
          OBVIOUS
        <4>4. q \in Request /\ q.state # "cgi"
          BY <4>2, <4>3 DEF Request
        <4>5. req' = [req EXCEPT ![r] = q]
          BY <3>3, <4>3 DEF a
        <4> QED
          BY <3>2, <3>3, <4>4, <4>5, OthersKept
      <3> QED
        BY <3>1, <3>2, <3>3, StartKeeps
    <2>5. ASSUME NEW r \in Requests, free_request(r) PROVE ChildInv'
      <3>1. PICK q : q = sanitize_request(r)
        OBVIOUS
      <3>2. /\ req' = [req EXCEPT ![r] = q] /\ common' = common
            /\ given' = [given EXCEPT ![r] = <<>>]
        BY <2>5, <3>1 DEF free_request
      <3>3. /\ 0 \in 0 .. EnvMax
            /\ req[r].env \in [0 .. EnvMax -> String \cup {NULL, Stale}]
        BY CgiEnvAssumption DEF EnvInv, TypeOK, Request
      <3>4. q \in Request /\ q.state # "cgi"
        BY <3>1, <3>3 DEF Request, sanitize_request
      <3> QED
        BY <3>2, <3>4, OthersKept
    <2>6. CASE UNCHANGED vars
      BY <2>6 DEF vars, ChildInv, ChildEnv, Own, Added
    <2> QED
      BY <2>1, <2>2, <2>3, <2>4, <2>5, <2>6 DEF Next
  <1>3. ChildInv => ChildEnv
    BY DEF ChildInv
  <1> QED
    BY <1>1, <1>2, <1>3, EnvInvariant, PTL DEF Spec
=============================================================================
