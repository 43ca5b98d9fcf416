------------------------------- MODULE CgiEnv -------------------------------
(***************************************************************************)
(* The environment of CGI programs (cgi.c).  The server keeps an array of  *)
(* strings that all programs get; it grows with every CGIEnv line that is  *)
(* read, again at each SIGHUP.  A request collects its own strings in      *)
(* cgi_env from the place on where the common ones end when its request    *)
(* line is read (request.c:777); complete_env copies the common ones in    *)
(* front of them and free_request frees what lies behind them, both by the *)
(* length that the common array has at that time.                          *)
(*                                                                         *)
(* A string is identified by who made it: <<"common", n>> is the n-th of   *)
(* the server, <<r, n>> the n-th that request r made since its request     *)
(* line.                                                                   *)
(***************************************************************************)
EXTENDS Integers, Sequences, FiniteSetsExt, Functions

CONSTANTS
    Requests,       \* the request structures
    EnvMax,         \* CGI_ENV_MAX
    CommonCount,    \* COMMON_CGI_COUNT
    CgiEnvLines,    \* how many CGIEnv lines a configuration can have
    Standard        \* how many variables complete_env can add

ASSUME CgiEnvAssumption ==
    /\ CommonCount \in 1 .. EnvMax /\ EnvMax \in Nat
    /\ CgiEnvLines \subseteq Nat /\ Standard \subseteq Nat \ {0}

VARIABLES
    common,     \* common_cgi_env, without its terminator
    running,    \* add_to_common_env has not ended the server
    req,        \* cgi_env, cgi_env_index and what happens to each request
    given,      \* the environments of the programs that were started
    wild,       \* history: strings that a request freed but did not own
    leaking     \* history: requests that left strings allocated

vars == <<common, running, req, given, wild, leaking>>

NULL == <<"NULL", 0>>
Stale == <<"stale", 0>>
String == {"common"} \X (1 .. EnvMax + 1) \cup Requests \X (1 .. EnvMax)

(* made counts the strings of a request; grown says, for the properties,   *)
(* that the common array has changed since the request line.               *)
Request == [state : {"read", "options", "cgi", "over"}, index : 0 .. EnvMax,
            made : 0 .. EnvMax, grown : BOOLEAN,
            env : [0 .. EnvMax -> String \cup {NULL, Stale}]]

TypeOK ==
    /\ common \in Seq({"common"} \X (1 .. EnvMax + 1)) /\ running \in BOOLEAN
    /\ Len(common) >= CommonCount
    /\ running => Len(common) <= EnvMax
    /\ req \in [Requests -> Request]

(* The first CGIEnv lines were read before create_common_env made a new    *)
(* array: they are not in it.  cgi_env is not cleared.                     *)
create_common_env == [n \in 1 .. CommonCount |-> <<"common", n>>]

Init ==
    /\ common = create_common_env /\ running = TRUE
    /\ req = [r \in Requests |-> [state |-> "read", index |-> 0, made |-> 0, grown |-> FALSE,
                                  env |-> [i \in 0 .. EnvMax |-> Stale]]]
    /\ given = [r \in Requests |-> <<>>] /\ wild = {} /\ leaking = {}
-----------------------------------------------------------------------------
(* The server's strings *)

(* n strings more; the one that exceeds the limit is the last.             *)
add_to_common_env(strings, n) ==
    strings \o [k \in 1 .. (IF Len(strings) + n <= EnvMax THEN n ELSE EnvMax + 1 - Len(strings))
                 |-> <<"common", Len(strings) + k>>]

(* SIGHUP builds the common array anew.                                    *)
sighup_runRebuilds ==
    /\ running
    /\ \E n \in CgiEnvLines : common' = add_to_common_env(create_common_env, n)
    /\ running' = (Len(common') <= EnvMax)
    /\ req' = [r \in Requests |->
                 [req[r] EXCEPT !.grown = @ \/ (req[r].state # "read" /\ common' # common)]]
    /\ UNCHANGED <<given, wild, leaking>>

(* SIGHUP reads the CGIEnv lines again and appends them; one string too    *)
(* many ends the server.                                                   *)
sighup_run ==
    /\ running
    /\ \E n \in CgiEnvLines : common' = add_to_common_env(common, n)
    /\ running' = (Len(common') <= EnvMax)
    /\ req' = [r \in Requests |->
                 [req[r] EXCEPT !.grown = @ \/ (req[r].state # "read" /\ common' # common)]]
    /\ UNCHANGED <<given, wild, leaking>>
-----------------------------------------------------------------------------
(* A request *)

(* How many strings add_cgi_env still takes.                               *)
Room(q) == EnvMax - q.index

(* add_cgi_env, n times or until there is no room.                         *)
add_cgi_env(r, q, n) ==
    LET k == IF n <= Room(q) THEN n ELSE Room(q)
    IN  [q EXCEPT !.index = @ + k, !.made = @ + k,
                  !.env = [i \in DOMAIN q.env |->
                             IF i \in q.index .. q.index + k - 1
                             THEN <<r, q.made + 1 + i - q.index>> ELSE q.env[i]]]

Becomes(r, q) == req' = [req EXCEPT ![r] = q] /\ UNCHANGED <<common, running, wild, leaking>>

(* The request line: the place of the first own string is set at its end,  *)
(* unless the line is refused.                                             *)
process_logline(r) ==
    /\ running /\ req[r].state = "read"
    /\ \/ Becomes(r, [req[r] EXCEPT !.state = "options", !.index = Len(common),
                                    !.made = 0, !.grown = FALSE])
       \/ Becomes(r, [req[r] EXCEPT !.state = "over"])
    /\ UNCHANGED given

(* A header line: one string, two for Referer, none for those that are     *)
(* kept in the request.  A line that is refused, or that no room is left   *)
(* for, ends the request.                                                  *)
process_option_line(r) ==
    /\ running /\ req[r].state = "options"
    /\ \/ \E n \in {1, 2} :
             LET q == add_cgi_env(r, req[r], n)
             IN  Becomes(r, IF q.made = req[r].made + n THEN q ELSE [q EXCEPT !.state = "over"])
       \/ Becomes(r, [req[r] EXCEPT !.state = "over"])
    /\ UNCHANGED given

(* The last of the common strings is not copied.                           *)
complete_envShort(r, n) ==
    LET q == add_cgi_env(r, req[r], n)
    IN  [q EXCEPT !.env = [i \in DOMAIN q.env |->
                             IF i = q.index THEN NULL
                             ELSE IF i < Len(common) - 1 THEN common[i + 1] ELSE q.env[i]]]

(* The common strings are copied in, up to where they end now; then the    *)
(* request's variables are added and the array is terminated.              *)
complete_env(r, n) ==
    LET copied == [i \in DOMAIN req[r].env |->
                     IF i < Len(common) THEN common[i + 1] ELSE req[r].env[i]]
        q == add_cgi_env(r, [req[r] EXCEPT !.env = copied], n)
    IN  [q EXCEPT !.env[q.index] = NULL]

(* The strings up to the terminator are what the program gets.             *)
Environment(q) ==
    LET stop == Min({i \in DOMAIN q.env : q.env[i] = NULL})
    IN  [i \in 1 .. stop |-> q.env[i - 1]]

(* The program is started, or the variables, the pipe or the process are   *)
(* refused; only a program that is read from a pipe keeps the request.     *)
init_cgi(r) ==
    /\ running /\ req[r].state = "options"
    /\ \E n \in Standard :
          LET q == complete_env(r, n)
              whole == q.made = req[r].made + n
          IN  \/ /\ whole
                 /\ given' = [given EXCEPT ![r] = Environment(q)]
                 /\ Becomes(r, [q EXCEPT !.state = "cgi"])
              \/ /\ Becomes(r, [q EXCEPT !.state = "over"])
                 /\ UNCHANGED given

Own(r) == {<<r, n>> : n \in 1 .. req[r].made}

(* The last string is forgotten.                                           *)
FreedButLast(r) ==
    {req[r].env[i] : i \in Len(common) .. req[r].index - 2} \ {NULL}

Freed(r) == {req[r].env[i] : i \in Len(common) .. req[r].index - 1} \ {NULL}

(* cgi_env is not cleared: the strings that were freed are still in it.    *)
sanitize_request(r) ==
    [state |-> "read", index |-> 0, made |-> 0, grown |-> FALSE,
     env |-> [i \in 0 .. EnvMax |->
                IF req[r].env[i] \in Own(r) THEN Stale ELSE req[r].env[i]]]

(* The end of a request, at any time; its structure is used again.         *)
free_request(r) ==
    /\ running
    /\ wild' = wild \cup (Freed(r) \ Own(r))
    /\ leaking' = IF Own(r) \subseteq Freed(r) \/ req[r].grown THEN leaking
                  ELSE leaking \cup {r}
    /\ req' = [req EXCEPT ![r] = sanitize_request(r)]
    /\ given' = [given EXCEPT ![r] = <<>>]
    /\ UNCHANGED <<common, running>>

Next ==
    \/ sighup_run
    \/ \E r \in Requests :
          \/ process_logline(r) \/ process_option_line(r) \/ init_cgi(r) \/ free_request(r)

Spec == Init /\ [][Next]_vars
-----------------------------------------------------------------------------
(* free_request frees strings that its own request made: never one of the  *)
(* server, which other requests still use, and never what an earlier       *)
(* request left in the array, whatever SIGHUP does to the boundary between *)
(* them.                                                                   *)
OwnFreed == wild = {}

(* A request during which the common array does not grow frees each of its *)
(* strings, on every way out of it.                                        *)
NoStringLost == leaking = {}

(* The last strings of a request, as many as complete_env adds.            *)
Added(r, g) == \E n \in Standard :
                  \A m \in req[r].made - n + 1 .. req[r].made : <<r, m>> \in Range(g)

(* A program gets strings that are in use and every variable that          *)
(* complete_env adds, also when SIGHUP moved the boundary in between; and  *)
(* when it did not, the common strings and the request's in full.  Where   *)
(* it did, those of the header lines may be missing: the common ones are   *)
(* copied over them.                                                       *)
ChildEnv ==
    \A r \in Requests :
       LET q == req[r]
       IN  q.state = "cgi" =>
             /\ Range(given[r]) \subseteq Range(common) \cup Own(r)
             /\ Added(r, given[r])
             /\ ~q.grown => given[r] = common \o [n \in 1 .. q.made |-> <<r, n>>]
-----------------------------------------------------------------------------
(* cgi.c calls more than 90 common variables hard to believe: the limit of *)
(* add_to_common_env is not reached by configurations with few lines.      *)
LimitNotReached == running
=============================================================================
