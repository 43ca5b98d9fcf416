----------------------------- MODULE Translate ------------------------------
(***************************************************************************)
(* From a request's URI to what is served: the hash tables that the        *)
(* configuration fills (alias.c, hash.c), SIGHUP, which empties and        *)
(* refills them (signals.c), and the way of a URI through                  *)
(* process_header_end, translate_uri and init_script_alias (request.c,     *)
(* alias.c).                                                               *)
(*                                                                         *)
(* Paths are sequences of characters behind a root, which is one           *)
(* character more: a name of the configuration, a home directory, or       *)
(* "vhost/" for the root of a virtual host with its slashes.               *)
(***************************************************************************)
EXTENDS Uri
Seqs == INSTANCE SequencesExt

CONSTANTS
    Configs,         \* configurations: their alias lines, AddType lines and options
    AliasSize,       \* ALIAS_HASHTABLE_SIZE
    HashSize,        \* MIME_HASHTABLE_SIZE, PASSWD_HASHTABLE_SIZE
    Code(_),         \* the number of a character
    boa_hash(_),     \* the hash of a key
    MaxPath,         \* MAX_HEADER_LENGTH
    Users, Homes,    \* the password database
    Asked,           \* what clients ask for: URI, host, method, HTTP/0.9 or not
    Dirs, Scripts,   \* the directories, and the executable files, of the disk
    Plain            \* its other files

NoHome == <<>>
Option == {"user_dir", "vhost_root", "document_root", "virtualhost", "use_caudium_hack"}

ASSUME TranslateAssumption ==
    /\ {AliasSize, HashSize} \subseteq Nat \ {0} /\ MaxPath \in Nat
    /\ \A c \in Configs :
          /\ c.options \subseteq Option
          /\ c.alias \in Seq([fake : Seq(Text) \ {<<>>}, real : Seq(Text) \ {<<>>},
                              type : {"ALIAS", "REDIRECT", "SCRIPTALIAS"}])
          /\ c.mime \in Seq([key : Seq(Char), value : STRING])
    /\ Users \subseteq Seq(Char) /\ Homes \subseteq Seq(Char) /\ NoHome \notin Homes
    /\ \A q \in Asked : q.raw \in Seq(Char) /\ q.host \in Seq(Char)
    /\ "vhost/" \in Char
    /\ Scripts \subseteq Seq(Char) /\ Scripts \cap Dirs = {} /\ Plain \cap (Dirs \cup Scripts) = {}
    /\ \A p \in Scripts : \A n \in 1 .. Len(p) - 1 : p[n + 1] = "/" => SubSeq(p, 1, n) \in Dirs

VARIABLES
    config,     \* the configuration that was read last
    options,    \* the options in force: nothing but another reading sets them
    running,    \* the server has not exited
    aliases,    \* alias_hashtable: its entries in the order in which they were added;
                \* a chain is those with the same hash
    mimes,      \* mime_hashtable, likewise
    homes,      \* passwd_hashtable, likewise
    pathname,   \* the static buffer of init_script_alias
    passwd,     \* external: the password database
    held,       \* history: the homes that users had since the last reading
    ans         \* the request being translated, and the answer

tables == <<config, options, running, aliases, mimes, homes>>
transVars == <<tables, pathname, passwd, held, ans>>

NoRequest == [out |-> "none"]

Outcome == {"bad", "not_found", "forbidden", "moved", "file", "cgi", "nph"}

TransTypeOK ==
    /\ config \in Configs /\ options \subseteq Option /\ running \in BOOLEAN
    /\ aliases \in Seq(Elems(config.alias)) /\ mimes \in Seq(Elems(config.mime))
    /\ homes \in Seq([key : Users, value : Homes])
    /\ pathname \in [1 .. MaxPath + 1 -> Char]
    /\ passwd \in [Users -> Homes \cup {NoHome}]
    /\ ans.out \in Outcome \cup {"none"}

Has(option) == option \in options

(* The options that read_config_files does not accept together.            *)
Conflict(o) == "vhost_root" \in o /\ o \cap {"virtualhost", "document_root"} # {}
-----------------------------------------------------------------------------
(* The tables *)

Empty == <<>>

(* The sum of characters, in the size of the table.                        *)
Slot(part) == Seqs!FoldLeft(LAMBDA n, x : n + Code(x), 0, part) % AliasSize

(* The hash of the whole name.                                             *)
get_alias_hash_valueAll(s) == Slot(s)

(* The first part of a name, up to the second slash.                       *)
FirstPart(s) ==
    LET n == FirstOf({i \in 2 .. Len(s) : s[i] = "/"})
    IN  IF n = 0 THEN s ELSE SubSeq(s, 1, n - 1)

get_alias_hash_value(s) == Slot(FirstPart(s))

(* add_alias looks for the name in every entry of the chain but the last.  *)
add_alias(table, d) ==
    LET chain == {i \in DOMAIN table :
                    get_alias_hash_value(table[i].fake) = get_alias_hash_value(d.fake)}
    IN  IF \E i, j \in chain : i < j /\ table[i].fake = d.fake THEN table ELSE Append(table, d)

(* hash_find and hash_insert: the first entry of a key is the only one.    *)
hash_find(table, key) ==
    LET n == FirstOf({i \in DOMAIN table : /\ boa_hash(table[i].key) % HashSize
                                               = boa_hash(key) % HashSize
                                           /\ table[i].key = key})
    IN  IF n = 0 THEN <<>> ELSE <<table[n]>>

hash_insert(table, e) == IF hash_find(table, e.key) # <<>> THEN table ELSE Append(table, e)

add_mime_type(table, m) == hash_insert(table, m)

(* get_mime_type looks for what follows the last dot of the name.          *)
get_mime_type(path) ==
    LET n == Seqs!SelectLastInSeq(path, LAMBDA x : x = ".")
        found == hash_find(mimes, SubSeq(path, n + 1, Len(path)))
    IN  IF n \in {0, Len(path)} \/ found = <<>> THEN "default" ELSE found[1].value

(* get_home_dir: the cached home, or the one of the database.              *)
Home(user) ==
    LET found == hash_find(homes, user)
    IN  IF found # <<>> THEN found[1].value
        ELSE IF user \in Users THEN passwd[user] ELSE NoHome

get_home_dir(user) ==
    homes' = IF Home(user) = NoHome THEN homes
             ELSE hash_insert(homes, [key |-> user, value |-> Home(user)])

(* The lines of a configuration go into the tables in their order; those   *)
(* of a MimeTypes file count as AddType lines.                             *)
c_add_alias(lines) ==
    LET table[i \in 0 .. Len(lines)] ==
            IF i = 0 THEN Empty ELSE add_alias(table[i - 1], lines[i])
    IN  table[Len(lines)]

c_add_mime_types(lines) ==
    LET table[i \in 0 .. Len(lines)] ==
            IF i = 0 THEN Empty ELSE add_mime_type(table[i - 1], lines[i])
    IN  table[Len(lines)]

(* An option that an earlier configuration set stays set.                  *)
c_set(c) == options \cup c.options

(* Options that exclude each other end the server.                         *)
read_config_files(c) ==
    /\ config' = c
    /\ options' = c_set(c)
    /\ running' = ~Conflict(options')
    /\ aliases' = c_add_alias(c.alias)
    /\ mimes' = c_add_mime_types(c.mime)

(* SIGHUP that keeps the homes.                                            *)
sighup_runKeepsHomes ==
    /\ running /\ ans = NoRequest
    /\ \E c \in Configs : read_config_files(c)
    /\ held' = {<<u, passwd[u]>> : u \in Users}
    /\ UNCHANGED <<homes, pathname, passwd, ans>>

(* SIGHUP, between two requests: the tables are emptied and the            *)
(* configuration is read again.                                            *)
sighup_run ==
    /\ running /\ ans = NoRequest
    /\ homes' = Empty
    /\ \E c \in Configs : read_config_files(c)
    /\ held' = {<<u, passwd[u]>> : u \in Users}
    /\ UNCHANGED <<pathname, passwd, ans>>

TransInit ==
    /\ config \in Configs /\ options = config.options
    /\ running = TRUE /\ ~Conflict(options)
    /\ aliases = c_add_alias(config.alias)
    /\ mimes = c_add_mime_types(config.mime)
    /\ homes = Empty
    /\ pathname = [i \in 1 .. MaxPath + 1 |-> "NUL"]
    /\ passwd \in [Users -> Homes \cup {NoHome}]
    /\ held = {<<u, passwd[u]>> : u \in Users} /\ ans = NoRequest
-----------------------------------------------------------------------------
(* The way of a request *)

(* memcmp of the fake name with the beginning of the URI.                  *)
BeginsWith(uri, d) == Len(d.fake) <= Len(uri) /\ \A i \in DOMAIN d.fake : uri[i] = d.fake[i]

(* The name matches the beginning of the URI, up to a slash or to its end. *)
Matches(d, uri) ==
    /\ BeginsWith(uri, d)
    /\ d.fake[Len(d.fake)] = "/" \/ At(uri, Len(d.fake) + 1) \in {"NUL", "/"}

(* The places of the entries in the chain of a URI.                        *)
ChainOf(uri) ==
    {i \in DOMAIN aliases : get_alias_hash_value(aliases[i].fake) = get_alias_hash_value(uri)}

(* The entry that find_alias returns, or none.                             *)
find_alias(uri) ==
    LET n == FirstOf({i \in ChainOf(uri) : Matches(aliases[i], uri)})
    IN  IF n = 0 THEN <<>> ELSE <<aliases[n]>>

(* The URI with the fake name replaced by the real one.                    *)
Replaced(d, uri) == d.real \o SubSeq(uri, Len(d.fake) + 1, Len(uri))

Fits(path) == Len(path) <= MaxPath

(* The answers; script, info and xlat are script_name, path_info and       *)
(* path_translated.                                                        *)
Answer(out, path) ==
    [out |-> out, path |-> path, script |-> <<>>, info |-> <<>>, xlat |-> <<>>]
Refused(out) == Answer(out, <<>>)

(* The answer a to the request q, for its URI and the alias found.         *)
Answered(a, q, uri, found) ==
    [out |-> a.out, path |-> a.path, script |-> a.script, info |-> a.info, xlat |-> a.xlat,
     q |-> q, uri |-> uri, found |-> found]

(* The user of a /~user/... URI, and what follows it.                      *)
UserOf(uri) ==
    SubSeq(uri, 3, FirstOf({i \in 3 .. Len(uri) + 1 : At(uri, i) \in {"/", "NUL"}}) - 1)
UserDir(uri) == Home(UserOf(uri)) \o <<"/", "public">>
                                  \o SubSeq(uri, Len(UserOf(uri)) + 3, Len(uri))

stat(path) == CASE path \in Dirs -> "dir" [] path \in Scripts -> "script"
                [] path \in Plain -> "plain" [] OTHER -> "none"

(* The extra path behind a script, by the first entry of its chain that it *)
(* begins with, then a user's directory, then document_root.               *)
PathTranslated(a) ==
    LET n == FirstOf({i \in ChainOf(a.info) : BeginsWith(a.info, aliases[i])})
    IN  IF n # 0
        THEN IF ~Fits(Replaced(aliases[n], a.info)) THEN Refused("bad")
             ELSE [a EXCEPT !.xlat = Replaced(aliases[n], a.info)]
        ELSE IF Has("user_dir") /\ At(a.info, 2) = "~"
        THEN IF Home(UserOf(a.info)) = NoHome THEN Refused("not_found")
             ELSE [a EXCEPT !.xlat = UserDir(a.info)]
        ELSE IF Has("document_root") THEN [a EXCEPT !.xlat = <<"root">> \o a.info]
        ELSE a

(* The path of a script in the static buffer, over that of an earlier      *)
(* request.                                                                *)
ScriptPath(d, uri) ==
    (IF Has("vhost_root") THEN <<"vhost/">> ELSE <<>>) \o Replaced(d, uri)
Filled(path) == path \o <<"NUL">> \o SubSeq(pathname, Len(path) + 2, MaxPath + 1)

(* Every slash ends the script's name.                                     *)
CutFirst(d, uri) ==
    LET buf == Filled(ScriptPath(d, uri))
    IN  FirstOf({j \in Len(d.real) + 2 .. Len(buf) : buf[j] \in {"/", "NUL"}})

(* The search for the end of the script's name: the first slash before     *)
(* which there is no directory, or the terminator.  It begins one behind   *)
(* real_len characters, with vhost_root too; when the URI is the alias     *)
(* itself that is behind the terminator, in what an earlier request left.  *)
Cut(d, uri) ==
    LET buf == Filled(ScriptPath(d, uri))
    IN  FirstOf({j \in Len(d.real) + 2 .. Len(buf) :
                   \/ buf[j] = "NUL"
                   \/ buf[j] = "/" /\ stat(CString(SubSeq(buf, 1, j - 1))) # "dir"})

(* The script's name and the extra path behind it.                         *)
Split(d, uri) ==
    LET buf == Filled(ScriptPath(d, uri))
        cut == Cut(d, uri)
    IN  IF cut = 0 \/ buf[cut] = "NUL" THEN [file |-> CString(buf), info |-> <<>>, buf |-> buf]
        ELSE [file |-> CString(SubSeq(buf, 1, cut - 1)),
              info |-> CString(SubSeq(buf, cut, Len(buf))), buf |-> [buf EXCEPT ![cut] = "NUL"]]

(* script_name is the URI without the extra path; an extra path that is    *)
(* longer than the URI leaves it alone (the terminator is put elsewhere).  *)
init_script_alias(d, uri, http09) ==
    LET path == ScriptPath(d, uri)
        type == IF http09 \/ At(path, Len(d.real) + 1) = "n" THEN "nph" ELSE "cgi"
        split == Split(d, uri)
        info == split.info
        a == [Answer(type, split.file) EXCEPT
                 !.info = info,
                 !.script = IF Len(info) > Len(uri) THEN uri
                            ELSE SubSeq(uri, 1, Len(uri) - Len(info))]
    IN  CASE ~Fits(path) -> Refused("bad")
          [] Fits(path) /\ stat(split.file) = "none" -> Refused("not_found")
          [] Fits(path) /\ stat(split.file) \in {"dir", "plain"} -> Refused("forbidden")
          [] OTHER -> IF info = <<>> THEN a ELSE PathTranslated(a)

(* What is left of translate_uri for a path that is no alias: it must fit, *)
(* and its type may make it a CGI.                                         *)
ByType(path, uri, method, http09) ==
    IF ~Fits(path) THEN Refused("bad")
    ELSE IF get_mime_type(path) = "cgi"
    THEN [Answer(IF http09 THEN "nph" ELSE "cgi", path) EXCEPT !.script = uri]
    ELSE IF method = "POST" THEN Refused("bad") ELSE Answer("file", path)

translate_uri(uri, method, http09) ==
    LET found == find_alias(uri)
        d == found[1]
    IN  IF found # <<>>
        THEN CASE d.type = "SCRIPTALIAS" -> init_script_alias(d, uri, http09)
               [] d.type # "SCRIPTALIAS" /\ ~Fits(Replaced(d, uri)) -> Refused("bad")
               [] d.type = "REDIRECT" /\ Fits(Replaced(d, uri)) ->
                     Refused(IF method = "POST" THEN "bad" ELSE "moved")
               [] d.type = "ALIAS" /\ Fits(Replaced(d, uri)) -> Answer("file", Replaced(d, uri))
        ELSE IF Has("user_dir") /\ At(uri, 2) = "~"
        THEN IF Len(uri) = 2 THEN Refused("bad")
             ELSE IF Home(UserOf(uri)) = NoHome THEN Refused("not_found")
             ELSE ByType(UserDir(uri), uri, method, http09)
        ELSE IF Has("vhost_root")
        THEN ByType(<<"vhost/">> \o <<"htdocs">> \o uri, uri, method, http09)
        ELSE IF Has("document_root")
        THEN IF Has("virtualhost") THEN ByType(<<"root/", "ip">> \o uri, uri, method, http09)
             ELSE IF ~Fits(<<"root", "/">> \o uri) THEN Refused("bad")
             ELSE ByType(<<"root">> \o uri, uri, method, http09)
        ELSE Refused("not_found")

(* The users whose home a translation looks up.                            *)
LooksUp(uri, a) ==
    LET own == Has("user_dir") /\ find_alias(uri) = <<>> /\ At(uri, 2) = "~" /\ Len(uri) > 2
        extra == Has("user_dir") /\ At(a.info, 2) = "~"
                 /\ ~\E i \in ChainOf(a.info) : BeginsWith(a.info, aliases[i])
    IN  (IF own THEN {UserOf(uri)} ELSE {}) \cup (IF extra THEN {UserOf(a.info)} ELSE {})

(* use_caudium_hack strips a first part of the form (ll), one character    *)
(* here, that something follows.                                           *)
Stripped(uri) ==
    IF Has("use_caudium_hack") /\ At(uri, 2) = "(ll)" /\ At(uri, 3) = "/" /\ Len(uri) > 3
    THEN SubSeq(uri, 3, Len(uri)) ELSE uri

(* process_header_end up to the handlers: the URI is decoded and cleaned,  *)
(* the host (without its port) checked, and the result translated.         *)
process_header_end(q) ==
    LET u == unescape_uri(q.raw)
        uri == Stripped(clean_pathname(u.uri))
        found == find_alias(uri)
        a == translate_uri(uri, q.method, q.http09)
        users == LooksUp(uri, a)
        good == u.ok /\ At(uri, 1) = "/" /\ (Has("vhost_root") => check_host(q.host))
    IN  /\ running /\ ans = NoRequest
        /\ \/ /\ ~good
              /\ ans' = Answered(Refused("bad"), q, uri, <<>>)
              /\ UNCHANGED <<homes, pathname>>
           \/ /\ good
              /\ ans' = Answered(a, q, uri, found)
              /\ IF users = {} THEN UNCHANGED homes ELSE \E v \in users : get_home_dir(v)
              /\ pathname' = IF /\ found # <<>> /\ found[1].type = "SCRIPTALIAS"
                                /\ Fits(ScriptPath(found[1], uri))
                             THEN Split(found[1], uri).buf ELSE pathname
        /\ UNCHANGED <<config, options, running, aliases, mimes, passwd, held>>

(* sanitize_request clears the fields of the answer before the next        *)
(* request is read.                                                        *)
Dispatched ==
    /\ ans # NoRequest
    /\ ans' = NoRequest
    /\ UNCHANGED <<tables, pathname, passwd, held>>

(* A user's home changes.                                                  *)
PasswdChanges ==
    /\ running /\ ans = NoRequest
    /\ \E u \in Users, h \in Homes \cup {NoHome} :
          /\ passwd' = [passwd EXCEPT ![u] = h]
          /\ held' = held \cup {<<u, h>>}
    /\ UNCHANGED <<tables, pathname, ans>>

TransNext ==
    \/ sighup_run
    \/ \E q \in Asked : process_header_end(q)
    \/ Dispatched
    \/ PasswdChanges

TransSpec == TransInit /\ [][TransNext]_transVars
-----------------------------------------------------------------------------
(* The first of the alias lines I that matches the beginning of the URI,   *)
(* or none.                                                                *)
MatchOf(I) ==
    LET n == FirstOf({i \in I : Matches(config.alias[i], ans.uri)})
    IN  IF n = 0 THEN <<>> ELSE <<config.alias[n]>>

(* The alias of a request is the first line of the configuration that      *)
(* matches the beginning of its URI, although the lines are spread over    *)
(* chains and one that is given twice may be dropped.  Nothing is said of  *)
(* an alias of /, which may be passed over: see AliasesMatch.              *)
FirstMatch ==
    ans # NoRequest /\ ans.out # "bad" =>
        LET lines == DOMAIN config.alias
        IN  ans.found \in {MatchOf(lines), MatchOf({i \in lines : config.alias[i].fake # <<"/">>})}

(* The type of a name is that of the first AddType line for its extension, *)
(* and the cached home of a user is one that the user had since the tables *)
(* were emptied; the tables hold lines of the configuration read last, and *)
(* no path outgrows the static buffer.                                     *)
TablesCurrent ==
    /\ TransTypeOK
    /\ \A key \in {m.key : m \in UNION {Elems(c.mime) : c \in Configs}} :
          LET n == FirstOf({i \in DOMAIN config.mime : config.mime[i].key = key})
          IN  hash_find(mimes, key) = IF n = 0 THEN <<>> ELSE <<config.mime[n]>>
    /\ \A u \in Users : hash_find(homes, u) # <<>> =>
          <<u, hash_find(homes, u)[1].value>> \in held

(* The URI that is translated is the decoded one without the parts in      *)
(* front of its last slash that are empty, . or .. ; none is left there,   *)
(* although leaving a part out brings others together, and the host has no *)
(* empty part.  What is behind the last slash stays as it is: a URI that   *)
(* ends in /.. is looked up with the .. at its end.                        *)
CleanPath ==
    ans.out \notin {"none", "bad"} =>
        /\ ans.uri = Stripped(Cleaned(unescape_uri(ans.q.raw).uri))
        /\ Unclean(ans.uri) = {}
        /\ Has("vhost_root") => <<>> \notin HostLabels(ans.q.host)

(* A script and its extra path make up the URI, and the name of the script *)
(* with the extra path is the path that the alias leads to, whatever       *)
(* earlier requests left in the buffer; and a script below the directory   *)
(* of the alias is not missed.  For a URI that is the alias itself the     *)
(* buffer is read behind the path; that still cannot lead to another       *)
(* script, but of the extra path nothing is said then: see OwnExtraPath.   *)
ScriptSplit ==
    ans # NoRequest /\ ans.found # <<>> =>
        LET d == ans.found[1]
            path == ScriptPath(d, ans.uri)
            scripts == {n \in Len(d.real) + 1 .. Len(path) :
                          SubSeq(path, 1, n) \in Scripts /\ At(path, n + 1) \in {"/", "NUL"}}
        IN  /\ ans.out \in {"cgi", "nph"} =>
                  IF Has("vhost_root") \/ ans.uri # d.fake
                  THEN ans.script \o ans.info = ans.uri /\ ans.path \o ans.info = path
                  ELSE ans.path = path
            /\ ans.out \in {"not_found", "forbidden"} /\ d.type = "SCRIPTALIAS" =>
                  \A n \in scripts : At(path, n + 2) = "~"
-----------------------------------------------------------------------------
(* boa.texi: Redirect, Alias and ScriptAlias match the beginning of a      *)
(* request, an alias of / included.                                        *)
AliasesMatch ==
    ans # NoRequest /\ ans.out # "bad" => ans.found = MatchOf(DOMAIN config.alias)

(* alias.c: the index points into realname/cginame/foo, to the /foo part,  *)
(* so the extra path of a request is a part of its own URI.                *)
OwnExtraPath ==
    ans.out \in {"cgi", "nph"} => Seqs!IsSuffix(ans.info, ans.uri)

(* boa.texi says that on SIGHUP all changes but those of users, log files  *)
(* and the port should take place smoothly: the options in force are those *)
(* of the configuration that was read last, and the server goes on.        *)
Reloaded == running /\ options = config.options
=============================================================================
