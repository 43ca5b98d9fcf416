---------------------------- MODULE MCTranslate -----------------------------
(* Translate with names whose hashes collide and paths around the limit. *)
EXTENDS Translate

Line(fake, real, type) == [fake |-> fake, real |-> real, type |-> type]
A1 == Line(<<"/", "a">>, <<"R">>, "ALIAS")
A2 == Line(<<"/", "a">>, <<"R", "R">>, "ALIAS")
Deep == Line(<<"/", "a", "/", "b">>, <<"R", "/", "b">>, "REDIRECT")
Bin == Line(<<"/", "b", "/">>, <<"S", "/">>, "SCRIPTALIAS")
One == Line(<<"/", "c">>, <<"S", "/", "a">>, "SCRIPTALIAS")
Root == Line(<<"/">>, <<"R">>, "ALIAS")
AliasLists == {<<A1, A2, Bin>>, <<A2, Deep, A1>>, <<Root, One, Bin>>, <<Bin, A1, Root>>}

Type(key, value) == [key |-> key, value |-> value]
MimeList == <<Type(<<"a">>, "cgi"), Type(<<"b">>, "text"), Type(<<"a">>, "text")>>
TestConfigs ==
    {[alias |-> a, mime |-> MimeList, options |-> {"user_dir", "document_root"}] :
        a \in AliasLists}
    \cup {[alias |-> <<Deep, Bin>>, mime |-> <<>>,
            options |-> {"vhost_root", "use_caudium_hack"}]}
    \cup {[alias |-> <<Bin>>, mime |-> Tail(MimeList), options |-> o] :
        o \in {{"user_dir"}, {"document_root", "virtualhost"}}}

TestChars == {"NUL", "/", ".", "%", "?", "#", "~", "a", "b", "c", "d", "e", "f", "h", "n", "u", "v",
              "x", "0", "1", "2", "-", "(ll)", "vhost/", "R", "S"}
CodeOf(x) == CASE x = "/" -> 1 [] x = "a" -> 2 [] x = "b" -> 3 [] x = "c" -> 5 [] OTHER -> 4
HashOf(key) == CHOOSE n \in 0 .. 1 : n = Len(key) % 2
DecodeOf(x, y) == CASE <<x, y>> = <<"2", "f">> -> "/" [] <<x, y>> = <<"2", "e">> -> "."
                    [] <<x, y>> = <<"0", "0">> -> "NUL" [] OTHER -> "a"

TestUris ==
    {<<"/">>, <<"/", "a">>, <<"/", "a", "b">>, <<"/", "a", "/", "b">>, <<"a">>,
     <<"/", "/", "a", "/", ".", "/", ".", ".", "/", "b">>,
     <<"/", "%", "2", "e", ".", "%", "2", "f", "/", "a">>, <<"/", "b", "/", ".", ".">>,
     <<"/", "b", "/", "n", "/", "a">>, <<"/", "b", "/", "a", "/", "~", "u", "/", "a">>,
     <<"/", "b", "/", "d", "/", "a", "/", "a", "b">>,
     <<"/", "c">>, <<"/", "c", "/", "a">>, <<"/", "b", "/", "b">>, <<"/", "b", "?", "a">>,
     <<"/", "a", "#", "b", "?", "a">>, <<"/", "~", "u", "/", ".", "a">>, <<"/", "~", "v">>,
     <<"/", "~">>, <<"/", "a", ".", "b">>, <<"/", "b", "%", "2">>,
     <<"/", "a", "%", "0", "0", "b">>, <<"/", "(ll)", "/", "a">>,
     <<"/", "a", "/", "a", "a", "a", "a", "a", "a">>}
TestUsers == {<<"u">>}
TestHomes == {<<"h">>}
OtherHosts == {<<"a", ".", "1">>, <<"a", ".">>, <<"a", ".", ".", "b">>}
Ask(raw, host, method, http09) ==
    [raw |-> raw, host |-> host, method |-> method, http09 |-> http09]
TestRequests ==
    {Ask(u, <<"a">>, "GET", FALSE) : u \in TestUris}
    \cup {Ask(<<"/", "a">>, h, "GET", FALSE) : h \in OtherHosts}
    \cup {Ask(u, <<"a">>, "POST", TRUE) :
            u \in {<<"/", "a">>, <<"/", "a", "/", "b">>, <<"/", "b", "/", "a">>, <<"/", "x", ".", "a">>}}

Under(root) == {root, root \o <<"/">>, root \o <<"/", "d">>}
TestDirs == {<<>>, <<"vhost/">>} \cup Under(<<"S">>) \cup Under(<<"vhost/", "S">>)
TestScripts == {r \o p : r \in {<<"S", "/">>, <<"vhost/", "S", "/">>},
                         p \in {<<"a">>, <<"n">>, <<"d", "/", "a">>}}
TestPlain == {<<"S", "/", "b">>}
=============================================================================
