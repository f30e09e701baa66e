---------------------------- MODULE MCHttpServer ----------------------------
(* An instance of HttpServer for TLC: six request lines, two of them good; *)
(* with no, one or two headers, with blanks and colons in them.            *)
EXTENDS HttpServer, TLC

Line1(method, query, minor) ==
    [method |-> method, path |-> <<"/path">>, query |-> query, minor |-> minor]
RequestLines ==
    {Line1("GET", <<>>, "1"), Line1("POST", <<"?", "a", "?">>, "0"),
     Line1("GET", <<"?">>, "2"), Line1("PATCH", <<>>, "1"), Line1("none", <<>>, "1"),
     Line1("GET", <<"?">>, "none")}

Header(field, before, value, after) ==
    [field |-> field, before |-> before, value |-> value, after |-> after]
Close == Header(<<"Connection">>, <<"SP">>, <<"close">>, <<>>)
KeepAlive == Header(<<"Connection">>, <<>>, <<"Keep-Alive">>, <<"SP", "SP">>)
Other == Header(<<"Host", "SP">>, <<"SP">>, <<"name", ":", "SP", "port">>, <<>>)
HeaderLists == {<<>>, <<Close>>, <<KeepAlive>>, <<Other>>, <<Close, KeepAlive>>}

SomeRequests == {[headers |-> h] @@ l : h \in HeaderLists, l \in RequestLines}
KnownMethods == {"GET", "POST", "HEAD", "PUT", "DELETE"}
SomeTokens ==
    KnownMethods \cup
        {"PATCH", "SP", "/path", "?", "a", "HTTP/1.", "0", "1", "2", "Connection", "close",
         "Keep-Alive", "Host", ":", "name", "port"}
=============================================================================
