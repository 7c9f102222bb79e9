------------------------------- MODULE MCWire -------------------------------
(* Four URLs (a host over https and http, a host in its domain, a host      *)
(* outside it), a cookie for a domain, one for all of "com", one of the     *)
(* host that expires, and its deletion.                                     *)
EXTENDS Sent

Url(host, secure) == [host |-> host, secure |-> secure, path |-> <<"p">>]
Header(domain, secure, life) ==
    [name |-> "n", domain |-> domain, path |-> NoPath, secure |-> secure, life |-> life]
Typed(domain) ==
    [name |-> "n", domain |-> domain, hostOnly |-> TRUE, path |-> <<>>, secure |-> FALSE,
     life |-> "session", by |-> User]

Home == <<"ex", "com">>
Sub == <<"s", "ex", "com">>
Other == <<"o", "com">>
MCUrls == {Url(Home, TRUE), Url(Home, FALSE), Url(Sub, TRUE), Url(Other, TRUE)}
MCSetCookies == {Header(Home, TRUE, "session"), Header(<<"com">>, FALSE, "session"),
                 Header(NoDomain, FALSE, "later"), Header(NoDomain, FALSE, "gone")}

MCEdits == {Typed(Home), Typed(Sub)}

(* The variables a, b and c of one environment in every way of naming each  *)
(* other, or a at every choice of levels.                                   *)
Values2 == {<<"x">>} \cup {<<n>> : n \in {"a", "b", "c"}} \cup {<<n, m>> : n, m \in {"a", "b", "c"}}
Some(f) == [n \in {n \in DOMAIN f : f[n] # <<>>} |-> f[n]]
Graphs == {[NoScopes EXCEPT !.env = Some(f)] : f \in [{"a", "b", "c"} -> Values2 \cup {<<>>}]}
Layered == {[l \in Levels |-> IF l \in held THEN "a" :> <<l>> ELSE NoScope] : held \in SUBSET Levels}
Prompted == {[NoScopes EXCEPT !.collection = "a" :> <<"?p", "$d", "chain.c", "{k}">>]}

MCDynamic == "$d" :> <<"now">>

(* One step of a chain, with an alias; the document it was answered with    *)
(* has a text in an object, which is no value itself, and an empty one.     *)
Leaf(text) == [leaf |-> TRUE, text |-> text]
MCViews ==
    "s" :> [request |-> "method" :> <<"get">>,
            response |->
                [plain |-> "status" :> <<"200">>, headers |-> "h" :> <<"x">>,
                 json |-> [leaf |-> FALSE, at |->
                    "o" :> [leaf |-> FALSE, at |-> "0" :> Leaf(<<"a", "y">>)] @@ "e" :> Leaf(<<>>)]]]
Step(alias, path) == [alias |-> alias, path |-> path]
MCChainNames ==
    "chain.c" :> Step("s", <<"response", "json", "o", "0">>)
    @@ "chain.o" :> Step("s", <<"response", "json", "o">>)
    @@ "chain.e" :> Step("s", <<"response", "json", "e">>)
    @@ "chain.s" :> Step("s", <<"response", "status", "code">>)
    @@ "chain.h" :> Step("s", <<"response", "headers", "i">>)
    @@ "chain.m" :> Step("s", <<"request", "method">>)
    @@ "chain.t" :> Step("t", <<"request", "method">>)
(* The parameter of a path is what the chain has brought. *)
Stepped ==
    {[NoScopes EXCEPT ![l] = "a" :> <<n>>] : l \in {"collection", "outer"}, n \in DOMAIN MCChainNames}

MCChained ==
    "chain.c" :> <<"a", "y">> @@ "chain.e" :> <<>> @@ "chain.s" :> <<"200">>
    @@ "chain.m" :> <<"get">>

(* Cookies: a request and three changes of the jar.  Hops: one request of  *)
(* any kind, and a cookie.  Tokens: three requests with OAuth 2.0.  The     *)
(* others are about variables.                                              *)
To(url, auth, grant) == [url |-> url, auth |-> auth, grant |-> grant, follow |-> TRUE]
Plan(requests, sends, edits) ==
    [requests |-> requests, sends |-> sends, edits |-> edits, text |-> <<>>, params |-> NoScope,
     credentials |-> <<>>, scripted |-> {}, scopes |-> {NoScopes}]
Plain(auth) == To(Url(Home, TRUE), auth, "client")
MCPlans ==
    {Plan({Plain("header")}, 1, 3),
     Plan({q \in Requests : q.auth # "oauth" /\ q.url.host # Other}, 1, 0),
     Plan({To(Url(Home, FALSE), "oauth", g) : g \in Grants}, 3, 0),
     [Plan({Plain("key")}, 1, 0) EXCEPT !.text = <<"a", "b", "c">>, !.scopes = Graphs],
     [Plan({Plain("key")}, 1, 1) EXCEPT !.text = <<"a", "{k}">>, !.params = "{k}" :> <<"b", "a">>,
        !.scripted = {"b"}, !.scopes = Layered],
     [Plan({Plain("digest")}, 1, 1) EXCEPT !.text = <<"{k}", "a">>, !.params = "{k}" :> <<"a", "?p">>,
        !.scripted = {"a"}, !.scopes = Prompted],
     [Plan({Plain("digest"), Plain("key")}, 1, 1) EXCEPT !.text = <<"chain.m", "{k}">>,
        !.params = "{k}" :> <<"a">>, !.credentials = <<<<"?q">>, <<"chain.s", "chain.c">>>>,
        !.scripted = {"a"}, !.scopes = Stepped]}
=============================================================================
