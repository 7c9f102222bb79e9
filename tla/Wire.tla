-------------------------------- MODULE Wire --------------------------------
(***************************************************************************)
(* One request on the wire (internal/httpclient: Build, Do, the redirect   *)
(* policy, digest and NTLM; internal/auth: the OAuth 2.0 tokens;           *)
(* internal/cookiejar; internal/ui: cookies.go).                           *)
(*                                                                         *)
(* The workers that send, a send of the user and a run of a collection,    *)
(* share the session's cookie jar and its token cache.  Meanwhile the user *)
(* edits the jar and clears the tokens, and time passes.  The server       *)
(* answers what it likes: a redirect anywhere, cookies, a challenge.       *)
(*                                                                         *)
(* The variables of a request, and the scripts that set them, are those of *)
(* Scopes; the URL stands for every text of a request.  What templates are *)
(* expanded to is a constant here, which Sent.tla takes from Vars.         *)
(*                                                                         *)
(* Data: a host is the sequence of its labels, a path that of its          *)
(* segments.  A credential is whether a hop carries it; there is one       *)
(* custom header for keys, and Authorization.  The jar is a sequence in    *)
(* the order of the entries' seq; who has set a cookie stands for its      *)
(* value.  Hosts that are IP addresses, paths that end in a slash, a       *)
(* Cookie header of the user's own, several cookies in one answer, and     *)
(* more than one token endpoint are left out.                              *)
(***************************************************************************)
EXTENDS Scopes, Lists

CONSTANTS
    Senders,        \* the workers
    UI,             \* the worker of the user's send; the others are runs
    NoOne,          \* nobody holds a lock
    Labels,         \* what hosts are made of
    Urls,           \* where a request or a redirect may go: host, secure, path
    SetCookies,     \* Set-Cookie headers of servers
    Edits,          \* what the user may type into the form of a cookie
    NoDomain, NoPath, \* a Set-Cookie without the attribute
    URLOf(_, _, _), \* what a resolver makes of a URL with its parameters,
    ValuesOf(_, _), \* and of credentials: Built and ResolveValues of Vars
    MaxRequests,    \* requests of one Client.Do of net/http (10 in the code)
    Plans           \* BOUND: the requests that are sent in a behaviour, how
                    \* many of them, and how many changes the jar sees

Auths == {"key", "header", "oauth", "digest", "ntlm"}
Grants == {"client", "code"}

(* The requests: the grant is that of OAuth 2.0. *)
Requests ==
    {q \in [url : Urls, auth : Auths, grant : Grants, follow : BOOLEAN] :
        q.auth # "oauth" => q.grant = "client"}

User == <<>>        \* the setter of a cookie that the user has typed in

(* A cookie of the jar, and a plan, have these fields. *)
CookieFields == {"name", "domain", "hostOnly", "path", "secure", "life", "by"}
PlanFields == {"requests", "sends", "edits", "text", "params", "credentials", "scripted", "scopes"}

(* The attribute of a domain is not blank. *)
ASSUME WireAssumption ==
    /\ UI \in Senders /\ NoOne \notin Senders
    /\ MaxRequests \in Nat \ {0}
    /\ \A u \in Urls : u.host \in Seq(Labels)
    /\ \A c \in SetCookies : c.domain = NoDomain \/ c.domain \in Seq(Labels) \ {<<>>}
    /\ \A c \in Edits : DOMAIN c = CookieFields /\ c.by = User
    /\ \A p \in Plans :
        /\ DOMAIN p = PlanFields
        /\ p.requests \subseteq Requests /\ p.sends \in Nat /\ p.edits \in Nat

VARIABLES
    ex,         \* what each worker is at
    jar,        \* the cookie jar
    editing,    \* the cookie in the form of the cookie editor: none or one
    cache,      \* the token of each grant: none or one
    lock,       \* keyLocks
    wire,       \* the request of each worker that is on its way: none or one
    usable,     \* history: tokens fetched, less those that have become unusable
    scopes,     \* the variables, by level, as they stand in the tree
    overlay,    \* the variables that scripts have set
    plan        \* what is left of the bound

tokenVars == <<cache, lock, usable>>
jarVars == <<jar, editing>>
variables == <<scopes, overlay>>
vars == <<ex, tokenVars, jarVars, wire, variables, plan>>

-----------------------------------------------------------------------------
(* The jar. *)
Key(c) == <<c.domain, c.path, c.name>>

Dropped(j, key) == Pick(j, {i \in DOMAIN j : Key(j[i]) # key})

(* Faulty: an updated cookie goes to the end. *)
StoreFaulty(j, c) == Append(Dropped(j, Key(c)), c)

(* store keeps the place of a cookie it updates. *)
Store(j, c) ==
    IF \E i \in DOMAIN j : Key(j[i]) = Key(c)
    THEN [i \in DOMAIN j |-> IF Key(j[i]) = Key(c) THEN c ELSE j[i]]
    ELSE Append(j, c)

(* liveEntries *)
Live(j) == Pick(j, {i \in DOMAIN j : j[i].life # "past"})

(* domainAttr: the scope of a cookie, or none when it is refused. *)
DomainAttr(host, attr) ==
    IF attr = NoDomain THEN {[domain |-> host, hostOnly |-> TRUE]}
    ELSE IF Len(attr) = 1
    THEN {[domain |-> d, hostOnly |-> TRUE] : d \in {attr} \cap {host}}
    ELSE IF IsSuffix(attr, host) THEN {[domain |-> attr, hostOnly |-> FALSE]} ELSE {}

DefaultPath(path) == IF Len(path) < 2 THEN <<>> ELSE Front(path)

Received(j, url, c) ==
    LET Cookie(scope) ==
            [name |-> c.name, domain |-> scope.domain, hostOnly |-> scope.hostOnly,
             path |-> IF c.path = NoPath THEN DefaultPath(url.path) ELSE c.path,
             secure |-> c.secure, life |-> c.life, by |-> url.host]
        new == {Cookie(scope) : scope \in DomainAttr(url.host, c.domain)}
    IN IF new = {} THEN j
       ELSE LET k == CHOOSE k \in new : TRUE IN
            IF c.life = "gone" THEN Dropped(j, Key(k)) ELSE Store(j, k)

(* domainMatch, pathMatch and Secure *)
Matches(c, url) ==
    /\ c.secure => url.secure
    /\ c.domain = url.host \/ (~c.hostOnly /\ IsSuffix(c.domain, url.host))
    /\ IsPrefix(c.path, url.path)

Change == plan.edits > 0 /\ plan' = [plan EXCEPT !.edits = @ - 1]

(* After an edit the dialog lists the cookies again with All, which purges. *)
Edited(j) ==
    Change /\ jar' = Live(j) /\ UNCHANGED <<ex, tokenVars, wire, variables>>

(* Set, with the add button *)
AddCookie(c) == Edited(Store(jar, c)) /\ UNCHANGED editing

(* The edit button opens the form on a cookie of the list, as it was when   *)
(* the list was read.                                                       *)
OpenCookie(i) ==
    /\ editing = {} /\ i \in DOMAIN Live(jar)
    /\ jar' = Live(jar) /\ editing' = {Live(jar)[i]}
    /\ UNCHANGED <<ex, tokenVars, wire, variables, plan>>

(* The form keeps the expiry it was opened with. *)
Form(c, old) == [c EXCEPT !.life = old.life]

(* Replace *)
ReplaceCookie(c) ==
    /\ \E old \in editing :
        LET new == Form(c, old)
            kept == IF Key(old) # Key(new) THEN Dropped(jar, Key(old)) ELSE jar
        IN Edited(Store(kept, new))
    /\ editing' = {}

RemoveCookie(i) ==
    i \in DOMAIN jar /\ Edited(Dropped(jar, Key(jar[i]))) /\ UNCHANGED editing
ClearJar == jar # <<>> /\ Edited(<<>>) /\ UNCHANGED editing

(* The time comes at which the cookies with a Max-Age or Expires expire. *)
Expire ==
    LET Past(c) == [c EXCEPT !.life = IF @ = "later" THEN "past" ELSE @] IN
    /\ \E i \in DOMAIN jar : jar[i].life = "later"
    /\ jar' = [i \in DOMAIN jar |-> Past(jar[i])]
    /\ editing' = {Past(c) : c \in editing}
    /\ UNCHANGED <<ex, tokenVars, wire, variables, plan>>

-----------------------------------------------------------------------------
(* A worker sends. *)
Idle == [pc |-> "idle", auth |-> "header", grant |-> "client", follow |-> TRUE,
         round |-> "first", origin |-> NoOne, url |-> NoOne, left |-> FALSE, requests |-> 0,
         scopes |-> NoScopes, prompts |-> NoScope, overlay |-> NoScope, text |-> <<>>,
         status |-> "ok", first |-> "none", last |-> "none", out |-> "none"]

Init ==
    /\ ex = [s \in Senders |-> Idle]
    /\ jar = <<>> /\ editing = {}
    /\ cache = [g \in Grants |-> {}] /\ lock = [g \in Grants |-> NoOne]
    /\ usable = [g \in Grants |-> 0]
    /\ wire = [s \in Senders |-> {}] /\ overlay = NoScope
    /\ \E p \in Plans : scopes \in p.scopes /\ plan = [p EXCEPT !.scopes = {}]

Goes(s, x) == ex' = [ex EXCEPT ![s] = x]
Keep == UNCHANGED <<jarVars, wire, variables, plan>>

(* What a worker takes with it when it starts.  A send folds the variables  *)
(* of the folders into those of its request; runOne, and a step of a chain, *)
(* take the request as it is in the tree.                                   *)
Captured(s) == IF s = UI THEN scopes ELSE [scopes EXCEPT !.outer = NoScope, !.inner = NoScope]

(* requestTemplateStrings: a prompt in a credential of another kind is not  *)
(* seen, nor one in the value of a variable.                                *)
Templates(auth) ==
    {plan.text} \cup {plan.params[n] : n \in DOMAIN plan.params}
        \cup (IF auth \in {"key", "header"} THEN ToSet(plan.credentials) ELSE {})
PromptsOf(auth) == UNION {PromptVars(t) : t \in Templates(auth)}

(* The user is asked for the prompts, and the send begins anew. *)
Start(s, q) ==
    /\ ex[s].pc = "idle" /\ plan.sends > 0 /\ plan' = [plan EXCEPT !.sends = @ - 1]
    /\ Goes(s, [Idle EXCEPT !.pc = IF s = UI /\ PromptsOf(q.auth) # {} THEN "ask" ELSE "script",
                            !.scopes = Captured(s), !.auth = q.auth, !.grant = q.grant,
                            !.follow = q.follow, !.origin = q.url, !.url = q.url])
    /\ UNCHANGED <<tokenVars, jarVars, wire, variables>>

(* The dialog of promptForVars *)
Ask(s) ==
    /\ ex[s].pc = "ask"
    /\ \/ Goes(s, [ex[s] EXCEPT !.pc = "idle", !.out = "cancelled"])
       \/ Goes(s, [ex[s] EXCEPT !.pc = "script", !.scopes = Captured(s),
                                !.prompts = [p \in PromptsOf(ex[s].auth) |-> <<"typed">>]])
    /\ Keep /\ UNCHANGED tokenVars

(* The pre-request script may set a variable, to the value of another too.  *)
(* Then the resolver of the request is made.                                *)
Script(s) ==
    /\ ex[s].pc = "script"
    /\ \/ UNCHANGED overlay
       \/ \E n \in plan.scripted :
            \E value \in {<<"set">>} \cup UNION {Get(ex[s].scopes.env, overlay, m) : m \in Names} :
                overlay' = (n :> value) @@ overlay
    /\ Goes(s, [ex[s] EXCEPT !.pc = "build", !.overlay = overlay'])
    /\ UNCHANGED <<tokenVars, jarVars, wire, scopes, plan>>

(* The user edits a variable meanwhile. *)
EditVariable(level, name) ==
    /\ Change /\ name \in plan.scripted
    /\ scopes' = [scopes EXCEPT ![level] = (name :> <<"new">>) @@ @]
    /\ UNCHANGED <<ex, tokenVars, jarVars, wire, overlay>>

(* Build is done: Do of net/http begins. *)
Sending(x) == [x EXCEPT !.pc = "hop", !.url = x.origin, !.left = FALSE, !.requests = 0]

(* Build, or Do of net/http, has failed.  The second request of digest and  *)
(* those of NTLM fall back to the first answer, whose drained body NTLM     *)
(* puts back.                                                               *)
GaveUp(x) ==
    CASE x.round = "first" -> [x EXCEPT !.pc = "idle", !.out = "error"]
      [] x.round = "digest" -> [x EXCEPT !.pc = "read", !.round = "first"]
      [] OTHER -> [x EXCEPT !.pc = "read", !.round = "first", !.first = "restored"]

(* What Build makes of the URL and of the credentials, with the variables   *)
(* as the worker took them.                                                 *)
Resolver(x) == SendResolver(x.scopes, x.prompts, x.overlay)
URL(x) == URLOf(Resolver(x), plan.text, plan.params)
Credentials(x) == ValuesOf(Resolver(x), plan.credentials)
Unresolved(x) == URL(x).missing \cup UNION {c.missing : c \in ToSet(Credentials(x))}
Resolved(x) == [x EXCEPT !.text = URL(x).text]

(* An unresolved variable, a bad URL, a body file that is gone. *)
BuildFails(s) ==
    /\ ex[s].pc = "build" /\ Goes(s, GaveUp(ex[s]))
    /\ Keep /\ UNCHANGED tokenVars

Builds(s) == ex[s].pc = "build" /\ Unresolved(ex[s]) = {}

Build(s) ==
    /\ Builds(s) /\ ex[s].auth # "oauth"
    /\ Goes(s, Sending(Resolved(ex[s]))) /\ Keep /\ UNCHANGED tokenVars

-----------------------------------------------------------------------------
(* The token of a request with OAuth 2.0.  A run has no browser. *)
Usable(g) == \E t \in cache[g] : t.fresh

Token(s) ==
    LET x == Resolved(ex[s]) IN
    /\ Builds(s) /\ x.auth = "oauth"
    /\ Goes(s, IF x.grant = "code" /\ s # UI THEN GaveUp(x)
               ELSE IF Usable(x.grant) THEN Sending(x)
               ELSE [x EXCEPT !.pc = "lock"])
    /\ Keep /\ UNCHANGED tokenVars

(* Faulty: the cache is not looked at again. *)
LockKeyFaulty(s) ==
    LET x == ex[s] IN
    /\ x.pc = "lock" /\ lock[x.grant] = NoOne
    /\ lock' = [lock EXCEPT ![x.grant] = s]
    /\ Goes(s, [x EXCEPT !.pc = IF x.grant = "code" /\ (\E t \in cache["code"] : t.refresh)
                                THEN "refresh" ELSE "grant"])
    /\ Keep /\ UNCHANGED <<cache, usable>>

(* LockKey, and the second look at the cache *)
LockKey(s) ==
    LET x == ex[s] IN
    /\ x.pc = "lock" /\ lock[x.grant] = NoOne
    /\ IF Usable(x.grant) THEN Goes(s, Sending(x)) /\ UNCHANGED lock
       ELSE /\ lock' = [lock EXCEPT ![x.grant] = s]
            /\ Goes(s, [x EXCEPT !.pc = IF x.grant = "code" /\ (\E t \in cache["code"] : t.refresh)
                                        THEN "refresh" ELSE "grant"])
    /\ Keep /\ UNCHANGED <<cache, usable>>

(* The endpoint has given a token, which may be dead on arrival. *)
Fetched(s, refresh) ==
    LET g == ex[s].grant IN
    /\ \E fresh \in BOOLEAN :
        /\ cache' = [cache EXCEPT ![g] = {[fresh |-> fresh, refresh |-> refresh]}]
        /\ usable' = IF fresh THEN [usable EXCEPT ![g] = @ + 1] ELSE usable
    /\ lock' = [lock EXCEPT ![g] = NoOne]
    /\ Goes(s, Sending(ex[s])) /\ Keep

(* refreshToken; without a new refresh token the old one stays. *)
Refresh(s) == ex[s].pc = "refresh" /\ Fetched(s, TRUE)
RefreshFails(s) ==
    /\ ex[s].pc = "refresh" /\ Goes(s, [ex[s] EXCEPT !.pc = "grant"])
    /\ Keep /\ UNCHANGED tokenVars

(* FetchClientCredentialsToken, or the browser and the exchange of the code *)
Grant(s) ==
    /\ ex[s].pc = "grant"
    /\ \E refresh \in BOOLEAN :
        (ex[s].grant = "client" => ~refresh) /\ Fetched(s, refresh)
GrantFails(s) ==
    /\ ex[s].pc = "grant" /\ Goes(s, GaveUp(ex[s]))
    /\ lock' = [lock EXCEPT ![ex[s].grant] = NoOne]
    /\ Keep /\ UNCHANGED <<cache, usable>>

(* The token comes within 30 seconds of its end. *)
Age(g) ==
    /\ Usable(g) /\ usable' = [usable EXCEPT ![g] = @ - 1]
    /\ cache' = [cache EXCEPT ![g] = {[t EXCEPT !.fresh = FALSE] : t \in cache[g]}]
    /\ Keep /\ UNCHANGED <<ex, lock>>

(* "Clear cached tokens" *)
ClearNamespace ==
    /\ \E g \in Grants : cache[g] # {}
    /\ cache' = [g \in Grants |-> {}]
    /\ usable' = [g \in Grants |-> usable[g] - (IF Usable(g) THEN 1 ELSE 0)]
    /\ Keep /\ UNCHANGED <<ex, lock>>

-----------------------------------------------------------------------------
(* The hops of Do of net/http. *)
Downgrade(x) == x.origin.secure /\ ~x.url.secure

(* CheckRedirect strips the key for the user's send only: the client of a   *)
(* run is not told of it.                                                   *)
CarriesKey(s, x) ==
    x.auth = "key" /\ (s = UI => x.url.host = x.origin.host /\ ~Downgrade(x))

(* Apply, and the answers to challenges: the key has a header of its own. *)
Authorizes(x) == x.auth \in {"header", "oauth"} \/ x.round # "first"

(* Faulty: a downgrade on the same host is no reason to drop it. *)
CarriesAuthorizationFaulty(x) == Authorizes(x) /\ ~x.left

(* net/http drops Authorization for good once a hop is outside the domain   *)
(* of the first; CheckRedirect drops it on a downgrade.                     *)
CarriesAuthorization(x) == Authorizes(x) /\ ~x.left /\ ~Downgrade(x)

Hop(s) ==
    LET x == ex[s] IN
    /\ x.pc = "hop"
    /\ jar' = Live(jar)
    /\ wire' = [wire EXCEPT ![s] =
           {[url |-> x.url, origin |-> x.origin,
             key |-> CarriesKey(s, x), authorization |-> CarriesAuthorization(x),
             cookies |-> {c \in ToSet(jar') : Matches(c, x.url)}]}]
    /\ Goes(s, [x EXCEPT !.pc = "sent", !.requests = @ + 1])
    /\ UNCHANGED <<tokenVars, editing, variables, plan>>

(* The cookies of an answer *)
Cookies(s) ==
    /\ wire' = [wire EXCEPT ![s] = {}]
    /\ \/ UNCHANGED <<jar, plan>>
       \/ Change /\ \E c \in SetCookies : jar' = Received(jar, ex[s].url, c)

(* Faulty: the body of the first answer of digest is left open. *)
AnsweredFaulty(x, status) ==
    IF x.round = "first" THEN [x EXCEPT !.pc = "answered", !.status = status, !.first = "open"]
    ELSE [x EXCEPT !.pc = "answered", !.status = status, !.last = "open"]

(* Do has an answer that is not followed. *)
Answered(x, status) ==
    IF x.round = "first" THEN [x EXCEPT !.pc = "answered", !.status = status, !.first = "open"]
    ELSE [x EXCEPT !.pc = "answered", !.status = status, !.last = "open",
                   !.first = IF x.round = "digest" THEN "closed" ELSE @]

Redirected(s, url) ==
    LET x == ex[s] IN
    /\ x.pc = "sent" /\ Cookies(s)
    /\ Goes(s, IF ~x.follow THEN Answered(x, "redirect")
               ELSE IF x.requests = MaxRequests THEN GaveUp(x)
               ELSE [x EXCEPT !.pc = "hop", !.url = url,
                              !.left = @ \/ ~IsSuffix(x.origin.host, url.host)])
    /\ UNCHANGED <<tokenVars, editing, variables>>

Answer(s, status) ==
    /\ ex[s].pc = "sent" /\ Cookies(s)
    /\ Goes(s, Answered(ex[s], status))
    /\ UNCHANGED <<tokenVars, editing, variables>>

(* The connection breaks, the time is up, or the user aborts. *)
DoFails(s) ==
    /\ ex[s].pc = "sent" /\ Goes(s, GaveUp(ex[s]))
    /\ wire' = [wire EXCEPT ![s] = {}]
    /\ UNCHANGED <<tokenVars, jarVars, variables, plan>>

-----------------------------------------------------------------------------
(* What Do makes of the answer. *)

(* A challenge of digest: the request is built and sent once more.  A       *)
(* challenge of NTLM: the body is drained, and two more requests follow.    *)
Challenged(s) ==
    LET x == ex[s] IN
    /\ x.pc = "answered"
    /\ \/ /\ x.round = "first" /\ x.auth = "digest" /\ x.status = "401"
          /\ Goes(s, [x EXCEPT !.pc = "build", !.round = "digest"])
       \/ /\ x.round = "first" /\ x.auth = "ntlm" /\ x.status = "401"
          /\ Goes(s, [x EXCEPT !.pc = "build", !.round = "negotiate", !.first = "drained"])
       \/ /\ x.round = "negotiate"
          /\ Goes(s, [x EXCEPT !.pc = "build", !.round = "authenticate", !.last = "closed"])
    /\ Keep /\ UNCHANGED tokenVars

(* No challenge, or not one that can be answered: this is the response, but *)
(* that of NEGOTIATE is dropped for the first.                              *)
NotChallenged(s) ==
    LET x == ex[s] IN
    /\ x.pc = "answered"
    /\ Goes(s, IF x.round = "negotiate" THEN GaveUp([x EXCEPT !.last = "closed"])
               ELSE [x EXCEPT !.pc = "read"])
    /\ Keep /\ UNCHANGED tokenVars

(* readCapped, which the connection may break off, and the deferred Close *)
Read(s) ==
    LET x == ex[s]
        body == IF x.round = "first" THEN x.first ELSE x.last
    IN /\ x.pc = "read"
       /\ \E out \in {"error", IF body \in {"open", "restored"} THEN "read" ELSE "unreadable"} :
            Goes(s, IF x.round = "first"
                    THEN [x EXCEPT !.pc = "idle", !.out = out, !.first = "closed"]
                    ELSE [x EXCEPT !.pc = "idle", !.out = out, !.last = "closed"])
       /\ Keep /\ UNCHANGED tokenVars

JarStep ==
    \/ \E c \in Edits : AddCookie(c) \/ ReplaceCookie(c)
    \/ \E i \in DOMAIN jar : OpenCookie(i) \/ RemoveCookie(i)
    \/ ClearJar \/ Expire

Next ==
    \/ \E level \in Levels, name \in Names : EditVariable(level, name)
    \/ JarStep \/ ClearNamespace \/ \E g \in Grants : Age(g)
    \/ \E s \in Senders :
        \/ \E q \in plan.requests : Start(s, q)
        \/ Ask(s) \/ Script(s) \/ Build(s) \/ BuildFails(s)
        \/ Token(s) \/ LockKey(s) \/ Refresh(s) \/ RefreshFails(s) \/ Grant(s) \/ GrantFails(s)
        \/ Hop(s) \/ DoFails(s)
        \/ \E url \in Urls : Redirected(s, url)
        \/ \E status \in {"ok", "401"} : Answer(s, status)
        \/ Challenged(s) \/ NotChallenged(s) \/ Read(s)

Spec == Init /\ [][Next]_vars

-----------------------------------------------------------------------------
(* No hop carries what is not for it: the key of the user's send goes to    *)
(* the host it was meant for, Authorization to its domain, neither over     *)
(* http after https; a cookie goes to the host that has set it, or within   *)
(* the domain of two labels or more that the host has named.                *)
Related(h1, h2) ==
    h1 = h2 \/ \E d \in {SubSeq(h1, n, Len(h1)) : n \in 1 .. Len(h1)} :
                   Len(d) > 1 /\ IsSuffix(d, h2)
NothingGoesAstray ==
    \A s \in Senders : \A hop \in wire[s] :
        /\ hop.key /\ s = UI => hop.url.host = hop.origin.host /\ ~Downgrade(hop)
        /\ hop.authorization => IsSuffix(hop.origin.host, hop.url.host) /\ ~Downgrade(hop)
        /\ \A c \in hop.cookies :
            /\ c.by = User \/ Related(c.by, hop.url.host)
            /\ c.hostOnly => c.domain = hop.url.host
            /\ c.life # "past" /\ (c.secure => hop.url.secure)

(* An update of a cookie, an edit of it included, does not move it among    *)
(* the others (the order in which they are sent).                           *)
CookiesKeepPlace ==
    [][\A i, j \in DOMAIN jar, k, l \in DOMAIN jar' :
        i < j /\ Key(jar[i]) = Key(jar'[k]) /\ Key(jar[j]) = Key(jar'[l]) => k < l]_jar

(* "The same key is fetched once even under concurrent Token calls": there  *)
(* is never more than one token fetched that is still of use; and a worker  *)
(* holds the lock while it fetches and gives it back on every way out.      *)
Fetching(s, g) == ex[s].pc \in {"refresh", "grant"} /\ ex[s].grant = g
OneFetchPerToken ==
    /\ \A g \in Grants : usable[g] <= 1
    /\ \A g \in Grants, s \in Senders : lock[g] = s <=> Fetching(s, g)

(* The body of the response is there to be read, also when a handshake has  *)
(* failed half-way; every other body is closed, and that of an answer of    *)
(* NTLM before the next request, which has to use its connection.           *)
BodiesBalanced ==
    \A s \in Senders :
        /\ ex[s].out # "unreadable"
        /\ ex[s].pc = "idle" => ex[s].first # "open" /\ ex[s].last # "open"
        /\ ex[s].pc = "hop" /\ ex[s].auth = "ntlm" => ex[s].first # "open" /\ ex[s].last # "open"
=============================================================================
