------------------------------ MODULE WireProofs ------------------------------
(***************************************************************************)
(* Proofs about Wire: one token is fetched at a time and a lock is given   *)
(* back, bodies are closed, nothing is sent to whom it is not for, and the *)
(* cookies keep their order; whatever templates are expanded to, and for   *)
(* any number of workers, hosts, cookies and requests.                     *)
(***************************************************************************)
EXTENDS Wire, ListLemmas

-----------------------------------------------------------------------------
(* What a worker is at, and what it knows then. *)
Fields == DOMAIN Idle
Pcs == {"idle", "ask", "script", "build", "lock", "refresh", "grant", "hop", "sent", "answered",
        "read"}
Rounds == {"first", "digest", "negotiate", "authenticate"}

(* The record of a worker: only its auth leads to a second round, or to the *)
(* token cache.                                                             *)
Shaped(x) ==
    /\ DOMAIN x = Fields
    /\ x.pc \in Pcs /\ x.auth \in Auths /\ x.grant \in Grants /\ x.round \in Rounds
    /\ x.round = "digest" => x.auth = "digest"
    /\ x.round \in {"negotiate", "authenticate"} => x.auth = "ntlm"
    /\ x.pc \in {"lock", "refresh", "grant"} => x.auth = "oauth"

(* The bodies of the first answer and of the last, by round. *)
OnItsWay(x) == x.pc \in {"build", "lock", "refresh", "grant", "hop", "sent"}
Before(x) ==
    \/ x.round = "first" /\ x.first = "none" /\ x.last = "none"
    \/ x.round = "digest" /\ x.first = "open" /\ x.last = "none"
    \/ x.round \in {"negotiate", "authenticate"} /\ x.first = "drained"
        /\ x.last \in {"none", "closed"}
After(x) ==
    \/ x.round = "first" /\ x.first = "open" /\ x.last = "none"
    \/ x.round = "digest" /\ x.first = "closed" /\ x.last = "open"
    \/ x.round \in {"negotiate", "authenticate"} /\ x.first = "drained" /\ x.last = "open"
ToRead(x) ==
    \/ x.round = "first" /\ x.first \in {"open", "restored"} /\ x.last # "open"
    \/ x.round # "first" /\ x.first # "open" /\ x.last = "open"
Bodies(x) ==
    /\ x.out # "unreadable"
    /\ x.pc = "idle" => x.first # "open" /\ x.last # "open"
    /\ x.pc \in {"ask", "script"} => x.round = "first" /\ x.first = "none" /\ x.last = "none"
    /\ OnItsWay(x) => Before(x)
    /\ x.pc = "answered" => After(x)
    /\ x.pc = "read" => ToRead(x)

(* A hop outside the domain of the first has been noticed. *)
Course(x) ==
    /\ x.pc # "idle" => x.origin \in Urls
    /\ x.pc \in {"hop", "sent"} =>
        x.url \in Urls /\ (x.left \/ IsSuffix(x.origin.host, x.url.host))

Good(x) == Shaped(x) /\ Bodies(x) /\ Course(x)

-----------------------------------------------------------------------------
(* Suffixes. *)

(* Facts about a sequence read backwards.                                    *)
LEMMA ReverseProperties ==
    ASSUME NEW S, NEW s \in Seq(S)
    PROVE  /\ Reverse(s) \in Seq(S)
           /\ Len(Reverse(s)) = Len(s)
           /\ \A i \in 1 .. Len(s) : Reverse(s)[i] = s[(Len(s) - i) + 1]
<1>1. Len(s) \in Nat
    BY LenProperties
<1>2. \A i \in 1 .. Len(s) : s[(Len(s) - i) + 1] \in S
    <2>1. \A i \in 1 .. Len(s) : (Len(s) - i) + 1 \in 1 .. Len(s)
        BY <1>1
    <2>2. QED
        BY <2>1, ElementOfSeq
<1>3. Reverse(s) \in [1 .. Len(s) -> S]
    BY <1>2 DEF Reverse
<1>4. Reverse(s) \in Seq(S)
    BY <1>1, <1>3, SeqDef
<1>5. Len(Reverse(s)) = Len(s)
    BY <1>1, <1>3, <1>4, LenProperties
<1>6. QED
    BY <1>4, <1>5 DEF Reverse

(* A sequence is a suffix of itself.                                        *)
LEMMA OwnSuffix ==
    ASSUME NEW S, NEW s \in Seq(S)
    PROVE  IsSuffix(s, s)
<1>1. Len(Reverse(s)) \in Nat
    BY ReverseProperties, LenProperties
<1>2. QED
    BY <1>1 DEF IsSuffix, IsPrefix

(* A sequence that is not empty has a length.                               *)
LEMMA NotEmpty ==
    ASSUME NEW S, NEW s \in Seq(S), s # <<>>
    PROVE  Len(s) \in Nat \ {0}
BY LenProperties, EmptySeq

(* A suffix that is not empty is what is left from some place on.           *)
LEMMA SuffixIsRest ==
    ASSUME NEW S, NEW s \in Seq(S), NEW t \in Seq(S), IsSuffix(s, t), s # <<>>
    PROVE  \E n \in 1 .. Len(t) : s = SubSeq(t, n, Len(t))
<1>1. Len(s) \in Nat /\ Len(t) \in Nat /\ Len(s) # 0
    BY LenProperties, EmptySeq
<1>2. Len(s) <= Len(t)
    BY ReverseProperties DEF IsSuffix, IsPrefix
<1>3. SubSeq(Reverse(s), 1, Len(s)) = SubSeq(Reverse(t), 1, Len(s))
    BY ReverseProperties DEF IsSuffix, IsPrefix
<1>4. \A i \in 1 .. Len(s) : Reverse(s)[i] = Reverse(t)[i]
    <2>1. SUFFICES ASSUME NEW i \in 1 .. Len(s) PROVE Reverse(s)[i] = Reverse(t)[i]
        OBVIOUS
    <2>2. SubSeq(Reverse(s), 1, Len(s))[i] = Reverse(s)[i]
        BY <1>1, <1>2, ReverseProperties, SubSeqProperties
    <2>3. SubSeq(Reverse(t), 1, Len(s))[i] = Reverse(t)[i]
        BY <1>1, <1>2, ReverseProperties, SubSeqProperties
    <2>4. QED
        BY <2>2, <2>3, <1>3
<1> DEFINE n == Len(t) - Len(s) + 1
<1>5. n \in 1 .. Len(t)
    BY <1>1, <1>2
<1>6. \A i \in n .. Len(t) : t[i] \in S
    BY <1>5, <1>1, ElementOfSeq
<1>7. /\ SubSeq(t, n, Len(t)) \in Seq(S)
      /\ Len(SubSeq(t, n, Len(t))) = Len(s)
      /\ \A i \in 1 .. Len(s) : SubSeq(t, n, Len(t))[i] = t[n + i - 1]
    BY <1>1, <1>5, <1>6, SubSeqProperties
<1>8. \A i \in 1 .. Len(s) : t[n + i - 1] = s[i]
    <2>1. SUFFICES ASSUME NEW i \in 1 .. Len(s) PROVE t[n + i - 1] = s[i]
        OBVIOUS
    <2> DEFINE k == (Len(s) - i) + 1
    <2>2. k \in 1 .. Len(s) /\ k \in 1 .. Len(t)
        BY <1>1, <1>2
    <2>3. Reverse(s)[k] = s[i]
        BY <2>2, <1>1, ReverseProperties
    <2>4. Reverse(t)[k] = t[(Len(t) - k) + 1]
        BY <2>2, ReverseProperties
    <2>5. (Len(t) - k) + 1 = n + i - 1
        BY <1>1
    <2>6. QED
        BY <2>2, <2>3, <2>4, <2>5, <1>4
<1>9. s = SubSeq(t, n, Len(t))
    BY <1>7, <1>8, SeqEqual
<1>10. QED
    BY <1>5, <1>9

-----------------------------------------------------------------------------
(* What the steps make of the record of a worker. *)

(* The fields of a record.                                                  *)
LEMMA IdleFields ==
    /\ Fields = {"pc", "auth", "grant", "follow", "round", "origin", "url", "left", "requests",
                 "scopes", "prompts", "overlay", "text", "status", "first", "last", "out"}
    /\ Idle.pc = "idle" /\ Idle.auth = "header" /\ Idle.grant = "client"
    /\ Idle.round = "first" /\ Idle.first = "none" /\ Idle.last = "none" /\ Idle.out = "none"
<1>1. DOMAIN Idle = {"pc", "auth", "grant", "follow", "round", "origin", "url", "left", "requests",
                     "scopes", "prompts", "overlay", "text", "status", "first", "last", "out"}
    BY DEF Idle
<1>2. /\ Idle.pc = "idle" /\ Idle.auth = "header" /\ Idle.grant = "client"
      /\ Idle.round = "first" /\ Idle.first = "none" /\ Idle.last = "none" /\ Idle.out = "none"
    BY DEF Idle
<1>3. QED
    BY <1>1, <1>2 DEF Fields

(* A worker that has sent nothing.                                          *)
LEMMA IdleGood == Good(Idle)
<1>1. Shaped(Idle)
    BY IdleFields DEF Shaped, Fields, Pcs, Auths, Grants, Rounds
<1>2. Bodies(Idle)
    BY IdleFields DEF Bodies, OnItsWay
<1>3. Course(Idle)
    BY IdleFields DEF Course
<1>4. QED
    BY <1>1, <1>2, <1>3 DEF Good

(* Do of net/http begins.                                                   *)
LEMMA SendingGood ==
    ASSUME NEW x, Good(x), x.pc \in {"build", "lock", "refresh", "grant"}
    PROVE  Good(Sending(x)) /\ Sending(x).pc = "hop"
<1> DEFINE y == Sending(x)
<1>1. /\ DOMAIN y = Fields
      /\ y.pc = "hop" /\ y.auth = x.auth /\ y.grant = x.grant /\ y.round = x.round
      /\ y.first = x.first /\ y.last = x.last /\ y.out = x.out
      /\ y.origin = x.origin /\ y.url = x.origin
    BY IdleFields DEF Good, Shaped, Sending
<1> HIDE DEF y
<1>2. Shaped(y)
    BY <1>1 DEF Good, Shaped, Pcs
<1>3. Bodies(y)
    BY <1>1 DEF Good, Bodies, OnItsWay, Before
<1>4. Course(y)
    <2>1. x.origin \in Urls
        BY DEF Good, Course
    <2>2. IsSuffix(x.origin.host, x.origin.host)
        BY <2>1, OwnSuffix, WireAssumption
    <2>3. QED
        BY <1>1, <2>1, <2>2 DEF Course
<1>5. QED
    BY <1>1, <1>2, <1>3, <1>4 DEF Good, y

(* Build or Do has failed.                                                  *)
LEMMA GaveUpGood ==
    ASSUME NEW x, Good(x), OnItsWay(x) 
    PROVE  Good(GaveUp(x)) /\ GaveUp(x).pc \in {"idle", "read"}
<1> DEFINE y == GaveUp(x)
<1>1. /\ DOMAIN y = Fields
      /\ y.auth = x.auth /\ y.grant = x.grant /\ y.round = "first"
      /\ y.last = x.last /\ y.origin = x.origin
      /\ y.pc = IF x.round = "first" THEN "idle" ELSE "read"
      /\ y.out = IF x.round = "first" THEN "error" ELSE x.out
      /\ y.first = IF x.round \in {"first", "digest"} THEN x.first ELSE "restored"
    <2>1. CASE x.round = "first"
        BY <2>1, IdleFields DEF Good, Shaped, GaveUp
    <2>2. CASE x.round = "digest"
        BY <2>2, IdleFields DEF Good, Shaped, GaveUp
    <2>3. CASE x.round \notin {"first", "digest"}
        BY <2>3, IdleFields DEF Good, Shaped, GaveUp
    <2>4. QED
        BY <2>1, <2>2, <2>3
<1> HIDE DEF y
<1>2. Shaped(y)
    BY <1>1 DEF Good, Shaped, Pcs, Rounds
<1>3. Bodies(y)
    <2>1. Before(x) /\ x.out # "unreadable"
        BY DEF Good, Bodies
    <2>2. QED
        BY <1>1, <2>1 DEF Bodies, OnItsWay, Before, ToRead
<1>4. Course(y)
    BY <1>1 DEF Good, Course, OnItsWay
<1>5. QED
    BY <1>1, <1>2, <1>3, <1>4 DEF Good, y

(* An answer that is not followed.                                          *)
LEMMA AnsweredGood ==
    ASSUME NEW x, Good(x), x.pc = "sent", NEW status
    PROVE  Good(Answered(x, status)) /\ Answered(x, status).pc = "answered"
<1> DEFINE y == Answered(x, status)
<1>1. /\ DOMAIN y = Fields
      /\ y.auth = x.auth /\ y.grant = x.grant /\ y.round = x.round /\ y.pc = "answered"
      /\ y.out = x.out /\ y.origin = x.origin
      /\ y.last = IF x.round = "first" THEN x.last ELSE "open"
      /\ y.first = IF x.round = "first" THEN "open"
                   ELSE IF x.round = "digest" THEN "closed" ELSE x.first
    BY IdleFields DEF Good, Shaped, Answered
<1> HIDE DEF y
<1>2. Shaped(y)
    BY <1>1 DEF Good, Shaped, Pcs
<1>3. Bodies(y)
    BY <1>1 DEF Good, Bodies, OnItsWay, Before, After
<1>4. Course(y)
    BY <1>1 DEF Good, Course
<1>5. QED
    BY <1>1, <1>2, <1>3, <1>4 DEF Good, y

(* What Build makes of the URL is text.                                     *)
LEMMA ResolvedGood ==
    ASSUME NEW x, Good(x), x.pc = "build"
    PROVE  /\ Good(Resolved(x)) /\ Resolved(x).pc = "build"
           /\ Resolved(x).auth = x.auth /\ Resolved(x).grant = x.grant
<1> DEFINE y == Resolved(x)
<1>1. /\ DOMAIN y = Fields
      /\ y.pc = x.pc /\ y.auth = x.auth /\ y.grant = x.grant /\ y.round = x.round
      /\ y.first = x.first /\ y.last = x.last /\ y.out = x.out /\ y.origin = x.origin
    BY IdleFields DEF Good, Shaped, Resolved
<1> HIDE DEF y
<1>2. Shaped(y)
    BY <1>1 DEF Good, Shaped
<1>3. Bodies(y)
    BY <1>1 DEF Good, Bodies, OnItsWay, Before
<1>4. Course(y)
    BY <1>1 DEF Good, Course
<1>5. QED
    BY <1>1, <1>2, <1>3, <1>4 DEF Good, y

-----------------------------------------------------------------------------
(* The workers are all like that. *)
ExInv == DOMAIN ex = Senders /\ \A s \in Senders : Good(ex[s])
PlanInv == DOMAIN plan = PlanFields /\ plan.requests \subseteq Requests

(* A step of one worker.                                                    *)
LEMMA GoesTo ==
    ASSUME ExInv, NEW s \in Senders, NEW x, Goes(s, x)
    PROVE  /\ ex'[s] = x /\ DOMAIN ex' = Senders
           /\ \A t \in Senders \ {s} : ex'[t] = ex[t]
           /\ Good(x) => ExInv'
<1>1. ex'[s] = x /\ DOMAIN ex' = Senders /\ \A t \in Senders \ {s} : ex'[t] = ex[t]
    BY DEF ExInv, Goes
<1>2. QED
    BY <1>1 DEF ExInv

(* A send begins.                                                           *)
LEMMA StartGood ==
    ASSUME ExInv, PlanInv, NEW s \in Senders, NEW q \in plan.requests, Start(s, q)
    PROVE  Good(ex'[s]) /\ ex'[s].pc \in {"ask", "script"} /\ ExInv'
<1> DEFINE x == [Idle EXCEPT !.pc = IF s = UI /\ PromptsOf(q.auth) # {} THEN "ask" ELSE "script",
                            !.scopes = Captured(s), !.auth = q.auth, !.grant = q.grant,
                            !.follow = q.follow, !.origin = q.url, !.url = q.url]
<1>1. q \in Requests
    BY DEF PlanInv
<1>2. q.auth \in Auths /\ q.grant \in Grants /\ q.url \in Urls
    BY <1>1 DEF Requests
<1>3. Goes(s, x)
    BY DEF Start
<1>4. /\ DOMAIN x = Fields /\ x.auth = q.auth /\ x.grant = q.grant /\ x.origin = q.url
      /\ x.round = "first" /\ x.first = "none" /\ x.last = "none" /\ x.out = "none"
    BY IdleFields DEF Fields
<1>5. x.pc \in {"ask", "script"}
    BY IdleFields
<1> HIDE DEF x
<1>6. Shaped(x)
    BY <1>2, <1>4, <1>5 DEF Shaped, Pcs, Rounds
<1>7. Bodies(x)
    BY <1>4, <1>5 DEF Bodies, OnItsWay
<1>8. Course(x)
    BY <1>2, <1>4, <1>5 DEF Course
<1>9. QED
    BY <1>3, <1>5, <1>6, <1>7, <1>8, GoesTo DEF Good

(* The dialog of the prompts.                                               *)
LEMMA AskGood ==
    ASSUME ExInv, NEW s \in Senders, Ask(s)
    PROVE  Good(ex'[s]) /\ ex'[s].pc \in {"idle", "script"} /\ ExInv'
<1> DEFINE x == ex[s]
<1>1. Good(x) /\ x.pc = "ask"
    BY DEF ExInv, Ask
<1>2. ASSUME Goes(s, [x EXCEPT !.pc = "idle", !.out = "cancelled"])
      PROVE  Good(ex'[s]) /\ ex'[s].pc \in {"idle", "script"} /\ ExInv'
    <2> DEFINE y == [x EXCEPT !.pc = "idle", !.out = "cancelled"]
    <2>1. /\ DOMAIN y = Fields /\ y.pc = "idle" /\ y.out = "cancelled" /\ y.auth = x.auth
          /\ y.grant = x.grant /\ y.round = x.round /\ y.first = x.first /\ y.last = x.last
        BY <1>1, IdleFields DEF Good, Shaped
    <2>2. Goes(s, y)
        BY <1>2
    <2> HIDE DEF y
    <2>3. Good(y)
        BY <1>1, <2>1 DEF Good, Shaped, Bodies, Course, OnItsWay, Pcs
    <2>4. QED
        BY <2>1, <2>2, <2>3, GoesTo
<1>3. ASSUME Goes(s, [x EXCEPT !.pc = "script", !.scopes = Captured(s),
                               !.prompts = [p \in PromptsOf(x.auth) |-> <<"typed">>]])
      PROVE  Good(ex'[s]) /\ ex'[s].pc \in {"idle", "script"} /\ ExInv'
    <2> DEFINE y == [x EXCEPT !.pc = "script", !.scopes = Captured(s),
                              !.prompts = [p \in PromptsOf(x.auth) |-> <<"typed">>]]
    <2>1. /\ DOMAIN y = Fields /\ y.pc = "script" /\ y.out = x.out /\ y.auth = x.auth
          /\ y.grant = x.grant /\ y.round = x.round /\ y.first = x.first /\ y.last = x.last
          /\ y.origin = x.origin
        BY <1>1, IdleFields DEF Good, Shaped
    <2>2. Goes(s, y)
        BY <1>3
    <2> HIDE DEF y
    <2>3. Good(y)
        BY <1>1, <2>1 DEF Good, Shaped, Bodies, Course, OnItsWay, Pcs
    <2>4. QED
        BY <2>1, <2>2, <2>3, GoesTo
<1>4. QED
    BY <1>2, <1>3 DEF Ask

(* The pre-request script.                                                  *)
LEMMA ScriptGood ==
    ASSUME ExInv, NEW s \in Senders, Script(s)
    PROVE  Good(ex'[s]) /\ ex'[s].pc = "build" /\ ExInv'
<1> DEFINE x == ex[s]
           y == [x EXCEPT !.pc = "build", !.overlay = overlay']
<1>1. Good(x) /\ x.pc = "script"
    BY DEF ExInv, Script
<1>2. /\ DOMAIN y = Fields /\ y.pc = "build" /\ y.out = x.out /\ y.auth = x.auth
      /\ y.grant = x.grant /\ y.round = x.round /\ y.first = x.first /\ y.last = x.last
      /\ y.origin = x.origin
    BY <1>1, IdleFields DEF Good, Shaped
<1>3. Goes(s, y)
    BY DEF Script
<1> HIDE DEF y
<1>4. Good(y)
    BY <1>1, <1>2 DEF Good, Shaped, Bodies, Course, OnItsWay, Before, Pcs
<1>5. QED
    BY <1>2, <1>3, <1>4, GoesTo

(* Build has failed.                                                        *)
LEMMA BuildFailsGood ==
    ASSUME ExInv, NEW s \in Senders, BuildFails(s)
    PROVE  Good(ex'[s]) /\ ex'[s].pc \in {"idle", "read"} /\ ExInv'
<1>1. Good(ex[s]) /\ OnItsWay(ex[s]) /\ Goes(s, GaveUp(ex[s]))
    BY DEF ExInv, BuildFails, OnItsWay
<1>2. QED
    BY <1>1, GaveUpGood, GoesTo

(* Build is done.                                                           *)
LEMMA BuildGood ==
    ASSUME ExInv, NEW s \in Senders, Build(s)
    PROVE  Good(ex'[s]) /\ ex'[s].pc = "hop" /\ ExInv'
<1>1. Good(ex[s]) /\ ex[s].pc = "build" /\ Goes(s, Sending(Resolved(ex[s])))
    BY DEF ExInv, Build, Builds
<1>2. Good(Resolved(ex[s])) /\ Resolved(ex[s]).pc = "build"
    BY <1>1, ResolvedGood
<1>3. QED
    BY <1>1, <1>2, SendingGood, GoesTo

(* A worker goes on to a step of the token's.                               *)
GoesOn(x, pc) == [x EXCEPT !.pc = pc]
LEMMA FetchGood ==
    ASSUME NEW x, Good(x), x.pc \in {"build", "lock", "refresh"}, x.auth = "oauth",
           NEW pc \in {"lock", "refresh", "grant"}
    PROVE  Good(GoesOn(x, pc)) /\ GoesOn(x, pc).pc = pc /\ GoesOn(x, pc).grant = x.grant
<1> DEFINE y == GoesOn(x, pc)
<1>1. /\ DOMAIN y = Fields
      /\ y.pc = pc /\ y.auth = x.auth /\ y.grant = x.grant /\ y.round = x.round
      /\ y.first = x.first /\ y.last = x.last /\ y.out = x.out /\ y.origin = x.origin
    BY IdleFields DEF Good, Shaped, GoesOn
<1> HIDE DEF y
<1>2. Shaped(y)
    BY <1>1 DEF Good, Shaped, Pcs
<1>3. Bodies(y)
    BY <1>1 DEF Good, Bodies, OnItsWay, Before
<1>4. Course(y)
    BY <1>1 DEF Good, Course
<1>5. QED
    BY <1>1, <1>2, <1>3, <1>4 DEF Good, y

(* The token, when it is in the cache and when it is not.                   *)
LEMMA TokenGood ==
    ASSUME ExInv, NEW s \in Senders, Token(s)
    PROVE  Good(ex'[s]) /\ ex'[s].pc \in {"idle", "read", "hop", "lock"} /\ ExInv'
<1> DEFINE x == Resolved(ex[s])
<1>1. Good(ex[s]) /\ ex[s].pc = "build"
    BY DEF ExInv, Token, Builds
<1>2. Good(x) /\ x.pc = "build"
    BY <1>1, ResolvedGood
<1>3. x.auth = "oauth"
    BY DEF Token
<1>4. Goes(s, IF x.grant = "code" /\ s # UI THEN GaveUp(x)
              ELSE IF Usable(x.grant) THEN Sending(x)
              ELSE GoesOn(x, "lock"))
    BY DEF Token, GoesOn
<1> HIDE DEF x
<1>5. CASE x.grant = "code" /\ s # UI
    BY <1>2, <1>4, <1>5, GaveUpGood, GoesTo DEF OnItsWay
<1>6. CASE ~(x.grant = "code" /\ s # UI) /\ Usable(x.grant)
    BY <1>2, <1>4, <1>6, SendingGood, GoesTo
<1>7. CASE ~(x.grant = "code" /\ s # UI) /\ ~Usable(x.grant)
    BY <1>2, <1>3, <1>4, <1>7, FetchGood, GoesTo
<1>8. QED
    BY <1>5, <1>6, <1>7

(* The lock of the token, and the second look at the cache.                 *)
LEMMA LockKeyGood ==
    ASSUME ExInv, NEW s \in Senders, LockKey(s)
    PROVE  /\ ExInv' /\ Good(ex'[s])
           /\ IF Usable(ex[s].grant) THEN ex'[s].pc = "hop"
              ELSE ex'[s].pc \in {"refresh", "grant"} /\ ex'[s].grant = ex[s].grant
<1> DEFINE x == ex[s]
           pc == IF x.grant = "code" /\ (\E t \in cache["code"] : t.refresh)
                 THEN "refresh" ELSE "grant"
<1>1. Good(x) /\ x.pc = "lock"
    BY DEF ExInv, LockKey
<1>2. x.auth = "oauth"
    BY <1>1 DEF Good, Shaped
<1>3. CASE Usable(x.grant)
    <2>1. Goes(s, Sending(x))
        BY <1>3 DEF LockKey
    <2>2. QED
        BY <2>1, <1>1, <1>3, SendingGood, GoesTo
<1>4. CASE ~Usable(x.grant)
    <2>1. Goes(s, GoesOn(x, pc))
        BY <1>4 DEF LockKey, GoesOn
    <2>2. pc \in {"refresh", "grant"}
        OBVIOUS
    <2> HIDE DEF pc
    <2>3. QED
        BY <2>1, <2>2, <1>1, <1>2, <1>4, FetchGood, GoesTo
<1>5. QED
    BY <1>3, <1>4

(* A token has come.                                                        *)
LEMMA FetchedGood ==
    ASSUME ExInv, NEW s \in Senders, ex[s].pc \in {"refresh", "grant"},
           NEW refresh, Fetched(s, refresh)
    PROVE  ExInv' /\ Good(ex'[s]) /\ ex'[s].pc = "hop"
<1>1. Good(ex[s]) /\ Goes(s, Sending(ex[s]))
    BY DEF ExInv, Fetched
<1>2. QED
    BY <1>1, SendingGood, GoesTo

(* It cannot be refreshed.                                                  *)
LEMMA RefreshFailsGood ==
    ASSUME ExInv, NEW s \in Senders, RefreshFails(s)
    PROVE  ExInv' /\ Good(ex'[s]) /\ ex'[s].pc = "grant" /\ ex'[s].grant = ex[s].grant
<1>1. Good(ex[s]) /\ ex[s].pc = "refresh" /\ Goes(s, GoesOn(ex[s], "grant"))
    BY DEF ExInv, RefreshFails, GoesOn
<1>2. ex[s].auth = "oauth"
    BY <1>1 DEF Good, Shaped
<1>3. QED
    BY <1>1, <1>2, FetchGood, GoesTo

(* There is no token.                                                       *)
LEMMA GrantFailsGood ==
    ASSUME ExInv, NEW s \in Senders, GrantFails(s)
    PROVE  ExInv' /\ Good(ex'[s]) /\ ex'[s].pc \in {"idle", "read"}
<1>1. Good(ex[s]) /\ OnItsWay(ex[s]) /\ Goes(s, GaveUp(ex[s]))
    BY DEF ExInv, GrantFails, OnItsWay
<1>2. QED
    BY <1>1, GaveUpGood, GoesTo

(* A hop.                                                                   *)
LEMMA HopGood ==
    ASSUME ExInv, NEW s \in Senders, Hop(s)
    PROVE  ExInv' /\ Good(ex'[s]) /\ ex'[s].pc = "sent"
<1> DEFINE x == ex[s]
           y == [x EXCEPT !.pc = "sent", !.requests = @ + 1]
<1>1. Good(x) /\ x.pc = "hop"
    BY DEF ExInv, Hop
<1>2. /\ DOMAIN y = Fields
      /\ y.pc = "sent" /\ y.auth = x.auth /\ y.grant = x.grant /\ y.round = x.round
      /\ y.first = x.first /\ y.last = x.last /\ y.out = x.out
      /\ y.origin = x.origin /\ y.url = x.url /\ y.left = x.left
    BY <1>1, IdleFields DEF Good, Shaped
<1>3. Goes(s, y)
    BY DEF Hop
<1> HIDE DEF y
<1>4. Shaped(y)
    BY <1>1, <1>2 DEF Good, Shaped, Pcs
<1>5. Bodies(y)
    BY <1>1, <1>2 DEF Good, Bodies, OnItsWay, Before
<1>6. Course(y)
    BY <1>1, <1>2 DEF Good, Course
<1>7. QED
    BY <1>2, <1>3, <1>4, <1>5, <1>6, GoesTo DEF Good

(* A redirect.                                                              *)
LEMMA RedirectedGood ==
    ASSUME ExInv, NEW s \in Senders, NEW url \in Urls, Redirected(s, url)
    PROVE  ExInv' /\ Good(ex'[s]) /\ ex'[s].pc \in {"answered", "idle", "read", "hop"}
<1> DEFINE x == ex[s]
           y == [x EXCEPT !.pc = "hop", !.url = url,
                          !.left = @ \/ ~IsSuffix(x.origin.host, url.host)]
<1>1. Good(x) /\ x.pc = "sent"
    BY DEF ExInv, Redirected
<1>2. Goes(s, IF ~x.follow THEN Answered(x, "redirect")
              ELSE IF x.requests = MaxRequests THEN GaveUp(x) ELSE y)
    BY DEF Redirected
<1>3. /\ DOMAIN y = Fields
      /\ y.pc = "hop" /\ y.auth = x.auth /\ y.grant = x.grant /\ y.round = x.round
      /\ y.first = x.first /\ y.last = x.last /\ y.out = x.out
      /\ y.origin = x.origin /\ y.url = url
      /\ y.left = (x.left \/ ~IsSuffix(x.origin.host, url.host))
    BY <1>1, IdleFields DEF Good, Shaped
<1> HIDE DEF y
<1>4. Shaped(y)
    BY <1>1, <1>3 DEF Good, Shaped, Pcs
<1>5. Bodies(y)
    BY <1>1, <1>3 DEF Good, Bodies, OnItsWay, Before
<1>6. Course(y)
    <2>1. y.left \/ IsSuffix(y.origin.host, y.url.host)
        BY <1>3
    <2>2. QED
        BY <1>1, <1>3, <2>1 DEF Good, Course
<1>7. CASE ~x.follow
    BY <1>1, <1>2, <1>7, AnsweredGood, GoesTo
<1>8. CASE x.follow /\ x.requests = MaxRequests
    BY <1>1, <1>2, <1>8, GaveUpGood, GoesTo DEF OnItsWay
<1>9. CASE x.follow /\ x.requests # MaxRequests
    <2>1. Goes(s, y)
        BY <1>2, <1>9
    <2>2. QED
        BY <2>1, <1>3, <1>4, <1>5, <1>6, GoesTo DEF Good
<1>10. QED
    BY <1>7, <1>8, <1>9

(* An answer.                                                               *)
LEMMA AnswerGood ==
    ASSUME ExInv, NEW s \in Senders, NEW status, Answer(s, status)
    PROVE  ExInv' /\ Good(ex'[s]) /\ ex'[s].pc = "answered"
<1>1. Good(ex[s]) /\ ex[s].pc = "sent" /\ Goes(s, Answered(ex[s], status))
    BY DEF ExInv, Answer
<1>2. QED
    BY <1>1, AnsweredGood, GoesTo

(* None.                                                                    *)
LEMMA DoFailsGood ==
    ASSUME ExInv, NEW s \in Senders, DoFails(s)
    PROVE  ExInv' /\ Good(ex'[s]) /\ ex'[s].pc \in {"idle", "read"}
<1>1. Good(ex[s]) /\ OnItsWay(ex[s]) /\ Goes(s, GaveUp(ex[s]))
    BY DEF ExInv, DoFails, OnItsWay
<1>2. QED
    BY <1>1, GaveUpGood, GoesTo

(* A challenge.                                                             *)
LEMMA ChallengedGood ==
    ASSUME ExInv, NEW s \in Senders, Challenged(s)
    PROVE  ExInv' /\ Good(ex'[s]) /\ ex'[s].pc = "build"
<1> DEFINE x == ex[s]
<1>1. Good(x) /\ x.pc = "answered"
    BY DEF ExInv, Challenged
<1>2. ASSUME x.round = "first", x.auth = "digest",
             Goes(s, [x EXCEPT !.pc = "build", !.round = "digest"])
      PROVE  ExInv' /\ Good(ex'[s]) /\ ex'[s].pc = "build"
    <2> DEFINE y == [x EXCEPT !.pc = "build", !.round = "digest"]
    <2>1. /\ DOMAIN y = Fields /\ y.pc = "build" /\ y.out = x.out /\ y.auth = x.auth
          /\ y.grant = x.grant /\ y.round = "digest" /\ y.first = x.first /\ y.last = x.last
          /\ y.origin = x.origin
        BY <1>1, IdleFields DEF Good, Shaped
    <2>2. Goes(s, y)
        BY <1>2
    <2> HIDE DEF y
    <2>3. Good(y)
        BY <1>1, <1>2, <2>1
        DEF Good, Shaped, Bodies, Course, OnItsWay, Before, After, Pcs, Rounds
    <2>4. QED
        BY <2>1, <2>2, <2>3, GoesTo
<1>3. ASSUME x.round = "first", x.auth = "ntlm",
             Goes(s, [x EXCEPT !.pc = "build", !.round = "negotiate", !.first = "drained"])
      PROVE  ExInv' /\ Good(ex'[s]) /\ ex'[s].pc = "build"
    <2> DEFINE y == [x EXCEPT !.pc = "build", !.round = "negotiate", !.first = "drained"]
    <2>1. /\ DOMAIN y = Fields /\ y.pc = "build" /\ y.out = x.out /\ y.auth = x.auth
          /\ y.grant = x.grant /\ y.round = "negotiate" /\ y.first = "drained"
          /\ y.last = x.last /\ y.origin = x.origin
        BY <1>1, IdleFields DEF Good, Shaped
    <2>2. Goes(s, y)
        BY <1>3
    <2> HIDE DEF y
    <2>3. Good(y)
        BY <1>1, <1>3, <2>1
        DEF Good, Shaped, Bodies, Course, OnItsWay, Before, After, Pcs, Rounds
    <2>4. QED
        BY <2>1, <2>2, <2>3, GoesTo
<1>4. ASSUME x.round = "negotiate",
             Goes(s, [x EXCEPT !.pc = "build", !.round = "authenticate", !.last = "closed"])
      PROVE  ExInv' /\ Good(ex'[s]) /\ ex'[s].pc = "build"
    <2> DEFINE y == [x EXCEPT !.pc = "build", !.round = "authenticate", !.last = "closed"]
    <2>1. /\ DOMAIN y = Fields /\ y.pc = "build" /\ y.out = x.out /\ y.auth = x.auth
          /\ y.grant = x.grant /\ y.round = "authenticate" /\ y.first = x.first
          /\ y.last = "closed" /\ y.origin = x.origin
        BY <1>1, IdleFields DEF Good, Shaped
    <2>2. Goes(s, y)
        BY <1>4
    <2> HIDE DEF y
    <2>3. Good(y)
        BY <1>1, <1>4, <2>1
        DEF Good, Shaped, Bodies, Course, OnItsWay, Before, After, Pcs, Rounds
    <2>4. QED
        BY <2>1, <2>2, <2>3, GoesTo
<1>5. QED
    BY <1>2, <1>3, <1>4 DEF Challenged

(* The answer is the response, unless it is that of NEGOTIATE.              *)
LEMMA NotChallengedGood ==
    ASSUME ExInv, NEW s \in Senders, NotChallenged(s)
    PROVE  ExInv' /\ Good(ex'[s]) /\ ex'[s].pc = "read"
<1> DEFINE x == ex[s]
<1>1. Good(x) /\ x.pc = "answered"
    BY DEF ExInv, NotChallenged
<1>2. CASE x.round = "negotiate"
    <2> DEFINE z == [x EXCEPT !.last = "closed"]
               y == GaveUp(z)
    <2>1. /\ DOMAIN z = Fields /\ z.pc = x.pc /\ z.out = x.out /\ z.auth = x.auth
          /\ z.grant = x.grant /\ z.round = "negotiate" /\ z.first = x.first
          /\ z.last = "closed" /\ z.origin = x.origin
        BY <1>1, <1>2, IdleFields DEF Good, Shaped
    <2>2. Goes(s, y)
        BY <1>2 DEF NotChallenged
    <2> HIDE DEF z
    <2>3. /\ DOMAIN y = Fields /\ y.pc = "read" /\ y.out = x.out /\ y.auth = x.auth
          /\ y.grant = x.grant /\ y.round = "first" /\ y.first = "restored"
          /\ y.last = "closed" /\ y.origin = x.origin
        BY <2>1, IdleFields DEF GaveUp
    <2> HIDE DEF y
    <2>4. Good(y)
        BY <1>1, <1>2, <2>3
        DEF Good, Shaped, Bodies, Course, OnItsWay, ToRead, Pcs, Rounds
    <2>5. QED
        BY <2>2, <2>3, <2>4, GoesTo
<1>3. CASE x.round # "negotiate"
    <2> DEFINE y == [x EXCEPT !.pc = "read"]
    <2>1. /\ DOMAIN y = Fields /\ y.pc = "read" /\ y.out = x.out /\ y.auth = x.auth
          /\ y.grant = x.grant /\ y.round = x.round /\ y.first = x.first
          /\ y.last = x.last /\ y.origin = x.origin
        BY <1>1, IdleFields DEF Good, Shaped
    <2>2. Goes(s, y)
        BY <1>3 DEF NotChallenged
    <2> HIDE DEF y
    <2>3. Good(y)
        BY <1>1, <1>3, <2>1
        DEF Good, Shaped, Bodies, Course, OnItsWay, After, ToRead, Pcs, Rounds
    <2>4. QED
        BY <2>1, <2>2, <2>3, GoesTo
<1>4. QED
    BY <1>2, <1>3

(* The response is read.                                                    *)
LEMMA ReadGood ==
    ASSUME ExInv, NEW s \in Senders, Read(s)
    PROVE  ExInv' /\ Good(ex'[s]) /\ ex'[s].pc = "idle"
<1> DEFINE x == ex[s]
           body == IF x.round = "first" THEN x.first ELSE x.last
<1>1. Good(x) /\ x.pc = "read"
    BY DEF ExInv, Read
<1>2. PICK out \in {"error", IF body \in {"open", "restored"} THEN "read" ELSE "unreadable"} :
        Goes(s, IF x.round = "first"
                THEN [x EXCEPT !.pc = "idle", !.out = out, !.first = "closed"]
                ELSE [x EXCEPT !.pc = "idle", !.out = out, !.last = "closed"])
    BY DEF Read
<1>3. out # "unreadable"
    BY <1>1 DEF Good, Bodies, ToRead
<1>4. CASE x.round = "first"
    <2> DEFINE y == [x EXCEPT !.pc = "idle", !.out = out, !.first = "closed"]
    <2>1. /\ DOMAIN y = Fields /\ y.pc = "idle" /\ y.out = out /\ y.auth = x.auth
          /\ y.grant = x.grant /\ y.round = x.round /\ y.first = "closed"
          /\ y.last = x.last /\ y.origin = x.origin
        BY <1>1, IdleFields DEF Good, Shaped
    <2>2. Goes(s, y)
        BY <1>2, <1>4
    <2> HIDE DEF y
    <2>3. Good(y)
        BY <1>1, <1>3, <1>4, <2>1
        DEF Good, Shaped, Bodies, Course, OnItsWay, ToRead, Pcs
    <2>4. QED
        BY <2>1, <2>2, <2>3, GoesTo
<1>5. CASE x.round # "first"
    <2> DEFINE y == [x EXCEPT !.pc = "idle", !.out = out, !.last = "closed"]
    <2>1. /\ DOMAIN y = Fields /\ y.pc = "idle" /\ y.out = out /\ y.auth = x.auth
          /\ y.grant = x.grant /\ y.round = x.round /\ y.first = x.first
          /\ y.last = "closed" /\ y.origin = x.origin
        BY <1>1, IdleFields DEF Good, Shaped
    <2>2. Goes(s, y)
        BY <1>2, <1>5
    <2> HIDE DEF y
    <2>3. Good(y)
        BY <1>1, <1>3, <1>5, <2>1
        DEF Good, Shaped, Bodies, Course, OnItsWay, ToRead, Pcs
    <2>4. QED
        BY <2>1, <2>2, <2>3, GoesTo
<1>6. QED
    BY <1>4, <1>5

-----------------------------------------------------------------------------
(* The bound: what a plan asks for stays what it is. *)
Spent ==
    \/ plan' = plan
    \/ plan' = [plan EXCEPT !.sends = @ - 1] \/ plan' = [plan EXCEPT !.edits = @ - 1]

(* A step of the bound.                                                     *)
LEMMA SpentKeeps ==
    ASSUME PlanInv, Spent
    PROVE  PlanInv'
<1>1. plan.requests \subseteq Requests /\ DOMAIN plan = PlanFields
    BY DEF PlanInv
<1>2. DOMAIN plan' = PlanFields
    BY <1>1 DEF Spent
<1>3. plan'.requests = plan.requests
    BY <1>1 DEF Spent, PlanFields
<1>4. QED
    BY <1>1, <1>2, <1>3 DEF PlanInv

(* A step of a worker's.                                                    *)
Works(s) ==
    \/ \E q \in plan.requests : Start(s, q)
    \/ Ask(s) \/ Script(s) \/ Build(s) \/ BuildFails(s)
    \/ Token(s) \/ LockKey(s) \/ Refresh(s) \/ RefreshFails(s) \/ Grant(s) \/ GrantFails(s)
    \/ Hop(s) \/ DoFails(s)
    \/ \E url \in Urls : Redirected(s, url)
    \/ \E status \in {"ok", "401"} : Answer(s, status)
    \/ Challenged(s) \/ NotChallenged(s) \/ Read(s)

(* Every step is of a worker, of the user or of time.                       *)
LEMMA NextIs ==
    ASSUME Next
    PROVE  \/ \E level \in Levels, name \in Names : EditVariable(level, name)
           \/ JarStep \/ ClearNamespace \/ \E g \in Grants : Age(g)
           \/ \E s \in Senders : Works(s)
BY DEF Next, Works

(* The steps that change the jar alone.                                     *)
LEMMA JarStepKeeps ==
    ASSUME JarStep
    PROVE  UNCHANGED <<ex, tokenVars, wire, variables>> /\ Spent
<1>1. ASSUME NEW c \in Edits, AddCookie(c) \/ ReplaceCookie(c)
      PROVE  UNCHANGED <<ex, tokenVars, wire, variables>> /\ Spent
    BY <1>1 DEF AddCookie, ReplaceCookie, Edited, Change, Spent
<1>2. ASSUME NEW i \in DOMAIN jar, OpenCookie(i) \/ RemoveCookie(i)
      PROVE  UNCHANGED <<ex, tokenVars, wire, variables>> /\ Spent
    BY <1>2 DEF OpenCookie, RemoveCookie, Edited, Change, Spent
<1>3. ASSUME ClearJar \/ Expire
      PROVE  UNCHANGED <<ex, tokenVars, wire, variables>> /\ Spent
    BY <1>3 DEF ClearJar, Expire, Edited, Change, Spent
<1>4. QED
    BY <1>1, <1>2, <1>3 DEF JarStep

(* The bound, in a step of a worker.                                        *)
LEMMA WorksSpends ==
    ASSUME NEW s \in Senders, Works(s)
    PROVE  Spent
<1>1. ASSUME NEW q \in plan.requests, Start(s, q) PROVE Spent
    BY <1>1 DEF Start, Spent
<1>2. ASSUME Script(s) \/ Hop(s) \/ DoFails(s) PROVE Spent
    BY <1>2 DEF Script, Hop, DoFails, Spent
<1>3. ASSUME Keep PROVE Spent
    BY <1>3 DEF Keep, Spent
<1>4. ASSUME Cookies(s) PROVE Spent
    BY <1>4 DEF Cookies, Change, Spent
<1>5. ASSUME Ask(s) \/ Build(s) \/ BuildFails(s) \/ Token(s) \/ LockKey(s) \/ RefreshFails(s)
      PROVE  Spent
    BY <1>3, <1>5 DEF Ask, Build, BuildFails, Token, LockKey, RefreshFails
<1>6. ASSUME Refresh(s) \/ Grant(s) PROVE Spent
    BY <1>3, <1>6 DEF Refresh, Grant, Fetched
<1>7. ASSUME GrantFails(s) \/ Challenged(s) \/ NotChallenged(s) \/ Read(s)
      PROVE  Spent
    BY <1>3, <1>7 DEF GrantFails, Challenged, NotChallenged, Read
<1>8. ASSUME NEW url \in Urls, Redirected(s, url) PROVE Spent
    BY <1>4, <1>8 DEF Redirected
<1>9. ASSUME NEW status \in {"ok", "401"}, Answer(s, status) PROVE Spent
    BY <1>4, <1>9 DEF Answer
<1>10. QED
    BY <1>1, <1>2, <1>5, <1>6, <1>7, <1>8, <1>9 DEF Works

(* The workers and the bound stay good.                                     *)
LEMMA WorksGood ==
    ASSUME ExInv, PlanInv, NEW s \in Senders, Works(s)
    PROVE  ExInv'
<1>1. ASSUME NEW q \in plan.requests, Start(s, q) PROVE ExInv'
    BY <1>1, StartGood
<1>2. ASSUME Refresh(s) \/ Grant(s) PROVE ExInv'
    BY <1>2, FetchedGood DEF Refresh, Grant
<1>3. ASSUME NEW url \in Urls, Redirected(s, url) PROVE ExInv'
    BY <1>3, RedirectedGood
<1>4. ASSUME NEW status \in {"ok", "401"}, Answer(s, status) PROVE ExInv'
    BY <1>4, AnswerGood
<1>5. QED
    BY <1>1, <1>2, <1>3, <1>4, AskGood, ScriptGood, BuildGood, BuildFailsGood, TokenGood,
       LockKeyGood, RefreshFailsGood, GrantFailsGood, HopGood, DoFailsGood, ChallengedGood,
       NotChallengedGood, ReadGood
    DEF Works

LEMMA ExStep ==
    ASSUME ExInv, PlanInv, [Next]_vars
    PROVE  ExInv' /\ PlanInv'
<1>1. ASSUME NEW level \in Levels, NEW name \in Names, EditVariable(level, name)
      PROVE  UNCHANGED ex /\ Spent
    BY <1>1 DEF EditVariable, Change, Spent
<1>2. ASSUME ClearNamespace PROVE UNCHANGED ex /\ Spent
    BY <1>2 DEF ClearNamespace, Keep, Spent
<1>3. ASSUME NEW g \in Grants, Age(g) PROVE UNCHANGED ex /\ Spent
    BY <1>3 DEF Age, Keep, Spent
<1>4. ASSUME UNCHANGED vars PROVE UNCHANGED ex /\ Spent
    BY <1>4 DEF vars, Spent
<1>5. ASSUME UNCHANGED ex PROVE ExInv'
    BY <1>5 DEF ExInv
<1>6. QED
    BY <1>1, <1>2, <1>3, <1>4, <1>5, JarStepKeeps, WorksSpends, WorksGood, SpentKeeps, NextIs

-----------------------------------------------------------------------------
(* The tokens. *)
TokenInv ==
    /\ cache \in [Grants -> SUBSET [fresh : BOOLEAN, refresh : BOOLEAN]]
    /\ lock \in [Grants -> Senders \cup {NoOne}]
    /\ usable = [g \in Grants |-> IF Usable(g) THEN 1 ELSE 0]
    /\ \A g \in Grants, s \in Senders : lock[g] = s <=> Fetching(s, g)
    /\ \A g \in Grants, s \in Senders : Fetching(s, g) => ~Usable(g)

(* A step that has nothing to do with the tokens.                           *)
LEMMA OtherStep ==
    ASSUME TokenInv, NEW s \in Senders, UNCHANGED tokenVars,
           \A t \in Senders \ {s} : ex'[t] = ex[t],
           ex[s].pc \notin {"refresh", "grant"}, ex'[s].pc \notin {"refresh", "grant"}
    PROVE  TokenInv'
<1>1. \A g \in Grants : Usable(g)' <=> Usable(g)
    BY DEF Usable, tokenVars
<1>2. \A g \in Grants, t \in Senders : Fetching(t, g)' <=> Fetching(t, g)
    BY DEF Fetching
<1>3. UNCHANGED <<cache, lock, usable>>
    BY DEF tokenVars
<1>4. QED
    BY <1>1, <1>2, <1>3 DEF TokenInv

LEMMA NoStep ==
    ASSUME TokenInv, UNCHANGED <<ex, tokenVars>>
    PROVE  TokenInv'
BY DEF TokenInv, Usable, Fetching, tokenVars

(* The lock is taken, when there is no usable token.                        *)
LEMMA LockKeyTokens ==
    ASSUME TokenInv, ExInv, NEW s \in Senders, LockKey(s)
    PROVE  TokenInv'
<1> DEFINE g == ex[s].grant
<1>1. g \in Grants /\ ex[s].pc = "lock" /\ lock[g] = NoOne /\ UNCHANGED <<cache, usable>>
    BY DEF ExInv, Good, Shaped, LockKey
<1>2. \A t \in Senders \ {s} : ex'[t] = ex[t]
    BY GoesTo DEF LockKey
<1>3. CASE Usable(g)
    <2>1. UNCHANGED tokenVars /\ ex'[s].pc = "hop"
        BY <1>1, <1>3, LockKeyGood DEF LockKey, tokenVars
    <2>2. QED
        BY <2>1, <1>1, <1>2, OtherStep
<1>4. CASE ~Usable(g)
    <2>1. lock' = [lock EXCEPT ![g] = s]
        BY <1>4 DEF LockKey
    <2>2. ex'[s].pc \in {"refresh", "grant"} /\ ex'[s].grant = g
        BY <1>4, LockKeyGood
    <2>3. \A h \in Grants : Usable(h)' <=> Usable(h)
        BY <1>1 DEF Usable
    <2>4. \A h \in Grants, t \in Senders : Fetching(t, h)' <=> Fetching(t, h) \/ (t = s /\ h = g)
        BY <1>1, <1>2, <2>2 DEF Fetching
    <2>5. NoOne \notin Senders
        BY WireAssumption
    <2>6. lock \in [Grants -> Senders \cup {NoOne}]
        BY DEF TokenInv
    <2>7. \A h \in Grants, t \in Senders : lock'[h] = t <=> lock[h] = t \/ (t = s /\ h = g)
        BY <1>1, <2>1, <2>5, <2>6
    <2>8. lock' \in [Grants -> Senders \cup {NoOne}]
        BY <2>1, <2>6
    <2> HIDE DEF g
    <2>9. QED
        BY <1>1, <1>4, <2>3, <2>4, <2>7, <2>8 DEF TokenInv
<1>5. QED
    BY <1>3, <1>4

(* The lock is given back.                                                  *)
LEMMA LockBack ==
    ASSUME TokenInv, ExInv, NEW s \in Senders, ex[s].pc \in {"refresh", "grant"},
           ex'[s].pc \notin {"refresh", "grant"},
           \A t \in Senders \ {s} : ex'[t] = ex[t],
           lock' = [lock EXCEPT ![ex[s].grant] = NoOne]
    PROVE  /\ ex[s].grant \in Grants /\ ~Usable(ex[s].grant)
           /\ lock' \in [Grants -> Senders \cup {NoOne}]
           /\ \A g \in Grants, t \in Senders : lock'[g] = t <=> Fetching(t, g)'
           /\ \A g \in Grants, t \in Senders :
                Fetching(t, g)' => Fetching(t, g) /\ g # ex[s].grant
<1> DEFINE g == ex[s].grant
<1>1. g \in Grants
    BY DEF ExInv, Good, Shaped
<1>2. Fetching(s, g)
    BY DEF Fetching
<1>3. \A h \in Grants : h # g => ~Fetching(s, h)
    BY DEF Fetching
<1>4. lock[g] = s /\ ~Usable(g)
    BY <1>1, <1>2 DEF TokenInv
<1>5. \A h \in Grants, t \in Senders : Fetching(t, h)' <=> Fetching(t, h) /\ t # s
    BY DEF Fetching
<1>6. lock \in [Grants -> Senders \cup {NoOne}] /\ NoOne \notin Senders
    BY WireAssumption DEF TokenInv
<1>7. lock' = [lock EXCEPT ![g] = NoOne]
    OBVIOUS
<1> HIDE DEF g
<1>8. lock' \in [Grants -> Senders \cup {NoOne}]
    BY <1>6, <1>7
<1>9. \A h \in Grants, t \in Senders : lock[h] = t <=> Fetching(t, h)
    BY DEF TokenInv
<1>10. \A h \in Grants, t \in Senders : lock'[h] = t <=> Fetching(t, h) /\ t # s
    BY <1>1, <1>3, <1>4, <1>6, <1>7, <1>9
<1>11. \A h \in Grants, t \in Senders : Fetching(t, h) /\ t # s => h # g
    BY <1>4, <1>9
<1>12. QED
    BY <1>1, <1>4, <1>5, <1>8, <1>10, <1>11 DEF g

(* A token is stored.                                                       *)
LEMMA FetchedTokens ==
    ASSUME TokenInv, ExInv, NEW s \in Senders, ex[s].pc \in {"refresh", "grant"},
           NEW refresh \in BOOLEAN, Fetched(s, refresh)
    PROVE  TokenInv'
<1>0. PICK g \in Grants : g = ex[s].grant
    BY DEF ExInv, Good, Shaped
<1>1. PICK fresh \in BOOLEAN :
        /\ cache' = [cache EXCEPT ![g] = {[fresh |-> fresh, refresh |-> refresh]}]
        /\ usable' = IF fresh THEN [usable EXCEPT ![g] = @ + 1] ELSE usable
    BY <1>0 DEF Fetched
<1>2. lock' = [lock EXCEPT ![g] = NoOne] /\ Goes(s, Sending(ex[s]))
    BY <1>0 DEF Fetched
<1>3. ex'[s].pc = "hop" /\ \A t \in Senders \ {s} : ex'[t] = ex[t]
    BY <1>2, FetchedGood, GoesTo
<1>4. /\ g \in Grants /\ ~Usable(g)
      /\ lock' \in [Grants -> Senders \cup {NoOne}]
      /\ \A h \in Grants, t \in Senders : lock'[h] = t <=> Fetching(t, h)'
      /\ \A h \in Grants, t \in Senders : Fetching(t, h)' => Fetching(t, h) /\ h # g
    BY <1>0, <1>2, <1>3, LockBack
<1>5. cache \in [Grants -> SUBSET [fresh : BOOLEAN, refresh : BOOLEAN]]
    BY DEF TokenInv
<1>6. cache' \in [Grants -> SUBSET [fresh : BOOLEAN, refresh : BOOLEAN]]
    <2> DEFINE t == [fresh |-> fresh, refresh |-> refresh]
    <2>1. {t} \in SUBSET [fresh : BOOLEAN, refresh : BOOLEAN]
        OBVIOUS
    <2>2. cache' = [cache EXCEPT ![g] = {t}]
        BY <1>1
    <2> HIDE DEF t
    <2>3. QED
        BY <2>1, <2>2, <1>5
<1>7. (Usable(g)' <=> fresh) /\ \A h \in Grants : h # g => (Usable(h)' <=> Usable(h))
    <2>1. cache'[g] = {[fresh |-> fresh, refresh |-> refresh]}
        BY <1>1, <1>5
    <2>2. \A h \in Grants : h # g => cache'[h] = cache[h]
        BY <1>1, <1>5
    <2>3. QED
        BY <2>1, <2>2 DEF Usable
<1>8. usable = [h \in Grants |-> IF Usable(h) THEN 1 ELSE 0]
    BY DEF TokenInv
<1>9. usable' = [h \in Grants |-> IF Usable(h)' THEN 1 ELSE 0]
    BY <1>1, <1>4, <1>7, <1>8
<1>10. \A h \in Grants, t \in Senders : Fetching(t, h)' => ~Usable(h)'
    BY <1>4, <1>7 DEF TokenInv
<1>11. QED
    BY <1>4, <1>6, <1>9, <1>10 DEF TokenInv

(* There is none.                                                           *)
LEMMA GrantFailsTokens ==
    ASSUME TokenInv, ExInv, NEW s \in Senders, GrantFails(s)
    PROVE  TokenInv'
<1>1. /\ ex[s].pc = "grant" /\ lock' = [lock EXCEPT ![ex[s].grant] = NoOne]
      /\ UNCHANGED <<cache, usable>> /\ Goes(s, GaveUp(ex[s]))
    BY DEF GrantFails
<1>2. ex'[s].pc \in {"idle", "read"} /\ \A t \in Senders \ {s} : ex'[t] = ex[t]
    BY <1>1, GrantFailsGood, GoesTo
<1>3. /\ lock' \in [Grants -> Senders \cup {NoOne}]
      /\ \A g \in Grants, t \in Senders : lock'[g] = t <=> Fetching(t, g)'
      /\ \A g \in Grants, t \in Senders : Fetching(t, g)' => Fetching(t, g)
    BY <1>1, <1>2, LockBack
<1>4. \A g \in Grants : Usable(g)' <=> Usable(g)
    BY <1>1 DEF Usable
<1>5. QED
    BY <1>1, <1>3, <1>4 DEF TokenInv

(* The token cannot be refreshed; the lock is kept.                         *)
LEMMA RefreshFailsTokens ==
    ASSUME TokenInv, ExInv, NEW s \in Senders, RefreshFails(s)
    PROVE  TokenInv'
<1>1. ex[s].pc = "refresh" /\ UNCHANGED tokenVars /\ Goes(s, [ex[s] EXCEPT !.pc = "grant"])
    BY DEF RefreshFails
<1>2. /\ ex'[s].pc = "grant" /\ ex'[s].grant = ex[s].grant
      /\ \A t \in Senders \ {s} : ex'[t] = ex[t]
    BY <1>1, RefreshFailsGood, GoesTo
<1>3. \A g \in Grants, t \in Senders : Fetching(t, g)' <=> Fetching(t, g)
    BY <1>1, <1>2 DEF Fetching
<1>4. \A g \in Grants : Usable(g)' <=> Usable(g)
    BY <1>1 DEF Usable, tokenVars
<1>5. QED
    BY <1>1, <1>3, <1>4 DEF TokenInv, tokenVars

(* A token ages.                                                            *)
LEMMA AgeTokens ==
    ASSUME TokenInv, NEW g \in Grants, Age(g)
    PROVE  TokenInv'
<1>1. /\ Usable(g) /\ usable' = [usable EXCEPT ![g] = @ - 1]
      /\ cache' = [cache EXCEPT ![g] = {[t EXCEPT !.fresh = FALSE] : t \in cache[g]}]
      /\ UNCHANGED <<ex, lock>>
    BY DEF Age
<1>2. cache \in [Grants -> SUBSET [fresh : BOOLEAN, refresh : BOOLEAN]]
    BY DEF TokenInv
<1> DEFINE old == {[t EXCEPT !.fresh = FALSE] : t \in cache[g]}
<1>3. old \in SUBSET [fresh : BOOLEAN, refresh : BOOLEAN] /\ \A t \in old : ~t.fresh
    <2>1. SUFFICES ASSUME NEW u \in old
                   PROVE  u \in [fresh : BOOLEAN, refresh : BOOLEAN] /\ ~u.fresh
        OBVIOUS
    <2>2. PICK t \in cache[g] : u = [t EXCEPT !.fresh = FALSE]
        OBVIOUS
    <2>3. t \in [fresh : BOOLEAN, refresh : BOOLEAN]
        BY <1>2
    <2>4. QED
        BY <2>2, <2>3
<1>4. cache' = [cache EXCEPT ![g] = old]
    BY <1>1
<1> HIDE DEF old
<1>5. cache' \in [Grants -> SUBSET [fresh : BOOLEAN, refresh : BOOLEAN]]
    BY <1>2, <1>3, <1>4
<1>6. ~Usable(g)' /\ \A h \in Grants : h # g => (Usable(h)' <=> Usable(h))
    BY <1>2, <1>3, <1>4 DEF Usable
<1>7. usable = [h \in Grants |-> IF Usable(h) THEN 1 ELSE 0]
    BY DEF TokenInv
<1>8. usable' = [h \in Grants |-> IF Usable(h)' THEN 1 ELSE 0]
    BY <1>1, <1>6, <1>7
<1>9. \A h \in Grants, t \in Senders : Fetching(t, h)' <=> Fetching(t, h)
    BY <1>1 DEF Fetching
<1>10. QED
    BY <1>1, <1>5, <1>6, <1>8, <1>9 DEF TokenInv

(* The user clears the tokens.                                              *)
LEMMA ClearTokens ==
    ASSUME TokenInv, ClearNamespace
    PROVE  TokenInv'
<1>1. /\ cache' = [g \in Grants |-> {}]
      /\ usable' = [g \in Grants |-> usable[g] - (IF Usable(g) THEN 1 ELSE 0)]
      /\ UNCHANGED <<ex, lock>>
    BY DEF ClearNamespace
<1>2. \A g \in Grants : ~Usable(g)'
    BY <1>1 DEF Usable
<1>3. usable = [g \in Grants |-> IF Usable(g) THEN 1 ELSE 0]
    BY DEF TokenInv
<1>4. usable' = [g \in Grants |-> 0]
    BY <1>1, <1>3
<1>5. usable' = [g \in Grants |-> IF Usable(g)' THEN 1 ELSE 0]
    BY <1>2, <1>4
<1>6. \A g \in Grants, t \in Senders : Fetching(t, g)' <=> Fetching(t, g)
    BY <1>1 DEF Fetching
<1>7. cache' \in [Grants -> SUBSET [fresh : BOOLEAN, refresh : BOOLEAN]]
    BY <1>1
<1>8. QED
    BY <1>1, <1>2, <1>5, <1>6, <1>7 DEF TokenInv

(* A worker, seen from the tokens.                                          *)
LEMMA WorksTokens ==
    ASSUME TokenInv, ExInv, PlanInv, NEW s \in Senders, Works(s)
    PROVE  TokenInv'
<1>1. ASSUME NEW q \in plan.requests, Start(s, q) PROVE TokenInv'
    <2>1. UNCHANGED tokenVars /\ ex[s].pc = "idle" /\ \A t \in Senders \ {s} : ex'[t] = ex[t]
        BY <1>1, GoesTo DEF Start
    <2>2. QED
        BY <1>1, <2>1, StartGood, OtherStep
<1>2. ASSUME Ask(s) PROVE TokenInv'
    <2>1. UNCHANGED tokenVars /\ ex[s].pc = "ask" /\ \A t \in Senders \ {s} : ex'[t] = ex[t]
        BY <1>2, GoesTo DEF Ask
    <2>2. QED
        BY <1>2, <2>1, AskGood, OtherStep
<1>3. ASSUME Script(s) PROVE TokenInv'
    <2>1. /\ UNCHANGED tokenVars /\ ex[s].pc = "script"
          /\ \A t \in Senders \ {s} : ex'[t] = ex[t]
        BY <1>3, GoesTo DEF Script
    <2>2. QED
        BY <1>3, <2>1, ScriptGood, OtherStep
<1>4. ASSUME BuildFails(s) \/ Build(s) \/ Token(s) PROVE TokenInv'
    <2>1. /\ UNCHANGED tokenVars /\ ex[s].pc = "build"
          /\ \A t \in Senders \ {s} : ex'[t] = ex[t]
        BY <1>4, GoesTo DEF BuildFails, Build, Token, Builds
    <2>2. QED
        BY <1>4, <2>1, BuildFailsGood, BuildGood, TokenGood, OtherStep
<1>5. ASSUME Refresh(s) \/ Grant(s) PROVE TokenInv'
    <2>1. ex[s].pc \in {"refresh", "grant"} /\ \E refresh \in BOOLEAN : Fetched(s, refresh)
        BY <1>5 DEF Refresh, Grant
    <2>2. QED
        BY <2>1, FetchedTokens
<1>6. ASSUME Hop(s) PROVE TokenInv'
    <2>1. UNCHANGED tokenVars /\ ex[s].pc = "hop" /\ \A t \in Senders \ {s} : ex'[t] = ex[t]
        BY <1>6, GoesTo DEF Hop
    <2>2. QED
        BY <1>6, <2>1, HopGood, OtherStep
<1>7. ASSUME DoFails(s) PROVE TokenInv'
    <2>1. UNCHANGED tokenVars /\ ex[s].pc = "sent" /\ \A t \in Senders \ {s} : ex'[t] = ex[t]
        BY <1>7, GoesTo DEF DoFails
    <2>2. QED
        BY <1>7, <2>1, DoFailsGood, OtherStep
<1>8. ASSUME NEW url \in Urls, Redirected(s, url) PROVE TokenInv'
    <2>1. UNCHANGED tokenVars /\ ex[s].pc = "sent" /\ \A t \in Senders \ {s} : ex'[t] = ex[t]
        BY <1>8, GoesTo DEF Redirected
    <2>2. QED
        BY <1>8, <2>1, RedirectedGood, OtherStep
<1>9. ASSUME NEW status \in {"ok", "401"}, Answer(s, status) PROVE TokenInv'
    <2>1. UNCHANGED tokenVars /\ ex[s].pc = "sent" /\ \A t \in Senders \ {s} : ex'[t] = ex[t]
        BY <1>9, GoesTo DEF Answer
    <2>2. QED
        BY <1>9, <2>1, AnswerGood, OtherStep
<1>10. ASSUME Challenged(s) \/ NotChallenged(s) PROVE TokenInv'
    <2>1. /\ UNCHANGED tokenVars /\ ex[s].pc = "answered"
          /\ \A t \in Senders \ {s} : ex'[t] = ex[t]
        BY <1>10, GoesTo DEF Challenged, NotChallenged
    <2>2. QED
        BY <1>10, <2>1, ChallengedGood, NotChallengedGood, OtherStep
<1>11. ASSUME Read(s) PROVE TokenInv'
    <2>1. UNCHANGED tokenVars /\ ex[s].pc = "read" /\ \A t \in Senders \ {s} : ex'[t] = ex[t]
        BY <1>11, GoesTo DEF Read
    <2>2. QED
        BY <1>11, <2>1, ReadGood, OtherStep
<1>12. QED
    BY <1>1, <1>2, <1>3, <1>4, <1>5, <1>6, <1>7, <1>8, <1>9, <1>10, <1>11,
       LockKeyTokens, RefreshFailsTokens, GrantFailsTokens
    DEF Works

(* A step of anyone.                                                        *)
LEMMA TokenStep ==
    ASSUME TokenInv, ExInv, PlanInv, [Next]_vars
    PROVE  TokenInv'
<1>1. ASSUME NEW level \in Levels, NEW name \in Names, EditVariable(level, name) PROVE TokenInv'
    BY <1>1, NoStep DEF EditVariable
<1>2. ASSUME JarStep PROVE TokenInv'
    BY <1>2, NoStep, JarStepKeeps
<1>3. ASSUME UNCHANGED vars PROVE TokenInv'
    BY <1>3, NoStep DEF vars
<1>4. QED
    BY <1>1, <1>2, <1>3, AgeTokens, ClearTokens, WorksTokens, NextIs

-----------------------------------------------------------------------------
(* The beginning: nobody is at anything, and there is no token. *)
LEMMA Beginning ==
    ASSUME Init
    PROVE  ExInv /\ TokenInv /\ PlanInv
<1>1. ExInv
    BY IdleGood DEF Init, ExInv
<1>2. TokenInv
    <2>1. \A g \in Grants : ~Usable(g)
        BY DEF Init, Usable
    <2>2. \A g \in Grants, s \in Senders : ~Fetching(s, g)
        BY IdleFields DEF Init, Fetching
    <2>3. NoOne \notin Senders
        BY WireAssumption
    <2>4. \A g \in Grants : lock[g] = NoOne
        BY DEF Init
    <2>5. usable = [g \in Grants |-> IF Usable(g) THEN 1 ELSE 0]
        BY <2>1 DEF Init
    <2>6. /\ cache \in [Grants -> SUBSET [fresh : BOOLEAN, refresh : BOOLEAN]]
          /\ lock \in [Grants -> Senders \cup {NoOne}]
        BY DEF Init
    <2>7. QED
        BY <2>1, <2>2, <2>3, <2>4, <2>5, <2>6 DEF TokenInv
<1>3. PlanInv
    <2>1. PICK p \in Plans : plan = [p EXCEPT !.scopes = {}]
        BY DEF Init
    <2>2. DOMAIN p = PlanFields /\ p.requests \subseteq Requests
        BY WireAssumption
    <2>3. QED
        BY <2>1, <2>2 DEF PlanInv, PlanFields
<1>4. QED
    BY <1>1, <1>2, <1>3

(* Every worker is where its record says, with the bodies of its answers    *)
(* and the lock of its token as they are there.                             *)
THEOREM WorkersGood == Spec => [](ExInv /\ TokenInv /\ PlanInv)
<1>1. Init => ExInv /\ TokenInv /\ PlanInv
    BY Beginning
<1>2. ExInv /\ TokenInv /\ PlanInv /\ [Next]_vars => (ExInv /\ TokenInv /\ PlanInv)'
    BY ExStep, TokenStep
<1>3. QED
    BY <1>1, <1>2, PTL DEF Spec

(* OneFetchPerToken (oauth.go: LockKey and the second look at the cache):   *)
(* whatever the workers do at the same time, no second token of a grant is  *)
(* fetched while the first is of use, and the one that fetches holds the    *)
(* lock, which it gives back on every way out.                              *)
THEOREM OneToken == Spec => []OneFetchPerToken
<1>1. ExInv /\ TokenInv /\ PlanInv => OneFetchPerToken
    <2>1. SUFFICES ASSUME TokenInv PROVE OneFetchPerToken
        OBVIOUS
    <2>2. \A g \in Grants : usable[g] \in {0, 1}
        BY <2>1 DEF TokenInv
    <2>3. QED
        BY <2>1, <2>2 DEF TokenInv, OneFetchPerToken
<1>2. QED
    BY <1>1, WorkersGood, PTL

(* BodiesBalanced (client.go: Do, doDigest and doNTLM): the body of the     *)
(* answer that is read is there, whichever request of a handshake failed,   *)
(* and every other has been closed.                                         *)
THEOREM BodiesClosed == Spec => []BodiesBalanced
<1>1. ExInv /\ TokenInv /\ PlanInv => BodiesBalanced
    <2>1. SUFFICES ASSUME ExInv, NEW s \in Senders
                   PROVE  /\ ex[s].out # "unreadable"
                          /\ ex[s].pc = "idle" => ex[s].first # "open" /\ ex[s].last # "open"
                          /\ ex[s].pc = "hop" /\ ex[s].auth = "ntlm" =>
                                ex[s].first # "open" /\ ex[s].last # "open"
        BY DEF BodiesBalanced
    <2>2. Shaped(ex[s]) /\ Bodies(ex[s])
        BY <2>1 DEF ExInv, Good
    <2>3. QED
        BY <2>2 DEF Shaped, Bodies, OnItsWay, Before
<1>2. QED
    BY <1>1, WorkersGood, PTL

-----------------------------------------------------------------------------
(* The jar. *)

(* A cookie that somebody may have set: the user, or a host for itself or   *)
(* for a domain of two labels or more that it belongs to.                   *)
Baked(c) ==
    /\ DOMAIN c = CookieFields
    /\ \/ c.by = User
       \/ /\ c.by \in Seq(Labels) /\ c.domain \in Seq(Labels)
          /\ IF c.hostOnly THEN c.domain = c.by
             ELSE Len(c.domain) > 1 /\ IsSuffix(c.domain, c.by)

(* A list of such cookies with no key twice.                                *)
JarList(j) ==
    /\ j \in Seq(ToSet(j))
    /\ \A i \in DOMAIN j : Baked(j[i])
    /\ \A i, k \in DOMAIN j : Key(j[i]) = Key(j[k]) => i = k

JarInv == JarList(jar) /\ \A c \in editing : Baked(c)

(* What two lists share has the same order in both.                         *)
KeepsPlace(a, b) ==
    \A i, j \in DOMAIN a, k, l \in DOMAIN b :
        i < j /\ Key(a[i]) = Key(b[k]) /\ Key(a[j]) = Key(b[l]) => k < l

(* A list is one of its elements.                                           *)
LEMMA ListOfItsOwn ==
    ASSUME NEW S, NEW j \in Seq(S)
    PROVE  j \in Seq(ToSet(j)) /\ DOMAIN j = 1 .. Len(j) /\ Len(j) \in Nat
<1>1. Len(j) \in Nat /\ DOMAIN j = 1 .. Len(j) /\ j \in [1 .. Len(j) -> S]
    BY LenProperties
<1>2. \A i \in 1 .. Len(j) : j[i] \in ToSet(j)
    BY <1>1 DEF ToSet
<1>3. j \in [1 .. Len(j) -> ToSet(j)]
    BY <1>1, <1>2
<1>4. QED
    BY <1>1, <1>3, SeqDef

(* A jar from which some have been taken.                                   *)
LEMMA PickJar ==
    ASSUME NEW j, JarList(j), NEW at \in SUBSET DOMAIN j
    PROVE  /\ JarList(Pick(j, at)) /\ KeepsPlace(j, Pick(j, at))
           /\ \A k \in DOMAIN Pick(j, at) : \E i \in at : Pick(j, at)[k] = j[i]
           /\ \A i \in at : \E k \in DOMAIN Pick(j, at) : Pick(j, at)[k] = j[i]
<1> DEFINE b == Pick(j, at)
<1>1. j \in Seq(ToSet(j)) /\ DOMAIN j = 1 .. Len(j) /\ Len(j) \in Nat
    BY ListOfItsOwn DEF JarList
<1>2. at \in SUBSET (1 .. Len(j)) /\ at \in SUBSET Int
    BY <1>1
<1>3. b \in Seq(ToSet(j)) /\ \E p : Along(b, j, p, at)
    BY <1>1, <1>2, PickProperties
<1> HIDE DEF b
<1>4. PICK p : Along(b, j, p, at)
    BY <1>3
<1>5. b \in Seq(ToSet(b)) /\ DOMAIN b = 1 .. Len(b) /\ Len(b) \in Nat
    BY <1>3, ListOfItsOwn
<1>6. Way(Len(b), p, at) /\ \A k \in 1 .. Len(b) : b[k] = j[p[k]]
    BY <1>4 DEF Along
<1>7. /\ \A k \in DOMAIN b : p[k] \in at /\ p[k] \in DOMAIN j /\ b[k] = j[p[k]]
      /\ \A x \in at : \E k \in DOMAIN b : p[k] = x
    BY <1>5, <1>6 DEF Way
<1>8. \A k, l \in DOMAIN b : (p[k] < p[l] => k < l) /\ (p[k] = p[l] => k = l)
    <2>1. Ordered(Len(b), p)
        BY <1>2, <1>5, <1>6, WayBack
    <2>2. QED
        BY <2>1, <1>5 DEF Ordered
<1>9. JarList(b)
    <2>1. \A k, l \in DOMAIN b : Key(b[k]) = Key(b[l]) => k = l
        BY <1>7, <1>8 DEF JarList
    <2>2. \A k \in DOMAIN b : Baked(b[k])
        BY <1>7 DEF JarList
    <2>3. QED
        BY <1>5, <2>1, <2>2 DEF JarList
<1>10. KeepsPlace(j, b)
    <2>1. SUFFICES ASSUME NEW i1 \in DOMAIN j, NEW i2 \in DOMAIN j,
                          NEW k \in DOMAIN b, NEW l \in DOMAIN b,
                          i1 < i2, Key(j[i1]) = Key(b[k]), Key(j[i2]) = Key(b[l])
                   PROVE  k < l
        BY DEF KeepsPlace
    <2>2. i1 = p[k] /\ i2 = p[l]
        BY <2>1, <1>7 DEF JarList
    <2>3. QED
        BY <2>1, <2>2, <1>8
<1>11. \A i \in at : \E k \in DOMAIN b : b[k] = j[i]
    BY <1>7
<1>12. \A k \in DOMAIN b : \E i \in at : b[k] = j[i]
    BY <1>7
<1>13. QED
    BY <1>9, <1>10, <1>11, <1>12 DEF b

(* The others, when those of one key are taken out.                         *)
LEMMA DroppedJar ==
    ASSUME NEW j, JarList(j), NEW key
    PROVE  /\ JarList(Dropped(j, key)) /\ KeepsPlace(j, Dropped(j, key))
           /\ \A i \in DOMAIN j : Key(j[i]) # key =>
                \E k \in DOMAIN Dropped(j, key) : Dropped(j, key)[k] = j[i]
           /\ \A k \in DOMAIN Dropped(j, key) : Key(Dropped(j, key)[k]) # key
<1> DEFINE at == {i \in DOMAIN j : Key(j[i]) # key}
<1>1. at \in SUBSET DOMAIN j /\ Dropped(j, key) = Pick(j, at)
    BY DEF Dropped
<1>2. /\ \A i \in DOMAIN j : Key(j[i]) # key => i \in at
      /\ \A i \in at : Key(j[i]) # key
    OBVIOUS
<1> HIDE DEF at
<1>3. QED
    BY <1>1, <1>2, PickJar

(* Those that have not expired.                                             *)
LEMMA LiveJar ==
    ASSUME NEW j, JarList(j)
    PROVE  /\ JarList(Live(j)) /\ KeepsPlace(j, Live(j))
           /\ \A k \in DOMAIN Live(j) : \E i \in DOMAIN j :
                Live(j)[k] = j[i] /\ j[i].life # "past"
<1> DEFINE at == {i \in DOMAIN j : j[i].life # "past"}
<1>1. at \in SUBSET DOMAIN j /\ Live(j) = Pick(j, at)
    BY DEF Live
<1>2. \A i \in at : i \in DOMAIN j /\ j[i].life # "past"
    OBVIOUS
<1> HIDE DEF at
<1>3. QED
    BY <1>1, <1>2, PickJar

(* A cookie is stored, in its place or at the end.                          *)
LEMMA StoreJar ==
    ASSUME NEW j, JarList(j), NEW c, Baked(c)
    PROVE  /\ JarList(Store(j, c)) /\ KeepsPlace(j, Store(j, c))
           /\ \A k \in DOMAIN Store(j, c) :
                Key(Store(j, c)[k]) = Key(c) \/ \E i \in DOMAIN j : Store(j, c)[k] = j[i]
<1>1. j \in Seq(ToSet(j)) /\ DOMAIN j = 1 .. Len(j) /\ Len(j) \in Nat
    BY ListOfItsOwn DEF JarList
<1>2. CASE \E i \in DOMAIN j : Key(j[i]) = Key(c)
    <2> DEFINE b == [i \in DOMAIN j |-> IF Key(j[i]) = Key(c) THEN c ELSE j[i]]
    <2>1. Store(j, c) = b
        BY <1>2 DEF Store
    <2>2. b \in Seq(ToSet(j) \cup {c})
        <3>1. \A i \in 1 .. Len(j) : j[i] \in ToSet(j) \cup {c}
            BY <1>1, ElementOfSeq
        <3>2. b \in [1 .. Len(j) -> ToSet(j) \cup {c}]
            BY <1>1, <3>1
        <3>3. QED
            BY <1>1, <3>2, SeqDef
    <2>3. DOMAIN b = DOMAIN j
        OBVIOUS
    <2>4. \A i \in DOMAIN j : Key(b[i]) = Key(j[i]) /\ (b[i] = c \/ b[i] = j[i])
        OBVIOUS
    <2> HIDE DEF b
    <2>5. b \in Seq(ToSet(b))
        BY <2>2, ListOfItsOwn
    <2>6. JarList(b)
        BY <2>3, <2>4, <2>5 DEF JarList
    <2>7. KeepsPlace(j, b)
        <3>1. SUFFICES ASSUME NEW i1 \in DOMAIN j, NEW i2 \in DOMAIN j,
                              NEW k \in DOMAIN j, NEW l \in DOMAIN j,
                              i1 < i2, Key(j[i1]) = Key(b[k]), Key(j[i2]) = Key(b[l])
                       PROVE  k < l
            BY <2>3 DEF KeepsPlace
        <3>2. i1 = k /\ i2 = l
            BY <3>1, <2>4 DEF JarList
        <3>3. QED
            BY <3>1, <3>2
    <2>8. QED
        BY <2>1, <2>3, <2>4, <2>6, <2>7
<1>3. CASE ~\E i \in DOMAIN j : Key(j[i]) = Key(c)
    <2> DEFINE b == Append(j, c)
    <2>1. Store(j, c) = b
        BY <1>3 DEF Store
    <2>2. j \in Seq(ToSet(j) \cup {c})
        BY <1>1, SeqMonotonic
    <2>3. /\ b \in Seq(ToSet(j) \cup {c}) /\ Len(b) = Len(j) + 1
          /\ \A i \in 1 .. Len(j) : b[i] = j[i]
          /\ b[Len(j) + 1] = c
        BY <1>1, <2>2, AppendProperties
    <2> HIDE DEF b
    <2>4. b \in Seq(ToSet(b)) /\ DOMAIN b = 1 .. Len(j) + 1
        BY <2>3, ListOfItsOwn
    <2>5. \A k \in DOMAIN b : (k \in DOMAIN j /\ b[k] = j[k]) \/ (k = Len(j) + 1 /\ b[k] = c)
        BY <1>1, <2>3, <2>4
    <2>6. JarList(b)
        BY <1>1, <1>3, <2>4, <2>5 DEF JarList
    <2>7. KeepsPlace(j, b)
        <3>1. SUFFICES ASSUME NEW i1 \in DOMAIN j, NEW i2 \in DOMAIN j,
                              NEW k \in DOMAIN b, NEW l \in DOMAIN b,
                              i1 < i2, Key(j[i1]) = Key(b[k]), Key(j[i2]) = Key(b[l])
                       PROVE  k < l
            BY DEF KeepsPlace
        <3>2. i1 = k /\ i2 = l
            BY <3>1, <1>3, <2>5 DEF JarList
        <3>3. QED
            BY <3>1, <3>2
    <2>8. QED
        BY <2>1, <2>5, <2>6, <2>7
<1>4. QED
    BY <1>2, <1>3

(* Two steps of a change: what comes back in the second was there between.  *)
LEMMA KeepsOn ==
    ASSUME NEW a, NEW b, NEW c, KeepsPlace(a, b), KeepsPlace(b, c),
           \A i \in DOMAIN a, k \in DOMAIN c :
                Key(a[i]) = Key(c[k]) => \E m \in DOMAIN b : Key(b[m]) = Key(c[k])
    PROVE  KeepsPlace(a, c)
<1>1. SUFFICES ASSUME NEW i \in DOMAIN a, NEW j \in DOMAIN a,
                      NEW k \in DOMAIN c, NEW l \in DOMAIN c,
                      i < j, Key(a[i]) = Key(c[k]), Key(a[j]) = Key(c[l])
               PROVE  k < l
    BY DEF KeepsPlace
<1>2. PICK m \in DOMAIN b : Key(b[m]) = Key(c[k])
    BY <1>1
<1>3. PICK n \in DOMAIN b : Key(b[n]) = Key(c[l])
    BY <1>1
<1>4. m < n
    BY <1>1, <1>2, <1>3 DEF KeepsPlace
<1>5. QED
    BY <1>2, <1>3, <1>4 DEF KeepsPlace

(* A change, after which the cookies that have expired are dropped.         *)
LEMMA ThenLive ==
    ASSUME NEW a, NEW b, JarList(b), KeepsPlace(a, b)
    PROVE  JarList(Live(b)) /\ KeepsPlace(a, Live(b))
<1> DEFINE c == Live(b)
<1>1. JarList(c) /\ KeepsPlace(b, c) /\ \A k \in DOMAIN c : \E i \in DOMAIN b : c[k] = b[i]
    BY LiveJar
<1> HIDE DEF c
<1>2. KeepsPlace(a, c)
    BY <1>1, KeepsOn
<1>3. QED
    BY <1>1, <1>2 DEF c

(* A list keeps its own order.                                              *)
LEMMA KeepsItself ==
    ASSUME NEW j, JarList(j)
    PROVE  KeepsPlace(j, j)
BY DEF JarList, KeepsPlace

(* The empty one.                                                           *)
LEMMA NoJar == JarList(<<>>) /\ \A j : KeepsPlace(j, <<>>)
<1>1. <<>> \in Seq(ToSet(<<>>)) /\ DOMAIN <<>> = {}
    BY EmptySeq, LenProperties
<1>2. QED
    BY <1>1 DEF JarList, KeepsPlace

(* A cookie is replaced by what the form has become.                        *)
LEMMA ReplaceJar ==
    ASSUME NEW j, JarList(j), NEW c, Baked(c), NEW old
    PROVE  LET kept == IF Key(old) # Key(c) THEN Dropped(j, Key(old)) ELSE j IN
           JarList(Store(kept, c)) /\ KeepsPlace(j, Store(kept, c))
<1>1. CASE Key(old) = Key(c)
    BY <1>1, StoreJar
<1>2. CASE Key(old) # Key(c)
    <2> DEFINE kept == Dropped(j, Key(old))
               b == Store(kept, c)
    <2>1. /\ JarList(kept) /\ KeepsPlace(j, kept)
          /\ \A i \in DOMAIN j : Key(j[i]) # Key(old) => \E k \in DOMAIN kept : kept[k] = j[i]
          /\ \A k \in DOMAIN kept : Key(kept[k]) # Key(old)
        BY DroppedJar
    <2> HIDE DEF kept
    <2>2. /\ JarList(b) /\ KeepsPlace(kept, b)
          /\ \A k \in DOMAIN b : Key(b[k]) = Key(c) \/ \E i \in DOMAIN kept : b[k] = kept[i]
        BY <2>1, StoreJar
    <2> HIDE DEF b
    <2>3. \A i \in DOMAIN j, k \in DOMAIN b :
            Key(j[i]) = Key(b[k]) => \E m \in DOMAIN kept : Key(kept[m]) = Key(b[k])
        <3>1. SUFFICES ASSUME NEW i \in DOMAIN j, NEW k \in DOMAIN b, Key(j[i]) = Key(b[k])
                       PROVE  \E m \in DOMAIN kept : Key(kept[m]) = Key(b[k])
            OBVIOUS
        <3>2. Key(b[k]) # Key(old)
            BY <2>1, <2>2, <1>2
        <3>3. QED
            BY <3>1, <3>2, <2>1
    <2>4. KeepsPlace(j, b)
        BY <2>1, <2>2, <2>3, KeepsOn
    <2>5. QED
        BY <2>2, <2>4, <1>2 DEF kept, b
<1>3. QED
    BY <1>1, <1>2

(* A cookie as Received makes it of the header.                             *)
Cookie(url, c, scope) ==
    [name |-> c.name, domain |-> scope.domain, hostOnly |-> scope.hostOnly,
     path |-> IF c.path = NoPath THEN DefaultPath(url.path) ELSE c.path,
     secure |-> c.secure, life |-> c.life, by |-> url.host]

(* The scope that a host may give it.                                       *)
LEMMA CookieBaked ==
    ASSUME NEW url \in Urls, NEW c \in SetCookies, NEW scope \in DomainAttr(url.host, c.domain)
    PROVE  Baked(Cookie(url, c, scope))
<1> DEFINE k == Cookie(url, c, scope)
<1>1. /\ DOMAIN k = CookieFields /\ k.by = url.host
      /\ k.domain = scope.domain /\ k.hostOnly = scope.hostOnly
    BY DEF Cookie, CookieFields
<1> HIDE DEF k
<1>2. url.host \in Seq(Labels) /\ (c.domain = NoDomain \/ c.domain \in Seq(Labels) \ {<<>>})
    BY WireAssumption
<1>3. CASE c.domain = NoDomain
    <2>1. scope = [domain |-> url.host, hostOnly |-> TRUE]
        BY <1>3 DEF DomainAttr
    <2>2. QED
        BY <2>1, <1>1, <1>2 DEF Baked, k
<1>4. CASE c.domain # NoDomain /\ Len(c.domain) = 1
    <2>1. scope.domain = url.host /\ scope.hostOnly = TRUE
        BY <1>4 DEF DomainAttr
    <2>2. QED
        BY <2>1, <1>1, <1>2 DEF Baked, k
<1>5. CASE c.domain # NoDomain /\ Len(c.domain) # 1
    <2>1. IsSuffix(c.domain, url.host) /\ scope = [domain |-> c.domain, hostOnly |-> FALSE]
        BY <1>5 DEF DomainAttr
    <2>2. c.domain \in Seq(Labels) /\ Len(c.domain) > 1
        <3>1. c.domain \in Seq(Labels) /\ c.domain # <<>>
            BY <1>2, <1>5
        <3> DEFINE n == Len(c.domain)
        <3>2. n \in Nat \ {0} /\ n # 1
            BY <3>1, <1>5, NotEmpty
        <3> HIDE DEF n
        <3>3. n > 1
            BY <3>2
        <3>4. QED
            BY <3>1, <3>3 DEF n
    <2>3. k.domain = c.domain /\ k.hostOnly = FALSE
        BY <2>1, <1>1
    <2>4. QED
        BY <2>1, <2>2, <2>3, <1>1, <1>2 DEF Baked, k
<1>6. QED
    BY <1>3, <1>4, <1>5

(* A cookie comes with an answer.                                           *)
LEMMA ReceivedJar ==
    ASSUME NEW j, JarList(j), NEW url \in Urls, NEW c \in SetCookies
    PROVE  JarList(Received(j, url, c)) /\ KeepsPlace(j, Received(j, url, c))
<1> DEFINE new == {Cookie(url, c, scope) : scope \in DomainAttr(url.host, c.domain)}
<1>1. Received(j, url, c) =
        IF new = {} THEN j
        ELSE LET k == CHOOSE k \in new : TRUE IN
             IF c.life = "gone" THEN Dropped(j, Key(k)) ELSE Store(j, k)
    BY DEF Received, Cookie
<1>2. \A k \in new : Baked(k)
    BY CookieBaked
<1> HIDE DEF new
<1>3. CASE new = {}
    BY <1>1, <1>3, KeepsItself
<1>4. CASE new # {}
    <2> DEFINE k == CHOOSE k \in new : TRUE
    <2>1. k \in new
        BY <1>4
    <2>2. Received(j, url, c) = IF c.life = "gone" THEN Dropped(j, Key(k)) ELSE Store(j, k)
        BY <1>1, <1>4
    <2> HIDE DEF k
    <2>3. Baked(k)
        BY <2>1, <1>2
    <2>4. QED
        BY <2>2, <2>3, DroppedJar, StoreJar
<1>5. QED
    BY <1>3, <1>4

(* The time of a cookie comes.                                              *)
Past(c) == [c EXCEPT !.life = IF @ = "later" THEN "past" ELSE @]
LEMMA PastBaked ==
    ASSUME NEW c, Baked(c)
    PROVE  Baked(Past(c)) /\ Key(Past(c)) = Key(c)
<1> DEFINE d == Past(c)
<1>1. /\ DOMAIN d = CookieFields /\ d.by = c.by /\ d.domain = c.domain
      /\ d.hostOnly = c.hostOnly /\ d.path = c.path /\ d.name = c.name
    BY DEF Baked, Past, CookieFields
<1> HIDE DEF d
<1>2. Baked(d)
    BY <1>1 DEF Baked
<1>3. Key(d) = Key(c)
    BY <1>1 DEF Key
<1>4. QED
    BY <1>2, <1>3 DEF d

LEMMA ExpireJar ==
    ASSUME NEW j, JarList(j)
    PROVE  /\ JarList([i \in DOMAIN j |-> Past(j[i])])
           /\ KeepsPlace(j, [i \in DOMAIN j |-> Past(j[i])])
<1> DEFINE b == [i \in DOMAIN j |-> Past(j[i])]
<1>1. j \in Seq(ToSet(j)) /\ DOMAIN j = 1 .. Len(j) /\ Len(j) \in Nat
    BY ListOfItsOwn DEF JarList
<1>2. b \in Seq(ToSet(b))
    <2>1. b \in [1 .. Len(j) -> {Past(j[i]) : i \in DOMAIN j}]
        BY <1>1
    <2>2. b \in Seq({Past(j[i]) : i \in DOMAIN j})
        BY <1>1, <2>1, SeqDef
    <2>3. QED
        BY <2>2, ListOfItsOwn
<1>3. DOMAIN b = DOMAIN j /\ \A i \in DOMAIN j : Baked(b[i]) /\ Key(b[i]) = Key(j[i])
    BY PastBaked DEF JarList
<1> HIDE DEF b
<1>4. JarList(b)
    BY <1>2, <1>3 DEF JarList
<1>5. KeepsPlace(j, b)
    <2>1. SUFFICES ASSUME NEW i1 \in DOMAIN j, NEW i2 \in DOMAIN j,
                          NEW k \in DOMAIN j, NEW l \in DOMAIN j,
                          i1 < i2, Key(j[i1]) = Key(b[k]), Key(j[i2]) = Key(b[l])
                   PROVE  k < l
        BY <1>3 DEF KeepsPlace
    <2>2. i1 = k /\ i2 = l
        BY <2>1, <1>3 DEF JarList
    <2>3. QED
        BY <2>1, <2>2
<1>6. QED
    BY <1>4, <1>5 DEF b

(* What the user types in.                                                  *)
LEMMA FormBaked ==
    ASSUME NEW c \in Edits, NEW old
    PROVE  Baked(c) /\ Baked(Form(c, old))
<1>1. DOMAIN c = CookieFields /\ c.by = User
    BY WireAssumption
<1>2. DOMAIN Form(c, old) = CookieFields /\ Form(c, old).by = User
    BY <1>1 DEF Form, CookieFields
<1>3. QED
    BY <1>1, <1>2 DEF Baked

-----------------------------------------------------------------------------
(* The steps that touch the jar. *)

(* The user edits it.                                                       *)
LEMMA EditedJar ==
    ASSUME JarInv, NEW j, JarList(j), KeepsPlace(jar, j), Edited(j)
    PROVE  JarList(jar') /\ KeepsPlace(jar, jar')
BY ThenLive DEF JarInv, Edited

LEMMA JarStepJar ==
    ASSUME JarInv, JarStep
    PROVE  JarInv' /\ KeepsPlace(jar, jar')
<1>0. JarList(jar) /\ \A c \in editing : Baked(c)
    BY DEF JarInv
<1>1. ASSUME NEW c \in Edits, AddCookie(c) PROVE JarInv' /\ KeepsPlace(jar, jar')
    <2>1. Edited(Store(jar, c)) /\ editing' = editing
        BY <1>1 DEF AddCookie
    <2>2. JarList(Store(jar, c)) /\ KeepsPlace(jar, Store(jar, c))
        BY <1>0, FormBaked, StoreJar
    <2>3. QED
        BY <2>1, <2>2, EditedJar DEF JarInv
<1>2. ASSUME NEW c \in Edits, ReplaceCookie(c) PROVE JarInv' /\ KeepsPlace(jar, jar')
    <2>1. PICK old \in editing :
            LET new == Form(c, old)
                kept == IF Key(old) # Key(new) THEN Dropped(jar, Key(old)) ELSE jar
            IN Edited(Store(kept, new))
        BY <1>2 DEF ReplaceCookie
    <2>2. editing' = {}
        BY <1>2 DEF ReplaceCookie
    <2> DEFINE new == Form(c, old)
               kept == IF Key(old) # Key(new) THEN Dropped(jar, Key(old)) ELSE jar
    <2>3. Baked(new)
        BY FormBaked
    <2>4. JarList(Store(kept, new)) /\ KeepsPlace(jar, Store(kept, new))
        BY <1>0, <2>3, ReplaceJar
    <2>5. Edited(Store(kept, new))
        BY <2>1
    <2> HIDE DEF new, kept
    <2>6. QED
        BY <2>2, <2>4, <2>5, EditedJar DEF JarInv
<1>3. ASSUME NEW i \in DOMAIN jar, OpenCookie(i) PROVE JarInv' /\ KeepsPlace(jar, jar')
    <2>1. i \in DOMAIN Live(jar) /\ jar' = Live(jar) /\ editing' = {Live(jar)[i]}
        BY <1>3 DEF OpenCookie
    <2>2. JarList(Live(jar)) /\ KeepsPlace(jar, Live(jar))
        BY <1>0, LiveJar
    <2>3. Baked(Live(jar)[i])
        BY <2>1, <2>2 DEF JarList
    <2>4. QED
        BY <2>1, <2>2, <2>3 DEF JarInv
<1>4. ASSUME NEW i \in DOMAIN jar, RemoveCookie(i) PROVE JarInv' /\ KeepsPlace(jar, jar')
    <2>1. Edited(Dropped(jar, Key(jar[i]))) /\ editing' = editing
        BY <1>4 DEF RemoveCookie
    <2>2. /\ JarList(Dropped(jar, Key(jar[i])))
          /\ KeepsPlace(jar, Dropped(jar, Key(jar[i])))
        BY <1>0, DroppedJar
    <2>3. QED
        BY <1>0, <2>1, <2>2, EditedJar DEF JarInv
<1>5. ASSUME ClearJar PROVE JarInv' /\ KeepsPlace(jar, jar')
    <2>1. Edited(<<>>) /\ editing' = editing
        BY <1>5 DEF ClearJar
    <2>2. QED
        BY <1>0, <2>1, NoJar, EditedJar DEF JarInv
<1>6. ASSUME Expire PROVE JarInv' /\ KeepsPlace(jar, jar')
    <2>1. jar' = [i \in DOMAIN jar |-> Past(jar[i])] /\ editing' = {Past(c) : c \in editing}
        BY <1>6 DEF Expire, Past
    <2>2. JarList(jar') /\ KeepsPlace(jar, jar')
        BY <1>0, <2>1, ExpireJar
    <2>3. \A c \in editing' : Baked(c)
        BY <1>0, <2>1, PastBaked
    <2>4. QED
        BY <2>2, <2>3 DEF JarInv
<1>7. QED
    BY <1>1, <1>2, <1>3, <1>4, <1>5, <1>6 DEF JarStep

(* A worker, seen from the jar: a hop purges it, an answer adds to it.      *)
LEMMA WorksJar ==
    ASSUME JarInv, ExInv, NEW s \in Senders, Works(s)
    PROVE  JarInv' /\ (jar' = jar \/ KeepsPlace(jar, jar'))
<1>0. JarList(jar) /\ \A c \in editing : Baked(c)
    BY DEF JarInv
<1>1. ASSUME UNCHANGED jarVars PROVE JarInv' /\ jar' = jar
    BY <1>1 DEF jarVars, JarInv
<1>2. ASSUME Cookies(s), ex[s].pc = "sent", UNCHANGED editing
      PROVE  JarInv' /\ (jar' = jar \/ KeepsPlace(jar, jar'))
    <2>1. ex[s].url \in Urls
        BY <1>2 DEF ExInv, Good, Course
    <2>2. CASE UNCHANGED jar
        BY <1>0, <1>2, <2>2 DEF JarInv
    <2>3. ASSUME NEW c \in SetCookies, jar' = Received(jar, ex[s].url, c)
          PROVE  JarInv' /\ KeepsPlace(jar, jar')
        BY <1>0, <1>2, <2>1, <2>3, ReceivedJar DEF JarInv
    <2>4. QED
        BY <1>2, <2>2, <2>3 DEF Cookies
<1>3. ASSUME Hop(s) PROVE JarInv' /\ KeepsPlace(jar, jar')
    <2>1. jar' = Live(jar) /\ editing' = editing
        BY <1>3 DEF Hop
    <2>2. QED
        BY <1>0, <2>1, LiveJar DEF JarInv
<1>4. ASSUME NEW q \in plan.requests, Start(s, q) PROVE UNCHANGED jarVars
    BY <1>4 DEF Start
<1>5. ASSUME Script(s) \/ DoFails(s) PROVE UNCHANGED jarVars
    BY <1>5 DEF Script, DoFails
<1>6. ASSUME \/ Ask(s) \/ Build(s) \/ BuildFails(s) \/ Token(s) \/ LockKey(s) \/ RefreshFails(s)
             \/ GrantFails(s) \/ Challenged(s) \/ NotChallenged(s) \/ Read(s)
      PROVE  Keep
    BY <1>6 DEF Ask, Build, BuildFails, Token, LockKey, RefreshFails, GrantFails, Challenged,
                NotChallenged, Read
<1>7. ASSUME Refresh(s) \/ Grant(s) PROVE Keep
    BY <1>7 DEF Refresh, Grant, Fetched
<1>8. ASSUME NEW url \in Urls, Redirected(s, url)
      PROVE  Cookies(s) /\ ex[s].pc = "sent" /\ UNCHANGED editing
    BY <1>8 DEF Redirected
<1>9. ASSUME NEW status \in {"ok", "401"}, Answer(s, status)
      PROVE  Cookies(s) /\ ex[s].pc = "sent" /\ UNCHANGED editing
    BY <1>9 DEF Answer
<1>10. ASSUME Keep PROVE UNCHANGED jarVars
    BY <1>10 DEF Keep
<1>11. QED
    BY <1>1, <1>2, <1>3, <1>4, <1>5, <1>6, <1>7, <1>8, <1>9, <1>10 DEF Works

LEMMA JarInvStep ==
    ASSUME JarInv, ExInv, [Next]_vars
    PROVE  JarInv' /\ (jar' = jar \/ KeepsPlace(jar, jar'))
<1>1. ASSUME UNCHANGED jarVars PROVE JarInv' /\ jar' = jar
    BY <1>1 DEF jarVars, JarInv
<1>2. ASSUME NEW level \in Levels, NEW name \in Names, EditVariable(level, name)
      PROVE  UNCHANGED jarVars
    BY <1>2 DEF EditVariable
<1>3. ASSUME ClearNamespace \/ \E g \in Grants : Age(g) PROVE UNCHANGED jarVars
    BY <1>3 DEF ClearNamespace, Age, Keep
<1>4. ASSUME UNCHANGED vars PROVE UNCHANGED jarVars
    BY <1>4 DEF vars, jarVars
<1>5. QED
    BY <1>1, <1>2, <1>3, <1>4, JarStepJar, WorksJar, NextIs

-----------------------------------------------------------------------------
(* What goes out. *)

(* A hop that takes along nothing that is not for it.                       *)
Straight(s, hop) ==
    /\ hop.key /\ s = UI => hop.url.host = hop.origin.host /\ ~Downgrade(hop)
    /\ hop.authorization => IsSuffix(hop.origin.host, hop.url.host) /\ ~Downgrade(hop)
    /\ \A c \in hop.cookies :
        /\ c.by = User \/ Related(c.by, hop.url.host)
        /\ c.hostOnly => c.domain = hop.url.host
        /\ c.life # "past" /\ (c.secure => hop.url.secure)
WireInv == DOMAIN wire = Senders /\ NothingGoesAstray

(* A cookie that matches a URL has been set by a host related to that of    *)
(* the URL.                                                                 *)
LEMMA MatchesRelated ==
    ASSUME NEW c, Baked(c), NEW url \in Urls, Matches(c, url)
    PROVE  /\ c.by = User \/ Related(c.by, url.host)
           /\ c.hostOnly => c.domain = url.host
           /\ c.secure => url.secure
<1>1. c.secure => url.secure
    BY DEF Matches
<1>2. c.domain = url.host \/ (~c.hostOnly /\ IsSuffix(c.domain, url.host))
    BY DEF Matches
<1>3. ASSUME c.by # User PROVE Related(c.by, url.host)
    <2>1. /\ c.by \in Seq(Labels) /\ c.domain \in Seq(Labels)
          /\ IF c.hostOnly THEN c.domain = c.by
             ELSE Len(c.domain) > 1 /\ IsSuffix(c.domain, c.by)
        BY <1>3 DEF Baked
    <2>2. CASE c.hostOnly
        BY <2>1, <2>2, <1>2 DEF Related
    <2>3. CASE ~c.hostOnly
        <3>1. Len(c.domain) > 1 /\ IsSuffix(c.domain, c.by)
            BY <2>1, <2>3
        <3>2. c.domain # <<>>
            BY <3>1, EmptySeq
        <3>3. \E n \in 1 .. Len(c.by) : c.domain = SubSeq(c.by, n, Len(c.by))
            BY <2>1, <3>1, <3>2, SuffixIsRest
        <3>4. IsSuffix(c.domain, url.host)
            BY <1>2, <2>1, OwnSuffix
        <3>5. QED
            BY <3>1, <3>3, <3>4 DEF Related
    <2>4. QED
        BY <2>2, <2>3
<1>4. QED
    BY <1>1, <1>2, <1>3

(* A hop is sent.                                                           *)
LEMMA HopStraight ==
    ASSUME ExInv, JarInv, WireInv, NEW s \in Senders, Hop(s)
    PROVE  WireInv'
<1> DEFINE x == ex[s]
           hop == [url |-> x.url, origin |-> x.origin,
                   key |-> CarriesKey(s, x), authorization |-> CarriesAuthorization(x),
                   cookies |-> {c \in ToSet(jar') : Matches(c, x.url)}]
<1>1. jar' = Live(jar) /\ wire' = [wire EXCEPT ![s] = {hop}]
    BY DEF Hop
<1>2. Good(x) /\ x.pc = "hop"
    BY DEF ExInv, Hop
<1>3. x.url \in Urls /\ (x.left \/ IsSuffix(x.origin.host, x.url.host))
    BY <1>2 DEF Good, Course
<1>4. /\ hop.url = x.url /\ hop.origin = x.origin
      /\ hop.key = CarriesKey(s, x) /\ hop.authorization = CarriesAuthorization(x)
      /\ hop.cookies = {c \in ToSet(jar') : Matches(c, x.url)}
    OBVIOUS
<1> HIDE DEF hop
<1>5. hop.key /\ s = UI => hop.url.host = hop.origin.host /\ ~Downgrade(hop)
    BY <1>4 DEF CarriesKey, Downgrade
<1>6. hop.authorization => IsSuffix(hop.origin.host, hop.url.host) /\ ~Downgrade(hop)
    BY <1>3, <1>4 DEF CarriesAuthorization, Downgrade
<1>7. ASSUME NEW c \in hop.cookies
      PROVE  /\ c.by = User \/ Related(c.by, hop.url.host)
             /\ c.hostOnly => c.domain = hop.url.host
             /\ c.life # "past" /\ (c.secure => hop.url.secure)
    <2>1. c \in ToSet(jar') /\ Matches(c, x.url)
        BY <1>4
    <2>2. PICK k \in DOMAIN Live(jar) : c = Live(jar)[k]
        BY <2>1, <1>1 DEF ToSet
    <2>3. JarList(jar)
        BY DEF JarInv
    <2>4. PICK i \in DOMAIN jar : c = jar[i] /\ jar[i].life # "past"
        BY <2>2, <2>3, LiveJar
    <2>5. Baked(c)
        BY <2>3, <2>4 DEF JarList
    <2>6. QED
        BY <2>1, <2>4, <2>5, <1>3, <1>4, MatchesRelated
<1>8. Straight(s, hop)
    BY <1>5, <1>6, <1>7 DEF Straight
<1>9. DOMAIN wire = Senders /\ \A t \in Senders : \A h \in wire[t] : Straight(t, h)
    BY DEF WireInv, NothingGoesAstray, Straight
<1>10. DOMAIN wire' = Senders /\ \A t \in Senders : \A h \in wire'[t] : Straight(t, h)
    BY <1>1, <1>8, <1>9
<1>11. QED
    BY <1>10 DEF WireInv, NothingGoesAstray, Straight

(* An answer comes, or none: the hop is over.                               *)
LEMMA HopOver ==
    ASSUME WireInv, NEW s \in Senders, wire' = [wire EXCEPT ![s] = {}]
    PROVE  WireInv'
<1>1. DOMAIN wire = Senders /\ \A t \in Senders : \A h \in wire[t] : Straight(t, h)
    BY DEF WireInv, NothingGoesAstray, Straight
<1>2. DOMAIN wire' = Senders /\ \A t \in Senders : \A h \in wire'[t] : Straight(t, h)
    BY <1>1
<1>3. QED
    BY <1>2 DEF WireInv, NothingGoesAstray, Straight

LEMMA WireStep ==
    ASSUME ExInv, JarInv, WireInv, [Next]_vars
    PROVE  WireInv'
<1>1. ASSUME UNCHANGED wire PROVE WireInv'
    BY <1>1 DEF WireInv, NothingGoesAstray, Related, Downgrade
<1>2. ASSUME NEW level \in Levels, NEW name \in Names, EditVariable(level, name)
      PROVE  UNCHANGED wire
    BY <1>2 DEF EditVariable
<1>3. ASSUME ClearNamespace \/ \E g \in Grants : Age(g) PROVE UNCHANGED wire
    BY <1>3 DEF ClearNamespace, Age, Keep
<1>4. ASSUME UNCHANGED vars PROVE UNCHANGED wire
    BY <1>4 DEF vars
<1>5. ASSUME JarStep PROVE UNCHANGED wire
    BY <1>5, JarStepKeeps
<1>6. ASSUME NEW s \in Senders, Works(s) PROVE WireInv'
    <2>1. ASSUME NEW q \in plan.requests, Start(s, q) PROVE UNCHANGED wire
        BY <2>1 DEF Start
    <2>2. ASSUME Script(s) PROVE UNCHANGED wire
        BY <2>2 DEF Script
    <2>3. ASSUME \/ Ask(s) \/ Build(s) \/ BuildFails(s) \/ Token(s) \/ LockKey(s)
                 \/ RefreshFails(s) \/ GrantFails(s) \/ Challenged(s) \/ NotChallenged(s)
                 \/ Read(s)
          PROVE  UNCHANGED wire
        BY <2>3 DEF Ask, Build, BuildFails, Token, LockKey, RefreshFails, GrantFails, Challenged,
                    NotChallenged, Read, Keep
    <2>4. ASSUME Refresh(s) \/ Grant(s) PROVE UNCHANGED wire
        BY <2>4 DEF Refresh, Grant, Fetched, Keep
    <2>5. ASSUME DoFails(s) PROVE WireInv'
        BY <2>5, HopOver DEF DoFails
    <2>6. ASSUME NEW url \in Urls, Redirected(s, url) PROVE WireInv'
        BY <2>6, HopOver DEF Redirected, Cookies
    <2>7. ASSUME NEW status \in {"ok", "401"}, Answer(s, status) PROVE WireInv'
        BY <2>7, HopOver DEF Answer, Cookies
    <2>8. QED
        BY <1>6, <1>1, <2>1, <2>2, <2>3, <2>4, <2>5, <2>6, <2>7, HopStraight DEF Works
<1>7. QED
    BY <1>1, <1>2, <1>3, <1>4, <1>5, <1>6, NextIs

(* The jar is a list of cookies that hosts may set, no key twice in it, and *)
(* the hops on their way take along nothing that is not for them.           *)
THEOREM JarGood == Spec => [](ExInv /\ PlanInv /\ JarInv /\ WireInv)
<1>1. Init => ExInv /\ PlanInv /\ JarInv /\ WireInv
    <2>1. SUFFICES ASSUME Init PROVE JarInv /\ WireInv
        BY Beginning
    <2>2. JarInv
        BY <2>1, NoJar DEF Init, JarInv
    <2>3. WireInv
        BY <2>1 DEF Init, WireInv, NothingGoesAstray
    <2>4. QED
        BY <2>2, <2>3
<1>2. ExInv /\ PlanInv /\ JarInv /\ WireInv /\ [Next]_vars
        => (ExInv /\ PlanInv /\ JarInv /\ WireInv)'
    BY ExStep, JarInvStep, WireStep
<1>3. QED
    BY <1>1, <1>2, PTL DEF Spec

(* NothingGoesAstray (client.go: CheckRedirect; jar.go: domainAttr and      *)
(* domainMatch): over any chain of redirects, among any hosts, no hop has   *)
(* a credential or a cookie that is not for it, while the user edits the    *)
(* jar and other workers store in it.                                       *)
THEOREM NothingAstray == Spec => []NothingGoesAstray
<1>1. WireInv => NothingGoesAstray
    BY DEF WireInv
<1>2. QED
    BY <1>1, JarGood, PTL

(* CookiesKeepPlace (jar.go: store; cookies.go): no step, an edit that      *)
(* changes the key of a cookie included, moves two cookies past each other. *)
THEOREM CookiesInPlace == Spec => CookiesKeepPlace
<1>1. ExInv /\ JarInv /\ [Next]_vars =>
        [\A i, j \in DOMAIN jar, k, l \in DOMAIN jar' :
            i < j /\ Key(jar[i]) = Key(jar'[k]) /\ Key(jar[j]) = Key(jar'[l]) => k < l]_jar
    BY JarInvStep DEF KeepsPlace
<1>2. QED
    BY <1>1, JarGood, PTL DEF Spec, CookiesKeepPlace
=============================================================================
