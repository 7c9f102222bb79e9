-------------------------------- MODULE Vars --------------------------------
(***************************************************************************)
(* {{name}} templates (internal/vars, internal/pathparam): what a resolver *)
(* over the scopes of Scopes makes of a text.                              *)
(*                                                                         *)
(* Data: a token of a text that is in PathNames stands for {name}; one     *)
(* that is neither this nor in Names is literal text.                      *)
(***************************************************************************)
EXTENDS Scopes

CONSTANTS
    PathNames,      \* what may stand in { }
    Chained         \* for the properties: what the chain names should stand for

-----------------------------------------------------------------------------
(* A Resolver: scopes from low to high precedence, and a fallback. *)
Defined(scopes, name) == \E i \in DOMAIN scopes : name \in DOMAIN scopes[i]
LookupScope(scopes, name) ==
    LET i == CHOOSE i \in DOMAIN scopes :
            /\ name \in DOMAIN scopes[i]
            /\ \A j \in i + 1 .. Len(scopes) : name \notin DOMAIN scopes[j]
    IN scopes[i][name]

(* resolveState, and the text written so far *)
Untouched == [out |-> <<>>, visiting |-> {}, missing |-> {}, memo |-> NoScope, noCache |-> {}]

RECURSIVE Expand(_, _, _)

(* Faulty: only the name at which a cycle closes is kept out of the memo. *)
SubstituteFaulty(r, token, st) ==
    IF token \notin Names THEN [st EXCEPT !.out = Append(@, token)]
    ELSE IF Defined(r.scopes, token)
    THEN IF token \in DOMAIN st.memo THEN [st EXCEPT !.out = @ \o st.memo[token]]
         ELSE IF token \in st.visiting
         THEN [st EXCEPT !.out = Append(@, token), !.missing = @ \cup {token},
                         !.noCache = @ \cup {token}]
         ELSE LET in == Expand(r, LookupScope(r.scopes, token),
                               [st EXCEPT !.visiting = @ \cup {token}, !.out = <<>>])
              IN [in EXCEPT !.out = st.out \o @, !.visiting = st.visiting,
                            !.memo = IF token \in in.noCache THEN @ ELSE (token :> in.out) @@ @]
    ELSE IF token \in DOMAIN r.fallback THEN [st EXCEPT !.out = @ \o r.fallback[token]]
    ELSE [st EXCEPT !.out = Append(@, token), !.missing = @ \cup {token}]

(* What expand does with one token. *)
Substitute(r, token, st) ==
    IF token \notin Names THEN [st EXCEPT !.out = Append(@, token)]
    ELSE IF Defined(r.scopes, token)
    THEN IF token \in DOMAIN st.memo THEN [st EXCEPT !.out = @ \o st.memo[token]]
         ELSE IF token \in st.visiting
         THEN [st EXCEPT !.out = Append(@, token), !.missing = @ \cup {token},
                         !.noCache = @ \cup st.visiting]
         ELSE LET in == Expand(r, LookupScope(r.scopes, token),
                               [st EXCEPT !.visiting = @ \cup {token}, !.out = <<>>])
              IN [in EXCEPT !.out = st.out \o @, !.visiting = st.visiting,
                            !.memo = IF token \in in.noCache THEN @ ELSE (token :> in.out) @@ @]
    ELSE IF token \in DOMAIN r.fallback THEN [st EXCEPT !.out = @ \o r.fallback[token]]
    ELSE [st EXCEPT !.out = Append(@, token), !.missing = @ \cup {token}]

Expand(r, text, st) ==
    IF text = <<>> THEN st ELSE Expand(r, Tail(text), Substitute(r, Head(text), st))

Resolve(r, text) == Expand(r, text, Untouched)

(* pathparam.Apply *)
Apply(text, fill) ==
    FlattenSeq([i \in DOMAIN text |->
        IF text[i] \in PathNames \cap DOMAIN fill THEN fill[text[i]] ELSE <<text[i]>>])

(* A parameter without a value leaves its {name}. *)
Filled(values) == [n \in {n \in DOMAIN values : values[n] # <<>>} |-> values[n]]

(* What Build makes of a URL with its path parameters: the text, and the    *)
(* names for which there is no value.                                       *)
Built(r, text, params) ==
    LET url == Resolve(r, text)
        used == ToSet(url.out) \cap PathNames \cap DOMAIN params
        fill == Filled([n \in used |-> Resolve(r, params[n]).out])
    IN [text |-> Apply(url.out, fill),
        missing |-> url.missing \cup UNION {Resolve(r, params[n]).missing : n \in used}]

(* ResolveValues, of the texts of the credentials that the auth has *)
ResolveValues(r, credentials) == [k \in DOMAIN credentials |-> Resolve(r, credentials[k])]

(* updateURLPreview: the text that is shown, and the names it warns about. *)
Preview(scopes, overlay, text, params) ==
    LET r == PreviewResolver(scopes, overlay)
        url == Resolve(r, text)
        base == ToSet(text) \cap PathNames \cap DOMAIN params
        fill == Filled([n \in base |-> Resolve(r, params[n]).out])
    IN [text |-> Apply(url.out, fill), missing |-> url.missing \ (Prompts \cup DOMAIN ChainNames)]

-----------------------------------------------------------------------------
(* The reference: a name stands for its value at the strongest level that   *)
(* has one, whose names stand for theirs, and so on; without a memo.  A     *)
(* name within its own value, and one without a value, stand for themselves *)
(* and are missing.  The values of the fallback are taken as they are.      *)
Strength == <<"global", "dotenv", "collection", "env", "outer", "inner", "request",
              "prompt", "overlay">>
Values(levels) ==
    LET Has(n) == {i \in DOMAIN Strength : n \in DOMAIN levels[Strength[i]]}
        strongest(n) == CHOOSE i \in Has(n) : \A j \in Has(n) : j <= i
    IN [n \in {n \in Names : Has(n) # {}} |-> levels[Strength[strongest(n)]][n]]

RECURSIVE Meaning(_, _, _), Missing(_, _, _)
Meaning(values, text, above) ==
    FlattenSeq([i \in DOMAIN text |->
        LET t == text[i] IN
        IF t \in DOMAIN values \ above THEN Meaning(values, values[t], above \cup {t})
        ELSE IF t \in DOMAIN (Chained @@ Dynamic) \ DOMAIN values THEN (Chained @@ Dynamic)[t]
        ELSE <<t>>])
Missing(values, text, above) ==
    UNION {IF t \in DOMAIN values \ above THEN Missing(values, values[t], above \cup {t})
           ELSE {t} \ (DOMAIN (Chained @@ Dynamic) \ DOMAIN values)
           : t \in ToSet(text) \cap Names}
=============================================================================
