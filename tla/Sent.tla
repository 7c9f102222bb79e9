--------------------------------- MODULE Sent ---------------------------------
(***************************************************************************)
(* A request on the wire, its templates expanded as Vars does: URLOf of    *)
(* Wire is Built, and ValuesOf is ResolveValues.                           *)
(***************************************************************************)
EXTENDS Wire, Vars

ASSUME SentAssumption ==
    /\ \A p \in Plans : \A l \in p.scopes :
        LET r == SendResolver(l, NoScope, NoScope) IN
            /\ URLOf(r, p.text, p.params) = Built(r, p.text, p.params)
            /\ ValuesOf(r, p.credentials) = ResolveValues(r, p.credentials)

(* The variables of the tree that a request should be sent with: those that *)
(* a send of the user has taken, with those of the folders for a run too.   *)
Meant(s) ==
    IF s = UI THEN ex[s].scopes
    ELSE [ex[s].scopes EXCEPT !.outer = scopes.outer, !.inner = scopes.inner]
HasFolderVars == scopes.outer # NoScope \/ scopes.inner # NoScope

(* What is sent is what the variables mean, level over level as in the      *)
(* order that session.go gives for ResolverForNode; whatever stands for     *)
(* itself is reported.  And a preview with no template left in it shows     *)
(* what is sent, while nothing has changed since.                           *)
(* Of a run it holds only as long as the folders have no variables: runOne  *)
(* leaves these out, although headlessExecutor is said to resolve variables *)
(* "identically to a GUI Send".                                             *)
SentAsMeant ==
    \A s \in Senders : ex[s].pc = "build" /\ (s = UI \/ ~HasFolderVars) =>
        LET x == ex[s]
            values == Values(Meant(s) @@ [prompt |-> x.prompts, overlay |-> x.overlay])
            url == Meaning(values, plan.text, {})
            used == ToSet(url) \cap PathNames \cap DOMAIN plan.params
            texts == {plan.text} \cup {plan.params[n] : n \in used} \cup ToSet(plan.credentials)
            preview == Preview(scopes, overlay, plan.text, plan.params)
        IN /\ URL(x).text = Apply(url, Filled([n \in used |-> Meaning(values, plan.params[n], {})]))
           /\ \A k \in DOMAIN plan.credentials :
                Credentials(x)[k].out = Meaning(values, plan.credentials[k], {})
           /\ Unresolved(x) = UNION {Missing(values, t, {}) : t \in texts}
           /\ s = UI /\ x.scopes = scopes /\ x.overlay = overlay
                    /\ ToSet(preview.text) \cap Names = {}
              => preview.text = URL(x).text
=============================================================================
