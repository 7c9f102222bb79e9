-------------------------------- MODULE Scopes --------------------------------
(***************************************************************************)
(* The variables of a request (internal/chain: chainvars.go; the scopes    *)
(* that session.ResolverForNode and ui.chainExecutor put together).  What  *)
(* is made of a template with them is in Vars.                             *)
(*                                                                         *)
(* Data: a text is a sequence of tokens; one that is in Names stands for   *)
(* {{name}}.  A scope is a function from some of the names to texts.       *)
(* Blank names and disabled rows are left out.                             *)
(***************************************************************************)
EXTENDS Naturals, Sequences, SequencesExt, FiniteSets, TLC

CONSTANTS
    Names,          \* what may stand in {{ }}
    Prompts,        \* those that start with a "?"
    ChainNames,     \* those that start with "chain.": the alias and the path of each
    Views,          \* what the steps of the chain have sent and received, by alias
    Dynamic         \* the values of the names that start with a "$"

NoScope == <<>>     \* the function without arguments

-----------------------------------------------------------------------------
(* The fallback of a resolver: what a chain has brought, then Dynamic. *)

(* lookupJSONPath and scalarString: a document is a text, or a function     *)
(* from its keys or indices to documents; an object is no value.            *)
LookupJSON(document, path) ==
    LET end == FoldLeft(LAMBDA d, key : IF d.leaf \/ key \notin DOMAIN d.at
                                        THEN [leaf |-> FALSE, at |-> NoScope] ELSE d.at[key],
                        document, path)
    IN  IF end.leaf THEN {end.text} ELSE {}

(* lookupInResponse; what follows the name of a plain field is not looked   *)
(* at.                                                                      *)
LookupInResponse(response, path) ==
    CASE path[1] = "json" -> LookupJSON(response.json, Tail(path))
      [] path[1] = "headers" -> {response.headers[h] : h \in {path[2]} \cap DOMAIN response.headers}
      [] OTHER -> {response.plain[f] : f \in {path[1]} \cap DOMAIN response.plain}

(* lookupInView *)
LookupInView(view, path) ==
    IF path[1] = "response" THEN LookupInResponse(view.response, Tail(path))
    ELSE {view.request[f] : f \in {path[2]} \cap DOMAIN view.request}

(* VarLookup, as the function from the names it has a value for *)
VarLookup(views) ==
    LET Found(n) == LET c == ChainNames[n] IN
            IF c.alias \in DOMAIN views THEN LookupInView(views[c.alias], c.path) ELSE {}
    IN  [n \in {n \in DOMAIN ChainNames : Found(n) # {}} |-> CHOOSE v \in Found(n) : TRUE]

(* Compose: the first that has a value for the name *)
Compose(first, second) == first @@ second

(* PromptVars: the prompts that stand in the text itself. *)
PromptVars(text) == ToSet(text) \cap Prompts

-----------------------------------------------------------------------------
(* The scopes of the program, by level. *)
Levels == {"global", "dotenv", "collection", "env", "outer", "inner", "request"}
NoScopes == [l \in Levels |-> NoScope]

(* AncestorVars: the folders above a request, here two; the inner one wins. *)
AncestorVars(outer, inner) == inner @@ outer

(* They go under those of the request. *)
WithFolderVars(folders, own) == own @@ folders

(* The resolver of a request on its way, of the user's or of a run. *)
SendResolver(scopes, prompts, overlay) ==
    [scopes |-> <<scopes.global, scopes.dotenv, scopes.collection, scopes.env,
                  WithFolderVars(AncestorVars(scopes.outer, scopes.inner), scopes.request),
                  prompts, overlay>>,
     fallback |-> Compose(VarLookup(Views), Dynamic)]

(* ResolverForNode, of the preview under the URL *)
PreviewResolver(scopes, overlay) ==
    [scopes |-> <<scopes.global, scopes.dotenv, scopes.collection, scopes.env,
                  AncestorVars(scopes.outer, scopes.inner), scopes.request, overlay>>,
     fallback |-> Dynamic]

(* What a script reads with helena.env.get: the template, not its meaning. *)
Get(base, overlay, name) ==
    IF name \in DOMAIN overlay THEN {overlay[name]}
    ELSE {base[n] : n \in {name} \cap DOMAIN base}
=============================================================================
