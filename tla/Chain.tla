-------------------------------- MODULE Chain --------------------------------
(***************************************************************************)
(* chain.Resolve (internal/chain/chain.go): before a request is sent, the  *)
(* requests its chain names are executed, each after its own chain, and    *)
(* each sees the views of its own chain's steps under their aliases.       *)
(*                                                                         *)
(* The recursion of resolveSteps is written as an explicit stack: a frame  *)
(* is one call of it, the frame at the bottom the call for the leaf, the   *)
(* request the user sends.  The requests come from a snapshot taken when   *)
(* the send began, so nothing changes them during the run.                 *)
(*                                                                         *)
(* Data: a view is the number of the execution it captured.  The console   *)
(* lines and the texts of the errors are left out.                         *)
(***************************************************************************)
EXTENDS Naturals, Sequences

CONSTANTS
    Requests,       \* the leaf and the requests of the snapshot
    NoRequest,
    IDs, NoID,      \* stable request ids
    Paths, NoPath,  \* human paths, "Folder/Request"
    Aliases,
    GoodAliases,    \* JS identifiers that are no reserved word or property
    IDOf,           \* the id of a request; NoID if it was never saved
    ByID, ByPath,   \* what the finder answers, NoRequest for a miss
    Graphs,         \* the chains of the requests, in each snapshot considered
    MaxDepth,       \* MaxChainDepth
    MaxSteps        \* MaxChainSteps

Step == [alias : Aliases, id : IDs \cup {NoID}, path : Paths \cup {NoPath}]

ASSUME ChainAssumption ==
    /\ NoRequest \notin Requests
    /\ NoID \notin IDs /\ NoPath \notin Paths
    /\ IDs \cap Paths = {}      \* a path key starts with NUL, an id does not
    /\ GoodAliases \subseteq Aliases
    /\ IDOf \in [Requests -> IDs \cup {NoID}]
    /\ ByID \in [IDs -> Requests \cup {NoRequest}]
    /\ ByPath \in [Paths -> Requests \cup {NoRequest}]
    \* indexRequestsByID files a request under its own id
    /\ \A i \in IDs : ByID[i] # NoRequest => IDOf[ByID[i]] = i
    /\ Graphs \subseteq [Requests -> Seq(Step)]
    /\ MaxDepth \in Nat \ {0}
    /\ MaxSteps \in Nat

VARIABLES
    chain,      \* the chain of every request
    leaf,       \* the request being sent
    stack,      \* the calls of resolveSteps, the leaf's first
    visiting,   \* keys of the requests being expanded
    stepCount,  \* calls of ExecuteOnce
    runs,       \* history: the executions that succeeded, in order
    outcome     \* "running", "ok", "refused" by Resolve, or "error" of a step

vars == <<chain, leaf, stack, visiting, stepCount, runs, outcome>>

-----------------------------------------------------------------------------
(* resolveTarget: by id when the step has one, else or failing that by     *)
(* path.                                                                   *)
Target(step) ==
    IF step.id # NoID /\ ByID[step.id] # NoRequest THEN ByID[step.id]
    ELSE IF step.path # NoPath THEN ByPath[step.path]
    ELSE NoRequest

(* Faulty variants, each a plausible slip in the code, are defined just    *)
(* before the definitions they vary, their names ending in Faulty; nothing *)
(* uses them but the runs that check that a property notices.              *)

(* visitKey: the target's id, or the path the step names it by. *)
VisitKey(step) ==
    IF IDOf[Target(step)] # NoID THEN IDOf[Target(step)] ELSE step.path

NoViews == [a \in {} |-> 0]
Bind(views, alias, run) ==
    [a \in DOMAIN views \cup {alias} |-> IF a = alias THEN run ELSE views[a]]

Frame(r) == [req |-> r, pos |-> 1, out |-> NoViews]

Top == Len(stack)
Steps(frame) == chain[frame.req]
Current(frame) == Steps(frame)[frame.pos]       \* the step a call is at
Finished(frame) == frame.pos > Len(Steps(frame))

-----------------------------------------------------------------------------
Init ==
    /\ chain \in Graphs
    /\ leaf \in Requests
    /\ stack = <<Frame(leaf)>>
    /\ visiting = {IDOf[leaf]} \ {NoID}
    /\ stepCount = 0
    /\ runs = <<>>
    /\ outcome = "running"

(* Faulty: a second step may take an alias that is bound. *)
AcceptedFaulty(step) ==
    /\ step.alias \in GoodAliases
    /\ Target(step) # NoRequest
    /\ VisitKey(step) \notin visiting
    /\ Top < MaxDepth

(* The checks resolveSteps makes of a step before it expands it, and the   *)
(* one it makes of its own depth when it is called.                        *)
Accepted(step) ==
    /\ step.alias \in GoodAliases
    /\ step.alias \notin DOMAIN stack[Top].out
    /\ Target(step) # NoRequest
    /\ VisitKey(step) \notin visiting
    /\ Top < MaxDepth

Skipped(frame) == [frame EXCEPT !.pos = @ + 1]

(* Faulty: a step that comes back to a request being expanded is skipped,  *)
(* as countSteps does, rather than refused.                                *)
ExpandSkippingFaulty ==
    /\ outcome = "running" /\ ~Finished(stack[Top])
    /\ LET step == Current(stack[Top]) IN
        \/ /\ Accepted(step)
           /\ stack' = Append(stack, Frame(Target(step)))
           /\ visiting' = visiting \cup {VisitKey(step)}
           /\ UNCHANGED outcome
        \/ /\ Target(step) # NoRequest /\ VisitKey(step) \in visiting
           /\ stack' = [stack EXCEPT ![Top] = Skipped(@)]
           /\ UNCHANGED <<visiting, outcome>>
        \/ /\ ~Accepted(step) /\ (Target(step) # NoRequest => VisitKey(step) \notin visiting)
           /\ outcome' = "refused"
           /\ UNCHANGED <<stack, visiting>>
    /\ UNCHANGED <<chain, leaf, stepCount, runs>>

(* Faulty: such a step is tried again for ever. *)
ExpandRetryingFaulty ==
    /\ outcome = "running" /\ ~Finished(stack[Top])
    /\ LET step == Current(stack[Top]) IN
        \/ /\ Accepted(step)
           /\ stack' = Append(stack, Frame(Target(step)))
           /\ visiting' = visiting \cup {VisitKey(step)}
           /\ UNCHANGED outcome
        \/ /\ ~Accepted(step)
           /\ outcome' = IF Target(step) # NoRequest /\ VisitKey(step) \in visiting
                         THEN outcome ELSE "refused"
           /\ UNCHANGED <<stack, visiting>>
    /\ UNCHANGED <<chain, leaf, stepCount, runs>>

(* The next step of the call at the top: a call for the step's own chain,  *)
(* or an error that ends every call.                                       *)
Expand ==
    /\ outcome = "running" /\ ~Finished(stack[Top])
    /\ LET step == Current(stack[Top]) IN
        \/ /\ Accepted(step)
           /\ stack' = Append(stack, Frame(Target(step)))
           /\ visiting' = visiting \cup {VisitKey(step)}
           /\ UNCHANGED outcome
        \/ /\ ~Accepted(step)
           /\ outcome' = "refused"
           /\ UNCHANGED <<stack, visiting>>
    /\ UNCHANGED <<chain, leaf, stepCount, runs>>

(* Faulty: the cap lets one execution too many through. *)
ExecuteFaulty ==
    /\ outcome = "running" /\ Top > 1 /\ Finished(stack[Top])
    /\ stepCount <= MaxSteps
    /\ stepCount' = stepCount + 1
    /\ LET step == Current(stack[Top - 1])
           caller == [stack[Top - 1] EXCEPT
                        !.pos = @ + 1, !.out = Bind(@, step.alias, stepCount')]
       IN
        /\ runs' = Append(runs, [req |-> stack[Top].req, views |-> stack[Top].out])
        /\ stack' = Append(SubSeq(stack, 1, Top - 2), caller)
        /\ visiting' = visiting \ {VisitKey(step)}
    /\ UNCHANGED <<chain, leaf, outcome>>

(* A step's own chain is done: execute its request with the views of that  *)
(* chain, and bind its view for the request that named it.                 *)
Execute ==
    /\ outcome = "running" /\ Top > 1 /\ Finished(stack[Top])
    /\ stepCount < MaxSteps
    /\ stepCount' = stepCount + 1
    /\ LET step == Current(stack[Top - 1])
           caller == [stack[Top - 1] EXCEPT
                        !.pos = @ + 1, !.out = Bind(@, step.alias, stepCount')]
       IN
        \/ /\ runs' = Append(runs, [req |-> stack[Top].req, views |-> stack[Top].out])
           /\ stack' = Append(SubSeq(stack, 1, Top - 2), caller)
           /\ visiting' = visiting \ {VisitKey(step)}
           /\ UNCHANGED outcome
        \/ /\ outcome' = "error"        \* a script, or HTTP, or an abort
           /\ UNCHANGED <<stack, visiting, runs>>
    /\ UNCHANGED <<chain, leaf>>

(* The cap on executions. *)
RefuseExecution ==
    /\ outcome = "running" /\ Top > 1 /\ Finished(stack[Top])
    /\ stepCount >= MaxSteps
    /\ outcome' = "refused"
    /\ UNCHANGED <<chain, leaf, stack, visiting, stepCount, runs>>

(* The leaf's call returns its map: the caller sends the leaf with it. *)
Return ==
    /\ outcome = "running" /\ Top = 1 /\ Finished(stack[Top])
    /\ outcome' = "ok"
    /\ UNCHANGED <<chain, leaf, stack, visiting, stepCount, runs>>

Done == outcome # "running" /\ UNCHANGED vars

Next == Expand \/ Execute \/ RefuseExecution \/ Return \/ Done

(* Resolve runs by itself to its end: ExecuteOnce returns, by the timeouts *)
(* of the scripts and of the HTTP client if by nothing else.               *)
Fairness == WF_vars(Expand \/ Execute \/ RefuseExecution \/ Return)

Spec == Init /\ [][Next]_vars /\ Fairness

-----------------------------------------------------------------------------
Views == UNION {[K -> 1 .. MaxSteps] : K \in SUBSET Aliases}
FrameType == [req : Requests, pos : Nat \ {0}, out : Views]

TypeOK ==
    /\ chain \in [Requests -> Seq(Step)]
    /\ leaf \in Requests
    /\ stack \in Seq(FrameType) \ {<<>>}
    /\ visiting \subseteq IDs \cup Paths
    /\ stepCount \in 0 .. MaxSteps
    /\ runs \in Seq([req : Requests, views : Views])
    /\ outcome \in {"running", "ok", "refused", "error"}

(* What the scripts of a request see: the aliases of its own chain and no  *)
(* other, each bound to an execution of the request that step names that   *)
(* took place before, in the order of the chain.                           *)
SeesSteps(n, r, views, now) ==
    LET c == chain[r] IN
    /\ DOMAIN views = {c[i].alias : i \in 1 .. n}
    /\ \A i \in 1 .. n :
        /\ views[c[i].alias] \in 1 .. now
        /\ runs[views[c[i].alias]].req = Target(c[i])
        /\ \A j \in 1 .. i - 1 : views[c[j].alias] < views[c[i].alias]

SeesItsChain(r, views, now) == SeesSteps(Len(chain[r]), r, views, now)

ViewsAreOwnChain ==
    /\ \A k \in DOMAIN runs : SeesItsChain(runs[k].req, runs[k].views, k - 1)
    /\ outcome = "ok" => SeesItsChain(leaf, stack[1].out, Len(runs))

(* "Each occurrence lands under its own alias with its own captured        *)
(* response": no execution is seen twice, by two requests or under two     *)
(* aliases, and when Resolve succeeds none was in vain.                    *)
Viewers == {runs[k].views : k \in DOMAIN runs} \cup {stack[i].out : i \in DOMAIN stack}
Seen(views) == {views[a] : a \in DOMAIN views}

NoSharedViews ==
    /\ \A k, l \in DOMAIN runs :
        k # l => Seen(runs[k].views) \cap Seen(runs[l].views) = {}
    /\ \A k \in DOMAIN runs, i \in DOMAIN stack :
        Seen(runs[k].views) \cap Seen(stack[i].out) = {}
    /\ \A i, j \in DOMAIN stack :
        i # j => Seen(stack[i].out) \cap Seen(stack[j].out) = {}
    /\ outcome = "ok" => UNION {Seen(v) : v \in Viewers} = DOMAIN runs

(* A request is never executed as a predecessor of itself, whatever way    *)
(* its chain comes back to it: by id, by one path and then another, or to  *)
(* the leaf.                                                               *)
NeverBeforeItself ==
    outcome = "running" /\ Finished(stack[Top])
        => \A i \in 1 .. Top - 1 : stack[i].req # stack[Top].req

-----------------------------------------------------------------------------
(* Why these hold: each call but the last is at a step whose key is in the *)
(* visiting set and whose target the next call is for; no two calls are at *)
(* the same step, so that a call for a request already being expanded is   *)
(* behind the earlier one and cannot finish before it.                     *)
KeyOf(i) == VisitKey(Current(stack[i]))

Calls ==
    /\ stack[1].req = leaf
    /\ Top <= MaxDepth
    /\ \A i \in 1 .. Top : stack[i].pos <= Len(Steps(stack[i])) + 1
    /\ \A i \in 1 .. Top - 1 :
        /\ ~Finished(stack[i])
        /\ stack[i + 1].req = Target(Current(stack[i]))
        /\ Current(stack[i]).alias \notin DOMAIN stack[i].out
        /\ KeyOf(i) \in visiting
        /\ \A j \in 1 .. i - 1 : KeyOf(j) # KeyOf(i)

Behind ==
    \A j \in 1 .. Top : \A i \in 1 .. j - 1 :
        stack[i].req = stack[j].req => stack[j].pos <= stack[i].pos

ViewsSoFar ==
    /\ outcome # "error" => stepCount = Len(runs)
    /\ \A i \in 1 .. Top :
        SeesSteps(stack[i].pos - 1, stack[i].req, stack[i].out, Len(runs))
    /\ outcome = "ok" => Top = 1 /\ Finished(stack[1])
    /\ \A k \in DOMAIN runs : SeesItsChain(runs[k].req, runs[k].views, k - 1)

ChainInv == TypeOK /\ Calls /\ Behind /\ ViewsSoFar
=============================================================================
