--------------------------- MODULE ChainReference ---------------------------
(***************************************************************************)
(* What chain.Resolve should do with a chain, by recursion over the chains *)
(* and without a stack or a visiting set (chain/README.md, "Resolution     *)
(* rules"); and countSteps, the walk that counts the executions before the *)
(* first of them, for the "step N/total" of the progress callback.         *)
(***************************************************************************)
EXTENDS Chain, SequencesExt

-----------------------------------------------------------------------------
(* The chain of r, d calls deep, can be expanded: steps with distinct good *)
(* aliases that name requests, nowhere nested beyond the limit.  A chain   *)
(* that comes back to a request of its own has no bottom.                  *)
RECURSIVE Expandable(_, _)
Expandable(r, d) ==
    LET c == chain[r] IN
    /\ d < MaxDepth
    /\ \A i, j \in DOMAIN c : i # j => c[i].alias # c[j].alias
    /\ \A i \in DOMAIN c :
        /\ c[i].alias \in GoodAliases
        /\ Target(c[i]) # NoRequest
        /\ Expandable(Target(c[i]), d + 1)

(* The requests to execute before r, in their order: for each step its own *)
(* predecessors, then its target.                                          *)
RECURSIVE Predecessors(_)
Predecessors(r) ==
    FlattenSeq([i \in DOMAIN chain[r] |->
        Append(Predecessors(Target(chain[r][i])), Target(chain[r][i]))])

Resolvable == Expandable(leaf, 0) /\ Len(Predecessors(leaf)) <= MaxSteps

-----------------------------------------------------------------------------
RECURSIVE CountSteps(_, _, _), CountFrom(_, _, _, _, _)
CountSteps(r, visited, depth) ==
    IF depth >= MaxDepth THEN 0 ELSE CountFrom(chain[r], 1, visited, depth, 0)

(* Faulty: a request stays in the visiting set once it is counted. *)
CountFromFaulty(steps, i, visited, depth, total) ==
    IF i > Len(steps) THEN total
    ELSE IF Target(steps[i]) = NoRequest \/ VisitKey(steps[i]) \in visited
    THEN CountFrom(steps, i + 1, visited, depth, total)
    ELSE LET nested == visited \cup {VisitKey(steps[i])}
             sum == total + CountSteps(Target(steps[i]), nested, depth + 1) + 1
         IN IF sum >= MaxSteps THEN MaxSteps
            ELSE CountFrom(steps, i + 1, nested, depth, sum)

(* The loop of countSteps over the steps from the i-th on; total is the    *)
(* count of those before it.                                               *)
CountFrom(steps, i, visited, depth, total) ==
    IF i > Len(steps) THEN total
    ELSE IF Target(steps[i]) = NoRequest \/ VisitKey(steps[i]) \in visited
    THEN CountFrom(steps, i + 1, visited, depth, total)
    ELSE LET nested == visited \cup {VisitKey(steps[i])}
             sum == total + CountSteps(Target(steps[i]), nested, depth + 1) + 1
         IN IF sum >= MaxSteps THEN MaxSteps
            ELSE CountFrom(steps, i + 1, visited, depth, sum)

(* The total Resolve announces with every step. *)
Total == CountSteps(leaf, {IDOf[leaf]} \ {NoID}, 0)

-----------------------------------------------------------------------------
(* Resolve refuses a chain exactly when it has a bad step, is nested too   *)
(* deep or asks for too many executions; in particular the visiting set    *)
(* never takes two visits of a diamond for a cycle, and lets no cycle      *)
(* pass, under whatever names it comes back.                               *)
RefusesExactlyBadChains ==
    outcome \in {"ok", "refused"} => (outcome = "ok" <=> Resolvable)

(* "Order matches the YAML": the executions are, in order, those of the    *)
(* reference; each request is preceded by its whole chain, and when        *)
(* Resolve succeeds none is missing.                                       *)
Executed == [k \in DOMAIN runs |-> runs[k].req]
ExecutesInOrder ==
    Resolvable => /\ IsPrefix(Executed, Predecessors(leaf))
                  /\ outcome = "ok" => Executed = Predecessors(leaf)

(* "The total matches what will actually run": the progress never passes   *)
(* the announced total, and reaches it when Resolve succeeds.              *)
ProgressReachesTotal ==
    /\ stepCount <= Total
    /\ outcome = "ok" => stepCount = Total

(* Resolve does with every chain what the reference does: it refuses the    *)
(* bad ones and no others, executes what the reference lists, gives each    *)
(* occurrence a view of its own, and announces how much there is to do.     *)
ResolvesAsReference ==
    RefusesExactlyBadChains /\ ExecutesInOrder /\ NoSharedViews /\ ProgressReachesTotal

(* Resolve returns, on every graph of chains. *)
Terminates == <>(outcome # "running")
=============================================================================
