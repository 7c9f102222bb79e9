----------------------------- MODULE ChainProofs -----------------------------
(***************************************************************************)
(* For every set of requests, every graph of chains and all limits: what   *)
(* Resolve executes is never its own predecessor, and every request sees   *)
(* the views of its own chain and no other.  The invariant is ChainInv.    *)
(***************************************************************************)
EXTENDS Chain, TLAPS

-----------------------------------------------------------------------------
(* The functions the state is made of. *)

(* A target that is found is a request. *)
LEMMA TargetIsRequest ==
    ASSUME NEW step \in Step, Target(step) # NoRequest
    PROVE  Target(step) \in Requests
BY ChainAssumption DEF Target, Step

(* The key of a step with a target is an id or a path: a step without an   *)
(* id that is found has a path.                                            *)
LEMMA KeyIsKey ==
    ASSUME NEW step \in Step, Target(step) # NoRequest
    PROVE  VisitKey(step) \in IDs \cup Paths
BY ChainAssumption, TargetIsRequest DEF VisitKey, Target, Step

(* Binding an alias makes a map of views of a map of views. *)
LEMMA BindIsViews ==
    ASSUME NEW v \in Views, NEW a \in Aliases, NEW n \in 1 .. MaxSteps
    PROVE  /\ Bind(v, a, n) \in Views
           /\ DOMAIN Bind(v, a, n) = DOMAIN v \cup {a}
           /\ Bind(v, a, n)[a] = n
           /\ \A b \in DOMAIN v : b # a => Bind(v, a, n)[b] = v[b]
<1>1. PICK K \in SUBSET Aliases : v \in [K -> 1 .. MaxSteps]
  BY DEF Views
<1>2. Bind(v, a, n) \in [K \cup {a} -> 1 .. MaxSteps]
  BY <1>1 DEF Bind
<1>3. Bind(v, a, n) \in Views
  BY <1>2 DEF Views
<1>4. QED
  BY <1>1, <1>3 DEF Bind

LEMMA NoViewsIsViews == NoViews \in Views /\ DOMAIN NoViews = {}
<1>1. NoViews \in [{} -> 1 .. MaxSteps]
  BY DEF NoViews
<1>2. QED
  BY <1>1 DEF Views, NoViews

(* A fresh call is at its first step and has no views. *)
LEMMA FrameIsFrame ==
    ASSUME NEW r \in Requests
    PROVE  /\ Frame(r) \in FrameType
           /\ Frame(r).req = r /\ Frame(r).pos = 1 /\ Frame(r).out = NoViews
BY NoViewsIsViews DEF Frame, FrameType

-----------------------------------------------------------------------------
(* The stack. *)

(* The call at any place of the stack, and the step it is at. *)
LEMMA StackFacts ==
    ASSUME TypeOK, NEW i \in 1 .. Top
    PROVE  /\ Top \in Nat \ {0}
           /\ stack[i] \in FrameType
           /\ Steps(stack[i]) \in Seq(Step)
           /\ Len(Steps(stack[i])) \in Nat
           /\ ~Finished(stack[i]) => Current(stack[i]) \in Step
<1>1. Top \in Nat \ {0} /\ stack[i] \in FrameType
  BY DEF TypeOK, Top
<1>2. chain[stack[i].req] \in Seq(Step)
  BY <1>1 DEF TypeOK, FrameType
<1>3. QED
  BY <1>1, <1>2 DEF Steps, Finished, Current, FrameType

LEMMA TopIsPlace == TypeOK => Top \in Nat \ {0} /\ Top \in 1 .. Top
BY DEF TypeOK, Top

LEMMA RunFacts ==
    ASSUME TypeOK, NEW k \in 1 .. Len(runs)
    PROVE  runs[k] \in [req : Requests, views : Views]
<1>1. runs \in Seq([req : Requests, views : Views])
  BY DEF TypeOK
<1> DEFINE Run == [req : Requests, views : Views]
<1> HIDE DEF Run
<1>2. runs \in Seq(Run)
  BY <1>1 DEF Run
<1>3. runs[k] \in Run
  BY <1>2
<1>4. QED
  BY <1>3 DEF Run

(* What Expand makes of the stack. *)
LEMMA PushFacts ==
    ASSUME TypeOK, NEW f \in FrameType, stack' = Append(stack, f)
    PROVE  /\ stack' \in Seq(FrameType) \ {<<>>}
           /\ Top' = Top + 1
           /\ \A i \in 1 .. Top : stack'[i] = stack[i]
           /\ stack'[Top + 1] = f
<1>1. stack \in Seq(FrameType) /\ Top \in Nat /\ Top = Len(stack)
  BY DEF TypeOK, Top
<1>2. stack' \in Seq(FrameType) /\ Len(stack') = Top + 1
  BY <1>1
<1>3. \A i \in 1 .. Top : stack'[i] = stack[i]
  BY <1>1
<1>4. stack'[Top + 1] = f
  BY <1>1
<1>5. QED
  BY <1>1, <1>2, <1>3, <1>4 DEF Top

(* What Execute makes of the stack: it returns from the last call and      *)
(* moves the one before it on.                                             *)
LEMMA PopFacts ==
    ASSUME TypeOK, Top > 1, NEW f \in FrameType,
           stack' = Append(SubSeq(stack, 1, Top - 2), f)
    PROVE  /\ stack' \in Seq(FrameType) \ {<<>>}
           /\ Top' = Top - 1
           /\ \A i \in 1 .. Top - 2 : stack'[i] = stack[i]
           /\ stack'[Top - 1] = f
<1>1. stack \in Seq(FrameType) /\ Top \in Nat /\ Top = Len(stack)
  BY DEF TypeOK, Top
<1>2. SubSeq(stack, 1, Top - 2) \in Seq(FrameType)
  BY <1>1
<1>3. Len(SubSeq(stack, 1, Top - 2)) = Top - 2
  BY <1>1
<1>4. \A i \in 1 .. Top - 2 : SubSeq(stack, 1, Top - 2)[i] = stack[i]
  BY <1>1
<1>5. QED
  BY <1>1, <1>2, <1>3, <1>4, SMTT(30) DEF Top

-----------------------------------------------------------------------------
(* The views. *)

(* What a request sees stays so while executions are added. *)
LEMMA SeesAsRunsGrow ==
    ASSUME NEW n \in Nat, NEW r, NEW v, NEW now \in Nat, NEW later \in Nat,
           SeesSteps(n, r, v, now), now <= later, now <= Len(runs),
           chain' = chain, TypeOK,
           \A k \in 1 .. Len(runs) : runs'[k] = runs[k]
    PROVE  SeesSteps(n, r, v, later)'
<1> DEFINE c == chain[r]
<1>1. Len(runs) \in Nat
  BY DEF TypeOK
<1>2. DOMAIN v = {c[i].alias : i \in 1 .. n}
  BY DEF SeesSteps
<1>3. \A i \in 1 .. n : /\ v[c[i].alias] \in 1 .. later
                        /\ runs'[v[c[i].alias]].req = Target(c[i])
                        /\ \A j \in 1 .. i - 1 : v[c[j].alias] < v[c[i].alias]
  <2> SUFFICES ASSUME NEW i \in 1 .. n
               PROVE  /\ v[c[i].alias] \in 1 .. later
                      /\ runs'[v[c[i].alias]].req = Target(c[i])
                      /\ \A j \in 1 .. i - 1 : v[c[j].alias] < v[c[i].alias]
    OBVIOUS
  <2>1. /\ v[c[i].alias] \in 1 .. now
        /\ runs[v[c[i].alias]].req = Target(c[i])
        /\ \A j \in 1 .. i - 1 : v[c[j].alias] < v[c[i].alias]
    BY DEF SeesSteps
  <2>2. v[c[i].alias] \in 1 .. Len(runs) /\ v[c[i].alias] \in 1 .. later
    BY <1>1, <2>1
  <2>3. runs'[v[c[i].alias]] = runs[v[c[i].alias]]
    BY <2>2
  <2>4. QED
    BY <2>1, <2>2, <2>3
<1>4. QED
  BY <1>2, <1>3 DEF SeesSteps

(* Binding the alias of the next step to the newest execution, of the      *)
(* request that step names, extends what a request sees by that step.      *)
LEMMA SeesOneMore ==
    ASSUME NEW n \in Nat, NEW r, NEW v \in Views, NEW last \in Nat,
           SeesSteps(n, r, v, last)', chain' = chain,
           last + 1 \in 1 .. MaxSteps,
           chain[r][n + 1].alias \in Aliases \ DOMAIN v,
           runs'[last + 1].req = Target(chain[r][n + 1])
    PROVE  SeesSteps(n + 1, r, Bind(v, chain[r][n + 1].alias, last + 1), last + 1)'
<1> DEFINE c == chain[r]
           w == Bind(v, c[n + 1].alias, last + 1)
<1>0. c[n + 1].alias \in Aliases
  OBVIOUS
<1>1. /\ DOMAIN w = DOMAIN v \cup {c[n + 1].alias}
      /\ w[c[n + 1].alias] = last + 1
      /\ \A b \in DOMAIN v : b # c[n + 1].alias => w[b] = v[b]
  <2>1. ASSUME NEW a \in Aliases
        PROVE  LET u == Bind(v, a, last + 1) IN
               /\ DOMAIN u = DOMAIN v \cup {a}
               /\ u[a] = last + 1
               /\ \A b \in DOMAIN v : b # a => u[b] = v[b]
    BY BindIsViews
  <2>2. QED
    BY <1>0, <2>1
<1>2. DOMAIN v = {c[i].alias : i \in 1 .. n}
  BY DEF SeesSteps
<1>3. \A i \in 1 .. n : w[c[i].alias] = v[c[i].alias]
  BY <1>1, <1>2
<1>4. DOMAIN w = {c[i].alias : i \in 1 .. n + 1}
  <2>1. 1 .. n + 1 = (1 .. n) \cup {n + 1}
    OBVIOUS
  <2>2. {c[i].alias : i \in 1 .. n + 1} = {c[i].alias : i \in 1 .. n} \cup {c[n + 1].alias}
    BY <2>1
  <2>3. QED
    BY <1>1, <1>2, <2>2
<1>5. \A i \in 1 .. n : /\ v[c[i].alias] \in 1 .. last
                        /\ runs'[v[c[i].alias]].req = Target(c[i])
                        /\ \A j \in 1 .. i - 1 : v[c[j].alias] < v[c[i].alias]
  BY DEF SeesSteps
<1>6. ASSUME NEW i \in 1 .. n + 1
      PROVE  /\ w[c[i].alias] \in 1 .. last + 1
             /\ runs'[w[c[i].alias]].req = Target(c[i])
             /\ \A j \in 1 .. i - 1 : w[c[j].alias] < w[c[i].alias]
  <2>1. CASE i = n + 1
    <3>1. \A j \in 1 .. n : v[c[j].alias] \in 1 .. last
      BY <1>5
    <3>2. \A j \in 1 .. n : v[c[j].alias] < last + 1
      BY <3>1
    <3>2a. \A j \in 1 .. n : w[c[j].alias] < last + 1
      BY <3>2, <1>3
    <3>3. w[c[i].alias] = last + 1 /\ runs'[w[c[i].alias]].req = Target(c[i])
      BY <2>1, <1>1
    <3>4. \A j \in 1 .. i - 1 : j \in 1 .. n
      BY <2>1
    <3>5. w[c[i].alias] \in 1 .. last + 1
      BY <3>3
    <3>6. \A j \in 1 .. i - 1 : w[c[j].alias] < w[c[i].alias]
      BY <3>2a, <3>3, <3>4
    <3>7. QED
      BY <3>3, <3>5, <3>6
  <2>2. CASE i \in 1 .. n
    <3>1. \A j \in 1 .. i - 1 : j \in 1 .. n
      BY <2>2
    <3>2. \A j \in 1 .. i - 1 : w[c[j].alias] = v[c[j].alias]
      BY <3>1, <1>3
    <3>3. w[c[i].alias] = v[c[i].alias]
      BY <2>2, <1>3
    <3>4. /\ v[c[i].alias] \in 1 .. last + 1
          /\ runs'[v[c[i].alias]].req = Target(c[i])
          /\ \A j \in 1 .. i - 1 : v[c[j].alias] < v[c[i].alias]
      BY <2>2, <1>5
    <3>5. QED
      BY <3>2, <3>3, <3>4
  <2>3. i = n + 1 \/ i \in 1 .. n
    OBVIOUS
  <2>4. QED
    BY <2>1, <2>2, <2>3
<1>7. \A i \in 1 .. n + 1 :
        /\ w[c[i].alias] \in 1 .. last + 1
        /\ runs'[w[c[i].alias]].req = Target(c[i])
        /\ \A j \in 1 .. i - 1 : w[c[j].alias] < w[c[i].alias]
  BY <1>6
<1>8. (chain[r] = c)' /\ Bind(v, chain[r][n + 1].alias, last + 1)' = w
  OBVIOUS
<1>9. SeesSteps(n + 1, r, w, last + 1)'
  BY <1>4, <1>7, ZenonT(60) DEF SeesSteps
<1>10. QED
  BY <1>8, <1>9

-----------------------------------------------------------------------------
(* The invariant. *)

LEMMA InitEstablishesInv == Init => ChainInv
<1> SUFFICES ASSUME Init PROVE ChainInv
  OBVIOUS
<1>1. chain \in [Requests -> Seq(Step)] /\ leaf \in Requests
  BY ChainAssumption DEF Init
<1>2. /\ Frame(leaf) \in FrameType /\ Frame(leaf).req = leaf
      /\ Frame(leaf).pos = 1 /\ Frame(leaf).out = NoViews
  BY <1>1, FrameIsFrame
<1>3. /\ stack \in Seq(FrameType) \ {<<>>}
      /\ Top = 1 /\ stack[1] = Frame(leaf)
  BY <1>2 DEF Init, Top
<1>4. TypeOK
  <2>1. IDOf[leaf] \in IDs \cup {NoID}
    BY <1>1, ChainAssumption
  <2>2. visiting \subseteq IDs \cup Paths
    BY <2>1 DEF Init
  <2>3. stepCount \in 0 .. MaxSteps /\ runs \in Seq([req : Requests, views : Views])
    BY ChainAssumption DEF Init
  <2>4. QED
    BY <1>1, <1>3, <2>2, <2>3 DEF TypeOK, Init
<1>5. Calls
  <2>1. Len(Steps(stack[1])) \in Nat
    BY <1>3, <1>4, StackFacts
  <2>2. QED
    BY <1>2, <1>3, <2>1, ChainAssumption DEF Calls
<1>6. Behind
  BY <1>3 DEF Behind
<1>7. ViewsSoFar
  <2>1. Len(runs) = 0 /\ DOMAIN runs = {}
    BY DEF Init
  <2>2. SeesSteps(0, leaf, NoViews, 0)
    BY NoViewsIsViews DEF SeesSteps
  <2>3. QED
    BY <1>2, <1>3, <2>1, <2>2 DEF ViewsSoFar, Init
<1>8. QED
  BY <1>4, <1>5, <1>6, <1>7 DEF ChainInv

(* A step that leaves the calls and the executions alone. *)
LEMMA UnchangedPreservesInv ==
    ASSUME ChainInv, UNCHANGED <<chain, leaf, stack, visiting, runs>>,
           stepCount' \in 0 .. MaxSteps,
           outcome' \in {"running", "ok", "refused", "error"},
           outcome' # "error" => stepCount' = Len(runs),
           outcome' = "ok" => Top = 1 /\ Finished(stack[1])
    PROVE  ChainInv'
<1>1. TypeOK'
  BY DEF ChainInv, TypeOK
<1>2. Calls'
  BY DEF ChainInv, Calls, Top, Steps, Finished, Current, KeyOf
<1>3. Behind'
  BY DEF ChainInv, Behind, Top
<1>4. ViewsSoFar'
  <2>0. chain' = chain /\ runs' = runs /\ stack' = stack
    OBVIOUS
  <2>1. ASSUME NEW n, NEW r, NEW v, NEW now, SeesSteps(n, r, v, now)
        PROVE  SeesSteps(n, r, v, now)'
    BY <2>0, <2>1, Zenon DEF SeesSteps
  <2>2. \A i \in 1 .. Top' :
          SeesSteps(stack[i].pos - 1, stack[i].req, stack[i].out, Len(runs))'
    BY <2>0, <2>1 DEF ChainInv, ViewsSoFar, Top
  <2>3. \A k \in DOMAIN runs' : SeesItsChain(runs[k].req, runs[k].views, k - 1)'
    BY <2>1 DEF ChainInv, ViewsSoFar, SeesItsChain
  <2>4. outcome' = "ok" => Top' = 1 /\ Finished(stack[1])'
    BY DEF Top, Steps, Finished
  <2>5. QED
    BY <2>2, <2>3, <2>4 DEF ViewsSoFar
<1>5. QED
  BY <1>1, <1>2, <1>3, <1>4 DEF ChainInv

(* Expand on an accepted step: a call for its chain. *)
Push ==
    /\ outcome = "running" /\ ~Finished(stack[Top])
    /\ Accepted(Current(stack[Top]))
    /\ stack' = Append(stack, Frame(Target(Current(stack[Top]))))
    /\ visiting' = visiting \cup {VisitKey(Current(stack[Top]))}
    /\ UNCHANGED <<chain, leaf, stepCount, runs, outcome>>

LEMMA PushPreservesInv ==
    ASSUME ChainInv, Push
    PROVE  ChainInv'
<1> DEFINE step == Current(stack[Top])
           f == Frame(Target(step))
<1>1. /\ TypeOK /\ Calls /\ Behind /\ ViewsSoFar
      /\ Top \in Nat \ {0} /\ Top \in 1 .. Top
  BY TopIsPlace DEF ChainInv
<1>2. step \in Step
  BY <1>1, StackFacts DEF Push
<1>3. Target(step) \in Requests /\ VisitKey(step) \in IDs \cup Paths
  BY <1>2, TargetIsRequest, KeyIsKey DEF Accepted, Push
<1>4. f \in FrameType /\ f.req = Target(step) /\ f.pos = 1 /\ f.out = NoViews
  BY <1>3, FrameIsFrame
<1>5. /\ stack' \in Seq(FrameType) \ {<<>>}
      /\ Top' = Top + 1
      /\ \A i \in 1 .. Top : stack'[i] = stack[i]
      /\ stack'[Top + 1] = f
  BY <1>1, <1>4, PushFacts DEF Push
<1>6. /\ chain' = chain /\ leaf' = leaf /\ runs' = runs
      /\ outcome' = outcome /\ stepCount' = stepCount /\ outcome = "running"
      /\ visiting' = visiting \cup {VisitKey(step)}
      /\ Accepted(step) /\ ~Finished(stack[Top])
  BY DEF Push
<1>7. \A i \in 1 .. Top : /\ Current(stack[i])' = Current(stack[i])
                          /\ Steps(stack[i])' = Steps(stack[i])
                          /\ Finished(stack[i])' = Finished(stack[i])
                          /\ KeyOf(i)' = KeyOf(i)
  BY <1>5, <1>6 DEF Current, Steps, Finished, KeyOf
<1> HIDE DEF f, step
<1>8. \A i \in 1 .. Top' : i = Top + 1 \/ i \in 1 .. Top
  BY <1>1, <1>5
<1>9. TypeOK'
  BY <1>1, <1>3, <1>5, <1>6 DEF TypeOK
<1>10. Calls'
  <2>1. stack'[1].req = leaf' /\ Top' <= MaxDepth
    BY <1>1, <1>5, <1>6, ChainAssumption DEF Calls, Accepted
  <2>2. ASSUME NEW i \in 1 .. Top'
        PROVE  stack'[i].pos <= Len(Steps(stack[i])') + 1
    <3>1. CASE i = Top + 1
      <4>1. chain[f.req] \in Seq(Step)
        BY <1>1, <1>3, <1>4 DEF TypeOK
      <4>2. Steps(stack[i])' = chain[f.req]
        BY <1>5, <1>6, <3>1 DEF Steps
      <4>3. Len(Steps(stack[i])') \in Nat
        BY <4>1, <4>2
      <4>4. QED
        BY <1>4, <1>5, <3>1, <4>3
    <3>2. CASE i \in 1 .. Top
      BY <1>1, <1>5, <1>7, <3>2 DEF Calls
    <3>3. QED
      BY <1>8, <3>1, <3>2
  <2>3. ASSUME NEW i \in 1 .. Top' - 1
        PROVE  /\ ~Finished(stack[i])'
               /\ stack'[i + 1].req = Target(Current(stack[i])')
               /\ Current(stack[i])'.alias \notin DOMAIN stack'[i].out
               /\ KeyOf(i)' \in visiting'
               /\ \A j \in 1 .. i - 1 : KeyOf(j)' # KeyOf(i)'
    <3>1. CASE i = Top
      <4>1. KeyOf(Top) = VisitKey(step)
        BY DEF KeyOf, step
      <4>2. \A j \in 1 .. Top - 1 : KeyOf(j) # KeyOf(Top)
        BY <1>1, <1>6, <4>1 DEF Calls, Accepted
      <4>3. \A j \in 1 .. i - 1 : j \in 1 .. Top /\ j \in 1 .. Top - 1
        BY <1>1, <3>1
      <4>4. step.alias \notin DOMAIN stack[Top].out
        BY <1>6 DEF Accepted
      <4>5. Current(stack[i])' = step
        BY <1>1, <1>7, <3>1 DEF step
      <4>6. \A j \in 1 .. i - 1 : KeyOf(j)' # KeyOf(i)'
        BY <1>1, <1>7, <3>1, <4>2, <4>3
      <4>7. QED
        BY <1>1, <1>4, <1>5, <1>6, <1>7, <3>1, <4>1, <4>4, <4>5, <4>6
    <3>2. CASE i \in 1 .. Top - 1
      <4>1. /\ ~Finished(stack[i])
            /\ stack[i + 1].req = Target(Current(stack[i]))
            /\ Current(stack[i]).alias \notin DOMAIN stack[i].out
            /\ KeyOf(i) \in visiting
            /\ \A j \in 1 .. i - 1 : KeyOf(j) # KeyOf(i)
        BY <1>1, <3>2 DEF Calls
      <4>2. i \in 1 .. Top /\ i + 1 \in 1 .. Top /\ \A j \in 1 .. i - 1 : j \in 1 .. Top
        BY <1>1, <3>2
      <4>3. QED
        BY <1>5, <1>6, <1>7, <4>1, <4>2
    <3>3. QED
      BY <1>1, <1>5, <3>1, <3>2
  <2>4. QED
    BY <2>1, <2>2, <2>3 DEF Calls
<1>11. Behind'
  <2>1. ASSUME NEW j \in 1 .. Top', NEW i \in 1 .. j - 1,
               stack'[i].req = stack'[j].req
        PROVE  stack'[j].pos <= stack'[i].pos
    <3>1. CASE j = Top + 1
      <4>1. i \in 1 .. Top
        BY <1>1, <3>1
      <4>2. stack[i].pos \in Nat \ {0}
        BY <1>1, <4>1, StackFacts DEF FrameType
      <4>3. stack'[j].pos = 1 /\ stack'[i].pos = stack[i].pos
        BY <1>4, <1>5, <3>1, <4>1
      <4>4. QED
        BY <4>2, <4>3
    <3>2. CASE j \in 1 .. Top
      <4>1. i \in 1 .. Top
        BY <1>1, <3>2
      <4>2. stack'[j] = stack[j] /\ stack'[i] = stack[i]
        BY <1>5, <3>2, <4>1
      <4>3. QED
        BY <1>1, <2>1, <3>2, <4>2 DEF Behind
    <3>3. QED
      BY <1>8, <3>1, <3>2
  <2>2. QED
    BY <2>1 DEF Behind
<1>12. ViewsSoFar'
  <2>1. ASSUME NEW n, NEW r, NEW v, NEW now, SeesSteps(n, r, v, now)
        PROVE  SeesSteps(n, r, v, now)'
    BY <1>6, <2>1, Zenon DEF SeesSteps
  <2>2. ASSUME NEW i \in 1 .. Top'
        PROVE  SeesSteps(stack[i].pos - 1, stack[i].req, stack[i].out, Len(runs))'
    <3>1. CASE i = Top + 1
      <4>1. SeesSteps(0, f.req, NoViews, Len(runs))
        BY NoViewsIsViews DEF SeesSteps
      <4>2. stack'[i].pos - 1 = 0 /\ stack'[i].req = f.req /\ stack'[i].out = NoViews
        BY <1>4, <1>5, <3>1
      <4>3. QED
        BY <1>6, <2>1, <4>1, <4>2
    <3>2. CASE i \in 1 .. Top
      <4>1. SeesSteps(stack[i].pos - 1, stack[i].req, stack[i].out, Len(runs))
        BY <1>1, <3>2 DEF ViewsSoFar
      <4>2. QED
        BY <1>5, <1>6, <2>1, <3>2, <4>1
    <3>3. QED
      BY <1>8, <3>1, <3>2
  <2>3. \A k \in DOMAIN runs' : SeesItsChain(runs[k].req, runs[k].views, k - 1)'
    BY <1>1, <1>6, <2>1 DEF ViewsSoFar, SeesItsChain
  <2>4. QED
    BY <1>1, <1>6, <2>2, <2>3 DEF ViewsSoFar
<1>13. QED
  BY <1>9, <1>10, <1>11, <1>12 DEF ChainInv

(* Execute when the request succeeds: the last call returns, and the call  *)
(* before it moves on with one more view.                                  *)
Caller ==
    [stack[Top - 1] EXCEPT
        !.pos = @ + 1,
        !.out = Bind(@, Current(stack[Top - 1]).alias, stepCount + 1)]

Pop ==
    /\ outcome = "running" /\ Top > 1 /\ Finished(stack[Top])
    /\ stepCount < MaxSteps
    /\ stepCount' = stepCount + 1
    /\ runs' = Append(runs, [req |-> stack[Top].req, views |-> stack[Top].out])
    /\ stack' = Append(SubSeq(stack, 1, Top - 2), Caller)
    /\ visiting' = visiting \ {KeyOf(Top - 1)}
    /\ UNCHANGED <<chain, leaf, outcome>>

LEMMA PopPreservesInv ==
    ASSUME ChainInv, Pop
    PROVE  ChainInv'
<1>0. PICK n, old, step, e, count, w, caller :
        /\ n = Top - 1
        /\ old = stack[n]
        /\ step = Current(stack[n])
        /\ e = [req |-> stack[Top].req, views |-> stack[Top].out]
        /\ count = stepCount
        /\ w = Bind(old.out, step.alias, count + 1)
        /\ caller = Caller
  OBVIOUS
<1>1. /\ TypeOK /\ Calls /\ Behind /\ ViewsSoFar
      /\ Top \in Nat \ {0} /\ Top > 1 /\ n \in Nat \ {0}
      /\ n \in 1 .. Top /\ n \in 1 .. Top - 1 /\ n + 1 = Top /\ Top \in 1 .. Top
  <2>1. TypeOK /\ Calls /\ Behind /\ ViewsSoFar /\ Top > 1
    BY DEF ChainInv, Pop
  <2>2. Top \in Nat \ {0}
    BY <2>1, TopIsPlace
  <2>3. QED
    BY <1>0, <2>1, <2>2
<1>2. /\ chain' = chain /\ leaf' = leaf /\ outcome' = outcome /\ outcome = "running"
      /\ stepCount' = count + 1 /\ count < MaxSteps
      /\ visiting' = visiting \ {KeyOf(n)} /\ Finished(stack[Top])
  BY <1>0 DEF Pop
<1>3. /\ ~Finished(old) /\ stack[Top].req = Target(step)
      /\ step.alias \notin DOMAIN old.out
      /\ \A j \in 1 .. n - 1 : KeyOf(j) # KeyOf(n)
  BY <1>0, <1>1 DEF Calls
<1>4. /\ old \in FrameType /\ stack[Top] \in FrameType
      /\ step \in Step /\ Len(Steps(old)) \in Nat
  BY <1>0, <1>1, <1>3, StackFacts
<1>5. /\ count \in Nat /\ MaxSteps \in Nat
      /\ count + 1 \in 1 .. MaxSteps /\ Len(runs) = count
  BY <1>0, <1>1, <1>2, ChainAssumption DEF TypeOK, ViewsSoFar
<1>6. old.out \in Views /\ step.alias \in Aliases /\ w \in Views
  BY <1>0, <1>4, <1>5, BindIsViews DEF FrameType, Step
<1>7. /\ caller \in FrameType
      /\ caller.req = old.req /\ caller.pos = old.pos + 1 /\ caller.out = w
  <2>1. caller = [old EXCEPT !.pos = old.pos + 1, !.out = w]
    BY <1>0 DEF Caller
  <2>2. /\ old = [req |-> old.req, pos |-> old.pos, out |-> old.out]
        /\ old.req \in Requests /\ old.pos \in Nat \ {0}
    BY <1>4 DEF FrameType
  <2>3. caller = [req |-> old.req, pos |-> old.pos + 1, out |-> w]
    BY <2>1, <2>2
  <2>4. old.pos + 1 \in Nat \ {0}
    BY <2>2
  <2>5. QED
    BY <1>6, <2>2, <2>3, <2>4 DEF FrameType
<1>8. /\ stack' \in Seq(FrameType) \ {<<>>}
      /\ Top' = n
      /\ \A i \in 1 .. n - 1 : stack'[i] = stack[i]
      /\ stack'[n] = caller
  <2>1. stack' = Append(SubSeq(stack, 1, Top - 2), caller)
    BY <1>0 DEF Pop
  <2>2. n - 1 = Top - 2
    BY <1>1
  <2>3. QED
    BY <1>0, <1>1, <1>7, <2>1, <2>2, PopFacts
<1>9. \A i \in 1 .. n - 1 : /\ Current(stack[i])' = Current(stack[i])
                            /\ Steps(stack[i])' = Steps(stack[i])
                            /\ Finished(stack[i])' = Finished(stack[i])
                            /\ KeyOf(i)' = KeyOf(i)
  BY <1>2, <1>8 DEF Current, Steps, Finished, KeyOf
<1>10. /\ runs \in Seq([req : Requests, views : Views])
       /\ e \in [req : Requests, views : Views]
       /\ runs' = Append(runs, e)
  BY <1>0, <1>1, <1>4 DEF TypeOK, FrameType, Pop
<1>11. /\ runs' \in Seq([req : Requests, views : Views])
       /\ Len(runs') = count + 1 /\ DOMAIN runs' = 1 .. count + 1
       /\ \A k \in 1 .. Len(runs) : runs'[k] = runs[k]
       /\ runs'[count + 1] = e
  BY <1>5, <1>10
<1>12. e.req = stack[Top].req /\ e.views = stack[Top].out
  BY <1>0
<1>13. old.pos \in Nat \ {0} /\ old.pos <= Len(Steps(old))
  BY <1>3, <1>4 DEF FrameType, Finished
<1>14. \A i \in 1 .. Top' : i = n \/ i \in 1 .. n - 1
  BY <1>1, <1>8
<1>15. TypeOK'
  BY <1>1, <1>2, <1>5, <1>8, <1>11 DEF TypeOK
<1>16. Calls'
  <2>1. Top' <= MaxDepth
    BY <1>1, <1>8, ChainAssumption DEF Calls
  <2>2. stack'[1].req = leaf'
    <3>1. CASE n = 1
      BY <1>1, <1>2, <1>0, <1>7, <1>8, <3>1 DEF Calls
    <3>2. CASE n > 1
      BY <1>1, <1>2, <1>8, <3>2 DEF Calls
    <3>3. QED
      BY <1>1, <3>1, <3>2
  <2>3. ASSUME NEW i \in 1 .. Top'
        PROVE  stack'[i].pos <= Len(Steps(stack[i])') + 1
    <3>1. CASE i = n
      <4>1. Steps(stack[i])' = Steps(old)
        BY <1>2, <1>7, <1>8, <3>1 DEF Steps
      <4>2. QED
        BY <1>4, <1>7, <1>8, <1>13, <3>1, <4>1
    <3>2. CASE i \in 1 .. n - 1
      <4>1. i \in 1 .. Top
        BY <1>1, <3>2
      <4>2. stack[i].pos <= Len(Steps(stack[i])) + 1
        BY <1>1, <4>1 DEF Calls
      <4>3. QED
        BY <1>8, <1>9, <3>2, <4>2
    <3>3. QED
      BY <1>14, <3>1, <3>2
  <2>4. ASSUME NEW i \in 1 .. Top' - 1
        PROVE  /\ ~Finished(stack[i])'
               /\ stack'[i + 1].req = Target(Current(stack[i])')
               /\ Current(stack[i])'.alias \notin DOMAIN stack'[i].out
               /\ KeyOf(i)' \in visiting'
               /\ \A j \in 1 .. i - 1 : KeyOf(j)' # KeyOf(i)'
    <3>1. i \in 1 .. n - 1 /\ i \in 1 .. Top - 1 /\ \A j \in 1 .. i - 1 : j \in 1 .. n - 1
      BY <1>1, <1>8
    <3>2. /\ ~Finished(stack[i])
          /\ stack[i + 1].req = Target(Current(stack[i]))
          /\ Current(stack[i]).alias \notin DOMAIN stack[i].out
          /\ KeyOf(i) \in visiting
          /\ \A j \in 1 .. i - 1 : KeyOf(j) # KeyOf(i)
      BY <1>1, <3>1 DEF Calls
    <3>3. stack'[i + 1].req = stack[i + 1].req
      <4>1. CASE i + 1 = n
        BY <1>0, <1>7, <1>8, <4>1
      <4>2. CASE i + 1 # n
        BY <1>1, <1>8, <3>1, <4>2
      <4>3. QED
        BY <4>1, <4>2
    <3>4. KeyOf(i) # KeyOf(n)
      BY <1>3, <3>1
    <3>5. KeyOf(i)' \in visiting'
      BY <1>2, <1>9, <3>1, <3>2, <3>4
    <3>6. QED
      BY <1>8, <1>9, <3>1, <3>2, <3>3, <3>5
  <2>5. QED
    BY <2>1, <2>2, <2>3, <2>4 DEF Calls
<1>17. Behind'
  <2>1. ASSUME NEW j \in 1 .. Top', NEW i \in 1 .. j - 1,
               stack'[i].req = stack'[j].req
        PROVE  stack'[j].pos <= stack'[i].pos
    <3>1. i \in 1 .. n - 1 /\ i \in 1 .. Top /\ j \in 1 .. Top /\ stack'[i] = stack[i]
      BY <1>1, <1>8
    <3>2. CASE j = n
      <4>1. stack[i].req = old.req
        BY <1>7, <1>8, <2>1, <3>1, <3>2
      <4>2. old.pos <= stack[i].pos
        BY <1>0, <1>1, <3>1, <3>2, <4>1 DEF Behind
      <4>3. old.pos # stack[i].pos
        <5>1. SUFFICES ASSUME old.pos = stack[i].pos PROVE FALSE
          OBVIOUS
        <5>2. Current(stack[i]) = Current(old)
          BY <4>1, <5>1 DEF Current, Steps
        <5>3. KeyOf(i) = KeyOf(n)
          BY <1>0, <5>2 DEF KeyOf
        <5>4. QED
          BY <1>3, <3>1, <5>3
      <4>4. stack[i].pos \in Nat
        BY <1>1, <3>1, StackFacts DEF FrameType
      <4>5. stack'[j].pos = old.pos + 1
        BY <1>7, <1>8, <3>2
      <4>6. QED
        BY <1>13, <3>1, <4>2, <4>3, <4>4, <4>5
    <3>3. CASE j \in 1 .. n - 1
      BY <1>1, <1>8, <2>1, <3>1, <3>3 DEF Behind
    <3>4. QED
      BY <1>14, <3>2, <3>3
  <2>2. QED
    BY <2>1 DEF Behind
<1>18. ViewsSoFar'
  <2>1. Len(runs) \in Nat /\ Len(runs) <= count + 1 /\ Len(runs) <= Len(runs)
    BY <1>5
  <2>2. ASSUME NEW i \in 1 .. Top'
        PROVE  SeesSteps(stack[i].pos - 1, stack[i].req, stack[i].out, Len(runs))'
    <3>1. CASE i = n
      <4>0. PICK p : p = old.pos - 1
        OBVIOUS
      <4>1. SeesSteps(p, old.req, old.out, count)
        BY <4>0, <1>0, <1>1, <1>5 DEF ViewsSoFar
      <4>3. p \in Nat /\ p + 1 = old.pos
        BY <1>13, <4>0
      <4>2. SeesSteps(p, old.req, old.out, count)'
        BY <1>1, <1>2, <1>5, <1>11, <4>3, <2>1, <4>1, SeesAsRunsGrow
      <4>4. chain[old.req][p + 1] = step
        BY <1>0, <4>3 DEF Current, Steps
      <4>5. runs'[count + 1].req = Target(step)
        BY <1>3, <1>11, <1>12
      <4>6. SeesSteps(p + 1, old.req, w, count + 1)'
        BY <1>2, <1>3, <1>5, <1>6, <4>2, <4>3, <4>4, <4>5, <1>0, SeesOneMore
      <4>7. stack'[i].pos - 1 = p + 1 /\ stack'[i].req = old.req /\ stack'[i].out = w
        BY <1>7, <1>8, <1>13, <3>1, <4>0
      <4>8. QED
        BY <1>11, <4>6, <4>7
    <3>2. CASE i \in 1 .. n - 1
      <4>0. PICK x, p : x = stack[i] /\ p = x.pos - 1
        OBVIOUS
      <4>1. i \in 1 .. Top /\ p \in Nat
        BY <1>1, <3>2, <4>0, StackFacts DEF FrameType
      <4>2. SeesSteps(p, x.req, x.out, count)
        BY <1>1, <1>5, <4>0, <4>1 DEF ViewsSoFar
      <4>3. SeesSteps(p, x.req, x.out, count + 1)'
        BY <1>1, <1>2, <1>5, <1>11, <2>1, <4>1, <4>2, SeesAsRunsGrow
      <4>4. stack'[i] = x
        BY <1>8, <3>2, <4>0
      <4>5. QED
        BY <1>11, <4>0, <4>3, <4>4
    <3>3. QED
      BY <1>14, <3>1, <3>2
  <2>3. ASSUME NEW k \in DOMAIN runs'
        PROVE  SeesItsChain(runs[k].req, runs[k].views, k - 1)'
    <3>1. CASE k = count + 1
      <4>1. stack[Top].pos = Len(Steps(stack[Top])) + 1
        BY <1>1, <1>2, <1>4, StackFacts DEF Calls, Finished, FrameType
      <4>2. stack[Top].pos - 1 = Len(chain[e.req]) /\ Len(chain[e.req]) \in Nat
        BY <1>1, <1>12, <4>1, StackFacts DEF Steps
      <4>3. SeesSteps(Len(chain[e.req]), e.req, e.views, count)
        BY <1>1, <1>5, <1>12, <4>2 DEF ViewsSoFar
      <4>4. SeesSteps(Len(chain[e.req]), e.req, e.views, count)'
        BY <1>1, <1>2, <1>5, <1>11, <2>1, <4>2, <4>3, SeesAsRunsGrow
      <4>5. runs'[k] = e /\ k - 1 = count
        BY <1>5, <1>11, <3>1
      <4>6. QED
        BY <1>2, <4>4, <4>5 DEF SeesItsChain
    <3>2. CASE k \in DOMAIN runs
      <4>0. PICK x : x = runs[k]
        OBVIOUS
      <4>1. k \in 1 .. Len(runs) /\ k - 1 \in Nat /\ k - 1 <= Len(runs)
        BY <1>5, <1>10, <3>2
      <4>2. x \in [req : Requests, views : Views]
        BY <1>1, <4>0, <4>1, RunFacts
      <4>3. Len(chain[x.req]) \in Nat
        BY <1>1, <4>2 DEF TypeOK
      <4>4. SeesSteps(Len(chain[x.req]), x.req, x.views, k - 1)
        BY <1>1, <3>2, <4>0 DEF ViewsSoFar, SeesItsChain
      <4>5. SeesSteps(Len(chain[x.req]), x.req, x.views, k - 1)'
        BY <1>1, <1>2, <1>11, <4>1, <4>3, <4>4, SeesAsRunsGrow
      <4>6. runs'[k] = x
        BY <1>11, <4>0, <4>1
      <4>7. QED
        BY <1>2, <4>5, <4>6 DEF SeesItsChain
    <3>3. QED
      BY <1>5, <1>10, <1>11, <3>1, <3>2
  <2>4. QED
    BY <1>2, <1>5, <1>11, <2>2, <2>3 DEF ViewsSoFar
<1>19. QED
  BY <1>15, <1>16, <1>17, <1>18 DEF ChainInv

LEMMA StepPreservesInv == ChainInv /\ [Next]_vars => ChainInv'
<1> SUFFICES ASSUME ChainInv, [Next]_vars PROVE ChainInv'
  OBVIOUS
<1>0. /\ stepCount \in 0 .. MaxSteps /\ MaxSteps \in Nat
      /\ outcome # "error" => stepCount = Len(runs)
      /\ outcome \in {"running", "ok", "refused", "error"}
      /\ outcome = "ok" => Top = 1 /\ Finished(stack[1])
  BY ChainAssumption DEF ChainInv, TypeOK, ViewsSoFar
<1>1. CASE Expand
  <2>1. CASE Accepted(Current(stack[Top]))
    <3>1. Push
      BY <1>1, <2>1 DEF Expand, Push
    <3>2. QED
      BY <3>1, PushPreservesInv
  <2>2. CASE ~Accepted(Current(stack[Top]))
    BY <1>0, <1>1, <2>2, UnchangedPreservesInv DEF Expand
  <2>3. QED
    BY <2>1, <2>2
<1>2. CASE Execute
  <2>1. CASE outcome' = "error"
    <3>1. /\ UNCHANGED <<chain, leaf, stack, visiting, runs>>
          /\ stepCount' \in 0 .. MaxSteps
      BY <1>0, <1>2, <2>1 DEF Execute
    <3>2. QED
      BY <2>1, <3>1, UnchangedPreservesInv
  <2>2. CASE outcome' # "error"
    <3>1. Pop
      BY <1>2, <2>2 DEF Execute, Pop, Caller, KeyOf
    <3>2. QED
      BY <3>1, PopPreservesInv
  <2>3. QED
    BY <2>1, <2>2
<1>3. CASE RefuseExecution
  BY <1>0, <1>3, UnchangedPreservesInv DEF RefuseExecution
<1>4. CASE Return
  BY <1>0, <1>4, UnchangedPreservesInv DEF Return
<1>5. CASE Done \/ UNCHANGED vars
  BY <1>0, <1>5, UnchangedPreservesInv DEF Done, vars
<1>6. QED
  BY <1>1, <1>2, <1>3, <1>4, <1>5 DEF Next

(* The invariant of the stack of calls. *)
THEOREM Invariance == Spec => []ChainInv
<1>1. QED
  BY InitEstablishesInv, StepPreservesInv, PTL DEF Spec

-----------------------------------------------------------------------------
(* Types; the executions never exceed MaxChainSteps. *)
THEOREM TypeCorrect == Spec => []TypeOK
<1>1. ChainInv => TypeOK
  BY DEF ChainInv
<1>2. QED
  BY <1>1, Invariance, PTL

(* No request is executed as a predecessor of itself. *)
THEOREM NoSelfPredecessor == Spec => []NeverBeforeItself
<1>1. ChainInv => NeverBeforeItself
  <2> SUFFICES ASSUME ChainInv, Finished(stack[Top]), NEW i \in 1 .. Top - 1,
                      stack[i].req = stack[Top].req
               PROVE  FALSE
    BY DEF NeverBeforeItself
  <2>1. Top \in Nat \ {0} /\ i \in 1 .. Top /\ Top \in 1 .. Top
    BY TopIsPlace DEF ChainInv
  <2>2. stack[Top].pos <= stack[i].pos
    BY <2>1 DEF ChainInv, Behind
  <2>3. Steps(stack[i]) = Steps(stack[Top])
    BY DEF Steps
  <2>4. ~Finished(stack[i])
    BY DEF ChainInv, Calls
  <2>5. /\ stack[i].pos \in Nat /\ stack[Top].pos \in Nat
        /\ Len(Steps(stack[Top])) \in Nat
    BY <2>1, StackFacts DEF ChainInv, FrameType
  <2>6. QED
    BY <2>2, <2>3, <2>4, <2>5 DEF Finished
<1>2. QED
  BY <1>1, Invariance, PTL

(* Every request sees the aliases of its own chain, each bound to an       *)
(* earlier execution of what that step names, in the order of the chain.   *)
THEOREM AliasScope == Spec => []ViewsAreOwnChain
<1>1. ChainInv => ViewsAreOwnChain
  <2> SUFFICES ASSUME ChainInv PROVE ViewsAreOwnChain
    OBVIOUS
  <2>1. ASSUME outcome = "ok"
        PROVE  SeesItsChain(leaf, stack[1].out, Len(runs))
    <3>1. Top = 1 /\ Finished(stack[1]) /\ stack[1].req = leaf
      BY <2>1 DEF ChainInv, ViewsSoFar, Calls
    <3>2. stack[1].pos = Len(Steps(stack[1])) + 1
      BY <3>1, StackFacts DEF ChainInv, Calls, Finished, FrameType
    <3>3. stack[1].pos - 1 = Len(chain[leaf])
      BY <3>1, <3>2, StackFacts DEF ChainInv, Steps
    <3>4. SeesSteps(stack[1].pos - 1, stack[1].req, stack[1].out, Len(runs))
      BY <3>1 DEF ChainInv, ViewsSoFar
    <3>5. QED
      BY <3>1, <3>3, <3>4 DEF SeesItsChain
  <2>2. QED
    BY <2>1 DEF ViewsAreOwnChain, ChainInv, ViewsSoFar
<1>2. QED
  BY <1>1, Invariance, PTL
=============================================================================
