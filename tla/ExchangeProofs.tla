--------------------------- MODULE ExchangeProofs ---------------------------
(***************************************************************************)
(* Proofs about Exchange for any tabs, and any number of starts, of events *)
(* of a stream, of requests in a run and of entries in the history.        *)
(***************************************************************************)
EXTENDS Exchange, FiniteSetTheorems, SequenceTheorems, TLAPS

Closures ==
    [do : {"deliver"}, tab : Tabs \cup {NoTab}, resp : Nat]
    \cup [do : {"repaint", "ended", "publish", "report"}]

(* The places in the queue q of closures of one kind. *)
Places(q, what) == {i \in DOMAIN q : q[i].do = what}
Count(q, what) == Cardinality(Places(q, what))

(* A queue is finite, and so is the number of its closures of one kind. *)
LEMMA CountIsNat ==
    ASSUME NEW q \in Seq(Closures), NEW what
    PROVE  IsFiniteSet(Places(q, what)) /\ Count(q, what) \in Nat
<1>1. DOMAIN q = 1 .. Len(q) /\ Len(q) \in Nat
  OBVIOUS
<1>2. IsFiniteSet(1 .. Len(q))
  BY <1>1, FS_Interval
<1>3. Places(q, what) \in SUBSET (1 .. Len(q))
  BY <1>1 DEF Places
<1> QED BY <1>2, <1>3, FS_Subset, FS_CardinalityType DEF Count

(* Do adds one closure of its own kind ... *)
LEMMA CountAppend ==
    ASSUME NEW q \in Seq(Closures), NEW c \in Closures, NEW what
    PROVE  Count(Append(q, c), what) = Count(q, what) + (IF c.do = what THEN 1 ELSE 0)
<1> DEFINE n == Len(q) + 1
<1>1. /\ DOMAIN q = 1 .. Len(q) /\ Len(q) \in Nat
      /\ DOMAIN Append(q, c) = 1 .. n
      /\ \A i \in 1 .. Len(q) : Append(q, c)[i] = q[i]
      /\ Append(q, c)[n] = c
  OBVIOUS
<1>2. n \notin Places(q, what)
  BY <1>1 DEF Places
<1>3. CASE c.do = what
  <2>1. Places(Append(q, c), what) = Places(q, what) \cup {n}
    BY <1>1, <1>3 DEF Places
  <2> QED BY <1>2, <1>3, <2>1, CountIsNat, FS_AddElement DEF Count
<1>4. CASE c.do # what
  <2>1. Places(Append(q, c), what) = Places(q, what)
    BY <1>1, <1>4 DEF Places
  <2> QED BY <1>4, <2>1, CountIsNat DEF Count
<1> QED BY <1>3, <1>4

(* ... and the UI goroutine takes one away. *)
LEMMA CountTail ==
    ASSUME NEW q \in Seq(Closures), q # <<>>, NEW what
    PROVE  /\ Tail(q) \in Seq(Closures)
           /\ Count(Tail(q), what) = Count(q, what) - (IF Head(q).do = what THEN 1 ELSE 0)
<1> DEFINE P == Places(q, what) \ {1}
           T == Places(Tail(q), what)
           f == [i \in T |-> i + 1]
<1>1. /\ DOMAIN q = 1 .. Len(q) /\ Len(q) \in Nat \ {0}
      /\ Tail(q) \in Seq(Closures) /\ Len(Tail(q)) = Len(q) - 1
      /\ DOMAIN Tail(q) = 1 .. Len(q) - 1
      /\ \A i \in 1 .. Len(q) - 1 : Tail(q)[i] = q[i + 1]
      /\ Head(q) = q[1]
  OBVIOUS
<1>2. IsFiniteSet(T) /\ IsFiniteSet(Places(q, what))
  BY <1>1, CountIsNat
<1>3. f \in Bijection(T, P)
  <2>1. f \in [T -> P]
    BY <1>1 DEF Places
  <2>2. \A i, j \in T : f[i] = f[j] => i = j
    BY <1>1 DEF Places
  <2>3. \A k \in P : \E i \in T : f[i] = k
    <3> SUFFICES ASSUME NEW k \in P PROVE \E i \in T : f[i] = k
      OBVIOUS
    <3>1. k - 1 \in T
      BY <1>1 DEF Places
    <3>2. f[k - 1] = k
      BY <3>1, <1>1 DEF Places
    <3> QED BY <3>1, <3>2
  <2> QED BY <2>1, <2>2, <2>3 DEF Bijection, Injection, Surjection, IsInjective
<1>4. Cardinality(P) = Cardinality(T)
  BY <1>2, <1>3, FS_Bijection DEF ExistsBijection
<1>5. Cardinality(P) = IF 1 \in Places(q, what) THEN Count(q, what) - 1 ELSE Count(q, what)
  BY <1>2, FS_RemoveElement DEF Count
<1>6. 1 \in Places(q, what) <=> Head(q).do = what
  BY <1>1 DEF Places
<1> QED BY <1>1, <1>4, <1>5, <1>6, CountIsNat DEF Count

-----------------------------------------------------------------------------
(* The types of the variables. *)
Setters == {Unset} \cup [by : {"chain", "leaf", "run"}, id : Nat]
Sends ==
    [pc : {"idle", "chain", "leaf"}, id : Nat, tab : Tabs \cup {NoTab}, pre : Setters,
     aborted : BOOLEAN, script : {"due", "runs", "done", "failed"}]
Streams ==
    [pc : {"idle", "reading", "queuing"}, count : Nat, text : Nat, queued : BOOLEAN,
     stopped : BOOLEAN]
Results == [skipped : BOOLEAN, asked : BOOLEAN, halted : BOOLEAN]
Runs ==
    [pc : {"idle", "next", "chain", "leaf"}, id : Nat, left : Int, pre : Setters,
     skip : BOOLEAN, stop : BOOLEAN, asked : BOOLEAN, halted : BOOLEAN, skips : Seq(Results)]

TypeTabs ==
    /\ tabs \subseteq Tabs
    /\ active \in tabs \/ (active = NoTab /\ tabs = {})
TypeMarks == sendCancel \in BOOLEAN /\ streamCancel \in BOOLEAN /\ running \in BOOLEAN
Types ==
    /\ TypeTabs /\ TypeMarks
    /\ ui \in Seq(Closures)
    /\ send \in Sends /\ stream \in Streams /\ run \in Runs
    /\ overlay \in Setters /\ starts \in Nat /\ history \in Seq(Nat)

-----------------------------------------------------------------------------
(* The inductive invariant. *)

(* TypeOK, but for the strip and the history. *)
Flights ==
    /\ Works(send.pc) + Count(ui, "deliver") = IF sendCancel THEN 1 ELSE 0
    /\ Works(stream.pc) + Count(ui, "ended") = IF streamCancel THEN 1 ELSE 0
    /\ Works(run.pc) + Count(ui, "report") = IF running THEN 1 ELSE 0
    /\ ~(sendCancel /\ streamCancel)
    /\ Count(ui, "repaint") = IF stream.queued /\ stream.pc # "queuing" THEN 1 ELSE 0

(* The sends in the history are older than the one at work. *)
Newest ==
    /\ Len(history) <= MaxHistory
    /\ \A i \in 2 .. Len(history) : history[i - 1] < history[i]
    /\ \A i \in 1 .. Len(history) :
        history[i] <= starts /\ (send.pc # "idle" => history[i] < send.id)
    /\ send.pc # "idle" => send.id <= starts

(* The end of a stream is queued behind its repaints. *)
EndedIsLast ==
    \A i, j \in DOMAIN ui : ui[i].do = "ended" /\ ui[j].do = "repaint" => j < i
Paints ==
    /\ EndedIsLast
    /\ stream.text = stream.count
    /\ stream.pc = "queuing" => stream.queued
    /\ ~stream.queued => painted = stream.text
    /\ ~streamCancel => ~stream.queued

(* An answer without a tab is of a send that was made without one. *)
Answers ==
    /\ resp \in [Tabs -> Nat \cup {NoResp}]
    /\ send.pc # "idle" /\ send.tab = NoTab => send.id \in bare
    /\ \A i \in DOMAIN ui : ui[i].do = "deliver" /\ ui[i].tab = NoTab => ui[i].resp \in bare

(* What the scripts of a run have asked for so far. *)
Asked ==
    /\ run.pc = "leaf" /\ run.skip => run.asked
    /\ run.halted => run.stop
    /\ \A i \in DOMAIN run.skips :
        /\ run.skips[i].skipped => run.skips[i].asked
        /\ run.skips[i].halted => run.stop /\ i = Len(run.skips) /\ run.pc \in {"next", "idle"}

(* What a roll-back would put back, and what is there, is of no failed      *)
(* chain, and of no run but the one at work, unless it was mixed.           *)
Ids ==
    /\ \A i \in failed : i \in Nat /\ i <= starts
    /\ send.pc # "idle" => send.id <= starts /\ send.id \notin failed
    /\ run.pc # "idle" => run.id <= starts
    /\ send.pc # "idle" /\ run.pc # "idle" => send.id \in mixed /\ run.id \in mixed
    /\ overlay # Unset => overlay.id <= starts
Kept(v) ==
    v # Unset =>
        /\ v.by = "chain" => v.id \notin failed \ mixed
        /\ v.by = "run" => v.id \in mixed
Restores ==
    /\ send.pc # "idle" => Kept(send.pre) /\ (send.pre # Unset => send.pre.id < send.id)
    /\ run.pc \in {"chain", "leaf"} =>
        /\ Kept(run.pre)
        /\ run.pre # Unset /\ run.pre.by = "chain" /\ send.pc # "idle" /\ run.pre.id = send.id
            => run.pre.id \in mixed
        /\ run.pre # Unset => run.pre.id <= starts
    /\ overlay # Unset /\ overlay.by = "chain" => overlay.id \notin failed \ mixed
    /\ overlay # Unset /\ overlay.by = "run" =>
        overlay.id \in mixed \/ (run.pc \in {"chain", "leaf"} /\ run.id = overlay.id)

ExchangeInv ==
    /\ Types /\ Flights /\ Newest /\ Paints /\ Answers /\ Asked /\ Ids /\ Restores
    /\ PanelShowsActiveTab

(* The idle workers have the types of workers. *)
LEMMA IdleTypes == NoSend \in Sends /\ NoStream \in Streams /\ NoRun \in Runs
<1>1. NoSend \in Sends
  BY DEF NoSend, Sends, Setters
<1>2. NoStream \in Streams
  BY DEF NoStream, Streams
<1>3. NoRun \in Runs
  BY DEF NoRun, Runs, Setters
<1> QED BY <1>1, <1>2, <1>3

(* So has the worker of a new run. *)
LEMMA NewRunType ==
    ASSUME NEW id \in Nat
    PROVE  [NoRun EXCEPT !.pc = "next", !.id = id, !.left = RunLength] \in Runs
<1>1. Unset \in Setters /\ <<>> \in Seq(Results) /\ RunLength \in Int
  BY ExchangeAssumption DEF Setters
<1> QED BY <1>1 DEF NoRun, Runs

(* The initial state has the types. *)
LEMMA InitTypes == Init => Types
<1> SUFFICES ASSUME Init PROVE Types
  OBVIOUS
<1>4. TypeTabs /\ TypeMarks
  BY DEF Init, TypeTabs, TypeMarks
<1>5. ui \in Seq(Closures) /\ history \in Seq(Nat) /\ starts \in Nat /\ overlay \in Setters
  BY DEF Init, Setters
<1> QED BY IdleTypes, <1>4, <1>5 DEF Init, Types

-----------------------------------------------------------------------------
(* The steps that change each part. *)
SendStep ==
    \/ \E chained \in BOOLEAN : Send(chained)
    \/ Abort \/ ScriptStarts \/ ScriptEnds \/ ScriptFails
    \/ ChainDone \/ ChainFails \/ LeafPanics \/ LeafDone
StreamStep == StartStream \/ StopStream \/ Event \/ QueueRepaint \/ StreamEnds
RunStarts == StartRun \/ RunNext
RunWorks == RunSets \/ RunSkips \/ RunStops \/ RunChainDone \/ RunOneDone \/ RunDone
SocketStep ==
    OpenSocket \/ DialOk \/ DialFails \/ CloseUnpublished \/ ReadFails \/ CloseDialog

(* A step is a step of one of the parts. *)
LEMMA NextIsStep ==
    Next <=> \/ TabStep \/ SendStep \/ SendSets \/ ClearHistory
             \/ StreamStep \/ SocketStep \/ RunStarts \/ RunWorks \/ RunClosure
BY DEF Next, SendStep, StreamStep, SocketStep, RunStarts, RunWorks

(* What the steps of each part leave alone: of the tabs ... *)
LEMMA TabFrame ==
    TabStep => UNCHANGED <<ui, sendVars, streamVars, socket, runVars, overlay, starts,
                           failed, mixed, bare>>
BY DEF TabStep

(* ... of the send ... *)
LEMMA SendFrame ==
    SendStep => UNCHANGED <<tabVars, streamVars, socket, runVars>>
BY DEF SendStep, Send, Abort, Script, ScriptStarts, ScriptEnds, ScriptFails, ChainDone,
    ChainFails, LeafPanics, LeafDone

(* ... of the stream ... *)
LEMMA StreamFrame ==
    StreamStep => UNCHANGED <<tabs, active, resp, sendVars, socket, runVars, overlay,
                              failed, mixed, bare>>
BY DEF StreamStep, StartStream, StopStream, Event, QueueRepaint, StreamEnds, tabVars

(* ... of the WebSocket ... *)
LEMMA SocketFrame ==
    SocketStep => UNCHANGED <<tabVars, sendVars, streamVars, runVars, overlay,
                              failed, mixed, bare>>
BY DEF SocketStep, OpenSocket, DialOk, DialFails, CloseUnpublished, ReadFails, CloseDialog

(* ... of the run ... *)
LEMMA RunFrame ==
    RunStarts \/ RunWorks =>
        UNCHANGED <<tabVars, sendVars, streamVars, socket, failed, bare>>
BY DEF RunStarts, RunWorks, StartRun, RunNext, RunSets, RunSkips, RunStops, RunChainDone,
    RunOneDone, RunDone, RunStep

(* ... and the closures. *)
LEMMA ClosureFrame ==
    RunClosure => UNCHANGED <<tabs, active, send, history, run, overlay, starts, failed, mixed, bare>>
BY DEF RunClosure, tabVars

(* Nothing but its own steps changes the send ... *)
LEMMA SendUnchanged == [Next]_vars /\ ~SendStep => UNCHANGED send
<1> SUFFICES ASSUME [Next]_vars, ~SendStep PROVE UNCHANGED send
  OBVIOUS
<1>1. CASE TabStep
  BY <1>1, TabFrame DEF sendVars
<1>2. CASE StreamStep
  BY <1>2, StreamFrame DEF sendVars
<1>3. CASE SocketStep
  BY <1>3, SocketFrame DEF sendVars
<1>4. CASE RunStarts \/ RunWorks
  BY <1>4, RunFrame DEF sendVars
<1>5. CASE RunClosure
  BY <1>5, ClosureFrame
<1>6. CASE SendSets \/ ClearHistory \/ UNCHANGED vars
  BY <1>6 DEF SendSets, ClearHistory, vars, sendVars
<1> QED BY <1>1, <1>2, <1>3, <1>4, <1>5, <1>6, NextIsStep

(* ... the stream, but for a repaint ... *)
LEMMA StreamUnchanged ==
    [Next]_vars /\ ~StreamStep /\ ~RunClosure => UNCHANGED <<stream, painted, streamCancel>>
<1> SUFFICES ASSUME [Next]_vars, ~StreamStep, ~RunClosure
             PROVE  UNCHANGED <<stream, painted, streamCancel>>
  OBVIOUS
<1>1. CASE TabStep
  BY <1>1, TabFrame DEF streamVars
<1>2. CASE SendStep
  BY <1>2, SendFrame DEF streamVars
<1>3. CASE SocketStep
  BY <1>3, SocketFrame DEF streamVars
<1>4. CASE RunStarts \/ RunWorks
  BY <1>4, RunFrame DEF streamVars
<1>5. CASE SendSets \/ ClearHistory \/ UNCHANGED vars
  BY <1>5 DEF SendSets, ClearHistory, vars, streamVars
<1> QED BY <1>1, <1>2, <1>3, <1>4, <1>5, NextIsStep

(* ... and the run. *)
LEMMA RunUnchanged == [Next]_vars /\ ~RunStarts /\ ~RunWorks => UNCHANGED run
<1> SUFFICES ASSUME [Next]_vars, ~RunStarts, ~RunWorks PROVE UNCHANGED run
  OBVIOUS
<1>1. CASE TabStep
  BY <1>1, TabFrame DEF runVars
<1>2. CASE SendStep
  BY <1>2, SendFrame DEF runVars
<1>3. CASE StreamStep
  BY <1>3, StreamFrame DEF runVars
<1>4. CASE SocketStep
  BY <1>4, SocketFrame DEF runVars
<1>5. CASE RunClosure
  BY <1>5, ClosureFrame
<1>6. CASE SendSets \/ ClearHistory \/ UNCHANGED vars
  BY <1>6 DEF SendSets, ClearHistory, vars, runVars
<1> QED BY <1>1, <1>2, <1>3, <1>4, <1>5, <1>6, NextIsStep

(* A worker queues a closure: a repaint when its event asks for one, and    *)
(* the answer of the send it works for.                                     *)
Queues(c) ==
    /\ Do(c)
    /\ c.do = "repaint" => stream.pc = "queuing"
    /\ c.do = "deliver" => send.pc # "idle" /\ c.tab = send.tab /\ c.resp = send.id

(* What a step does to the queue: nothing, or one closure more or less.     *)
LEMMA QueueStep ==
    ASSUME Types, [Next]_vars
    PROVE  \/ UNCHANGED ui
           \/ \E c \in Closures : Queues(c)
           \/ RunClosure /\ ui # <<>> /\ ui' = Tail(ui)
<1>1. CASE SendStep
  <2>1. CASE ChainFails \/ LeafPanics \/ LeafDone
    <3> DEFINE c == [do |-> "deliver", tab |-> send.tab, resp |-> send.id]
    <3>1. Do(c) /\ send.pc # "idle"
      BY <2>1 DEF ChainFails, LeafPanics, LeafDone, Deliver
    <3>2. c \in Closures
      BY DEF Types, Sends, Closures
    <3> QED BY <3>1, <3>2 DEF Queues
  <2>2. ~(ChainFails \/ LeafPanics \/ LeafDone) => UNCHANGED ui
    BY <1>1 DEF SendStep, Send, Abort, Script, ScriptStarts, ScriptEnds, ScriptFails, ChainDone
  <2> QED BY <2>1, <2>2
<1>2. CASE StreamStep
  <2>1. [do |-> "repaint"] \in Closures /\ [do |-> "ended"] \in Closures
    BY DEF Closures
  <2> QED BY <1>2, <2>1 DEF StreamStep, StartStream, StopStream, Event, QueueRepaint, StreamEnds,
       Queues
<1>3. CASE SocketStep
  <2>1. [do |-> "publish"] \in Closures
    BY DEF Closures
  <2> QED BY <1>3, <2>1 DEF SocketStep, OpenSocket, DialOk, DialFails, CloseUnpublished, ReadFails,
       CloseDialog, Queues
<1>4. CASE RunStarts \/ RunWorks
  <2>1. [do |-> "report"] \in Closures
    BY DEF Closures
  <2> QED BY <1>4, <2>1 DEF RunStarts, RunWorks, StartRun, RunNext, RunSets, RunSkips, RunStops,
       RunChainDone, RunOneDone, RunDone, Queues
<1>5. CASE TabStep \/ SendSets \/ ClearHistory \/ UNCHANGED vars
  BY <1>5, TabFrame DEF SendSets, ClearHistory, vars
<1>6. CASE RunClosure
  BY <1>6 DEF RunClosure
<1> QED BY <1>1, <1>2, <1>3, <1>4, <1>5, <1>6, NextIsStep

-----------------------------------------------------------------------------
(* Each step keeps the types: of the strip of tabs ... *)
LEMMA TabTypes == Types /\ [Next]_vars => TypeTabs'
<1> SUFFICES ASSUME Types, [Next]_vars PROVE TypeTabs'
  OBVIOUS
<1>1. CASE TabStep
  <2>1. ASSUME NEW t \in Tabs, Activate(t) PROVE TypeTabs'
    BY <2>1 DEF Activate, Types, TypeTabs
  <2>2. ASSUME NEW t \in Tabs, Open(t) PROVE TypeTabs'
    BY <2>2 DEF Open, Types, TypeTabs
  <2>3. ASSUME NEW victims, Close(victims) PROVE TypeTabs'
    BY <2>3 DEF Close, Types, TypeTabs
  <2> QED BY <1>1, <2>1, <2>2, <2>3 DEF TabStep
<1>2. CASE ~TabStep
  <2>1. UNCHANGED <<tabs, active>>
    BY <1>2, NextIsStep, SendFrame, StreamFrame, SocketFrame, RunFrame, ClosureFrame
    DEF vars, tabVars, SendSets, ClearHistory
  <2> QED BY <2>1 DEF Types, TypeTabs
<1> QED BY <1>1, <1>2

(* The queue is a queue of closures. *)
LEMMA QueueType == Types /\ [Next]_vars => (ui \in Seq(Closures))'
<1> SUFFICES ASSUME Types, [Next]_vars PROVE (ui \in Seq(Closures))'
  OBVIOUS
<1>1. ASSUME NEW c \in Closures, Do(c) PROVE (ui \in Seq(Closures))'
  BY <1>1 DEF Do, Types
<1>2. ASSUME ui # <<>>, ui' = Tail(ui) PROVE (ui \in Seq(Closures))'
  BY <1>2, CountTail DEF Types
<1> QED BY QueueStep, <1>1, <1>2 DEF Types, Queues

(* The marks of the buttons are Booleans. *)
LEMMA MarkTypes == Types /\ [Next]_vars => TypeMarks'
<1> SUFFICES ASSUME Types, [Next]_vars PROVE TypeMarks'
  OBVIOUS
<1>1. CASE SendStep
  BY <1>1, SendFrame DEF SendStep, Send, Abort, Script, ScriptStarts, ScriptEnds,
    ScriptFails, ChainDone, ChainFails, LeafPanics, LeafDone, Types, TypeMarks, streamVars, runVars
<1>2. CASE StreamStep
  BY <1>2, StreamFrame DEF StreamStep, StartStream, StopStream, Event, QueueRepaint,
    StreamEnds, Types, TypeMarks, sendVars, runVars
<1>3. CASE RunStarts \/ RunWorks
  BY <1>3, RunFrame DEF RunStarts, RunWorks, StartRun, RunNext, RunSets, RunSkips, RunStops,
    RunChainDone, RunOneDone, RunDone, RunStep, Types, TypeMarks, sendVars, streamVars
<1>4. CASE RunClosure
  BY <1>4 DEF RunClosure, Delivered, Repaint, Publish, Types, TypeMarks, streamVars
<1>5. CASE TabStep \/ SocketStep \/ SendSets \/ ClearHistory \/ UNCHANGED vars
  BY <1>5, TabFrame, SocketFrame
  DEF SendSets, ClearHistory, vars, Types, TypeMarks, sendVars, streamVars, runVars
<1> QED BY <1>1, <1>2, <1>3, <1>4, <1>5, NextIsStep

(* The worker of the send. *)
LEMMA SendType == Types /\ [Next]_vars => (send \in Sends)'
<1> SUFFICES ASSUME Types, [Next]_vars PROVE (send \in Sends)'
  OBVIOUS
<1> USE DEF Types, Sends
<1>1. ASSUME NEW chained \in BOOLEAN, Send(chained) PROVE (send \in Sends)'
  BY <1>1 DEF Send, Start, TypeTabs
<1>2. CASE Abort \/ ScriptStarts \/ ScriptEnds \/ ScriptFails \/ ChainDone
  BY <1>2 DEF Abort, Script, ScriptStarts, ScriptEnds, ScriptFails, ChainDone
<1>3. CASE ChainFails \/ LeafPanics \/ LeafDone
  BY <1>3, IdleTypes DEF ChainFails, LeafPanics, LeafDone
<1>4. CASE ~SendStep
  BY <1>4, SendUnchanged
<1> QED BY <1>1, <1>2, <1>3, <1>4 DEF SendStep

(* The worker of the stream. *)
LEMMA StreamType == Types /\ [Next]_vars => (stream \in Streams)'
<1> SUFFICES ASSUME Types, [Next]_vars PROVE (stream \in Streams)'
  OBVIOUS
<1> USE DEF Types, Streams
<1>1. CASE StreamStep
  <2>1. ASSUME StartStream PROVE (stream \in Streams)'
    BY <2>1 DEF StartStream, NoStream
  <2>2. ASSUME StopStream \/ QueueRepaint \/ StreamEnds PROVE (stream \in Streams)'
    BY <2>2 DEF StopStream, QueueRepaint, StreamEnds
  <2>3. ASSUME Event PROVE (stream \in Streams)'
    <3>1. stream.count + 1 \in Nat
      OBVIOUS
    <3>2. stream' \in [pc : {"reading", "queuing"}, count : {stream.count + 1},
                       text : {stream.count + 1}, queued : {TRUE}, stopped : {stream.stopped}]
      BY <2>3 DEF Event
    <3> QED BY <3>1, <3>2
  <2> QED BY <1>1, <2>1, <2>2, <2>3 DEF StreamStep
<1>2. CASE RunClosure
  BY <1>2 DEF RunClosure, Repaint, streamVars
<1>3. CASE ~StreamStep /\ ~RunClosure
  BY <1>3, StreamUnchanged
<1> QED BY <1>1, <1>2, <1>3

(* The worker of the run. *)
LEMMA RunType == Types /\ [Next]_vars => (run \in Runs)'
<1> SUFFICES ASSUME Types, [Next]_vars PROVE (run \in Runs)'
  OBVIOUS
<1> USE DEF Types, Runs
<1>1. CASE StartRun
  <2>1. starts' \in Nat
    BY <1>1 DEF StartRun, Start
  <2> QED BY <1>1, <2>1, NewRunType DEF StartRun
<1>2. CASE RunNext
  BY <1>2 DEF RunNext, RunStep
<1>3. CASE RunSets \/ RunSkips \/ RunStops \/ RunChainDone \/ RunDone
  BY <1>3 DEF RunSets, RunSkips, RunStops, RunChainDone, RunDone, RunStep
<1>4. CASE RunOneDone
  <2> DEFINE r == [skipped |-> run.pc = "leaf" /\ run.skip, asked |-> run.asked,
                   halted |-> run.halted]
  <2>1. r \in Results
    BY DEF Results
  <2>2. Append(run.skips, r) \in Seq(Results)
    BY <2>1
  <2>3. run' = [run EXCEPT !.pc = "next", !.left = @ - 1, !.skips = Append(@, r)]
    BY <1>4 DEF RunOneDone, RunStep
  <2>4. run.left - 1 \in Int
    OBVIOUS
  <2> QED BY <2>2, <2>3, <2>4
<1>5. CASE ~RunStarts /\ ~RunWorks
  BY <1>5, RunUnchanged
<1> QED BY <1>1, <1>2, <1>3, <1>4, <1>5 DEF RunStarts, RunWorks

(* The overlay and the number of starts. *)
LEMMA OverlayType == Types /\ [Next]_vars => (overlay \in Setters /\ starts \in Nat)'
<1> SUFFICES ASSUME Types, [Next]_vars PROVE (overlay \in Setters /\ starts \in Nat)'
  OBVIOUS
<1> USE DEF Types
<1>1. CASE SendStep
  BY <1>1 DEF SendStep, Send, Abort, Script, ScriptStarts, ScriptEnds, ScriptFails, ChainDone,
    ChainFails, LeafPanics, LeafDone, Start, Sends
<1>2. CASE SendSets
  BY <1>2 DEF SendSets, Sends, Setters
<1>3. CASE RunStarts \/ RunWorks
  BY <1>3 DEF RunStarts, RunWorks, StartRun, RunNext, RunSets, RunSkips, RunStops,
    RunChainDone, RunOneDone, RunDone, RunStep, Start, Runs, Setters
<1>4. CASE StreamStep \/ SocketStep
  BY <1>4, StreamFrame, SocketFrame DEF StreamStep, SocketStep, StartStream, StopStream, Event,
    QueueRepaint, StreamEnds, OpenSocket, DialOk, DialFails, CloseUnpublished, ReadFails,
    CloseDialog, Start
<1>5. CASE TabStep \/ ClearHistory \/ RunClosure \/ UNCHANGED vars
  BY <1>5, TabFrame, ClosureFrame DEF ClearHistory, vars
<1> QED BY <1>1, <1>2, <1>3, <1>4, <1>5, NextIsStep

(* Record keeps the newest: what it returns is the end of what it got. *)
LEMMA RecordedIsEnd ==
    ASSUME NEW h \in Seq(Nat), NEW id \in Nat, NEW r, r = Recorded(h, id), Len(h) <= MaxHistory
    PROVE  /\ r \in Seq(Nat) /\ Len(r) <= MaxHistory
           /\ \E k \in 0 .. 1 :
                /\ Len(r) = Len(h) + 1 - k
                /\ \A i \in 1 .. Len(r) : r[i] = IF i + k <= Len(h) THEN h[i + k] ELSE id
<1> DEFINE all == Append(h, id)
<1>1. /\ all \in Seq(Nat) /\ Len(all) = Len(h) + 1
      /\ \A i \in 1 .. Len(all) : all[i] = IF i <= Len(h) THEN h[i] ELSE id
  OBVIOUS
<1>2. CASE Len(all) > MaxHistory
  <2>1. Len(h) = MaxHistory
    BY <1>1, <1>2, ExchangeAssumption
  <2>2. r = SubSeq(all, 2, Len(all))
    <3>1. Len(all) - MaxHistory + 1 = 2
      BY <2>1, <1>1
    <3> QED BY <3>1, <1>2 DEF Recorded
  <2>3. /\ r \in Seq(Nat) /\ Len(r) = Len(all) - 1
        /\ \A i \in 1 .. Len(r) : r[i] = all[i + 1]
    BY <2>2, <1>1
  <2> QED BY <1>1, <2>1, <2>3
<1>3. CASE ~(Len(all) > MaxHistory)
  BY <1>1, <1>3, ExchangeAssumption DEF Recorded
<1> QED BY <1>2, <1>3

(* A step starts one thing at most. *)
LEMMA StartsGrow == Types /\ [Next]_vars => starts' \in {starts, starts + 1}
<1> SUFFICES ASSUME Types, [Next]_vars PROVE starts' \in {starts, starts + 1}
  OBVIOUS
<1>1. CASE SendStep
  BY <1>1 DEF SendStep, Send, Abort, Script, ScriptStarts, ScriptEnds, ScriptFails, ChainDone,
    ChainFails, LeafPanics, LeafDone, Start
<1>2. CASE StreamStep \/ SocketStep
  BY <1>2 DEF StreamStep, SocketStep, StartStream, StopStream, Event, QueueRepaint, StreamEnds,
    OpenSocket, DialOk, DialFails, CloseUnpublished, ReadFails, CloseDialog, Start
<1>3. CASE RunStarts \/ RunWorks
  BY <1>3 DEF RunStarts, RunWorks, StartRun, RunNext, RunSets, RunSkips, RunStops,
    RunChainDone, RunOneDone, RunDone, RunStep, Start
<1>4. CASE TabStep \/ SendSets \/ ClearHistory \/ RunClosure \/ UNCHANGED vars
  BY <1>4, TabFrame, ClosureFrame DEF SendSets, ClearHistory, vars
<1> QED BY <1>1, <1>2, <1>3, <1>4, NextIsStep

(* Only a send that is done, and the user, change the history. *)
LEMMA HistoryUnchanged == [Next]_vars /\ ~LeafDone /\ ~ClearHistory => UNCHANGED history
<1> SUFFICES ASSUME [Next]_vars, ~LeafDone, ~ClearHistory PROVE UNCHANGED history
  OBVIOUS
<1>1. CASE SendStep
  BY <1>1 DEF SendStep, Send, Abort, Script, ScriptStarts, ScriptEnds, ScriptFails, ChainDone,
    ChainFails, LeafPanics
<1>2. CASE TabStep
  BY <1>2, TabFrame DEF sendVars
<1>3. CASE StreamStep
  BY <1>3, StreamFrame DEF sendVars
<1>4. CASE SocketStep
  BY <1>4, SocketFrame DEF sendVars
<1>5. CASE RunStarts \/ RunWorks
  BY <1>5, RunFrame DEF sendVars
<1>6. CASE RunClosure
  BY <1>6, ClosureFrame
<1>7. CASE SendSets \/ UNCHANGED vars
  BY <1>7 DEF SendSets, vars, sendVars
<1> QED BY <1>1, <1>2, <1>3, <1>4, <1>5, <1>6, <1>7, NextIsStep

(* The history keeps the newest sends, in order. *)
LEMMA NewestStep == Types /\ Newest /\ [Next]_vars => (history \in Seq(Nat))' /\ Newest'
<1> SUFFICES ASSUME Types, Newest, [Next]_vars PROVE (history \in Seq(Nat))' /\ Newest'
  OBVIOUS
<1>1. history \in Seq(Nat) /\ starts \in Nat /\ starts' \in {starts, starts + 1} /\ send.id \in Nat
  BY StartsGrow DEF Types, Sends
<1>2. CASE UNCHANGED history /\ send'.pc = "idle"
  BY <1>1, <1>2 DEF Newest
<1>3. CASE UNCHANGED history /\ UNCHANGED <<send>>
  BY <1>1, <1>3 DEF Newest
<1>4. ASSUME NEW chained \in BOOLEAN, Send(chained) PROVE (history \in Seq(Nat))' /\ Newest'
  <2>1. UNCHANGED history /\ send'.id = starts + 1 /\ starts' = starts + 1
    BY <1>4 DEF Send, Start
  <2> QED BY <1>1, <2>1 DEF Newest
<1>5. CASE Abort \/ ScriptStarts \/ ScriptEnds \/ ScriptFails \/ ChainDone
  <2>1. UNCHANGED <<history, starts>>
    BY <1>5 DEF Abort, Script, ScriptStarts, ScriptEnds, ScriptFails, ChainDone
  <2>2. send'.id = send.id /\ send.pc # "idle"
    BY <1>5 DEF Abort, Script, ScriptStarts, ScriptEnds, ScriptFails, ChainDone, Types, Sends
  <2> QED BY <1>1, <2>1, <2>2 DEF Newest
<1>6. CASE ChainFails \/ LeafPanics
  BY <1>2, <1>6 DEF ChainFails, LeafPanics, NoSend
<1>7. CASE LeafDone
  <2>1. send'.pc = "idle" /\ send.pc # "idle" /\ UNCHANGED starts
    BY <1>7 DEF LeafDone, NoSend
  <2>2. CASE send.aborted
    BY <1>2, <1>7, <2>1, <2>2 DEF LeafDone
  <2>3. CASE ~send.aborted
    <3>1. history' = Recorded(history, send.id)
      BY <1>7, <2>3 DEF LeafDone
    <3>2. Len(history) <= MaxHistory
      BY DEF Newest
    <3>3. history' \in Seq(Nat) /\ Len(history') <= MaxHistory
      BY <1>1, <3>1, <3>2, RecordedIsEnd
    <3>4. PICK k \in 0 .. 1 :
            /\ Len(history') = Len(history) + 1 - k
            /\ \A i \in 1 .. Len(history') :
                history'[i] = IF i + k <= Len(history) THEN history[i + k] ELSE send.id
      BY <1>1, <3>1, <3>2, RecordedIsEnd, SMTT(30)
    <3>5. ASSUME NEW i \in 2 .. Len(history') PROVE history'[i - 1] < history'[i]
      <4>1. /\ i - 1 \in 1 .. Len(history') /\ i \in 1 .. Len(history')
            /\ i - 1 + k \in 1 .. Len(history) /\ Len(history) \in Nat
        BY <1>1, <3>3, <3>4
      <4>2. history'[i - 1] = history[i + k - 1]
        BY <3>4, <4>1
      <4>3. CASE i + k <= Len(history)
        BY <1>1, <3>4, <4>1, <4>2, <4>3 DEF Newest
      <4>4. CASE ~(i + k <= Len(history))
        BY <1>1, <2>1, <3>4, <4>1, <4>2, <4>4 DEF Newest
      <4> QED BY <4>3, <4>4
    <3>6. ASSUME NEW i \in 1 .. Len(history') PROVE history'[i] <= starts
      <4>1. Len(history) \in Nat /\ i + k \in Nat \ {0}
        BY <1>1, <3>3, <3>4
      <4> QED BY <1>1, <2>1, <3>4, <3>6, <4>1 DEF Newest
    <3> QED BY <1>1, <2>1, <3>3, <3>5, <3>6 DEF Newest
  <2> QED BY <2>2, <2>3
<1>8. CASE ClearHistory
  BY <1>1, <1>8, ExchangeAssumption DEF ClearHistory, Newest
<1>9. CASE ~SendStep /\ ~ClearHistory
  BY <1>3, <1>9, SendUnchanged, HistoryUnchanged DEF SendStep
<1> QED BY <1>4, <1>5, <1>6, <1>7, <1>8, <1>9 DEF SendStep

(* The types are kept. *)
LEMMA TypesStep == Types /\ Newest /\ [Next]_vars => Types'
BY TabTypes, MarkTypes, QueueType, SendType, StreamType, RunType, OverlayType, NewestStep
DEF Types

-----------------------------------------------------------------------------
(* Each step keeps the count of workers and closures. *)
(* The kinds of closures TypeOK counts. *)
Kinds == {"deliver", "ended", "report", "repaint"}
(* Their numbers ... *)
LEMMA Counts == Types => \A what \in Kinds : Count(ui, what) \in Nat
BY CountIsNat DEF Types

(* ... after a worker has queued a closure ... *)
LEMMA CountsDo ==
    ASSUME Types, NEW c \in Closures, Do(c)
    PROVE  \A what \in Kinds :
                Count(ui', what) = Count(ui, what) + (IF c.do = what THEN 1 ELSE 0)
<1>1. ui \in Seq(Closures) /\ ui' = Append(ui, c)
  BY DEF Types, Do
<1> QED BY <1>1, CountAppend

(* ... and after the UI goroutine has taken one. *)
LEMMA CountsTake ==
    ASSUME Types, ui # <<>>, ui' = Tail(ui)
    PROVE  \A what \in Kinds :
                /\ Count(ui', what) \in Nat
                /\ Count(ui', what) = Count(ui, what) - (IF Head(ui).do = what THEN 1 ELSE 0)
<1>1. ui \in Seq(Closures) /\ Tail(ui) \in Seq(Closures)
  BY CountTail DEF Types
<1> QED BY <1>1, CountTail, CountIsNat

(* The steps of a send keep the balance of workers and closures. *)
LEMMA SendFlights == Types /\ Flights /\ SendStep => Flights'
<1> SUFFICES ASSUME Types, Flights, SendStep PROVE Flights'
  OBVIOUS
<1> USE Counts, CountsDo DEF Kinds
<1>1. UNCHANGED <<streamCancel, stream, running, run>>
  BY SendFrame DEF streamVars, runVars
<1>2. ASSUME NEW chained \in BOOLEAN, Send(chained) PROVE Flights'
  <2>1. /\ ~sendCancel /\ ~streamCancel /\ sendCancel' /\ send'.pc # "idle" /\ UNCHANGED ui
    BY <1>2 DEF Send
  <2> QED BY <1>1, <2>1 DEF Flights, Works, Types, TypeMarks
<1>3. CASE Abort \/ ScriptStarts \/ ScriptEnds \/ ScriptFails \/ ChainDone
  <2>1. UNCHANGED <<ui, sendCancel>>
    BY <1>3 DEF Abort, Script, ScriptStarts, ScriptEnds, ScriptFails, ChainDone
  <2>2. send'.pc # "idle" /\ send.pc # "idle"
    BY <1>3 DEF Abort, Script, ScriptStarts, ScriptEnds, ScriptFails, ChainDone, Types, Sends
  <2> QED BY <1>1, <2>1, <2>2 DEF Flights, Works
<1>4. CASE ChainFails \/ LeafPanics \/ LeafDone
  <2>1. UNCHANGED sendCancel /\ send'.pc = "idle" /\ send.pc # "idle"
    BY <1>4 DEF ChainFails, LeafPanics, LeafDone, NoSend
  <2>2. \E c \in Closures : Do(c) /\ c.do = "deliver"
    BY <1>4 DEF Types, ChainFails, LeafPanics, LeafDone, Deliver, Sends, Closures
  <2> QED BY <1>1, <2>1, <2>2 DEF Flights, Works
<1> QED BY <1>2, <1>3, <1>4 DEF SendStep

(* So do those of a stream ... *)
LEMMA StreamFlights == Types /\ Flights /\ Paints /\ StreamStep => Flights'
<1> SUFFICES ASSUME Types, Flights, Paints, StreamStep PROVE Flights'
  OBVIOUS
<1> USE Counts, CountsDo DEF Kinds
<1>1. UNCHANGED <<sendCancel, send, running, run>>
  BY StreamFrame DEF sendVars, runVars
<1>2. CASE StartStream
  <2>1. /\ ~sendCancel /\ ~streamCancel /\ streamCancel' /\ UNCHANGED ui
        /\ stream'.pc = "reading" /\ ~stream'.queued
    BY <1>2 DEF StartStream, NoStream
  <2> QED BY <1>1, <2>1 DEF Flights, Works, Types, TypeMarks, Paints
<1>3. CASE StopStream
  <2>1. UNCHANGED <<ui, streamCancel>> /\ stream'.pc = stream.pc /\ stream'.queued = stream.queued
    BY <1>3 DEF StopStream, Types, Streams
  <2> QED BY <1>1, <2>1 DEF Flights, Works
<1>4. CASE Event
  <2>1. /\ UNCHANGED <<ui, streamCancel>> /\ stream.pc = "reading" /\ stream'.queued
        /\ stream'.pc = IF stream.queued THEN "reading" ELSE "queuing"
    BY <1>4 DEF Event, Types, Streams
  <2> QED BY <1>1, <2>1 DEF Flights, Works
<1>5. CASE QueueRepaint
  <2>1. /\ UNCHANGED streamCancel /\ stream.pc = "queuing"
        /\ stream'.pc = "reading" /\ stream'.queued = stream.queued
    BY <1>5 DEF QueueRepaint, Types, Streams
  <2>2. \E c \in Closures : Do(c) /\ c.do = "repaint"
    BY <1>5 DEF QueueRepaint, Closures
  <2> QED BY <1>1, <2>1, <2>2 DEF Flights, Works, Paints
<1>6. CASE StreamEnds
  <2>1. /\ UNCHANGED streamCancel /\ stream.pc = "reading"
        /\ stream'.pc = "idle" /\ stream'.queued = stream.queued
    BY <1>6 DEF StreamEnds, Types, Streams
  <2>2. \E c \in Closures : Do(c) /\ c.do = "ended"
    BY <1>6 DEF StreamEnds, Closures
  <2> QED BY <1>1, <2>1, <2>2 DEF Flights, Works
<1> QED BY <1>2, <1>3, <1>4, <1>5, <1>6 DEF StreamStep

(* ... of a WebSocket ... *)
LEMMA SocketFlights == Types /\ Flights /\ SocketStep => Flights'
<1> SUFFICES ASSUME Types, Flights, SocketStep PROVE Flights'
  OBVIOUS
<1> USE Counts, CountsDo DEF Kinds
<1>1. UNCHANGED <<sendCancel, send, streamCancel, stream, running, run>>
  BY SocketFrame DEF sendVars, streamVars, runVars
<1>2. UNCHANGED ui \/ \E c \in Closures : Do(c) /\ c.do = "publish"
  BY DEF SocketStep, OpenSocket, DialOk, DialFails, CloseUnpublished, ReadFails, CloseDialog,
    Closures
<1> QED BY <1>1, <1>2 DEF Flights

(* ... of a run ... *)
LEMMA RunFlights == Types /\ Flights /\ (RunStarts \/ RunWorks) => Flights'
<1> SUFFICES ASSUME Types, Flights, RunStarts \/ RunWorks PROVE Flights'
  OBVIOUS
<1> USE Counts, CountsDo DEF Kinds
<1>1. UNCHANGED <<sendCancel, send, streamCancel, stream>>
  BY RunFrame DEF sendVars, streamVars
<1>2. CASE StartRun
  <2>1. ~running /\ running' /\ run'.pc = "next" /\ UNCHANGED ui
    BY <1>2 DEF StartRun, NoRun
  <2> QED BY <1>1, <2>1 DEF Flights, Works, Types, TypeMarks
<1>3. CASE RunNext \/ RunSets \/ RunSkips \/ RunStops \/ RunChainDone \/ RunOneDone
  <2>1. UNCHANGED <<running, ui>> /\ run.pc # "idle"
    BY <1>3 DEF RunNext, RunSets, RunSkips, RunStops, RunChainDone, RunOneDone, RunStep
  <2>2. run'.pc # "idle"
    BY <1>3, <2>1 DEF RunNext, RunSets, RunSkips, RunStops, RunChainDone, RunOneDone, RunStep,
      Types, Runs
  <2> QED BY <1>1, <2>1, <2>2 DEF Flights, Works
<1>4. CASE RunDone
  <2>1. UNCHANGED running /\ run.pc # "idle" /\ run'.pc = "idle"
    BY <1>4 DEF RunDone, RunStep, Types, Runs
  <2>2. \E c \in Closures : Do(c) /\ c.do = "report"
    BY <1>4 DEF RunDone, Closures
  <2> QED BY <1>1, <2>1, <2>2 DEF Flights, Works
<1> QED BY <1>2, <1>3, <1>4 DEF RunStarts, RunWorks

(* ... and the closures. *)
LEMMA ClosureFlights == Types /\ Flights /\ RunClosure => Flights'
<1> SUFFICES ASSUME Types, Flights, RunClosure PROVE Flights'
  OBVIOUS
<1> DEFINE c == Head(ui)
<1>0. UNCHANGED <<send, run>> /\ ui # <<>> /\ ui' = Tail(ui)
  BY ClosureFrame DEF RunClosure
<1>1. /\ UNCHANGED <<send, run>>
      /\ Count(ui, "deliver") \in Nat /\ Count(ui, "ended") \in Nat
      /\ Count(ui, "report") \in Nat /\ Count(ui, "repaint") \in Nat
      /\ Count(ui', "deliver") \in Nat /\ Count(ui', "ended") \in Nat
      /\ Count(ui', "report") \in Nat /\ Count(ui', "repaint") \in Nat
      /\ Count(ui', "deliver") = Count(ui, "deliver") - (IF c.do = "deliver" THEN 1 ELSE 0)
      /\ Count(ui', "ended") = Count(ui, "ended") - (IF c.do = "ended" THEN 1 ELSE 0)
      /\ Count(ui', "report") = Count(ui, "report") - (IF c.do = "report" THEN 1 ELSE 0)
      /\ Count(ui', "repaint") = Count(ui, "repaint") - (IF c.do = "repaint" THEN 1 ELSE 0)
  BY <1>0, Counts, CountsTake DEF Kinds
<1> HIDE DEF c
<1>2. CASE c.do = "deliver"
  <2>1. ~sendCancel' /\ UNCHANGED <<streamCancel, stream, running>>
    BY <1>2 DEF c, RunClosure, Delivered, streamVars
  <2>2. Works(send.pc) = 0 /\ Count(ui', "deliver") = 0
    BY <1>1, <1>2 DEF Flights, Works
  <2>3. Works(send'.pc) + Count(ui', "deliver") = IF sendCancel' THEN 1 ELSE 0
    BY <1>1, <2>1, <2>2
  <2>4. Works(stream'.pc) + Count(ui', "ended") = IF streamCancel' THEN 1 ELSE 0
    BY <1>1, <1>2, <2>1 DEF Flights
  <2>5. Works(run'.pc) + Count(ui', "report") = IF running' THEN 1 ELSE 0
    BY <1>1, <1>2, <2>1 DEF Flights
  <2>6. Count(ui', "repaint") = IF stream'.queued /\ stream'.pc # "queuing" THEN 1 ELSE 0
    BY <1>1, <1>2, <2>1 DEF Flights
  <2> QED BY <2>1, <2>3, <2>4, <2>5, <2>6 DEF Flights
<1>3. CASE c.do = "repaint"
  <2>1. UNCHANGED <<sendCancel, streamCancel, running>>
    BY <1>3 DEF c, RunClosure
  <2>2. stream'.pc = stream.pc /\ ~stream'.queued
    BY <1>3 DEF c, RunClosure, Repaint, Types, Streams
  <2> QED BY <1>1, <1>3, <2>1, <2>2 DEF Flights, Works
<1>4. CASE c.do = "ended"
  <2>1. ~streamCancel' /\ UNCHANGED <<sendCancel, stream, running>>
    BY <1>4 DEF c, RunClosure
  <2> QED BY <1>1, <1>4, <2>1 DEF Flights, Works
<1>5. CASE c.do = "publish"
  <2>1. UNCHANGED <<sendCancel, streamCancel, stream, running>>
    BY <1>5 DEF c, RunClosure, streamVars
  <2> QED BY <1>1, <1>5, <2>1 DEF Flights, Works
<1>6. CASE c.do = "report"
  <2>1. ~running' /\ UNCHANGED <<sendCancel, streamCancel, stream>>
    BY <1>6 DEF c, RunClosure, streamVars
  <2> QED BY <1>1, <1>6, <2>1 DEF Flights, Works
<1> QED BY <1>2, <1>3, <1>4, <1>5, <1>6 DEF c, RunClosure

(* The balance is kept. *)
LEMMA FlightsStep == Types /\ Flights /\ Paints /\ [Next]_vars => Flights'
<1> SUFFICES ASSUME Types, Flights, Paints, [Next]_vars PROVE Flights'
  OBVIOUS
<1>1. CASE TabStep \/ SendSets \/ ClearHistory \/ UNCHANGED vars
  <2>1. UNCHANGED <<ui, sendCancel, streamCancel, stream, running, run>>
    BY <1>1, TabFrame DEF SendSets, ClearHistory, vars, sendVars, streamVars, runVars
  <2>2. Works(send'.pc) = Works(send.pc)
    BY <1>1, TabFrame DEF SendSets, ClearHistory, vars, sendVars
  <2> QED BY <2>1, <2>2 DEF Flights
<1> QED BY <1>1, NextIsStep, SendFlights, StreamFlights, SocketFlights, RunFlights,
        ClosureFlights

-----------------------------------------------------------------------------
(* Nothing is counted when nothing is there. *)
LEMMA CountPlaces ==
    ASSUME NEW q \in Seq(Closures), NEW what
    PROVE  Count(q, what) = 0 <=> \A i \in DOMAIN q : q[i].do # what
<1>1. IsFiniteSet(Places(q, what)) /\ (Count(q, what) = 0 <=> Places(q, what) = {})
  BY CountIsNat, FS_EmptySet DEF Count
<1> QED BY <1>1 DEF Places

(* A stream queues its end after its repaints. *)
LEMMA EndedIsLastStep == Types /\ Flights /\ EndedIsLast /\ [Next]_vars => EndedIsLast'
<1> SUFFICES ASSUME Types, Flights, EndedIsLast, [Next]_vars PROVE EndedIsLast'
  OBVIOUS
<1>1. CASE UNCHANGED ui
  BY <1>1 DEF EndedIsLast
<1>2. CASE ui # <<>> /\ ui' = Tail(ui)
  <2>1. /\ DOMAIN ui' = 1 .. Len(ui) - 1 /\ DOMAIN ui = 1 .. Len(ui) /\ Len(ui) \in Nat
        /\ \A i \in 1 .. Len(ui) - 1 : ui'[i] = ui[i + 1]
    BY <1>2 DEF Types
  <2>2. ASSUME NEW i \in DOMAIN ui', NEW j \in DOMAIN ui', ui'[i].do = "ended",
               ui'[j].do = "repaint"
        PROVE  j < i
    <3>1. i + 1 \in DOMAIN ui /\ j + 1 \in DOMAIN ui /\ i \in Int /\ j \in Int
      BY <2>1
    <3>2. ui[i + 1].do = "ended" /\ ui[j + 1].do = "repaint"
      BY <2>1, <2>2
    <3>3. j + 1 < i + 1
      BY <3>1, <3>2 DEF EndedIsLast
    <3> QED BY <3>1, <3>3
  <2> QED BY <2>2 DEF EndedIsLast
<1>3. ASSUME NEW c \in Closures, Do(c), c.do = "repaint" => Count(ui, "ended") = 0
      PROVE  EndedIsLast'
  <2> DEFINE n == Len(ui) + 1
  <2>1. /\ DOMAIN ui' = 1 .. n /\ DOMAIN ui = 1 .. Len(ui) /\ Len(ui) \in Nat
        /\ \A i \in 1 .. Len(ui) : ui'[i] = ui[i]
        /\ ui'[n] = c
    BY <1>3 DEF Types, Do
  <2>2. ASSUME NEW i \in DOMAIN ui', NEW j \in DOMAIN ui', ui'[i].do = "ended",
               ui'[j].do = "repaint"
        PROVE  j < i
    <3>1. CASE j = n
      <4>1. c.do = "repaint"
        BY <2>1, <2>2, <3>1
      <4>2. \A k \in DOMAIN ui : ui[k].do # "ended"
        BY <1>3, <4>1, CountPlaces DEF Types
      <4>3. i \in DOMAIN ui
        BY <2>1, <2>2, <4>1
      <4> QED BY <2>1, <2>2, <4>2, <4>3
    <3>2. CASE j # n /\ i = n
      BY <2>1, <3>2
    <3>3. CASE j # n /\ i # n
      <4>1. i \in DOMAIN ui /\ j \in DOMAIN ui
        BY <2>1, <3>3
      <4> QED BY <2>1, <2>2, <4>1 DEF EndedIsLast
    <3> QED BY <3>1, <3>2, <3>3
  <2> QED BY <2>2 DEF EndedIsLast
<1>4. ASSUME NEW c \in Closures, Queues(c) PROVE EndedIsLast'
  <2>1. Do(c) /\ (c.do = "repaint" => stream.pc = "queuing")
    BY <1>4 DEF Queues
  <2>2. c.do = "repaint" => Count(ui, "ended") = 0
    BY <2>1, Counts DEF Flights, Works, Kinds
  <2> QED BY <1>3, <2>1, <2>2
<1> QED BY <1>1, <1>2, <1>4, QueueStep

(* What the stream has not painted yet, a queued repaint will. *)
LEMMA PaintsStep == Types /\ Flights /\ Paints /\ [Next]_vars => Paints'
<1> SUFFICES ASSUME Types, Flights, Paints, [Next]_vars PROVE Paints'
  OBVIOUS
<1> DEFINE Rest == /\ stream.text = stream.count
                   /\ stream.pc = "queuing" => stream.queued
                   /\ ~stream.queued => painted = stream.text
                   /\ ~streamCancel => ~stream.queued
<1>1. Rest
  BY DEF Paints
<1>2. CASE StreamStep
  <2>1. ASSUME StartStream PROVE Rest'
    BY <2>1 DEF StartStream, NoStream, Streams
  <2>2. ASSUME StopStream PROVE Rest'
    BY <1>1, <2>2 DEF StopStream, Types, Streams
  <2>3. ASSUME Event PROVE Rest'
    <3>1. stream.pc = "reading" /\ streamCancel
      BY <2>3, Counts DEF Event, Flights, Works, Types, TypeMarks, Kinds
    <3> QED BY <1>1, <2>3, <3>1 DEF Event, Types, Streams
  <2>4. ASSUME QueueRepaint PROVE Rest'
    BY <1>1, <2>4 DEF QueueRepaint, Types, Streams
  <2>5. ASSUME StreamEnds PROVE Rest'
    BY <1>1, <2>5 DEF StreamEnds, Types, Streams
  <2>6. Rest'
    BY <1>2, <2>1, <2>2, <2>3, <2>4, <2>5 DEF StreamStep
  <2> QED BY <2>6, EndedIsLastStep DEF Paints
<1>3. CASE RunClosure
  <2> DEFINE c == Head(ui)
  <2>1. /\ ui # <<>> /\ ui' = Tail(ui) /\ ui \in Seq(Closures) /\ c = ui[1] /\ 1 \in DOMAIN ui
        /\ c.do \in {"deliver", "publish", "report", "repaint", "ended"}
    BY <1>3 DEF RunClosure, Types
  <2>2. CASE c.do \in {"deliver", "publish", "report"}
    <3>1. UNCHANGED <<stream, painted, streamCancel>>
      BY <1>3, <2>2 DEF RunClosure, streamVars
    <3> QED BY <1>1, <3>1, EndedIsLastStep DEF Paints
  <2>3. CASE c.do = "repaint"
    <3>1. Repaint /\ UNCHANGED streamCancel
      BY <1>3, <2>3 DEF RunClosure
    <3>2. stream.pc # "queuing"
      BY <2>1, <2>3, CountPlaces DEF Flights
    <3>3. Rest'
      BY <1>1, <3>1, <3>2 DEF Repaint, Types, Streams
    <3> QED BY <3>3, EndedIsLastStep DEF Paints
  <2>4. CASE c.do = "ended"
    <3>1. UNCHANGED <<stream, painted>>
      BY <1>3, <2>4 DEF RunClosure
    <3>2. stream.pc = "idle"
      <4>1. Count(ui, "ended") \in Nat \ {0}
        BY <2>1, <2>4, CountPlaces, CountIsNat
      <4> QED BY <4>1 DEF Flights, Works
    <3>3. \A j \in DOMAIN ui : ui[j].do # "repaint"
      BY <2>1, <2>4 DEF Paints, EndedIsLast
    <3>4. Count(ui, "repaint") = 0
      BY <2>1, <3>3, CountPlaces
    <3>5. ~stream.queued
      BY <3>2, <3>4 DEF Flights
    <3> QED BY <1>1, <3>1, <3>5, EndedIsLastStep DEF Paints
  <2> QED BY <2>1, <2>2, <2>3, <2>4
<1>4. CASE ~StreamStep /\ ~RunClosure
  <2>1. UNCHANGED <<stream, painted, streamCancel>>
    BY <1>4, StreamUnchanged
  <2> QED BY <1>1, <2>1, EndedIsLastStep DEF Paints
<1> QED BY <1>2, <1>3, <1>4

-----------------------------------------------------------------------------
(* The panel shows the active tab. *)
LEMMA BareGrows == [Next]_vars => bare \subseteq bare'
<1> SUFFICES ASSUME [Next]_vars PROVE bare \subseteq bare'
  OBVIOUS
<1>1. CASE SendStep
  BY <1>1 DEF SendStep, Send, Abort, Script, ScriptStarts, ScriptEnds, ScriptFails, ChainDone,
    ChainFails, LeafPanics, LeafDone
<1>2. CASE TabStep
  BY <1>2, TabFrame
<1>3. CASE StreamStep \/ SocketStep
  BY <1>3, StreamFrame, SocketFrame
<1>4. CASE RunStarts \/ RunWorks
  BY <1>4, RunFrame
<1>5. CASE RunClosure
  BY <1>5, ClosureFrame
<1>6. CASE SendSets \/ ClearHistory \/ UNCHANGED vars
  BY <1>6 DEF SendSets, ClearHistory, vars
<1> QED BY <1>1, <1>2, <1>3, <1>4, <1>5, <1>6, NextIsStep

(* Only the tabs, the stream and the closures touch the panel. *)
LEMMA TabVarsUnchanged ==
    [Next]_vars /\ ~TabStep /\ ~StreamStep /\ ~RunClosure => UNCHANGED <<tabs, active, resp, panel>>
<1> SUFFICES ASSUME [Next]_vars, ~TabStep, ~StreamStep, ~RunClosure
             PROVE  UNCHANGED <<tabs, active, resp, panel>>
  OBVIOUS
<1>1. CASE SendStep
  BY <1>1, SendFrame DEF tabVars
<1>2. CASE SocketStep
  BY <1>2, SocketFrame DEF tabVars
<1>3. CASE RunStarts \/ RunWorks
  BY <1>3, RunFrame DEF tabVars
<1>4. CASE SendSets \/ ClearHistory \/ UNCHANGED vars
  BY <1>4 DEF SendSets, ClearHistory, vars, tabVars
<1> QED BY <1>1, <1>2, <1>3, <1>4, NextIsStep

(* What a tab keeps of a response. *)
Resps == Nat \cup {NoResp}

(* A tab keeps a response or none. *)
LEMMA RespType == Types /\ Answers /\ [Next]_vars => (resp \in [Tabs -> Resps])'
<1> SUFFICES ASSUME Types, Answers, [Next]_vars PROVE (resp \in [Tabs -> Resps])'
  OBVIOUS
<1>1. resp \in [Tabs -> Resps]
  BY DEF Answers, Resps
<1>2. CASE TabStep
  <2>1. ASSUME NEW t \in Tabs, Activate(t) PROVE (resp \in [Tabs -> Resps])'
    BY <1>1, <2>1 DEF Activate
  <2>2. ASSUME NEW t \in Tabs, Open(t) PROVE (resp \in [Tabs -> Resps])'
    BY <1>1, <2>2 DEF Open, Resps
  <2>3. ASSUME NEW victims, Close(victims) PROVE (resp \in [Tabs -> Resps])'
    BY <1>1, <2>3 DEF Close, Resps
  <2> QED BY <1>2, <2>1, <2>2, <2>3 DEF TabStep
<1>3. CASE RunClosure
  <2>1. Head(ui).do = "deliver" => Head(ui).resp \in Nat
    <3>1. Head(ui) \in Closures
      BY <1>3 DEF RunClosure, Types
    <3> QED BY <3>1 DEF Closures
  <2>2. CASE Head(ui).do = "deliver"
    BY <1>1, <1>3, <2>1, <2>2 DEF RunClosure, Delivered, Resps
  <2>3. CASE Head(ui).do # "deliver"
    BY <1>1, <1>3, <2>3 DEF RunClosure, tabVars
  <2> QED BY <2>2, <2>3
<1>4. CASE ~TabStep /\ ~RunClosure
  BY <1>1, <1>4, TabVarsUnchanged, StreamFrame
<1> QED BY <1>2, <1>3, <1>4

(* Answers without a tab are of sends without one. *)
LEMMA AnswersStep == Types /\ Answers /\ [Next]_vars => Answers'
<1> SUFFICES ASSUME Types, Answers, [Next]_vars PROVE Answers'
  OBVIOUS
<1> DEFINE Mine == send.pc # "idle" /\ send.tab = NoTab => send.id \in bare
           Theirs == \A i \in DOMAIN ui : ui[i].do = "deliver" /\ ui[i].tab = NoTab => ui[i].resp \in bare
<1>1. Mine /\ Theirs /\ bare \subseteq bare'
  BY BareGrows DEF Answers
<1>2. Mine'
  <2>1. ASSUME NEW chained \in BOOLEAN, Send(chained) PROVE Mine'
    BY <2>1 DEF Send
  <2>2. ASSUME Abort \/ ScriptStarts \/ ScriptEnds \/ ScriptFails \/ ChainDone PROVE Mine'
    BY <1>1, <2>2 DEF Abort, Script, ScriptStarts, ScriptEnds, ScriptFails, ChainDone, Types, Sends
  <2>3. ASSUME ChainFails \/ LeafPanics \/ LeafDone PROVE Mine'
    BY <2>3 DEF ChainFails, LeafPanics, LeafDone, NoSend
  <2>4. ASSUME ~SendStep PROVE Mine'
    BY <1>1, <2>4, SendUnchanged
  <2> QED BY <2>1, <2>2, <2>3, <2>4 DEF SendStep
<1>3. Theirs'
  <2>1. CASE UNCHANGED ui
    BY <1>1, <2>1
  <2>2. ASSUME ui # <<>>, ui' = Tail(ui) PROVE Theirs'
    <3>1. /\ DOMAIN ui' = 1 .. Len(ui) - 1 /\ DOMAIN ui = 1 .. Len(ui) /\ Len(ui) \in Nat
          /\ \A i \in 1 .. Len(ui) - 1 : ui'[i] = ui[i + 1]
      BY <2>2 DEF Types
    <3>2. \A i \in DOMAIN ui' : i + 1 \in DOMAIN ui /\ ui'[i] = ui[i + 1]
      BY <3>1
    <3> QED BY <1>1, <3>2
  <2>3. ASSUME NEW c \in Closures, Queues(c) PROVE Theirs'
    <3>1. /\ DOMAIN ui' = 1 .. Len(ui) + 1 /\ DOMAIN ui = 1 .. Len(ui) /\ Len(ui) \in Nat
          /\ \A i \in 1 .. Len(ui) : ui'[i] = ui[i]
          /\ ui'[Len(ui) + 1] = c
      BY <2>3 DEF Types, Queues, Do
    <3>2. c.do = "deliver" /\ c.tab = NoTab => c.resp \in bare
      BY <1>1, <2>3 DEF Queues
    <3>3. \A i \in DOMAIN ui' : (i \in DOMAIN ui /\ ui'[i] = ui[i]) \/ ui'[i] = c
      BY <3>1
    <3> QED BY <1>1, <3>2, <3>3
  <2> QED BY QueueStep, <2>1, <2>2, <2>3
<1> QED BY <1>2, <1>3, RespType DEF Answers, Resps

(* The panel keeps showing the active tab. *)
LEMMA PanelStep ==
    Types /\ Answers /\ PanelShowsActiveTab /\ [Next]_vars => PanelShowsActiveTab'
<1> SUFFICES ASSUME Types, Answers, PanelShowsActiveTab, [Next]_vars PROVE PanelShowsActiveTab'
  OBVIOUS
<1>1. /\ NoTab \notin Tabs /\ tabs \subseteq Tabs /\ (active \in tabs \/ (active = NoTab /\ tabs = {}))
      /\ resp \in [Tabs -> Resps]
  BY ExchangeAssumption DEF Types, TypeTabs, Answers, Resps
<1>2. bare \subseteq bare'
  BY BareGrows
<1>3. CASE TabStep
  <2>1. ASSUME NEW t \in Tabs, Activate(t) PROVE PanelShowsActiveTab'
    BY <1>1, <2>1 DEF Activate, PanelShowsActiveTab
  <2>2. ASSUME NEW t \in Tabs, Open(t) PROVE PanelShowsActiveTab'
    BY <1>1, <2>2 DEF Open, PanelShowsActiveTab, Shows
  <2>3. ASSUME NEW victims, Close(victims) PROVE PanelShowsActiveTab'
    <3>1. CASE tabs' = {}
      BY <2>3, <3>1 DEF Close, PanelShowsActiveTab, Shows
    <3>2. CASE tabs' # {} /\ active \in victims
      <4>1. active' \in tabs \ victims /\ panel' = Shows(resp[active'])
        BY <2>3, <3>2 DEF Close
      <4>2. active' # NoTab /\ resp'[active'] = resp[active']
        BY <1>1, <2>3, <4>1 DEF Close
      <4> QED BY <4>1, <4>2 DEF PanelShowsActiveTab
    <3>3. CASE tabs' # {} /\ active \notin victims
      <4>1. UNCHANGED <<active, panel>>
        BY <2>3, <3>3 DEF Close
      <4>2. active # NoTab => resp'[active] = resp[active]
        BY <1>1, <2>3, <3>3 DEF Close
      <4> QED BY <1>2, <4>1, <4>2 DEF PanelShowsActiveTab
    <3> QED BY <3>1, <3>2, <3>3
  <2> QED BY <1>3, <2>1, <2>2, <2>3 DEF TabStep
<1>4. CASE StreamStep
  <2>1. CASE StartStream
    BY <2>1 DEF StartStream, PanelShowsActiveTab
  <2>2. CASE ~StartStream
    <3>1. UNCHANGED <<active, resp, panel>>
      BY <1>4, <2>2 DEF StreamStep, StopStream, Event, QueueRepaint, StreamEnds, tabVars
    <3> QED BY <1>2, <3>1 DEF PanelShowsActiveTab
  <2> QED BY <2>1, <2>2
<1>5. CASE RunClosure
  <2> DEFINE c == Head(ui)
  <2>1. UNCHANGED active
    BY <1>5, ClosureFrame
  <2>2. CASE c.do = "deliver"
    <3>1. Delivered(c)
      BY <1>5, <2>2 DEF RunClosure
    <3>2. c.resp \in Nat /\ c.resp # NoResp /\ (c.tab = NoTab => c.resp \in bare)
      <4>1. c \in Closures /\ 1 \in DOMAIN ui /\ c = ui[1]
        BY <1>5 DEF RunClosure, Types
      <4> QED BY <2>2, <4>1, ExchangeAssumption DEF Closures, Answers
    <3>3. CASE c.tab = NoTab
      <4>1. panel' = [kind |-> "response", of |-> c.resp]
        BY <3>1, <3>2, <3>3 DEF Delivered, Shows
      <4> QED BY <1>2, <3>2, <3>3, <4>1 DEF PanelShowsActiveTab
    <3>4. CASE c.tab = active /\ c.tab # NoTab
      <4>1. panel' = Shows(c.resp) /\ resp'[active] = c.resp
        BY <1>1, <3>1, <3>4 DEF Delivered
      <4> QED BY <2>1, <3>4, <4>1 DEF PanelShowsActiveTab
    <3>5. CASE c.tab \notin {NoTab, active}
      <4>1. UNCHANGED panel /\ (active # NoTab => resp'[active] = resp[active])
        BY <1>1, <3>1, <3>5 DEF Delivered
      <4> QED BY <1>2, <2>1, <4>1 DEF PanelShowsActiveTab
    <3> QED BY <3>3, <3>4, <3>5
  <2>3. CASE c.do = "repaint"
    BY <1>5, <2>3 DEF RunClosure, Repaint, PanelShowsActiveTab
  <2>4. CASE c.do \notin {"deliver", "repaint"}
    <3>1. UNCHANGED <<resp, panel>>
      BY <1>5, <2>4 DEF RunClosure, tabVars
    <3> QED BY <1>2, <2>1, <3>1 DEF PanelShowsActiveTab
  <2> QED BY <2>2, <2>3, <2>4
<1>6. CASE ~TabStep /\ ~StreamStep /\ ~RunClosure
  BY <1>2, <1>6, TabVarsUnchanged DEF PanelShowsActiveTab
<1> QED BY <1>3, <1>4, <1>5, <1>6

-----------------------------------------------------------------------------
(* What the scripts of a run asked for. *)
LEMMA AskedStep == Types /\ Asked /\ [Next]_vars => Asked'
<1> SUFFICES ASSUME Types, Asked, [Next]_vars PROVE Asked'
  OBVIOUS
<1>1. run \in Runs /\ run.skips \in Seq(Results)
  BY DEF Types, Runs
<1>2. CASE StartRun
  <2>1. run' = [pc |-> "next", id |-> starts', left |-> RunLength, pre |-> Unset, skip |-> FALSE,
                stop |-> FALSE, asked |-> FALSE, halted |-> FALSE, skips |-> <<>>]
    BY <1>2 DEF StartRun, NoRun
  <2> QED BY <2>1 DEF Asked
<1>3. CASE RunNext
  <2>1. /\ run'.pc = "chain" /\ ~run'.skip /\ ~run'.halted /\ run'.skips = run.skips /\ ~run.stop
    BY <1>1, <1>3 DEF RunNext, RunStep, Runs
  <2> QED BY <2>1 DEF Asked
<1>4. CASE RunSets
  BY <1>4 DEF RunSets, RunStep, Asked
<1>5. CASE RunSkips
  <2>1. /\ run.pc \in {"chain", "leaf"} /\ run'.pc = run.pc /\ run'.asked = (run.pc = "leaf")
        /\ run'.halted = run.halted /\ run'.stop = run.stop /\ run'.skips = run.skips
    BY <1>1, <1>5 DEF RunSkips, RunStep, Runs
  <2> QED BY <2>1 DEF Asked
<1>6. CASE RunStops
  <2>1. /\ run.pc \in {"chain", "leaf"} /\ run'.pc = run.pc /\ run'.asked = run.asked
        /\ run'.skip = run.skip /\ run'.stop /\ run'.skips = run.skips
    BY <1>1, <1>6 DEF RunStops, RunStep, Runs
  <2> QED BY <2>1 DEF Asked
<1>7. CASE RunChainDone
  <2>1. /\ run.pc = "chain" /\ run'.pc = "leaf" /\ ~run'.skip
        /\ run'.halted = run.halted /\ run'.stop = run.stop /\ run'.skips = run.skips
    BY <1>1, <1>7 DEF RunChainDone, RunStep, Runs
  <2> QED BY <2>1 DEF Asked
<1>8. CASE RunOneDone
  <2> DEFINE r == [skipped |-> run.pc = "leaf" /\ run.skip, asked |-> run.asked,
                   halted |-> run.halted]
             n == Len(run.skips) + 1
  <2>1. /\ run.pc \in {"chain", "leaf"} /\ run'.pc = "next" /\ run'.halted = run.halted
        /\ run'.stop = run.stop /\ run'.skips = Append(run.skips, r)
    BY <1>1, <1>8 DEF RunOneDone, RunStep, Runs
  <2>2. r \in Results
    BY <1>1 DEF Results, Runs
  <2>3. /\ DOMAIN run.skips = 1 .. Len(run.skips) /\ Len(run.skips) \in Nat
        /\ DOMAIN run'.skips = 1 .. n /\ Len(run'.skips) = n
        /\ \A i \in 1 .. Len(run.skips) : run'.skips[i] = run.skips[i]
        /\ run'.skips[n] = r
    BY <1>1, <2>1, <2>2
  <2>4. ASSUME NEW i \in DOMAIN run'.skips
        PROVE  /\ run'.skips[i].skipped => run'.skips[i].asked
               /\ run'.skips[i].halted => run'.stop /\ i = Len(run'.skips)
    <3>1. CASE i = n
      <4>1. /\ r.skipped = (run.pc = "leaf" /\ run.skip) /\ r.asked = run.asked
            /\ r.halted = run.halted
        OBVIOUS
      <4>2. (r.skipped => r.asked) /\ (r.halted => run.stop)
        BY <4>1 DEF Asked
      <4> HIDE DEF r
      <4> QED BY <2>1, <2>3, <3>1, <4>2
    <3>2. CASE i # n
      <4>1. i \in DOMAIN run.skips /\ run'.skips[i] = run.skips[i]
        BY <2>3, <3>2
      <4> QED BY <2>1, <4>1 DEF Asked
    <3> QED BY <3>1, <3>2
  <2> QED BY <2>1, <2>4 DEF Asked
<1>9. CASE RunDone
  <2>1. /\ run.pc = "next" /\ run'.pc = "idle" /\ run'.halted = run.halted
        /\ run'.stop = run.stop /\ run'.skips = run.skips
    BY <1>1, <1>9 DEF RunDone, RunStep, Runs
  <2> QED BY <2>1 DEF Asked
<1>10. CASE ~RunStarts /\ ~RunWorks
  BY <1>10, RunUnchanged DEF Asked
<1> QED BY <1>2, <1>3, <1>4, <1>5, <1>6, <1>7, <1>8, <1>9, <1>10 DEF RunStarts, RunWorks

-----------------------------------------------------------------------------
(* What the roll-backs restore. *)
Roll == Ids /\ Restores

(* The steps of a send keep what roll-backs rely on ... *)
LEMMA RollSend == Types /\ Roll /\ SendStep => Roll'
<1> SUFFICES ASSUME Types, Roll, SendStep PROVE Roll'
  OBVIOUS
<1>1. UNCHANGED run
  BY SendFrame DEF runVars
<1>2. /\ starts \in Nat /\ send.id \in Nat /\ run.id \in Nat /\ send.pre \in Setters
      /\ run.pre \in Setters /\ overlay \in Setters
  BY DEF Types, Sends, Runs
<1>3. \A v \in Setters : v # Unset => v.id \in Nat
  BY DEF Setters
<1>4. ASSUME NEW chained \in BOOLEAN, Send(chained) PROVE Roll'
  <2>1. /\ send'.pc # "idle" /\ send'.id = starts + 1 /\ send'.pre = overlay /\ starts' = starts + 1
        /\ UNCHANGED <<overlay, failed>> /\ mixed \subseteq mixed'
        /\ run.pc # "idle" => {starts + 1, run.id} \subseteq mixed'
    BY <1>4 DEF Send, Start
  <2>2. Ids'
    BY <1>1, <1>2, <1>3, <2>1 DEF Roll, Ids
  <2>3. Kept(overlay)'
    BY <1>1, <2>1 DEF Roll, Restores, Kept
  <2>4. overlay # Unset => overlay.id < starts + 1
    BY <1>2, <1>3 DEF Roll, Ids
  <2>5. run.pc \in {"chain", "leaf"} =>
            /\ Kept(run.pre)'
            /\ run.pre # Unset => run.pre.id <= starts /\ run.pre.id \in Nat
    BY <1>1, <1>2, <1>3, <2>1 DEF Roll, Restores, Kept
  <2>6. Restores'
    BY <1>1, <1>2, <2>1, <2>3, <2>4, <2>5 DEF Roll, Restores, Kept
  <2> QED BY <2>2, <2>6 DEF Roll
<1>5. CASE Abort \/ ScriptStarts \/ ScriptEnds \/ ScriptFails \/ ChainDone
  <2>1. UNCHANGED <<overlay, failed, mixed, starts>>
    BY <1>5 DEF Abort, Script, ScriptStarts, ScriptEnds, ScriptFails, ChainDone
  <2>2. send.pc # "idle" /\ send'.pc # "idle" /\ send'.id = send.id /\ send'.pre = send.pre
    BY <1>5 DEF Abort, Script, ScriptStarts, ScriptEnds, ScriptFails, ChainDone, Types, Sends
  <2> QED BY <1>1, <2>1, <2>2 DEF Roll, Ids, Restores, Kept
<1>6. CASE ChainFails
  <2>1. /\ send.pc # "idle" /\ send'.pc = "idle" /\ overlay' = send.pre
        /\ failed' = failed \cup {send.id} /\ UNCHANGED <<mixed, starts>>
    BY <1>6 DEF ChainFails, NoSend
  <2>2. Kept(overlay)'
    BY <1>1, <1>2, <1>3, <2>1 DEF Roll, Ids, Restores, Kept
  <2>3. Ids'
    BY <1>1, <1>2, <1>3, <2>1 DEF Roll, Ids, Restores
  <2>4. run.pc \in {"chain", "leaf"} => Kept(run.pre)'
    BY <1>1, <2>1 DEF Roll, Restores, Kept
  <2>5. Restores'
    BY <1>1, <2>1, <2>2, <2>4 DEF Roll, Restores, Kept
  <2> QED BY <2>3, <2>5 DEF Roll
<1>7. CASE LeafPanics \/ LeafDone
  <2>1. /\ send.pc # "idle" /\ send'.pc = "idle" /\ overlay' \in {send.pre, overlay}
        /\ UNCHANGED <<failed, mixed, starts>>
    BY <1>7 DEF LeafPanics, LeafDone, NoSend
  <2>2. overlay' = send.pre => Kept(overlay)' /\ (overlay' # Unset => overlay'.id <= starts)
    BY <1>2, <1>3, <2>1 DEF Roll, Ids, Restores, Kept
  <2> QED BY <1>1, <2>1, <2>2 DEF Roll, Ids, Restores, Kept
<1> QED BY <1>4, <1>5, <1>6, <1>7 DEF SendStep

(* ... and so do those of a run ... *)
LEMMA RollRun == Types /\ Flights /\ Roll /\ (RunStarts \/ RunWorks) => Roll'
<1> SUFFICES ASSUME Types, Flights, Roll, RunStarts \/ RunWorks PROVE Roll'
  OBVIOUS
<1>1. UNCHANGED <<send, failed>>
  BY RunFrame DEF sendVars
<1>2. /\ starts \in Nat /\ send.id \in Nat /\ run.id \in Nat /\ send.pre \in Setters
      /\ run.pre \in Setters /\ overlay \in Setters
  BY DEF Types, Sends, Runs
<1>3. \A v \in Setters : v # Unset => v.id \in Nat
  BY DEF Setters
<1>4. CASE StartRun
  <2>1. run.pc = "idle"
    BY <1>4, Counts DEF StartRun, Flights, Works, Kinds
  <2>2. /\ run'.pc = "next" /\ run'.id = starts + 1 /\ starts' = starts + 1 /\ UNCHANGED overlay
        /\ mixed \subseteq mixed'
        /\ send.pc # "idle" => {starts + 1, send.id} \subseteq mixed'
    BY <1>4 DEF StartRun, NoRun, Start
  <2>3. Ids'
    BY <1>1, <1>2, <1>3, <2>2 DEF Roll, Ids
  <2>4. Restores'
    BY <1>1, <2>1, <2>2 DEF Roll, Restores, Kept
  <2> QED BY <2>3, <2>4 DEF Roll
<1>5. CASE RunNext
  <2>1. /\ run.pc = "next" /\ run'.pc = "chain" /\ run'.id = run.id /\ run'.pre = overlay
        /\ UNCHANGED <<overlay, starts, mixed>>
    BY <1>5 DEF RunNext, RunStep, Types, Runs
  <2>2. Ids'
    BY <1>1, <2>1 DEF Roll, Ids
  <2>3. Kept(overlay)'
    BY <1>1, <2>1 DEF Roll, Restores, Kept
  <2>4. Restores'
    BY <1>1, <2>1, <2>3 DEF Roll, Ids, Restores, Kept
  <2> QED BY <2>2, <2>4 DEF Roll
<1>6. CASE RunSets
  <2>1. /\ run.pc \in {"chain", "leaf"} /\ overlay' = [by |-> "run", id |-> run.id]
        /\ UNCHANGED <<run, starts, mixed>>
    BY <1>6 DEF RunSets, RunStep
  <2> QED BY <1>1, <2>1 DEF Roll, Ids, Restores, Kept
<1>7. CASE RunSkips \/ RunStops \/ RunChainDone
  <2>1. UNCHANGED <<overlay, starts, mixed>>
    BY <1>7 DEF RunSkips, RunStops, RunChainDone, RunStep
  <2>2. /\ run.pc \in {"chain", "leaf"} /\ run'.pc \in {"chain", "leaf"} /\ run'.id = run.id
        /\ run'.pre = run.pre
    BY <1>7 DEF RunSkips, RunStops, RunChainDone, RunStep, Types, Runs
  <2> QED BY <1>1, <2>1, <2>2 DEF Roll, Ids, Restores, Kept
<1>8. CASE RunOneDone
  <2>1. /\ run.pc \in {"chain", "leaf"} /\ run'.pc = "next" /\ run'.id = run.id
        /\ overlay' = run.pre /\ UNCHANGED <<starts, mixed>>
    BY <1>8 DEF RunOneDone, RunStep, Types, Runs
  <2>2. Kept(overlay)' /\ (overlay' # Unset => overlay'.id <= starts)
    BY <1>1, <2>1 DEF Roll, Restores, Kept
  <2> QED BY <1>1, <2>1, <2>2 DEF Roll, Ids, Restores, Kept
<1>9. CASE RunDone
  <2>1. run.pc = "next" /\ run'.pc = "idle" /\ UNCHANGED <<overlay, starts, mixed>>
    BY <1>9 DEF RunDone, RunStep, Types, Runs
  <2> QED BY <1>1, <2>1 DEF Roll, Ids, Restores, Kept
<1> QED BY <1>4, <1>5, <1>6, <1>7, <1>8, <1>9 DEF RunStarts, RunWorks

(* ... and all others. *)
LEMMA RollStep == Types /\ Flights /\ Roll /\ [Next]_vars => Roll'
<1> SUFFICES ASSUME Types, Flights, Roll, [Next]_vars PROVE Roll'
  OBVIOUS
<1>1. CASE SendSets
  <2>1. /\ send.pc # "idle" /\ overlay' = [by |-> send.pc, id |-> send.id]
        /\ send.pc \in {"idle", "chain", "leaf"}
        /\ UNCHANGED <<send, run, failed, mixed, starts>>
    BY <1>1 DEF SendSets, sendVars, runVars, Types, Sends
  <2> QED BY <2>1 DEF Roll, Ids, Restores, Kept
<1>2. CASE TabStep \/ ClearHistory \/ StreamStep \/ SocketStep \/ RunClosure \/ UNCHANGED vars
  <2>1. UNCHANGED <<send, run, overlay, failed, mixed>>
    <3>1. CASE TabStep
      BY <3>1, TabFrame DEF sendVars, runVars
    <3>2. CASE StreamStep \/ SocketStep
      BY <3>2, StreamFrame, SocketFrame DEF sendVars, runVars
    <3>3. CASE RunClosure
      BY <3>3, ClosureFrame
    <3>4. CASE ClearHistory \/ UNCHANGED vars
      BY <3>4 DEF ClearHistory, vars, sendVars, runVars
    <3> QED BY <1>2, <3>1, <3>2, <3>3, <3>4
  <2>2. starts \in Nat /\ starts' \in {starts, starts + 1}
    BY StartsGrow DEF Types
  <2>3. Ids'
    <3>1. /\ send.id \in Nat /\ run.id \in Nat /\ (overlay # Unset => overlay.id \in Nat)
      BY DEF Types, Sends, Runs, Setters
    <3> QED BY <2>1, <2>2, <3>1 DEF Roll, Ids
  <2>4. run.pre # Unset => run.pre.id \in Nat
    BY DEF Types, Runs, Setters
  <2>5. Restores'
    BY <2>1, <2>2, <2>4 DEF Roll, Restores, Kept
  <2> QED BY <2>3, <2>5 DEF Roll
<1> QED BY <1>1, <1>2, RollSend, RollRun, NextIsStep

-----------------------------------------------------------------------------
(* The invariant holds in every state that can be reached: its parts need  *)
(* each other, as the order of the queue needs the balance of the workers.  *)
THEOREM Invariance == Spec => []ExchangeInv
<1>1. Init => ExchangeInv
  <2> SUFFICES ASSUME Init PROVE ExchangeInv
    OBVIOUS
  <2>1. Types
    BY InitTypes
  <2>2. \A what : Count(ui, what) = 0
    <3>1. ui = <<>> /\ ui \in Seq(Closures) /\ DOMAIN ui = {}
      BY DEF Init
    <3> QED BY <3>1, CountPlaces
  <2>3. Flights
    BY <2>2 DEF Init, Flights, Works, NoSend, NoStream, NoRun
  <2>4. Newest
    BY ExchangeAssumption DEF Init, Newest, NoSend
  <2>5. Paints
    BY DEF Init, Paints, EndedIsLast, NoStream
  <2>6. Answers
    BY DEF Init, Answers, NoSend
  <2>7. Asked
    BY DEF Init, Asked, NoRun
  <2>8. Roll
    BY DEF Init, Roll, Ids, Restores, NoSend, NoRun
  <2>9. PanelShowsActiveTab
    BY DEF Init, PanelShowsActiveTab, Shows
  <2> QED BY <2>1, <2>3, <2>4, <2>5, <2>6, <2>7, <2>8, <2>9 DEF ExchangeInv, Roll
<1>2. ExchangeInv /\ [Next]_vars => ExchangeInv'
  BY TypesStep, FlightsStep, NewestStep, PaintsStep, AnswersStep, AskedStep, RollStep, PanelStep
  DEF ExchangeInv, Roll
<1> QED BY <1>1, <1>2, PTL DEF Spec

(* A button is busy as long as there is a worker, or one closure that       *)
(* resets it; a send and a stream are never both in flight; the history     *)
(* keeps the newest sends in order (resetSendButton, Record).               *)
THEOREM TypeCorrect == Spec => []TypeOK
<1>1. ExchangeInv => TypeOK
  <2>1. \A what : Queued(what) = Count(ui, what)
    BY DEF Queued, Count, Places
  <2> QED BY <2>1 DEF ExchangeInv, Types, TypeTabs, Flights, Newest, TypeOK
<1> QED BY <1>1, Invariance, PTL

(* The panel shows the response of the active tab, whatever is switched,    *)
(* opened or closed while a send is at work (deliverResponse, activateTab). *)
THEOREM PanelFollowsTab == Spec => []PanelShowsActiveTab
<1>1. ExchangeInv => PanelShowsActiveTab
  BY DEF ExchangeInv
<1> QED BY <1>1, Invariance, PTL

(* When the button of a stream is back its last event has been painted      *)
(* (streamSend and its coalesced repaint).                                  *)
THEOREM NoEventUnpainted == Spec => []LastEventPainted
<1>1. ExchangeInv => LastEventPainted
  BY DEF ExchangeInv, Paints, LastEventPainted
<1> QED BY <1>1, Invariance, PTL

(* What the steps of a failed chain, or a run, have set is seen by no later *)
(* send, but for a run and a send at work together (RestoreOverlay).        *)
THEOREM RollsBack == Spec => []NothingLeftBehind
<1>1. ExchangeInv => NothingLeftBehind
  BY DEF ExchangeInv, Restores, NothingLeftBehind
<1> QED BY <1>1, Invariance, PTL

(* A result of a run is a skip only when its own request asked, and nothing *)
(* runs after a stop (runOne, RunScope).                                    *)
THEOREM ObeysScripts == Spec => []RunObeysScripts
<1>1. ExchangeInv => RunObeysScripts
  BY DEF ExchangeInv, Asked, RunObeysScripts
<1> QED BY <1>1, Invariance, PTL
=============================================================================
