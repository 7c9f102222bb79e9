------------------------------ MODULE Exchange ------------------------------
(***************************************************************************)
(* What runs while the user goes on working (internal/ui: send.go,         *)
(* stream.go, websocket.go, runcollection.go; internal/runner): a send     *)
(* with its chain, an event stream, a WebSocket and a run of a collection, *)
(* each on a goroutine of its own.                                         *)
(*                                                                         *)
(* The widgets belong to the UI goroutine, which takes one thing at a      *)
(* time: an act of the user, or the first of the closures the workers have *)
(* queued with fyne.Do, which are taken in their order.  The workers share *)
(* the session's overlay of variables set by scripts, under its lock.      *)
(*                                                                         *)
(* Data: a response is the number of the send it answers.  The overlay     *)
(* holds one variable, and its value is who set it last.  Positions of     *)
(* tabs are in Workbench.tla; a tab here is an object, and one that is     *)
(* closed is not opened again.  The dialog that asks for the values of     *)
(* prompt variables before a send, and status lines, are left out.         *)
(***************************************************************************)
EXTENDS Naturals, Sequences, SequencesExt, FiniteSets

CONSTANTS
    Tabs, NoTab,    \* tabs that can be open; no tab
    NoResp,         \* no response
    Unset,          \* the variable is not set
    MaxStarts,      \* BOUND: sends, streams, runs and sockets started
    MaxEvents,      \* BOUND: events of a stream
    RunLength,      \* requests a run sends
    MaxHistory      \* entries the history keeps

ASSUME ExchangeAssumption ==
    /\ NoTab \notin Tabs /\ NoResp \notin Nat
    /\ MaxStarts \in Nat /\ MaxEvents \in Nat /\ RunLength \in Nat /\ MaxHistory \in Nat

VARIABLES
    tabs,       \* the open tabs
    active,     \* the active one, or NoTab
    resp,       \* the response each tab keeps
    panel,      \* what the response panel shows
    ui,         \* the closures queued for the UI goroutine
    sendCancel, \* m.sendCancel # nil
    send,       \* the worker of the send
    streamCancel, \* m.streamCancel # nil
    stream,     \* the worker of the stream and what it shares with repaint
    painted,    \* history: events of the stream on the last repaint
    socket,     \* a WebSocket: its dialog, its worker and its connection
    running,    \* m.runningCollection
    run,        \* the worker of the run
    overlay,    \* the session's overlay
    history,    \* the history of sends
    starts,     \* number of the last send, stream, run or socket
    failed,     \* history: sends whose chain failed
    mixed,      \* history: sends and runs that were at work together
    bare        \* history: sends made without a tab

tabVars == <<tabs, active, resp, panel>>
sendVars == <<sendCancel, send, history>>
streamVars == <<streamCancel, stream, painted>>
runVars == <<running, run>>
vars == <<tabVars, ui, sendVars, streamVars, socket, runVars, overlay, starts,
          failed, mixed, bare>>

Blank == [kind |-> "blank", of |-> 0]
Shows(r) == IF r = NoResp THEN Blank ELSE [kind |-> "response", of |-> r]

NoSend == [pc |-> "idle", id |-> 0, tab |-> NoTab, pre |-> Unset, aborted |-> FALSE,
           script |-> "due"]
NoStream == [pc |-> "idle", count |-> 0, text |-> 0, queued |-> FALSE, stopped |-> FALSE]
NoSocket == [pc |-> "idle", dialog |-> "none", conn |-> FALSE, open |-> FALSE]
NoRun == [pc |-> "idle", id |-> 0, left |-> 0, pre |-> Unset, skip |-> FALSE, stop |-> FALSE,
          asked |-> FALSE, halted |-> FALSE, skips |-> <<>>]

Init ==
    /\ tabs = {} /\ active = NoTab /\ resp = [t \in Tabs |-> NoResp] /\ panel = Blank
    /\ ui = <<>>
    /\ sendCancel = FALSE /\ send = NoSend /\ history = <<>>
    /\ streamCancel = FALSE /\ stream = NoStream /\ painted = 0
    /\ socket = NoSocket
    /\ running = FALSE /\ run = NoRun
    /\ overlay = Unset
    /\ starts = 0 /\ failed = {} /\ mixed = {} /\ bare = {}

Do(closure) == ui' = Append(ui, closure)
Start == starts < MaxStarts /\ starts' = starts + 1

-----------------------------------------------------------------------------
(* Tabs. *)

(* A tab object no worker and no closure has hold of. *)
Unused(t) ==
    /\ t \notin tabs
    /\ send.pc # "idle" => send.tab # t
    /\ \A i \in DOMAIN ui : ui[i].do = "deliver" => ui[i].tab # t

(* activateTab: the tab's response takes the panel. *)
Activate(t) ==
    /\ t \in tabs \ {active}
    /\ active' = t /\ panel' = Shows(resp[t])
    /\ UNCHANGED <<tabs, resp>>

(* openOrActivate, newScratchTab or openScratchWith *)
Open(t) ==
    /\ Unused(t)
    /\ tabs' = tabs \cup {t} /\ active' = t
    /\ resp' = [resp EXCEPT ![t] = NoResp] /\ panel' = Blank

(* closeTab; one tab or all (closeAllTabs). *)
Close(victims) ==
    /\ victims # {} /\ victims \subseteq tabs
    /\ tabs' = tabs \ victims
    /\ resp' = [t \in Tabs |-> IF t \in victims THEN NoResp ELSE resp[t]]
    /\ IF tabs' = {} THEN active' = NoTab /\ panel' = Blank
       ELSE IF active \in victims THEN
           /\ active' \in tabs' /\ panel' = Shows(resp[active'])
       ELSE UNCHANGED <<active, panel>>

TabStep ==
    /\ \/ \E t \in Tabs : Activate(t) \/ Open(t) \/ Close({t})
       \/ Close(tabs)
    /\ UNCHANGED <<ui, sendVars, streamVars, socket, runVars, overlay, starts,
                   failed, mixed, bare>>

-----------------------------------------------------------------------------
(* A send. *)

(* Faulty: a stream does not hold a send up. *)
SendFaulty(chained) ==
    /\ ~sendCancel /\ Start
    /\ sendCancel' = TRUE
    /\ send' = [pc |-> IF chained THEN "chain" ELSE "leaf", id |-> starts', tab |-> active,
                pre |-> overlay, aborted |-> FALSE, script |-> "due"]
    /\ mixed' = IF run.pc # "idle" THEN mixed \cup {starts', run.id} ELSE mixed
    /\ bare' = IF active = NoTab THEN bare \cup {starts'} ELSE bare
    /\ UNCHANGED <<tabVars, ui, streamVars, socket, runVars, overlay, history, failed>>

Send(chained) ==
    /\ ~sendCancel /\ ~streamCancel /\ Start
    /\ sendCancel' = TRUE
    /\ send' = [pc |-> IF chained THEN "chain" ELSE "leaf", id |-> starts', tab |-> active,
                pre |-> overlay, aborted |-> FALSE, script |-> "due"]
    /\ mixed' = IF run.pc # "idle" THEN mixed \cup {starts', run.id} ELSE mixed
    /\ bare' = IF active = NoTab THEN bare \cup {starts'} ELSE bare
    /\ UNCHANGED <<tabVars, ui, streamVars, socket, runVars, overlay, history, failed>>

(* sendOrAbort, with a send in flight *)
Abort ==
    /\ sendCancel /\ send.pc # "idle" /\ ~send.aborted
    /\ send' = [send EXCEPT !.aborted = TRUE]
    /\ UNCHANGED <<tabVars, ui, sendCancel, history, streamVars, socket, runVars, overlay,
                   starts, failed, mixed, bare>>

(* The script of a request is due, runs on a goroutine of its own, and is   *)
(* done or failed.  (One for the whole chain, and one for the request.)     *)
Script(from, to) ==
    /\ send.pc # "idle" /\ send.script = from
    /\ send' = [send EXCEPT !.script = to]
    /\ UNCHANGED <<tabVars, ui, sendCancel, history, streamVars, socket, runVars, overlay,
                   starts, failed, mixed, bare>>
ScriptStarts == Script("due", "runs")
ScriptEnds == Script("runs", "done")

(* It throws, or runGuarded gives it up: after ScriptTimeout or an abort it *)
(* is interrupted, and when it does not heed that it is left to itself.     *)
ScriptFails == Script("runs", "failed")

(* helena.env.set, in a script of a chain step or of the request itself *)
SendSets ==
    /\ send.pc # "idle" /\ send.script = "runs"
    /\ overlay' = [by |-> send.pc, id |-> send.id]
    /\ UNCHANGED <<tabVars, ui, sendVars, streamVars, socket, runVars, starts, failed,
                   mixed, bare>>

ChainDone ==
    /\ send.pc = "chain" /\ send.script \in {"due", "done"}
    /\ send' = [send EXCEPT !.pc = "leaf", !.script = "due"]
    /\ UNCHANGED <<tabVars, ui, sendCancel, history, streamVars, socket, runVars, overlay,
                   starts, failed, mixed, bare>>

Deliver == Do([do |-> "deliver", tab |-> send.tab, resp |-> send.id])

(* Faulty: what the chain's scripts have set stays. *)
ChainFailsFaulty ==
    /\ send.pc = "chain" /\ send.script # "runs"
    /\ failed' = failed \cup {send.id}
    /\ send' = NoSend /\ Deliver
    /\ UNCHANGED <<tabVars, overlay, sendCancel, history, streamVars, socket, runVars, starts,
                   mixed, bare>>

(* A step fails, the user aborts, or the chain panics. *)
ChainFails ==
    /\ send.pc = "chain" /\ send.script # "runs"
    /\ overlay' = send.pre /\ failed' = failed \cup {send.id}
    /\ send' = NoSend /\ Deliver
    /\ UNCHANGED <<tabVars, sendCancel, history, streamVars, socket, runVars, starts,
                   mixed, bare>>

(* A panic after the chain; the send is not recorded. *)
LeafPanics ==
    /\ send.pc = "leaf" /\ send.script # "runs"
    /\ overlay' = send.pre
    /\ send' = NoSend /\ Deliver
    /\ UNCHANGED <<tabVars, sendCancel, history, streamVars, socket, runVars, starts,
                   failed, mixed, bare>>

(* Record, and its ring *)
Recorded(h, id) ==
    LET all == Append(h, id) IN
        IF Len(all) > MaxHistory THEN SubSeq(all, Len(all) - MaxHistory + 1, Len(all)) ELSE all

(* The request was sent, or failed, or was aborted; nothing is rolled back. *)
LeafDone ==
    /\ send.pc = "leaf" /\ send.script # "runs"
    /\ history' = IF send.aborted THEN history ELSE Recorded(history, send.id)
    /\ send' = NoSend /\ Deliver
    /\ UNCHANGED <<tabVars, sendCancel, streamVars, socket, runVars, overlay, starts,
                   failed, mixed, bare>>

ClearHistory ==
    /\ history # <<>> /\ history' = <<>>
    /\ UNCHANGED <<tabVars, ui, sendCancel, send, streamVars, socket, runVars, overlay, starts,
                   failed, mixed, bare>>

(* Faulty: the panel is painted whichever tab is active. *)
DeliveredFaulty(c) ==
    /\ sendCancel' = FALSE
    /\ resp' = IF c.tab \in tabs THEN [resp EXCEPT ![c.tab] = c.resp] ELSE resp
    /\ panel' = Shows(c.resp)

(* resetSendButton and deliverResponse *)
Delivered(c) ==
    /\ sendCancel' = FALSE
    /\ resp' = IF c.tab \in tabs THEN [resp EXCEPT ![c.tab] = c.resp] ELSE resp
    /\ panel' = IF c.tab \in {NoTab, active} THEN Shows(c.resp) ELSE panel

-----------------------------------------------------------------------------
(* An event stream. *)
StartStream ==
    /\ ~sendCancel /\ ~streamCancel /\ Start
    /\ streamCancel' = TRUE /\ painted' = 0
    /\ stream' = [NoStream EXCEPT !.pc = "reading"]
    /\ panel' = [kind |-> "stream", of |-> 0]
    /\ UNCHANGED <<tabs, active, resp, ui, sendVars, socket, runVars, overlay,
                   failed, mixed, bare>>

(* streamOrStop, with a stream open *)
StopStream ==
    /\ streamCancel /\ stream.pc # "idle" /\ ~stream.stopped
    /\ stream' = [stream EXCEPT !.stopped = TRUE]
    /\ UNCHANGED <<tabVars, ui, sendVars, streamCancel, painted, socket, runVars, overlay,
                   starts, failed, mixed, bare>>

(* Faulty: the text is handed over only with a new repaint. *)
EventFaulty ==
    /\ stream.pc = "reading" /\ stream.count < MaxEvents
    /\ stream' = [stream EXCEPT !.count = @ + 1,
                    !.text = IF stream.queued THEN @ ELSE stream.count + 1, !.queued = TRUE,
                    !.pc = IF stream.queued THEN "reading" ELSE "queuing"]
    /\ UNCHANGED <<tabVars, ui, sendVars, streamCancel, painted, socket, runVars, overlay,
                   starts, failed, mixed, bare>>

(* An event, up to the release of repaintMu. *)
Event ==
    /\ stream.pc = "reading" /\ stream.count < MaxEvents
    /\ stream' = [stream EXCEPT !.count = @ + 1, !.text = stream.count + 1, !.queued = TRUE,
                    !.pc = IF stream.queued THEN "reading" ELSE "queuing"]
    /\ UNCHANGED <<tabVars, ui, sendVars, streamCancel, painted, socket, runVars, overlay,
                   starts, failed, mixed, bare>>

QueueRepaint ==
    /\ stream.pc = "queuing"
    /\ stream' = [stream EXCEPT !.pc = "reading"] /\ Do([do |-> "repaint"])
    /\ UNCHANGED <<tabVars, sendVars, streamCancel, painted, socket, runVars, overlay,
                   starts, failed, mixed, bare>>

(* The server ends the stream, it breaks, or the user has stopped it. *)
StreamEnds ==
    /\ stream.pc = "reading"
    /\ stream' = [stream EXCEPT !.pc = "idle"] /\ Do([do |-> "ended"])
    /\ UNCHANGED <<tabVars, sendVars, streamCancel, painted, socket, runVars, overlay,
                   starts, failed, mixed, bare>>

Repaint ==
    /\ stream' = [stream EXCEPT !.queued = FALSE]
    /\ painted' = stream.text /\ panel' = [kind |-> "stream", of |-> stream.text]

-----------------------------------------------------------------------------
(* A WebSocket.  It has one dialog, and one connection. *)
OpenSocket ==
    /\ ~sendCancel /\ ~streamCancel /\ socket.dialog = "none" /\ Start
    /\ socket' = [NoSocket EXCEPT !.pc = "dialing", !.dialog = "open"]
    /\ UNCHANGED <<tabVars, ui, sendVars, streamVars, runVars, overlay, failed, mixed, bare>>

(* Dial returns a connection; a cancel it has missed may have closed it. *)
DialOk ==
    /\ socket.pc = "dialing"
    /\ \E open \in {TRUE, socket.dialog = "open"} :
        socket' = [socket EXCEPT !.pc = "publishing", !.open = open]
    /\ Do([do |-> "publish"])
    /\ UNCHANGED <<tabVars, sendVars, streamVars, runVars, overlay, starts, failed, mixed, bare>>

(* Dial fails, or is aborted: it closes what it has opened. *)
DialFails ==
    /\ socket.pc = "dialing"
    /\ socket' = [socket EXCEPT !.pc = "done"]
    /\ UNCHANGED <<tabVars, ui, sendVars, streamVars, runVars, overlay, starts, failed,
                   mixed, bare>>

(* Faulty: a dialog closed in the meantime is not looked at. *)
PublishFaulty == socket' = [socket EXCEPT !.conn = TRUE, !.pc = "reading"]

(* The closure DialOk waits for. *)
Publish ==
    socket' = IF socket.dialog = "closed" THEN [socket EXCEPT !.pc = "closing"]
              ELSE [socket EXCEPT !.conn = TRUE, !.pc = "reading"]

(* The worker closes a connection that nobody else has. *)
CloseUnpublished ==
    /\ socket.pc = "closing"
    /\ socket' = [socket EXCEPT !.pc = "done", !.open = FALSE]
    /\ UNCHANGED <<tabVars, ui, sendVars, streamVars, runVars, overlay, starts, failed,
                   mixed, bare>>

(* ReadMessage fails: the server has closed, or the dialog has.  The worker *)
(* leaves the connection to the dialog.                                     *)
ReadFails ==
    /\ socket.pc = "reading"
    /\ socket' = [socket EXCEPT !.pc = "done"]
    /\ UNCHANGED <<tabVars, ui, sendVars, streamVars, runVars, overlay, starts, failed,
                   mixed, bare>>

(* OnClosed *)
CloseDialog ==
    /\ socket.dialog = "open"
    /\ socket' = [socket EXCEPT !.dialog = "closed",
                    !.open = IF socket.conn THEN FALSE ELSE @]
    /\ UNCHANGED <<tabVars, ui, sendVars, streamVars, runVars, overlay, starts, failed,
                   mixed, bare>>

-----------------------------------------------------------------------------
(* A run of a collection: RunScope, with one runOne after the other. *)
StartRun ==
    /\ ~running /\ Start
    /\ running' = TRUE
    /\ run' = [NoRun EXCEPT !.pc = "next", !.id = starts', !.left = RunLength]
    /\ mixed' = IF send.pc # "idle" THEN mixed \cup {starts', send.id} ELSE mixed
    /\ UNCHANGED <<tabVars, ui, sendVars, streamVars, socket, overlay, failed, bare>>

RunStep(r) ==
    /\ run' = r
    /\ UNCHANGED <<tabVars, sendVars, streamVars, socket, running, starts, failed, mixed, bare>>

RunNext ==
    /\ run.pc = "next" /\ run.left > 0 /\ ~run.stop
    /\ RunStep([run EXCEPT !.pc = "chain", !.pre = overlay, !.skip = FALSE,
                           !.asked = FALSE, !.halted = FALSE])
    /\ UNCHANGED <<ui, overlay>>

RunSets ==
    /\ run.pc \in {"chain", "leaf"}
    /\ overlay' = [by |-> "run", id |-> run.id]
    /\ RunStep(run) /\ UNCHANGED ui

(* helena.runner.skip and helena.runner.stop *)
RunSkips ==
    /\ run.pc \in {"chain", "leaf"}
    /\ RunStep([run EXCEPT !.skip = TRUE, !.asked = (run.pc = "leaf")])
    /\ UNCHANGED <<ui, overlay>>
RunStops ==
    /\ run.pc \in {"chain", "leaf"}
    /\ RunStep([run EXCEPT !.stop = TRUE, !.halted = TRUE])
    /\ UNCHANGED <<ui, overlay>>

(* Faulty: the skip of a predecessor is kept. *)
RunChainDoneFaulty ==
    /\ run.pc = "chain"
    /\ RunStep([run EXCEPT !.pc = "leaf"])
    /\ UNCHANGED <<ui, overlay>>

(* The chain is done, or there is none: resetSkip. *)
RunChainDone ==
    /\ run.pc = "chain"
    /\ RunStep([run EXCEPT !.pc = "leaf", !.skip = FALSE])
    /\ UNCHANGED <<ui, overlay>>

(* The end of runOne: the result, and the roll-back it has deferred. *)
RunOneDone ==
    /\ run.pc \in {"chain", "leaf"}
    /\ overlay' = run.pre
    /\ RunStep([run EXCEPT !.pc = "next", !.left = @ - 1,
                  !.skips = Append(@, [skipped |-> run.pc = "leaf" /\ run.skip,
                                       asked |-> run.asked, halted |-> run.halted])])
    /\ UNCHANGED ui

RunDone ==
    /\ run.pc = "next" /\ (run.left = 0 \/ run.stop)
    /\ RunStep([run EXCEPT !.pc = "idle"])
    /\ Do([do |-> "report"])
    /\ UNCHANGED overlay

-----------------------------------------------------------------------------
(* The UI goroutine takes the next closure. *)
RunClosure ==
    /\ ui # <<>> /\ ui' = Tail(ui)
    /\ LET c == Head(ui) IN
        \/ /\ c.do = "deliver" /\ Delivered(c)
           /\ UNCHANGED <<tabs, active, streamVars, socket, running>>
        \/ /\ c.do = "repaint" /\ Repaint
           /\ UNCHANGED <<tabs, active, resp, sendCancel, streamCancel, socket, running>>
        \/ /\ c.do = "ended" /\ streamCancel' = FALSE
           /\ UNCHANGED <<tabVars, sendCancel, stream, painted, socket, running>>
        \/ /\ c.do = "publish" /\ Publish
           /\ UNCHANGED <<tabVars, sendCancel, streamVars, running>>
        \/ /\ c.do = "report" /\ running' = FALSE
           /\ UNCHANGED <<tabVars, sendCancel, streamVars, socket>>
    /\ UNCHANGED <<send, history, run, overlay, starts, failed, mixed, bare>>

Next ==
    \/ TabStep
    \/ \E chained \in BOOLEAN : Send(chained)
    \/ Abort \/ ScriptStarts \/ ScriptEnds \/ ScriptFails \/ SendSets
    \/ ChainDone \/ ChainFails \/ LeafPanics \/ LeafDone \/ ClearHistory
    \/ StartStream \/ StopStream \/ Event \/ QueueRepaint \/ StreamEnds
    \/ OpenSocket \/ DialOk \/ DialFails \/ CloseUnpublished \/ ReadFails \/ CloseDialog
    \/ StartRun \/ RunNext \/ RunSets \/ RunSkips \/ RunStops \/ RunChainDone \/ RunOneDone
    \/ RunDone
    \/ RunClosure

(* The UI goroutine always goes on, and a worker does once its context is   *)
(* cancelled: the request, the read and the dial watch it.  A script need   *)
(* not end, but its guard has a timer.  A server need not answer.           *)
Fairness ==
    /\ WF_vars(RunClosure)
    /\ WF_vars(send.aborted /\ (ChainFails \/ LeafDone))
    /\ WF_vars(ScriptFails)
    /\ WF_vars(QueueRepaint)
    /\ WF_vars(stream.stopped /\ StreamEnds)
    /\ WF_vars(socket.dialog = "closed" /\ (DialOk \/ DialFails))
    /\ WF_vars(~socket.open /\ ReadFails)
    /\ WF_vars(CloseUnpublished)

Spec == Init /\ [][Next]_vars /\ Fairness

-----------------------------------------------------------------------------
(* A button is in its busy state as long as there is a worker, or a closure *)
(* of the worker that resets it, and there is only one of these; a send and *)
(* a stream are never both in flight.  The history keeps the newest sends,  *)
(* in their order.                                                          *)
Queued(what) == Cardinality({i \in DOMAIN ui : ui[i].do = what})
Works(pc) == IF pc = "idle" THEN 0 ELSE 1
TypeOK ==
    /\ active \in tabs \/ (active = NoTab /\ tabs = {})
    /\ Works(send.pc) + Queued("deliver") = IF sendCancel THEN 1 ELSE 0
    /\ Works(stream.pc) + Queued("ended") = IF streamCancel THEN 1 ELSE 0
    /\ Works(run.pc) + Queued("report") = IF running THEN 1 ELSE 0
    /\ ~(sendCancel /\ streamCancel)
    /\ Queued("repaint") = IF stream.queued /\ stream.pc # "queuing" THEN 1 ELSE 0
    /\ Len(history) <= MaxHistory
    /\ \A i \in 2 .. Len(history) : history[i - 1] < history[i]

(* The panel shows the last response of the active tab, or none when it has *)
(* none; but for a stream, and a send without a tab, which take the panel   *)
(* whatever tab is active (deliverResponse and streamSend say so).          *)
PanelShowsActiveTab ==
    \/ panel.kind = "stream"
    \/ panel.kind = "response" /\ panel.of \in bare
    \/ panel = Shows(IF active = NoTab THEN NoResp ELSE resp[active])

(* When the button of a stream is back, its last event has been painted,    *)
(* though there is never more than one repaint in the queue.                *)
LastEventPainted == ~streamCancel => painted = stream.count

(* No later send sees what the steps of a failed chain have set, nor what a *)
(* run has set: unless a run and a send were at work together, where the    *)
(* roll-back of one puts back what it saw of the other.                     *)
NothingLeftBehind ==
    overlay # Unset =>
        /\ overlay.by = "chain" => overlay.id \notin failed \ mixed
        /\ overlay.by = "run" => (run.pc # "idle" /\ run.id = overlay.id) \/ overlay.id \in mixed

(* A result of a run is a skip only when a script of its own request asked  *)
(* for it, not one of its chain; and the request that stops the run is the  *)
(* last one.                                                                *)
RunObeysScripts ==
    \A i \in DOMAIN run.skips :
        /\ run.skips[i].skipped => run.skips[i].asked
        /\ run.skips[i].halted => i = Len(run.skips) /\ run.pc \in {"next", "idle"}

(* What the user stops does end: the button of a send and of a stream comes *)
(* back, and the connection of a closed dialog is closed.                   *)
WhatIsStoppedEnds ==
    /\ (sendCancel /\ send.aborted) ~> ~sendCancel
    /\ (streamCancel /\ stream.stopped) ~> ~streamCancel
    /\ (socket.dialog = "closed") ~> (socket.pc = "done" /\ ~socket.open)
=============================================================================
