# Helena in TLA+

Helena is a desktop API client in Go (Fyne): a user keeps requests in
*collections*, which are directories of YAML files under version control, sends
them by hand, streams from them, runs them from a command line, chains them and
scripts them in JavaScript. This directory holds TLA+ models of the parts whose
order of steps matters, the TLC runs that check them and the proofs that TLAPS
checks. `PROJECT.json` maps every definition to the lines it models.

    tlc -workers 2 -config MCStorage.cfg MCStorage
    tlapm StorageProofs.tla

## Inventory

All paths are under `src/internal/`.

| component | state it keeps | operations | hard behaviour | what makes it correct |
|---|---|---|---|---|
| `storage` | a directory per collection, its two siblings during a save, a file of credentials in the user's config directory | `Save`, `Load` | partial failure, crash between file-system calls, two stores that must agree | the tree is replaced as a whole; what was saved loads again; credentials stay out of the tree |
| `storage` (layout) | files named by slugs, order in `seq`, fields of files the program does not know | `saveItems`, `loadItems`, `sweepDir`, `merge*Extras` | names that collide, files from elsewhere | a load of a save is the collection; what other tools wrote into a file stays with its item |
| `session` | workspaces, loaded collections and their directories, active collection and environment, the undo of a delete, the script overlay | some forty mutators, each ending in `persistCollection` | indices into lists that other operations change, a failed save that reloads everything, a config written before the collection | indices name what they named; memory agrees with disk; an undo goes where the item came from |
| `chain` | stack of the recursion, visiting set, execution count | `Resolve` | cycles through several names of a request, diamonds, caps | executes exactly the predecessors, in order, and stops |
| `ui` send, stream, WebSocket | the request in flight, its cancel function, the overlay to roll back | `send`, `streamSend`, `openWebSocket`, their workers | one worker goroutine against the event loop; cancel against completion; closures queued with `fyne.Do` | one flight at a time; the answer reaches the tab that asked; the buttons come back |
| `ui` tabs and quit guard | open tabs, the editor's pointer into the tree, the text of its body not yet written back, clean snapshots | open, close, move, save, `reconcileTabs`, `ConfirmQuit` | pointers and positions that go stale when the tree changes or reloads | the editor is on the active tab's request; an unsaved edit is never dropped silently |
| `runner` | overlay, skip and stop flags | `RunScope`, `runOne` | flags shared by the chain's steps and the leaf | a result is what happened; nothing leaks to the next request |
| `auth` token cache | tokens by key, a lock per key | `Get`, `Set`, `LockKey`, `Clear*`, the grants | concurrent fetches, expiry, refresh | one fetch per key; a cleared token stays cleared |
| `cookiejar` | cookies by domain, path and name | `SetCookies`, `Cookies`, `Set`, `Replace`, `Remove` | expiry, edits that collide | one cookie per key; a cookie goes only where it may |
| `websocket`, `sse` | connection, write lock, reassembly buffer | `Dial`, `ReadMessage`, `WriteMessage`, `Close` | reader answers pings while the user writes and closes | frames never interleave; the connection is closed once |
| `history` | ring of entries and its file | `Record`, `Entries`, `Clear` | the cap | newest entries, in order |
| `config` | one YAML file | `Load`, `Save`, migrations | crash during a save | the old or the new file |
| `vars`, `pathparam` | none | resolve names in scopes | nesting, cycles, values remembered within one resolution | ends; the innermost scope wins; a preview shows what is sent |
| `scripting` | a JavaScript runtime per script | run, console, `helena.*` | a script that never ends, and its guard | overlay writes are seen by what follows; nobody waits for ever |
| `httpclient` | the hops of one request, the bodies of its answers | `Build`, `Do`, `Stream`, the redirect policy, digest, NTLM | redirects, handshakes that fail half-way | no credential goes where it does not belong; every body is read or closed |
| `auth` signatures, `importer`, `exporter`, `assertion`, `responsefmt`, `updatecheck`, `logging`, `model` | little or none | computations on one request, response or file | | data |
| `cmd`, `features`, `integration`, `packaging` | none of their own | entry points and harnesses | | |

How they interact. The event loop of the UI calls the session; every mutator of
the session changes the collection in memory and calls `storage.Save`
synchronously, and on an error reloads every collection of the workspace. A send
takes a snapshot of the request, the variables and (for a chain) the collection
on the event loop and hands them to one worker goroutine, which runs
`chain.Resolve` and the request itself through `scripting` and `httpclient`, and
posts its results back with `fyne.Do`. Scripts write the session's overlay, which
is locked; the token cache, the cookie jar and the history are locked and shared
by workers and the event loop. `runner` drives the same session without a UI.
No two processes share state: a second copy of the program on one directory is
not handled by the code.

## Modules

| module | models | used with |
|---|---|---|
| `Storage` | one save or load of a collection, call by call | `CollectionStore`, its abstract specification; `StorageProofs` |
| `Chain` | the resolution of request chains | `ChainReference`, what it should answer; `ChainProofs` |
| `Session` | several collections, workspaces, environments, the config, the undo | `SessionProofs` |
| `Tree` | the folders and requests of one collection, and their files | |
| `Workbench` | tabs and editor over the session's tree | `WorkbenchLemmas`, `WorkbenchProofs` |
| `Exchange` | a send, a stream, a WebSocket and a run, against the UI goroutine | `ExchangeProofs` |
| `Scopes` | the scopes of variables a request is built with, and what they fall back on | `Vars` and `Wire` extend it |
| `Vars` | `{{name}}` templates in these scopes | |
| `Wire` | one request on the wire: variables, tokens, cookies, redirects, challenges | `WireProofs`; `Sent`, which puts it together with `Vars` |
| `Lists` | parts of lists, in order | `Session`, `Wire` and `Workbench` extend it; `ListLemmas` |

`MC<module>.tla` and its `.cfg` files are the instances TLC checks. The modules
meet at operations they share, each with its own grain: a save is seven steps in
Storage and one in Session, Tree and Workbench; a failed one is a reload there; a
worker is an atomic outcome in Chain, a few steps in Exchange, and the requests on
the wire in Wire. They are not composed into one state space: what one needs of
another is small (a save succeeds or fails, a tree changes, a script sets a
variable), and is a nondeterministic choice where it is needed.

Open: that no execution of a chain is seen twice (`NoSharedViews`); that the files of
a directory have distinct names in Tree, on which every proof about Tree would rest;
and the frames of a WebSocket.

## Storage

`Storage.tla` is `storage.Save` and `storage.Load` on one collection, one action
per file-system call of `Save` (`pc` is the call that comes next), and the
session around them: `Edit` stands for every mutator, `Persist` for
`persistCollection`, `NewCollection` for the UI's two ways to make a collection,
`ReturnOk` and `ReturnError` for what the callers do with the result, `Open` for
a load. Every call may fail. A `RemoveAll` whose error the code ignores may
remove everything, a part or nothing; one that is cut off may do the same.
`Crash` may come before and in the middle of each call. `saveInPlace` is a single
action: until it ends, the staged tree is `Partial`, and no property tells apart
the ways in which it is partial. In the same way `copyTree` leaves `Partial`.

A collection is a sequence of items with a name and one credential. The position
in it is the key of the credential in the store, as in `eachSecret`.

`CollectionStore.tla` is what a caller may rely on: the tree changes once per
call, in one step, or not at all. `Storage` implements it with the tree *that can
be found again*, at its path or aside, as the abstract tree, so a crash between
the two renames loses nothing that a person could not put back by hand. That
Helena itself does not put it back is a finding below.

| run | shows |
|---|---|
| `storage_save` | `TypeOK`, `FailedSaveKeepsTree`, `OpenCollectionIsOnDisk`, `SavedIsLoaded`, `StaysExternalized`, and the refinement `AtomicTree` |
| `storage_failed_save_credentials` | a counterexample to `FailedSaveKeepsLastGood`: the credentials are written first, so a save that then fails pairs the old tree with the new credentials |
| `storage_dir_missing` | a counterexample to `DirNeverLeftMissing`: a crash between the renames, or a failed roll-back |

Bounds: at most two items, two names, and one credential value next to the blank
one (two in the violation runs). Two items are enough for a credential to move to
another position, to be lost or to be read by the wrong item; one call of Save is
active at a time, and the state it leaves (siblings, a spoiled store) is the
start of the next without a bound on their number. Names and credentials are
symmetric: nothing orders them.

No fairness is assumed: the properties are about safety, and a save that is never
finished is the case of a crash.

## Chain

`Chain.tla` is `chain.Resolve`. The recursion of `resolveSteps` is an explicit
stack; a frame holds the request it is for, the step it is at and the views bound
so far (`out` in the code). `Expand` is a turn of the loop up to the recursive
call, with all of its refusals; `Execute` what follows when the call returns, with
the failure of `ExecuteOnce` for whatever reason (a script, HTTP, an abort);
`RefuseExecution` the cap; `Return` the end. The requests are a snapshot
(`SnapshotChainFinder`), so nothing else moves during a resolution. What the
finder answers is a constant: `ByID` and `ByPath`. The one assumption on them is
that a request found by an id carries it, as `indexRequestsByID` makes it;
that a path may miss, and that two paths may name one request, is allowed (the
code's path lookup trims slashes).

`ChainReference.tla` says what the answer should be without a stack or a visiting
set: `Expandable` and `Predecessors` recurse over the chains. It also holds
`countSteps`, the walk the code makes beforehand for the progress display.

The run `chain_resolve` checks, on every graph of the bounds and every leaf:

- `ViewsAreOwnChain`: a script sees exactly the steps of its own chain, each
  bound to an execution of its target that came before, in order.
- `NeverBeforeItself`: no request is executed as its own predecessor, even when
  the chain comes back to it under a name the visiting set does not hold yet.
- `ResolvesAsReference`: success and the executions agree with the reference
  (`RefusesExactlyBadChains`, `ExecutesInOrder`), no execution is seen twice and
  none is in vain (`NoSharedViews`), and the announced total is what will run
  (`ProgressReachesTotal`).
- `TypeOK`: with it, no more executions than the cap.
- `Terminates`, under weak fairness of the steps of Resolve. The code runs them
  in one goroutine without waiting for anything but `ExecuteOnce`, which the
  timeouts of scripts and of the HTTP client end.

Bounds: three requests, two with ids and one without (two paths name it), an id
and a path that name nothing, chains of at most two steps, `MaxDepth` 3 and
`MaxSteps` 4 for the code's 8 and 32. Three requests make self-cycles, cycles of
two and three, diamonds and nesting to the depth limit; with two steps each, four
executions are exceeded by a fan-out of two levels, so both caps bite and both are
also met exactly.

## Session

`Session.tla` is the session with several collections: the workspaces of the
config and the UI state in it (`cfg`), the loaded collections by position (`dirs`,
`cols`), the active one and the environment of each (`activeCol`, `activeEnv`),
the undo of a delete (`deleted`) and the directories (`disk`, `broken`). An action
is a method of the session as the UI calls it; a method that returns an error
before it changes anything is a guard. `Persist` is `persistCollection`: the save
succeeds, or fails and everything is loaded again, which is where positions shift.
What a save does inside is Storage's business; here one that could not put the
tree back leaves the directory in `broken` until `Mend`. `Restart` is the end of
the program, at any time, and the next start.

`Edit` stands for what the user types into a request, which no method of the
session sees: it changes a collection in memory, and only the next save of that
collection writes it. `home` in `deleted` is the model's: the code remembers only
the position, `colIdx`. Items are those at the root of a collection, and positions
count from 1, with 0 for the code's -1. The ids of items are random in the code, and
the directories are assumed not to hold one twice at first: a directory that was
copied, ids and all, is left out here (Workbench has it).

| run | shows |
|---|---|
| `session` | `IndicesAgree`: positions name what the config names by directory; `EnvChoiceIsUsers`: an environment changes for nobody else; `StructureOnDisk`: a failed save leaves no environment or item in memory only, and no undo leaves an item twice (`NoItemTwice`); `EditsOfOthersKept`: typing into one collection survives operations on others; `TypeOK` |
| `session_undo_elsewhere` | a counterexample to `UndoGoesHome`: open two collections, delete an item of one, move or remove a collection or change the workspace, undo |
| `session_double_open` | a counterexample to `NeverLoadedTwice`: a collection that failed to load is opened again when it loads, and after the next load is there twice |

Bounds: two workspaces, two directories, two collections in a workspace, two
environments, one item (its id is what matters), and a collection's other contents
either as at first or typed into. At most `MaxHeld` (2) of environments, items,
typed texts and directories that do not load at a time: two environments in one
collection, one in each, an environment beside an item, or one of these beside a
directory that does not load. Two collections are enough for a position to shift
under the active one and under its environment, and for one to be missing before
or after the other; two workspaces for a directory to be in both. A workspace that
lists a directory twice, the second finding, is not explored further in `session`:
the two copies make most of the properties meaningless, which say so (`~doubled`,
and `~doubled'` of a step that needs it: when one of two entries is removed, its
choice of an environment is forgotten, though the other entry is still listed).
The order of three or more collections after a move is not covered.

No fairness is assumed; nothing here must happen.

`DeleteWorkspace` shifts the positions of the workspaces after it without
adjusting the active one, so deleting a workspace before the active one makes
another workspace active. The model has the step as the code does it.

## Tree

`Tree.tla` is one collection with its folders: `items.go`, `tree.go`, the finders
of `session.go`, and what `saveItems`, `loadItems` and `sweepDir` make of it on
disk. The code's slices in slices are `kids`, a sequence of folders and one of
requests per container; ids stand for the objects, and a node id of the interface,
`"0/f1/r0"`, is the record of positions it consists of. `ItemAt` and `ContainerAt`
walk from the root as the code does, `Resolve` finds the request a chain step
names. Every operation changes the tree and then saves (`SaveTo`), or the save
fails and the tree is what `Load` reads (`Reload`). `Drag` is a drop with the plan
the interface makes of it (`DropPlan`); `EditChain` a row of the chain tab.

A name is a model value with a slug that is a sequence, so that one name's slug can
be another's with a suffix. `extra` in a file stands for all that the program
carries over without knowing it (the `Extra` fields and the `merge*Extras`).

The run `tree` checks:

- `LoadsAsSaved`: what is in memory is what a load would give, though slugs collide
  with each other and with reserved names and the directory is swept at each save.
- `ExtrasStay`: what other tools wrote into the file of an item stays with it
  whatever is done to its neighbours, while its way, its slug and its place as the
  first of that slug stay. The precondition is the code's: files are matched by
  name, so a sibling with the same slug that is saved earlier takes the file, with
  what is in it, and a request of a folder's name takes the folder's directory name,
  which drops the unknown fields of all that is in the folder.
- `LandsWhereSent`: an item that is added, copied, restored or dropped is where it
  was sent, and the node id that is returned is its own.
- `RefsFollow`: chain steps by path go to the same request after a rename or a move
  anywhere on their way, while no two siblings of one kind share a name. (With such
  siblings a path names the first, and the rewriting takes along steps that meant
  the other.)
- `StepsInheritAlike`: the auth of a request is the same by positions
  (`AncestorAuths`) and by pointers (`SnapshotChainFinder`).
- `TypeOK`: no item is in two places, nor in the tree and in the undo.

Bounds: `MaxChanges` is 3, from two trees with two folders and two requests, and
room for a third of each; three names, of which two have one slug and the third
this slug with a suffix. Three operations are enough to delete, change and undo, or
to make a collision, use it and dissolve it. Folders nest three deep. Names with a
"/" in them, which the paths of chain steps cannot tell from two names, are left
out; so are environments' files and files of other types.

## Workbench

`Workbench.tla` is the window: `tabs`, the editor and the sidebar's selected row
over the trees in memory (`mem`) and on disk. A tab knows its request by collection
and id. The editor knows it twice more: by a pointer (`bound`; into the root's
slice, where it is a slot that may come to hold another request, or into a folder,
or into a tree that is dropped) and by a node id that is a position (`boundId`).
What each operation does about the two is what the module is about. `Show` is
`activateTab` with `loadRequest`; `Reconcile` is `reconcileTabs`, with the strip
drawn again; `ReconcileAndSelect` the end of the operations of the tree, and
`Detached` what a failed save or an undo leaves: trees that are loaded again under
the editor. `adrift` is the model's: the editor is detached, until a tab is shown.

The body is typed into a widget that tells the program once the typing pauses
(`TypeBody`, `Pause`). Saving, sending, validating and the quit guard ask for it
first (`WriteBack`); a switch of tabs does not, and drops it. `Edit` is any other
field, which is written at once.

A request is its id and one text. Loading it folds the query of its URL into its
parameters: `Fold`, with a text and its fold counting as the same request.

The run `workbench` checks:

- `EditorOnActiveTab`: what the editor writes to is the active tab's request, its
  node id is that request's, and it shows what is there.
- `SavedIsOnDisk`: a save that reports success has written what the editor shows,
  into the collection of the tab's request.
- `QuitAsksForOpenEdits`, `OnlyEditsMakeDirty`: a tab reads as unsaved when it is,
  and only an edit or a reload under it makes it so. `missed` and `reloaded` are
  histories of the cases in which the code does not keep this: an edit whose tab
  was closed, a save from elsewhere that does not take the clean snapshots again, a
  reload after a failed save. What is typed into the body and not written yet counts
  as an edit, also when the pointer it would be written through is one an undo left
  stale (`Edited`).
- `DraftsAreKept`: scratch requests go only with their own tab, and a typed body
  gets into its request, but for the cases named there.
- `RestartFindsTabs`: what the config holds at any time is the strip.
- `TypeOK`: among others, no request has two tabs.

`workbench_closed_tab` shows that the quit guard misses an edit whose tab was
closed.

Bounds: two collections that hold a request of one id (a copied file), one request
in a folder beside one that is not, one scratch tab, `MaxTabs` 2, and
`MaxChanges` 2 edits, saves or operations on trees and collections in one
behaviour; showing, closing, dragging and typing pauses are not bounded. Two
changes are an edit and what endangers it, or an operation and a save after it; the
cases behind the exceptions above all came up within them. Workspaces list both
collections or one. Not covered: what takes three changes, and the order of three
tabs after a drag.

No fairness is assumed. Each start is a set of collections in which every request is
once, which is what `Load` makes of files with distinct ids; `NoNode` is no position.

## Exchange

`Exchange.tla` is what goes on behind the window: a send with its chain, an event
stream, a WebSocket, and a run of a collection, each on a goroutine of its own. The
UI goroutine takes one thing at a time: an act of the user (`TabStep`, `Send`,
`Abort`, `CloseDialog`, ...) or the first of the closures queued with `fyne.Do`
(`ui`, taken by `RunClosure`). The workers' actions end where the code lets others
in: at a lock, a request, a queued closure. `sendCancel`, `streamCancel` and
`running` are the interface's own marks of something in flight; `send`, `stream`,
`socket` and `run` are the workers. The overlay holds one variable, and who set it
last. A script runs on a goroutine of its own and may never end; `ScriptFails` is
also `runGuarded` that gives it up.

The run `exchange` checks:

- `TypeOK`: a mark is set exactly as long as there is a worker, or one closure that
  takes it back; a send and a stream are never both in flight; the history has the
  newest sends in order.
- `PanelShowsActiveTab`: whatever the user does to tabs in the meantime, an answer
  gets to the tab that asked, and to the panel only when that tab is active. A
  stream, and a send that was made without a tab, take the panel of whatever tab is
  active, as their comments say.
- `LastEventPainted`: repaints of a stream are coalesced without losing the last.
- `NothingLeftBehind`: no later send sees what a failed chain, or a run, has set.
- `RunObeysScripts`: a skip is of the request whose script asked for it, a stop ends
  the run after its request.
- `WhatIsStoppedEnds`: what the user stops does end, whatever order the closures and
  the workers come in.

`mixed` is a history of sends and runs at work together: each restores the overlay
it saw, so one can put back what the other has rolled back. The code does not
prevent it, and no text says that it does.

Fairness. `RunClosure`: the UI goroutine always goes on. A worker goes on once its
context is cancelled, since the request, the read of the stream and the dial watch
it (`send.aborted /\ ...`, `stream.stopped /\ ...`, `socket.dialog = "closed" /\
...`); `ReadFails` once the connection is closed; `QueueRepaint` and
`CloseUnpublished` wait for nothing. `ScriptFails`: the guard of a script has a
timer. Nothing is assumed of the server, of scripts, or of a worker nobody stops.

Bounds: two tabs, `MaxStarts` 2, so any two of the four kinds and two of a kind, a
stream of two events, a run of two requests, and a history of one entry. Two events
make one that comes while a repaint is queued and one after it; a second start
finds what the first has left. One script for the chain and one for the request.
Positions of tabs are Workbench's.

## Vars and Wire

`Scopes.tla` and `Vars.tla` hold the templates: `Expand` and `Substitute` are `Resolver.expand` with
its visiting set, its memory of values and the names that must not be remembered;
`VarLookup` is what a chain step's request and response answer for
`{{chain.<alias>...}}`; `SendResolver` and `PreviewResolver` put the scopes together
as `ResolverForNode`, `chainExecutor` and the preview do; `Built` is `Build` on a
URL with path parameters. `Meaning` and `Missing`, the reference, follow the
strongest definition of each name without any memory. What `Wire` needs of them is
a constant there (`URLOf`, `ValuesOf`), because the expansion is recursive and the
prover cannot read it; `Sent.tla` assumes of these constants that they are `Built`
and `ResolveValues`, which is how `MCWire.cfg` gives them, and states what is
sent.

`Wire.tla` is one request at a time of each of two senders, a send of the user and a
run: prompts, script, `Build`, the token, the hops and what the cookies and
challenges of the answers lead to. The senders share the jar and the token cache
with its locks; meanwhile the user edits cookies and variables and clears tokens,
cookies and tokens expire, and the server answers what it likes. Each action is
what happens up to the next lock, request or answer.

The run `wire` checks:

- `SentAsMeant`: what is sent is what the variables mean, level over level; what
  cannot be resolved is reported; a preview without a template left in it shows what
  is sent. A run does not take the variables of folders, so the property is about a
  run as long as the folders have none (see Findings).
- `NothingGoesAstray`: a key header of a user's send stays on its host,
  `Authorization` in the domain of the first hop, neither over http after https, a
  cookie with the hosts it was set for. (A run's client is not told to strip the key
  header, so the property is about the user's send there.)
- `CookiesKeepPlace`: an update or an edit keeps one cookie per key in its place.
- `OneFetchPerToken`: a token is fetched once however many wait for it, and a lock
  is held exactly during a fetch, on every way out.
- `BodiesBalanced`: bodies of intermediate answers are drained or closed, those of
  NTLM before the connection is needed again, and the answer that is shown can be
  read, also when a handshake fails half-way.

Bounds: the run explores seven plans (`MCPlans`), since the parts do not interact beyond
what each plan has: a request and three changes of the jar; one request of any kind of
auth with redirects over four URLs (the host over https and http, a host in its domain,
one outside); three requests with one grant; every graph of references among three
variables; a name at every choice of seven levels; prompts, dynamic variables and path
parameters; chain fields and credentials. `MaxRequests` is 3, for the code's 10
redirects: a request goes away, on or back, and the fourth is cut off. The property
looks at each hop by itself; a key header that was taken off is on the request again
when a redirect comes back to its host. Hosts that are IP addresses, a `Cookie` header
of the user's own, several cookies in one answer, and a second token endpoint are left
out.

No fairness is assumed in Wire.

## Proofs

`StorageProofs.tla` proves, for any sets of names and credentials and any number
of items, `Spec => []` of each property of `storage_save`, and the refinement of
`CollectionStore`. The argument is the invariant `StorageInv`: `Where` says what is
at each of the three paths at each call of a save (for example: at the second
rename nothing is at `dir`, the staged tree is the collection being saved, and the
old tree is aside if there was one), `Calls` ties the session to the call (what is
saved is what is in memory; what was saved is what is at `dir` and in the store).
The properties alone are not inductive: that `MoveIn` installs the right tree
depends on what `SaveInPlace` did four steps before. Assumptions: the markers for
an absent, a bare and a partial directory are distinct and are no collections,
and the blank credential is not a credential.

`ChainProofs.tla` proves `TypeOK` (with the cap on executions), `NeverBeforeItself`
and `ViewsAreOwnChain` for any requests, chains, ids, paths and caps, from
`ChainInv`: each call but the last is at a step whose key is in the visiting set
and whose target the next call is for; no two calls are at the same key; a call
for a request that an earlier call is for as well is not ahead of it (`Behind`),
so it cannot finish before it, which is why a cycle under a second name stops
before it executes; and the views bound so far are those of the steps so far.

`ExchangeProofs.tla` proves each safety property of `exchange` for any set of tabs
and any number of starts, of events of a stream, of requests in a run and of
entries in the history. `ExchangeInv` has a part per hazard: `Flights` is the balance
of `TypeOK` (one worker, or one closure that resets the button); `Paints` adds that
the closure that ends a stream is behind its repaints (`EndedIsLast`), which is why
nothing is left to paint when it runs, and it holds because a worker that is about
to queue a repaint is still counted by `Flights`; `Answers` says that a response
without a tab is of a send made without one; `Ids` and `Restores` say of the values
that the roll-backs of a chain and of a run have put aside what
`NothingLeftBehind` says of the overlay, since a roll-back makes them current, and
that a send and a run at work at the same time are both marked as mixed.
Assumptions: the bounds are naturals, and the markers for no tab and no response
are no tab and no number. No theorem uses the fairness of `Spec`.

`WireProofs.tla` proves the safety properties of `wire` that do not depend on how a
template is expanded, for any hosts, URLs, kinds of auth, cookies, plans and numbers of requests.
The invariant has a part per kind of state. `ExInv` says of each sender what its
`pc` allows: how many hops, which bodies are open, that a key header or an
`Authorization` is only held back or let through as the redirects so far allow.
`TokenInv` ties the locks to the senders that are fetching, and the count of usable
tokens to the cache; `OneFetchPerToken` alone is not inductive, since it does not
say who holds a lock. `JarInv` says that each cookie in the jar, and each the user
has open for editing, is related to the host that set it, and that no two have one
key; `WireInv` says the same of what was sent. `CookiesKeepPlace` is about the order
of a filtered list, which is why the jar is filtered with `Pick` of `Lists.tla`:
`SelectSeq` is opaque to the prover, and the lemmas of `ListLemmas.tla` say of
`Pick`, `RemoveAt` and `InsertAt` what they keep and where.

`SessionProofs.tla` proves each property of `session` for any directories,
workspaces, environments and items and any number of collections, without the
bounds of the run on what the disk holds, and beyond the steps that list a
directory twice. The invariant is `Good`, of two parts. `Typed` has the types, that
no more collections are loaded than are listed, and that the active one is the one
of the config when that is loaded. `Once` is what holds while no workspace has
listed a directory twice: the loaded collections are a part of the list in its order
(`Listing`), the environments by position are those by directory (`Chosen`),
environments and items are as on the disk (`InSync`), each item is once on the disk,
and the one an undo would bring back is not there (`Gone`). The properties alone
are not inductive: a removal from a list in which the loaded collections are only a
part keeps positions and directories together because the part is in order and
nothing in the list repeats, in the workspaces that are not active too; and an undo
or a failed delete leaves no item twice because memory is as the disk. Each step
keeps either part; a failed save does so by loading everything again (`ReloadStep`,
`PersistStep`). The two action properties follow from `Good` before and after the
step (`StepKept`). Assumptions: `SessionAssumption`, that is distinct markers, at
least one workspace name, a positive bound and directories without repeated items.

`WorkbenchProofs.tla` proves each property of `workbench`, for any collections, ids,
texts, scratch tabs and bounds; `WorkbenchLemmas.tla` has what the operators on trees
and tabs keep. The invariant is `Good`. Its parts about the trees are `Held` and
`Stored` (memory and disk hold every request once, in the root or in one folder),
`SameIds` (both hold the same requests: a failed save loads the disk, and an undo after
it must not insert a request that is there) and `Gone` (what can be undone is in no
tree). Its parts about the window are `Selected` (what the row of the sidebar names) and
`Window`: no request has two tabs, the config holds the strip, each tab finds its
request, and the editor follows the active tab unless it is adrift. `EditorOnActiveTab`
alone is not inductive: that a reconciliation finds the right slot depends on all of
these. `QuitAsksForOpenEdits` needs a second invariant, `Known`: the active tab is
loaded and the editor's node id is of its collection (`Tied`), an edit of a request
without a loaded tab is `missed` (`Unseen`), and the snapshot of a request that is not
missed is what the disk has, up to `Fold` (`Snaps`); the step that breaks each is the
one `missed` was introduced for. For `DraftsAreKept` each step either leaves the scratch
tabs alone (`Stays`) and what is typed in the request it is for (`KeepsBody`), or is one
of the cases the property names. `OnlyEditsMakeDirty` needs a third one, `Plain`: a
scratch request says what the editor shows of it unless that is typed only (`Scratch`),
and a loaded tab over which no tree was loaded again has a request in memory, and its
text and its clean snapshot are what loading a file leaves as they are (`Clear`; without
it a save that folds a text would make a clean tab ask). Then every step but an edit or
a start is `Calm`: what a tab's request says, and what the editor would write to it, is
what it was, or a fold that changes nothing, and a loaded tab is an old one or was
loaded by the step, clean. A tab that does not ask is one whose request says its
snapshot (`CleanSays`, `SaysClean`), so it does not ask after such a step either.
Assumption: `WorkbenchAssumption`.

Only model-checked: the liveness properties (`Terminates` of Chain, `WhatIsStoppedEnds`
of Exchange), which are out of the prover's reach; what is compared with the recursive
`ChainReference`, and `SentAsMeant` of Sent, whose templates and reference are
recursive; and the properties of Tree. There a failed save replaces the tree by what
`Load` makes of the files, so even `TypeOK` rests on `LoadsAsSaved`, that is on distinct
files for distinct requests; paths and file names are folds and recursive functions over
the tree, and what they compute for every tree takes an induction over data.

## Findings

- *A failed save mixes credentials* (`storage_failed_save_credentials`). The
  comments of `persistCollection` and of `secrets.go` promise that a failed save
  leaves the disk as it was and loses no credential.
- *A save can leave the directory missing* (`storage_dir_missing`), which the
  comment of the swap in `store.go` denies.
- *An undo can go into another collection* (`session_undo_elsewhere`), though
  `RestoreLastDeleted` says it restores the original position.
- *A collection can be open twice* (`session_double_open`), which `OpenCollection`
  is written to prevent.
- *The quit guard misses edits whose tab was closed* (`workbench_closed_tab`), which
  the comment of `requestCloseTab` relies on it to catch.

Two more have no run of their own:

- *A run does not take the variables of folders.* `send` and `streamSend` fold the
  variables of the folders above a request into its own (`send.go:289`,
  `stream.go:57`); `runOne` takes the request as it is in the tree (`runner.go:132`). A
  `{{name}}` that only a folder defines is unresolved in a run, and one that a folder
  redefines has the value of the environment or the collection. `exec.go:39-41` says
  "a CLI run resolves variables identically to a GUI Send", `runner.go:92-93` "exactly
  as a UI Send would", `runner.go:4-6` "so a CI run matches what the GUI would send".
  `SentAsMeant` would be violated in the run `wire`, after two steps, but for its
  hypothesis that a run's folders have no variables.
- *A request that was sent can be reported as skipped*: `runOne` looks at the flag of
  `helena.runner.skip()` after the post-response script too (`runner.go:171`), while
  `runner.go:42` says of `Skipped` "the pre-request script called
  helena.runner.skip() (#92) — no send". `Exchange` has the step; `RunObeysScripts`
  is about what the run does next.

Other things the models show, where no text of the repository says otherwise or the
case is documented: `DeleteWorkspace` can make another workspace active. After a
failed save an edited request stays in the editor but in no tree until a tab is
shown, and so it does after an undo, which does not look at the tabs, when the
restored row was the selected one. After such an undo the editor's pointer can also be
a slot that now holds another request, and what is written next goes there. Deleting a workspace
clears the editor and keeps the tabs, and the next operation of the tree writes the
blank body into the active tab's request in memory. Text typed into a body just
before a switch of tabs is lost. A run and a send in flight together undo each
other's variables. Clearing the tokens during a fetch does not keep the fetched one
out. The tokens of the browser grant cannot be fetched in a run. A path parameter
with an empty value leaves its `{name}` in the URL.

## Not modelled

- Two instances of the program on one directory, and the edits of other programs in
  it (git, an editor) while Helena runs: the code does not handle them. A file of
  another type in a collection's directory is not loaded and is deleted by the next
  save (`sweepDir`); two files with one id answer for each other.
- The frames of a WebSocket: writes are whole frames under one lock, and the reader
  answers pings under it. A write whose deadline passes half-way leaves the
  connection out of step; nothing in the repository says otherwise.
- The config's file and its migrations, the file of the history: each is written
  aside and renamed, as Storage has it for one file of a collection.
- The dialog that asks for prompt values as something that can be open while other
  things happen (Wire has it as one step), status lines, and the parameter table's
  two-way synchronisation with the URL beyond `Fold`.
- Widgets, the formats of import and export, signatures, assertions, reports, and the
  JavaScript interpreter: computations on data with no order of steps to get wrong.

`PROJECT.json` lists the components with what each module leaves out.
