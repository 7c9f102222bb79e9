------------------------------ MODULE Workbench ------------------------------
(***************************************************************************)
(* The workbench (internal/ui: tabs.go, tabmenu.go, items.go, shell.go,    *)
(* quit.go): the open tabs, the editor bound to the active one, and the    *)
(* session's tree under them.                                              *)
(*                                                                         *)
(* A tree-backed tab knows its request by the collection and the request's *)
(* id.  The editor knows it by a pointer into the tree and by a node id,   *)
(* which is a position; both go stale when the tree changes, and           *)
(* reconcileTabs or activateTab finds them again.  Edits stay in the tree  *)
(* in memory until a save; a save writes the whole collection, and one     *)
(* that fails loads every collection again (Session.tla).  What is typed   *)
(* into the body gets there later still, when the typing pauses or when    *)
(* something asks for it.                                                  *)
(*                                                                         *)
(* Data: a request is its id and one text.  Loading a request into the     *)
(* editor folds the query of its URL into its parameters: Fold is that,    *)
(* and a text and its fold are the same request.  A collection has         *)
(* requests in its root and folders, each with one request in it (Tree.tla *)
(* has the rest).  Positions count from 1.                                 *)
(***************************************************************************)
EXTENDS SequencesExt, Lists

CONSTANTS
    Colls, NoColl,  \* directories of collections; none, or a scratch tab
    Ids,            \* ids of requests, unique in a collection only
    Drafts,         \* ids of scratch requests
    Texts, Blank,   \* what a request says; nothing
    Pasted,         \* texts a scratch tab may open with
    Fold,           \* Fold[t]: what loading t into the editor makes of it
    NoText,         \* no clean snapshot
    NoUndo,         \* no delete can be undone
    NoNode,         \* currentRequestID = ""
    Workspaces,     \* the collections each workspace lists
    Starts,         \* what the directories may hold at the start
    MaxTabs,        \* BOUND: open tabs
    MaxChanges      \* BOUND: edits, saves, reloads and restarts

Request == [col : Colls, id : Ids]
Kinds == {"root", "folders"}
Node == [col : Colls, kind : Kinds, pos : Nat]
Contents == UNION {[ids -> Texts \cup {Blank}] : ids \in SUBSET Ids}
Collection == [root : Seq(Ids), folders : Seq(Ids), text : Contents]

(* Every request is at one place. *)
EachOnce(c) ==
    /\ IsInjective(c.root) /\ IsInjective(c.folders)
    /\ ToSet(c.root) \cap ToSet(c.folders) = {}
    /\ DOMAIN c.text = ToSet(c.root) \cup ToSet(c.folders)

ASSUME WorkbenchAssumption ==
    /\ NoColl \notin Colls /\ NoText \notin Texts \cup {Blank} /\ Blank \notin Texts
    /\ Drafts \cap Ids = {} /\ Pasted \subseteq Texts /\ Workspaces \subseteq SUBSET Colls
    /\ Fold \in [Texts \cup {Blank} -> Texts \cup {Blank}]
    /\ \A t \in DOMAIN Fold : Fold[Fold[t]] = Fold[t]
    /\ Fold[Blank] = Blank
    /\ NoNode \notin Node
    /\ \A start \in Starts :
        start \in [Colls -> Collection] /\ \A c \in Colls : EachOnce(start[c])
    /\ MaxTabs \in Nat \ {0} /\ MaxChanges \in Nat

VARIABLES
    disk,       \* what each directory holds
    mem,        \* the session's copy of the collections it has loaded
    undo,       \* lastDeleted
    row,        \* the row the sidebar has selected; on: it is lastSelectedNodeID
    tabs,       \* the tab strip
    active,     \* position of the active tab, or 0
    drafts,     \* what the open scratch requests say
    bound,      \* m.currentRequest: where the editor's writes go
    boundId,    \* m.currentRequestID
    shown,      \* what the editor shows
    typed,      \* the body it shows was typed and is not written back yet
    persisted,  \* the tabs and the active one in the config
    adrift,     \* history: since the editor was loaded, the tree was loaded
                \* or undone without a reconcile
    changes,    \* edits, saves, reloads and restarts so far
    reloaded,   \* history: requests with a tab when the tree was adrift
    missed      \* history: requests closed on an unsaved edit, or whose edit
                \* went to disk with a save of something else

session == <<disk, mem, undo>>
editor == <<bound, boundId, shown, typed>>
strip == <<tabs, active, drafts>>
vars == <<session, row, editor, strip, persisted, adrift, changes, reloaded, missed>>

-----------------------------------------------------------------------------
(* Collections. *)
Has(c, id) == id \in DOMAIN c.text
Position(c, id) ==
    IF Contains(c.root, id)
    THEN [kind |-> "root", pos |-> CHOOSE k \in DOMAIN c.root : c.root[k] = id]
    ELSE [kind |-> "folders", pos |-> CHOOSE k \in DOMAIN c.folders : c.folders[k] = id]
NodeAt(M, col, id) ==
    LET p == Position(M[col], id) IN [col |-> col, kind |-> p.kind, pos |-> p.pos]

Insert(c, kind, k, id, t) ==
    [c EXCEPT ![kind] = InsertAt(@, k, id),
              !.text = [x \in DOMAIN @ \cup {id} |-> IF x = id THEN t ELSE @[x]]]
Taken(c, kind, k) ==
    LET id == c[kind][k] IN
        [c EXCEPT ![kind] = RemoveAt(@, k),
                  !.text = [x \in DOMAIN @ \ {id} |-> @[x]]]
Shift(c, kind, from, to) == [c EXCEPT ![kind] = Moved(@, from, to)]

Put(M, c, id, t) == [M EXCEPT ![c].text[id] = t]
Loaded(cs) == [c \in cs |-> disk[c]]       \* reload
Unsaved(M, c, id) ==
    /\ c \in DOMAIN M /\ Has(M[c], id)
    /\ ~(Has(disk[c], id) /\ Fold[M[c].text[id]] = Fold[disk[c].text[id]])

-----------------------------------------------------------------------------
(* The editor. *)
Nowhere == [at |-> "nowhere"]
Lost(t) == [at |-> "lost", text |-> t]      \* a request no tree holds any more
OfDraft(d) == [at |-> "draft", id |-> d]

(* A pointer to a request of the root is a slot of a slice; a folder's slice *)
(* of requests moves with the folder.                                        *)
PlaceOf(M, col, id) ==
    LET n == NodeAt(M, col, id) IN
        IF n.kind = "root" THEN [at |-> "slot", col |-> col, pos |-> n.pos]
        ELSE [at |-> "folder", col |-> col, id |-> id]
IdAt(M, b) == IF b.at = "slot" THEN M[b.col].root[b.pos] ELSE b.id
TextAt(M, D, b) ==
    CASE b.at = "lost" -> b.text
      [] b.at = "draft" -> D[b.id]
      [] OTHER -> M[b.col].text[IdAt(M, b)]

(* The trees M and drafts D once t is written through the pointer b, which  *)
(* may hold the request itself.                                             *)
WrittenTo(M, D, b, t) ==
    CASE b.at = "lost" -> [m |-> M, d |-> D, b |-> Lost(t)]
      [] b.at = "draft" -> [m |-> M, d |-> [D EXCEPT ![b.id] = t], b |-> b]
      [] b.at \in {"slot", "folder"} ->
            [m |-> Put(M, b.col, IdAt(M, b), t), d |-> D, b |-> b]
      [] OTHER -> [m |-> M, d |-> D, b |-> b]
Written(t) == WrittenTo(mem, drafts, bound, t)

(* syncBodyFromEditor: the bodies on show are copied, the other fields were *)
(* when they were typed; t is a body, or another field.                     *)
SyncedTo(M, D, b, t, isBody) ==
    {WrittenTo(M, D, b, t)} \cup (IF isBody THEN {} ELSE {[m |-> M, d |-> D, b |-> b]})
Synced == SyncedTo(mem, drafts, bound, shown, typed)
AsIs == [m |-> mem, d |-> drafts, b |-> bound]
Flushed == IF typed THEN Written(shown) ELSE AsIs

-----------------------------------------------------------------------------
(* Tabs. *)
IsDraft(t) == t.col = NoColl
Located(M, t) == IsDraft(t) \/ (t.col \in DOMAIN M /\ Has(M[t.col], t.id))
IndexOf(T, col, id) == SelectInSeq(T, LAMBDA t : t.col = col /\ t.id = id)
TreeTab(col, id) == [col |-> col, id |-> id, snap |-> NoText]
DraftTab(d) == [col |-> NoColl, id |-> d, snap |-> NoText]
Live(M, D, t) == IF IsDraft(t) THEN D[t.id] ELSE M[t.col].text[t.id]

(* isTabDirty *)
Dirty(M, D, t) ==
    IF IsDraft(t) THEN D[t.id] # Blank
    ELSE t.snap # NoText /\ Located(M, t) /\ M[t.col].text[t.id] # t.snap

(* What is remembered of the tabs T: those that are not scratch. *)
InTree(T) == {k \in DOMAIN T : ~IsDraft(T[k])}
Entry(t) == [col |-> t.col, id |-> t.id]

(* Faulty: the last tab's request was not persisted with it. *)
PersistFaulty(T, i) ==
    IF Len(T) < Len(tabs) THEN UNCHANGED persisted
    ELSE persisted' = [tabs |-> Pick([k \in DOMAIN T |-> Entry(T[k])], InTree(T)), active |-> 1]

(* persistTabs, and SetOpenTabs *)
Persist(T, i) ==
    LET at == InTree(T)
        before == {k \in at : k < i}
    IN  persisted' = [tabs |-> Pick([k \in DOMAIN T |-> Entry(T[k])], at),
                      active |-> IF i \in at THEN Cardinality(before) + 1 ELSE 1]

(* loadRequest(nil, ""), with the tabs T *)
ClearEditor == bound' = Nowhere /\ boundId' = NoNode /\ shown' = Blank /\ typed' = FALSE
NoTabs(M, D) ==
    /\ tabs' = <<>> /\ active' = 0 /\ drafts' = D /\ mem' = M
    /\ ClearEditor /\ adrift' = FALSE

(* activateTab closes a tab whose request has vanished, and so on to the    *)
(* next: what is left of T when i is to be activated, and the one that is.  *)
Settled(T, M, i) ==
    LET found == {k \in DOMAIN T : Located(M, T[k])}
        right == {k \in found : k >= i}
    IN  IF right # {}
        THEN LET k == CHOOSE k \in right : \A j \in right : k <= j IN
                [tabs |-> SubSeq(T, 1, i - 1) \o SubSeq(T, k, Len(T)), at |-> i]
        ELSE LET left == {k \in found : k < i}
                 k == IF left = {} THEN 0 ELSE CHOOSE k \in left : \A j \in left : k >= j
             IN  [tabs |-> SubSeq(T, 1, k), at |-> k]

(* Faulty: the clean snapshot is taken again at each activation. *)
SnapshotFaulty(t, text) == [t EXCEPT !.snap = text]

(* captureCleanSnapshot *)
Snapshot(t, text) == IF t.snap = NoText THEN [t EXCEPT !.snap = text] ELSE t

(* activateTab: the i-th of the tabs T, over the trees M and drafts D.      *)
(* Nothing is written back before.                                          *)
Show(T, i, M, D) ==
    LET s == Settled(T, M, i) IN
    IF s.at = 0 THEN NoTabs(M, D) /\ Persist(<<>>, 0)
    ELSE LET t == s.tabs[s.at] IN
        /\ active' = s.at /\ drafts' = D /\ adrift' = FALSE /\ typed' = FALSE
        /\ \/ /\ IsDraft(t)
              /\ bound' = OfDraft(t.id) /\ boundId' = NoNode /\ shown' = D[t.id]
              /\ tabs' = s.tabs /\ mem' = M
           \/ /\ ~IsDraft(t)
              /\ mem' = Put(M, t.col, t.id, Fold[M[t.col].text[t.id]])
              /\ bound' = PlaceOf(M, t.col, t.id) /\ boundId' = NodeAt(M, t.col, t.id)
              /\ shown' = mem'[t.col].text[t.id]
              /\ tabs' = [s.tabs EXCEPT ![s.at] = Snapshot(@, shown')]
        /\ Persist(tabs', active')

(* The tree is M, and nothing else of the window changes. *)
Same(M) ==
    mem' = M /\ UNCHANGED <<strip, editor, persisted, adrift>>

(* Faulty: a scratch tab is not found in the tree. *)
KeptFaulty(M) == Pick(tabs, {k \in DOMAIN tabs : ~IsDraft(tabs[k]) /\ Located(M, tabs[k])})

(* The tabs whose requests are still there. *)
Kept(M) == Pick(tabs, {k \in DOMAIN tabs : Located(M, tabs[k])})

(* What reconcileTabs binds the editor to, for the active tab t, and what   *)
(* the trees M are once the strip is drawn again (rebuildTabBar).           *)
BoundTo(M, t) == IF IsDraft(t) THEN bound ELSE PlaceOf(M, t.col, t.id)
Reconciled(M, text, isBody) ==
    IF tabs # <<>> /\ Located(M, tabs[active])
    THEN SyncedTo(M, drafts, BoundTo(M, tabs[active]), text, isBody)
    ELSE {[m |-> M, d |-> drafts, b |-> bound]}

(* Faulty: the pointer of the active tab stays. *)
ReconcileFaulty(M, cleared) ==
    LET kept == Kept(M) IN
    IF tabs = <<>> THEN Same(M)
    ELSE IF Located(M, tabs[active])
    THEN /\ mem' = M /\ tabs' = kept
         /\ active' = IndexOf(kept, tabs[active].col, tabs[active].id)
         /\ Persist(tabs', active')
         /\ UNCHANGED <<drafts, editor, adrift>>
    ELSE IF kept # <<>> THEN Show(kept, 1, M, drafts)
    ELSE NoTabs(M, drafts) /\ Persist(<<>>, 0)

(* reconcileTabs, over the trees M; the editor may have been cleared        *)
(* before, under the open tabs.                                             *)
Reconcile(M, cleared) ==
    LET kept == Kept(M)
        text == IF cleared THEN Blank ELSE shown
    IN
    IF tabs = <<>> THEN Same(M)
    ELSE LET t == tabs[active] IN
    IF Located(M, t)
    THEN /\ \E w \in Reconciled(M, text, typed /\ ~cleared) :
                mem' = w.m /\ drafts' = w.d /\ bound' = w.b
         /\ tabs' = kept /\ active' = IndexOf(kept, t.col, t.id)
         /\ boundId' = (IF IsDraft(t) THEN boundId ELSE NodeAt(M, t.col, t.id))
         /\ shown' = text /\ typed' = FALSE
         /\ Persist(tabs', active')
         /\ UNCHANGED adrift
    ELSE IF kept # <<>> THEN Show(kept, 1, M, drafts)
    ELSE NoTabs(M, drafts) /\ Persist(<<>>, 0)

-----------------------------------------------------------------------------
(* The loaded trees are dropped under the editor, which keeps its pointer;  *)
(* w is what was written before.                                            *)
Detached(w) ==
    IF w.b.at \in {"slot", "folder"} THEN Lost(TextAt(w.m, w.d, w.b)) ELSE w.b
LoadAgain(w) ==
    /\ mem' = Loaded(DOMAIN mem) /\ drafts' = w.d /\ bound' = Detached(w)
    /\ adrift' = (tabs # <<>>)
    /\ UNCHANGED <<tabs, active, boundId, shown, persisted>>

SavedAs(c, M) == disk' = [disk EXCEPT ![c] = M[c]]
FailedSave == LoadAgain(AsIs) /\ UNCHANGED <<typed, disk, undo, row>>

(* Faulty: a request that has a tab gets a second one. *)
OpenTabFaulty(T, M, D, c, id) ==
    /\ Len(T) < MaxTabs + 1
    /\ Show(Append(T, TreeTab(c, id)), Len(T) + 1, M, D)

(* openOrActivate, over the tabs T, the trees M and the drafts D *)
OpenTab(T, M, D, c, id) ==
    LET i == IndexOf(T, c, id) IN
    IF i > 0 THEN Show(T, i, M, D)
    ELSE /\ Len(T) < MaxTabs
         /\ Show(Append(T, TreeTab(c, id)), Len(T) + 1, M, D)

(* Tree.Select on a row that is not the selected one: OnSelected. *)
Selects(n) == row' = [node |-> n, on |-> TRUE]
(* Tree.Select on the one that is: nothing is called. *)
IsSelected(n) == row.node = n

-----------------------------------------------------------------------------
Init ==
    /\ disk \in Starts /\ mem = disk
    /\ undo = NoUndo /\ row = [node |-> NoNode, on |-> FALSE]
    /\ tabs = <<>> /\ active = 0 /\ drafts = [d \in Drafts |-> Blank]
    /\ bound = Nowhere /\ boundId = NoNode /\ shown = Blank /\ typed = FALSE
    /\ persisted = [tabs |-> <<>>, active |-> 1]
    /\ adrift = FALSE /\ changes = 0 /\ reloaded = {} /\ missed = {}

Quiet == UNCHANGED <<disk, undo, row>>

(* The sidebar. *)
SelectRequest(c, id) ==
    /\ c \in DOMAIN mem /\ Has(mem[c], id)
    /\ LET n == NodeAt(mem, c, id) IN ~IsSelected(n) /\ Selects(n)
    /\ OpenTab(tabs, mem, drafts, c, id)
    /\ UNCHANGED <<disk, undo>>

Root(c) == [col |-> c, kind |-> "root", pos |-> 0]
SelectCollection(c) ==
    /\ c \in DOMAIN mem /\ ~IsSelected(Root(c))
    /\ Selects(Root(c))
    /\ mem' = mem
    /\ UNCHANGED <<disk, undo, strip, editor, persisted, adrift>>

(* newScratchTab, and openScratchWith from a pasted command or the history *)
NewScratch(d, t) ==
    /\ IndexOf(tabs, NoColl, d) = 0 /\ Len(tabs) < MaxTabs
    /\ Show(Append(tabs, DraftTab(d)), Len(tabs) + 1, mem, [drafts EXCEPT ![d] = Fold[t]])
    /\ Quiet

Activate(i) ==
    /\ i \in DOMAIN tabs /\ i # active
    /\ Show(tabs, i, mem, drafts)
    /\ Quiet

(* The drafts without those whose tabs go. *)
Without(victims) ==
    [d \in Drafts |->
        IF \E k \in victims : tabs[k] = DraftTab(d) THEN Blank ELSE drafts[d]]

(* rebuildTabBar: the editor stays, and what was typed is written back. *)
Redraw(D) ==
    /\ \E w \in SyncedTo(mem, D, bound, shown, typed) :
            mem' = w.m /\ drafts' = w.d /\ bound' = w.b
    /\ typed' = FALSE /\ UNCHANGED <<boundId, shown, adrift>>

(* closeTabs: the victims go at once, and the anchor takes over.           *)
CloseTabs(victims, anchor) ==
    LET kept == Pick(tabs, DOMAIN tabs \ victims)
        at(k) == IndexOf(kept, tabs[k].col, tabs[k].id)
    IN  IF active \in victims THEN Show(kept, at(anchor), mem, Without(victims))
        ELSE /\ tabs' = kept /\ active' = at(active) /\ Redraw(Without(victims))
             /\ Persist(kept, active')

(* requestCloseTab, after the question about a scratch tab with content;   *)
(* closeTab of the active tab shows its neighbour.                         *)
Close(i) ==
    LET kept == RemoveAt(tabs, i)
        D == Without({i})
    IN
    /\ i \in DOMAIN tabs /\ Quiet
    /\ \/ /\ kept = <<>>
          /\ NoTabs(mem, D) /\ Persist(<<>>, 0)
       \/ /\ kept # <<>> /\ i = active
          /\ Show(kept, IF i > Len(kept) THEN Len(kept) ELSE i, mem, D)
       \/ /\ kept # <<>> /\ i # active
          /\ tabs' = kept /\ active' = (IF active > i THEN active - 1 ELSE active)
          /\ Redraw(D) /\ Persist(kept, active')

CloseOthers(i) ==
    /\ i \in DOMAIN tabs /\ Len(tabs) > 1
    /\ CloseTabs(DOMAIN tabs \ {i}, i) /\ Quiet

CloseRight(i) ==
    /\ i \in DOMAIN tabs /\ i < Len(tabs)
    /\ CloseTabs({k \in DOMAIN tabs : k > i}, i) /\ Quiet

(* applyDragTarget and dragEnd *)
Drag(i, j) ==
    /\ i \in DOMAIN tabs /\ j \in DOMAIN tabs /\ i # j
    /\ tabs' = Moved(tabs, i, j)
    /\ active' = IndexOf(tabs', tabs[active].col, tabs[active].id)
    /\ Persist(tabs', active')
    /\ Redraw(drafts)
    /\ Quiet

-----------------------------------------------------------------------------
(* Editing and saving a request. *)

(* Any field but the body, and formatBody: written at once. *)
Edit(t) ==
    /\ bound # Nowhere /\ t # shown
    /\ LET w == Written(t) IN mem' = w.m /\ drafts' = w.d /\ bound' = w.b
    /\ shown' = t /\ typed' = FALSE
    /\ Quiet /\ UNCHANGED <<boundId, tabs, active, persisted, adrift>>

(* The body.  Its OnChanged comes once the typing pauses. *)
TypeBody(t) ==
    /\ bound # Nowhere /\ t # shown
    /\ shown' = t /\ typed' = TRUE
    /\ mem' = mem
    /\ Quiet /\ UNCHANGED <<strip, bound, boundId, persisted, adrift>>
Pause ==
    /\ typed /\ typed' = FALSE
    /\ LET w == Written(shown) IN mem' = w.m /\ drafts' = w.d /\ bound' = w.b
    /\ Quiet /\ UNCHANGED <<tabs, active, boundId, shown, persisted, adrift>>

(* Faulty: also the tabs that were never loaded get a snapshot. *)
RefreshFaulty(T, c, M) ==
    [k \in DOMAIN T |->
        IF T[k].col = c /\ Located(M, T[k])
        THEN [T[k] EXCEPT !.snap = M[c].text[T[k].id]] ELSE T[k]]

(* refreshCleanSnapshots, of the collection c after its save *)
Refresh(T, c, M) ==
    [k \in DOMAIN T |->
        IF T[k].col = c /\ T[k].snap # NoText /\ Located(M, T[k])
        THEN [T[k] EXCEPT !.snap = M[c].text[T[k].id]] ELSE T[k]]

(* Faulty: the collection selected in the sidebar is saved. *)
SaveRequestFaulty(c) ==
    /\ bound # Nowhere /\ ~IsDraft(tabs[active])
    /\ row.node # NoNode /\ row.node.col \in DOMAIN mem
    /\ \E w \in Synced :
        /\ mem' = w.m /\ bound' = w.b
        /\ SavedAs(row.node.col, w.m)
        /\ tabs' = Refresh(tabs, tabs[active].col, w.m)
    /\ typed' = FALSE
    /\ UNCHANGED <<active, drafts, boundId, shown, persisted, adrift, undo, row>>

(* saveRequest, of the tree-backed request in the editor: c is the         *)
(* collection the editor's node id names.  (The stored form of a URL that  *)
(* was not edited is put back for the save: the same text up to Fold.)     *)
SaveRequest(c) ==
    /\ bound # Nowhere /\ ~IsDraft(tabs[active])
    /\ c = boundId.col /\ c \in DOMAIN mem
    /\ typed' = FALSE /\ UNCHANGED <<undo, row>>
    /\ \E w \in Synced :
        \/ /\ mem' = w.m /\ bound' = w.b
           /\ SavedAs(c, w.m)
           /\ tabs' = Refresh(tabs, tabs[active].col, w.m)
           /\ UNCHANGED <<active, drafts, boundId, shown, persisted, adrift>>
        \/ LoadAgain(w) /\ UNCHANGED disk

(* Save of the context menu shows the tab first. *)
SaveTab(i) ==
    /\ i \in DOMAIN tabs /\ i # active /\ ~IsDraft(tabs[i]) /\ Located(mem, tabs[i])
    /\ UNCHANGED <<undo, row>>
    /\ LET t == tabs[i]
           M == Put(mem, t.col, t.id, Fold[mem[t.col].text[t.id]])
           T == [tabs EXCEPT ![i] = Snapshot(@, M[t.col].text[t.id])]
       IN \/ Show(Refresh(T, t.col, M), i, M, drafts) /\ SavedAs(t.col, M)
          \/ /\ active' = i /\ tabs' = T
             /\ mem' = Loaded(DOMAIN mem) /\ bound' = Lost(M[t.col].text[t.id])
             /\ boundId' = NodeAt(M, t.col, t.id) /\ shown' = M[t.col].text[t.id]
             /\ adrift' = TRUE /\ typed' = FALSE
             /\ Persist(tabs', active')
             /\ UNCHANGED <<disk, drafts>>

(* A request that is added has an id no request had before. *)
IsFresh(c, id) ==
    /\ ~Has(mem[c], id)
    /\ undo # NoUndo => undo.id # id
    /\ IndexOf(tabs, c, id) = 0 /\ IndexOf(persisted.tabs, c, id) = 0

(* saveRequest, saveScratchTabAs and commitScratchTab: id is the new        *)
(* request's.                                                               *)
SaveDraft(c, id) ==
    LET t == tabs[active] IN
    /\ active > 0 /\ IsDraft(t) /\ bound # Nowhere
    /\ c \in DOMAIN mem /\ IsFresh(c, id)
    /\ UNCHANGED <<undo, row>>
    /\ \E w \in Synced :
        \/ LET M == [w.m EXCEPT ![c] = Insert(@, "root", Len(@.root) + 1, id, w.d[t.id])] IN
           /\ SavedAs(c, M)
           /\ Show([tabs EXCEPT ![active] = TreeTab(c, id)], active, M,
                   [w.d EXCEPT ![t.id] = Blank])
        \/ LoadAgain(w) /\ typed' = FALSE /\ UNCHANGED disk

(* ConfirmQuit, answered with Cancel, and validateBody write the editor     *)
(* back.                                                                    *)
WriteBack ==
    /\ bound # Nowhere
    /\ \E w \in Synced : mem' = w.m /\ drafts' = w.d /\ bound' = w.b
    /\ typed' = FALSE
    /\ Quiet /\ UNCHANGED <<tabs, active, boundId, shown, persisted, adrift>>
AskQuit == WriteBack
Validate == WriteBack

-----------------------------------------------------------------------------
(* The tree (items.go, treedrag.go). *)

(* What an operation on the tree M ends with: the tabs are reconciled and   *)
(* the row of the request it was about is selected, which opens its tab     *)
(* unless that row was the selected one before.                             *)
ReconcileAndSelect(M, c, id) ==
    LET n == NodeAt(M, c, id) IN
    IF n.kind = "root" /\ ~IsSelected(n)
    THEN Selects(n) /\ \E w \in Reconciled(M, shown, typed) : OpenTab(Kept(M), w.m, w.d, c, id)
    ELSE Reconcile(M, FALSE) /\ row' = [node |-> n, on |-> row.on]

(* addRequestUnder: a blank request at the end of the container *)
(* duplicateNode: a copy after the request                      *)
AddRequest(c, k, id) ==
    LET t == IF k > Len(mem[c].root) THEN Blank ELSE mem[c].text[mem[c].root[k]]
        M == [mem EXCEPT ![c] =
                Insert(@, "root", IF k > Len(@.root) THEN k ELSE k + 1, id, t)]
    IN
    /\ c \in DOMAIN mem /\ IsFresh(c, id) /\ k \in 1 .. Len(mem[c].root) + 1
    /\ \/ SavedAs(c, M) /\ ReconcileAndSelect(M, c, id) /\ UNCHANGED undo
       \/ FailedSave

(* renameNode; and, without a look at the tabs, addFolderUnder (a folder    *)
(* with no request in it), the settings of folders and collections, and     *)
(* environments: the collection is saved.                                   *)
SaveCollection(c) ==
    /\ c \in DOMAIN mem
    /\ \/ SavedAs(c, mem) /\ UNCHANGED <<undo, row>> /\ (Reconcile(mem, FALSE) \/ Same(mem))
       \/ FailedSave

(* MoveNode within the container, by applyDrop *)
Move(c, kind, from, to) ==
    LET M == [mem EXCEPT ![c] = Shift(@, kind, from, to)] IN
    /\ c \in DOMAIN mem /\ from \in DOMAIN mem[c][kind] /\ to \in DOMAIN mem[c][kind]
    /\ from # to
    /\ \/ /\ SavedAs(c, M) /\ UNCHANGED undo
          /\ ReconcileAndSelect(M, c, mem[c][kind][from])
       \/ FailedSave

(* deleteNode, of the selected row: the editor is cleared first when the    *)
(* request is the one in it.                                                *)
Delete ==
    LET c == row.node.col
        kind == row.node.kind
        k == row.node.pos
        doomed == boundId = row.node
    IN
    /\ row.on /\ c \in DOMAIN mem /\ k \in DOMAIN mem[c][kind]
    /\ LET id == mem[c][kind][k] IN
       \/ LET M == [mem EXCEPT ![c] = Taken(@, kind, k)] IN
          /\ SavedAs(c, M) /\ Reconcile(M, doomed)
          /\ undo' = [node |-> row.node, id |-> id, text |-> mem[c].text[id]]
          /\ row' = [row EXCEPT !.on = FALSE]
       \/ /\ undo' = NoUndo
          /\ mem' = Loaded(DOMAIN mem)
          /\ IF doomed THEN ClearEditor
             ELSE bound' = Detached(AsIs) /\ UNCHANGED <<boundId, shown, typed>>
          /\ adrift' = (tabs # <<>>)
          /\ UNCHANGED <<disk, strip, persisted, row>>

(* actionUndoDelete: the tabs are not reconciled, so that all that finds    *)
(* the editor's request again is the selection of the row.                  *)
Undo ==
    LET c == undo.node.col
        kind == undo.node.kind
        last == Len(mem[c][kind]) + 1
        k == IF undo.node.pos > last THEN last ELSE undo.node.pos
        M == [mem EXCEPT ![c] = Insert(@, kind, k, undo.id, undo.text)]
        n == [col |-> c, kind |-> kind, pos |-> k]
    IN
    /\ undo # NoUndo /\ c \in DOMAIN mem
    /\ undo' = NoUndo
    /\ \/ /\ SavedAs(c, M)
          /\ \/ kind = "root" /\ ~IsSelected(n) /\ OpenTab(tabs, M, drafts, c, undo.id)
             \/ /\ kind = "root" => IsSelected(n)
                /\ mem' = M
                /\ bound' \in {bound, IF bound.at = "slot" /\ bound.col = c
                                      THEN Detached(AsIs) ELSE bound}
                /\ adrift' = (tabs # <<>>)
                /\ UNCHANGED <<strip, boundId, shown, typed, persisted>>
          /\ row' = [node |-> n, on |-> ~IsSelected(n) \/ row.on]
       \/ LoadAgain(AsIs) /\ UNCHANGED <<typed, disk, row>>

-----------------------------------------------------------------------------
(* Collections and workspaces. *)
RemoveCollection(c) ==
    /\ c \in DOMAIN mem
    /\ Reconcile([x \in DOMAIN mem \ {c} |-> mem[x]], boundId # NoNode /\ boundId.col = c)
    /\ row' = IF row.node # NoNode /\ row.node.col = c
              THEN [node |-> NoNode, on |-> FALSE] ELSE row
    /\ UNCHANGED <<disk, undo>>

OpenCollection(c) ==
    /\ c \notin DOMAIN mem
    /\ mem' = [x \in DOMAIN mem \cup {c} |-> IF x = c THEN disk[c] ELSE mem[x]]
    /\ UNCHANGED <<strip, editor, persisted, adrift>> /\ Quiet

(* onWorkspaceChanged, to one that lists cs: all tabs are closed, and the   *)
(* config keeps them.                                                       *)
SwitchWorkspace(cs) ==
    /\ NoTabs([c \in cs |-> disk[c]], [d \in Drafts |-> Blank])
    /\ row' = [node |-> NoNode, on |-> FALSE]
    /\ UNCHANGED <<disk, undo, persisted>>

(* Deleting a workspace loads the active one again and clears the editor,   *)
(* under the open tabs.                                                     *)
DeleteWorkspace(cs) ==
    /\ mem' = Loaded(cs)
    /\ ClearEditor
    /\ adrift' = (tabs # <<>>)
    /\ UNCHANGED <<strip, persisted>> /\ Quiet

(* The program ends, by ConfirmQuit or a crash, and starts again:          *)
(* restoreTabs.                                                             *)
Restart ==
    LET M == [c \in DOMAIN mem |-> disk[c]]
        found == Pick(persisted.tabs,
                      {k \in DOMAIN persisted.tabs : Located(M, persisted.tabs[k])})
        T == [k \in DOMAIN found |-> TreeTab(found[k].col, found[k].id)]
        i == SelectInSeq(T, LAMBDA t : t.id = persisted.tabs[persisted.active].id)
        none == [d \in Drafts |-> Blank]
    IN
    /\ undo' = NoUndo /\ row' = [node |-> NoNode, on |-> FALSE]
    /\ UNCHANGED disk
    /\ \/ T # <<>> /\ Show(T, IF i = 0 THEN 1 ELSE i, M, none)
       \/ T = <<>> /\ NoTabs(M, none) /\ UNCHANGED <<persisted>>

-----------------------------------------------------------------------------
OfTabs ==
    \/ \E c \in Colls, id \in Ids : SelectRequest(c, id)
    \/ \E d \in Drafts, t \in Pasted \cup {Blank} : NewScratch(d, t)
    \/ \E i \in DOMAIN tabs :
        \/ Activate(i) \/ Close(i) \/ CloseOthers(i) \/ CloseRight(i)
        \/ \E j \in DOMAIN tabs : Drag(i, j)

OfEditor == \E t \in Texts : Edit(Fold[t]) \/ TypeBody(Fold[t])

OfTree ==
    \/ \E c \in Colls :
        \/ SaveCollection(c)
        \/ \E id \in Ids :
            \/ SaveDraft(c, id)
            \/ \E k \in 1 .. MaxTabs + 1 : AddRequest(c, k, id)
        \/ \E kind \in Kinds, i, j \in 1 .. MaxTabs + 1 : Move(c, kind, i, j)
    \/ Delete \/ Undo

OfCollections ==
    \/ \E c \in Colls : RemoveCollection(c) \/ OpenCollection(c)
    \/ \E cs \in Workspaces : SwitchWorkspace(cs) \/ DeleteWorkspace(cs)
    \/ Restart

FromEditor == (\E c \in Colls : SaveRequest(c)) \/ (\E i \in DOMAIN tabs : SaveTab(i))

(* History: requests whose unsaved edit (what was typed and is not written  *)
(* back yet is one, too) has had no loaded tab since it was made, and those *)
(* that other than by a save from the editor came to differ on disk from    *)
(* the clean snapshot of their tab (written).                               *)
HasTab(r) ==
    \E k \in DOMAIN tabs : tabs[k].col = r.col /\ tabs[k].id = r.id /\ tabs[k].snap # NoText
InSync(r) ==
    \A k \in DOMAIN tabs : LET t == tabs[k] IN
        t.col = r.col /\ t.id = r.id /\ t.snap # NoText /\ Has(disk[r.col], r.id)
            => Fold[t.snap] = Fold[disk[r.col].text[r.id]]
Edited(r) == Unsaved(mem, r.col, r.id) \/ Unsaved(Flushed.m, r.col, r.id)
Missed(written) ==
    {r \in Request :
        \/ Edited(r)' /\ (r \in missed \/ ~HasTab(r)')
        \/ ~InSync(r)' /\ r \in missed \cup written}

Next ==
    /\ \/ /\ OfTabs \/ AskQuit \/ Validate \/ Pause \/ \E c \in Colls : SelectCollection(c)
          /\ missed' = Missed({})
          /\ UNCHANGED changes
       \/ /\ changes < MaxChanges /\ changes' = changes + 1
          /\ \/ /\ OfEditor \/ FromEditor
                /\ missed' = Missed({})
             \/ /\ OfTree \/ OfCollections
                /\ missed' = Missed({r \in Request : disk'[r.col] # disk[r.col]})
    /\ reloaded' = {r \in Request : HasTab(r)' /\ (r \in reloaded \/ adrift')}

Spec == Init /\ [][Next]_vars

-----------------------------------------------------------------------------
(* The variables keep their types; the strip has no request twice, and the  *)
(* active tab is one of it.                                                 *)
TypeOK ==
    /\ DOMAIN mem \subseteq Colls /\ DOMAIN disk = Colls
    /\ \A c \in DOMAIN mem : ToSet(mem[c].root \o mem[c].folders) = DOMAIN mem[c].text
    /\ Len(tabs) <= MaxTabs
    /\ active \in DOMAIN tabs \/ (active = 0 /\ tabs = <<>>)
    /\ \A i, j \in DOMAIN tabs :
        tabs[i].col = tabs[j].col /\ tabs[i].id = tabs[j].id => i = j
    /\ drafts \in [Drafts -> Texts \cup {Blank}]
    /\ shown \in Texts \cup {Blank}
    /\ missed \subseteq Request

(* What the editor writes to is the request of the active tab, its node id  *)
(* is that request's, and it shows what the request says; however tabs,     *)
(* requests and collections come, go and move.  (Not after a reload or an   *)
(* undo, until a tab is shown again.)                                       *)
EditorOnActiveTab ==
    ~adrift =>
        IF tabs = <<>> THEN bound = Nowhere
        ELSE LET t == tabs[active] IN
            /\ Located(mem, t)
            /\ typed \/ shown = Live(mem, drafts, t)
            /\ IF IsDraft(t) THEN bound = OfDraft(t.id)
               ELSE bound = PlaceOf(mem, t.col, t.id) /\ boundId = NodeAt(mem, t.col, t.id)

(* An unsaved edit of a request that has a tab makes the quit guard ask, if *)
(* the tab was not closed since the edit, nor the collection saved from     *)
(* elsewhere with it.                                                       *)
QuitAsksForOpenEdits ==
    \A k \in DOMAIN tabs : LET t == tabs[k] IN
        ~IsDraft(t) /\ Unsaved(Flushed.m, t.col, t.id) /\ [col |-> t.col, id |-> t.id] \notin missed
            => Dirty(Flushed.m, Flushed.d, t)

(* The quit guard asks whenever an edit is unsaved, also one whose tab was  *)
(* closed (tabs.go on requestCloseTab).                                     *)
QuitCatchesEveryEdit ==
    (\E c \in DOMAIN mem : \E id \in DOMAIN mem[c].text : Unsaved(Flushed.m, c, id))
        => \E k \in DOMAIN tabs : Dirty(Flushed.m, Flushed.d, tabs[k])

(* Only an edit makes a tab ask: showing, closing, dragging or saving tabs, *)
(* or a change of the tree, does not.  (A reload under an edited tab does.) *)
OnlyEditsMakeDirty == [][
    \A i \in DOMAIN tabs, j \in DOMAIN tabs' :
        /\ tabs[i].col = tabs'[j].col /\ tabs[i].id = tabs'[j].id
        /\ Located(mem, tabs[i])
        /\ ~Dirty(mem, drafts, tabs[i]) /\ ~Dirty(Flushed.m, Flushed.d, tabs[i])
        /\ Dirty(Flushed.m, Flushed.d, tabs[j])'
        => \/ Edit(shown') \/ TypeBody(shown')
           \/ [col |-> tabs[i].col, id |-> tabs[i].id] \in reloaded']_vars

(* A save that reports success has put what the editor shows on disk, in    *)
(* the collection of the active tab's request.                              *)
SavesWhatIsShown ==
    \A c \in Colls : changes' # changes /\ SaveRequest(c) /\ adrift' = adrift =>
        LET t == tabs[active] IN
            Has(disk'[t.col], t.id) /\ Fold[disk'[t.col].text[t.id]] = Fold[shown]
SavedIsOnDisk == [][~adrift => SavesWhatIsShown]_vars

(* A scratch request with content goes only with its own tab, when the user *)
(* closes it or saves it into a collection, or with a change of workspace   *)
(* or the end of the program.  And a body that is typed gets into its       *)
(* request whatever is done with it next, unless the user shows another tab *)
(* or the same again before the typing has paused (activateTab does not     *)
(* look), types over it, closes this one, or a failed save drops it.         *)
Shows ==
    \/ \E c \in Colls, id \in Ids : SelectRequest(c, id)
    \/ \E d \in Drafts, t \in Pasted \cup {Blank} : NewScratch(d, t)
    \/ \E i \in DOMAIN tabs : Activate(i) \/ SaveTab(i)
    \/ Undo
DraftsAreKept == [][
    /\ \A d \in Drafts : IndexOf(tabs, NoColl, d) # 0 /\ IndexOf(tabs', NoColl, d) = 0 =>
        \/ OfTabs \/ Restart
        \/ \E c \in Colls, id \in Ids : SaveDraft(c, id)
        \/ \E cs \in Workspaces : SwitchWorkspace(cs)
    /\ typed /\ ~typed' /\ ~adrift /\ ~adrift' => LET t == tabs[active] IN
        \/ Located(mem', t) /\ Live(mem', drafts', t) = shown
        \/ Edit(shown')
        \/ IndexOf(tabs', t.col, t.id) = 0 \/ Shows \/ Restart]_vars

(* What a restart finds in the config is the strip without scratch tabs,    *)
(* with the active tab; until a workspace is left.                          *)
RestartFindsTabs ==
    LET T == Pick(tabs, InTree(tabs))
        IsTab(p, t) == p.col = t.col /\ p.id = t.id
    IN  tabs # <<>> =>
            /\ Len(persisted.tabs) = Len(T)
            /\ \A k \in DOMAIN T : IsTab(persisted.tabs[k], T[k])
            /\ IsDraft(tabs[active]) \/ IsTab(persisted.tabs[persisted.active], tabs[active])
=============================================================================
