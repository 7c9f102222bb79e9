--------------------------- MODULE WorkbenchProofs ---------------------------
(***************************************************************************)
(* The invariants of the workbench, with the facts of WorkbenchLemmas.     *)
(***************************************************************************)
EXTENDS WorkbenchLemmas

-----------------------------------------------------------------------------
(* The inductive invariant: the trees are well formed, the window is (with  *)
(* the editor on the active tab, unless the tree was loaded under it), what *)
(* can be undone is not in a tree, and the session has the requests that    *)
(* the disk has.                                                            *)
Stored(E) == Held(E) /\ DOMAIN E = Colls
SameIds(M, E) == \A c \in DOMAIN M : DOMAIN M[c].text = DOMAIN E[c].text
Gone(u, E) ==
    u # NoUndo =>
        /\ u.node \in Node /\ u.node.pos > 0 /\ u.id \in Ids /\ u.text \in Text
        /\ ~Has(E[u.node.col], u.id)
Selected(r) ==
    /\ r \in [node : Node \cup {NoNode}, on : BOOLEAN]
    /\ r.on => r.node \in Node

Good ==
    /\ Held(mem) /\ Stored(disk) /\ SameIds(mem, disk)
    /\ Gone(undo, disk) /\ Selected(row) /\ Window

(* It holds at the start.                                                   *)
LEMMA GoodInit ==
    ASSUME Init
    PROVE  Good
<1>1. disk \in [Colls -> Collection] /\ \A c \in Colls : EachOnce(disk[c])
    BY WorkbenchAssumption DEF Init
<1>2. Stored(disk) /\ mem = disk
    <2>1. \A c \in Colls : GoodColl(disk[c])
        BY <1>1 DEF GoodColl
    <2>2. QED
        BY <1>1, <2>1 DEF Stored, Held, Init
<1>3. Held(mem) /\ SameIds(mem, disk)
    BY <1>2 DEF Stored, SameIds
<1>4. Gone(undo, disk) /\ Selected(row)
    BY DEF Init, Gone, Selected
<1>5. Window
    <2>1. Strip(<<>>) /\ Remembered(<<>>)
        BY WorkbenchAssumption DEF Strip, Remembered, NoneTwice
    <2>2. [d \in Drafts |-> Blank] \in Desk /\ Blank \in Text
        BY DEF Desk, Text
    <2>3. QED
        BY <2>1, <2>2 DEF Init, Window
<1>6. QED
    BY <1>2, <1>3, <1>4, <1>5 DEF Good

-----------------------------------------------------------------------------
(* What an action has to keep.                                              *)

(* Trees with the same requests.                                            *)
LEMMA LikeIds ==
    ASSUME NEW M, NEW N, Like(M, N), NEW E, SameIds(M, E)
    PROVE  SameIds(N, E)
BY DEF Like, SameIds

(* Nothing but the window and the texts changes.                            *)
LEMMA QuietKeeps ==
    ASSUME Good, disk' = disk, undo' = undo, Selected(row'), Window', Held(mem'), Like(mem, mem')
    PROVE  Good'
<1>1. SameIds(mem', disk')
    BY LikeIds DEF Good
<1>2. QED
    BY <1>1 DEF Good

(* A collection is saved.                                                   *)
LEMMA SavedProperties ==
    ASSUME Good, NEW c \in DOMAIN mem, NEW M, Held(M), DOMAIN M = DOMAIN mem,
           \A x \in DOMAIN mem : x # c => DOMAIN M[x].text = DOMAIN mem[x].text,
           SavedAs(c, M)
    PROVE  /\ Stored(disk') /\ SameIds(M, disk') /\ c \in Colls
           /\ \A x \in Colls : disk'[x] = IF x = c THEN M[c] ELSE disk[x]
<1>1. GoodColl(M[c]) /\ c \in Colls
    BY DEF Held
<1>2. Stored(disk) /\ SameIds(mem, disk)
    BY DEF Good
<1>3. Held(disk') /\ Replaced(disk, disk', c, M[c])
    <2>1. disk' = [disk EXCEPT ![c] = M[c]]
        BY DEF SavedAs
    <2>2. QED
        BY <1>1, <1>2, <2>1, ReplaceTree DEF Stored
<1>4. Stored(disk') /\ \A x \in Colls : disk'[x] = IF x = c THEN M[c] ELSE disk[x]
    BY <1>2, <1>3 DEF Stored, Replaced
<1>5. SameIds(M, disk')
    <2>1. ASSUME NEW x \in DOMAIN M PROVE DOMAIN M[x].text = DOMAIN disk'[x].text
        <3>1. x \in Colls
            BY DEF Held
        <3>2. CASE x = c
            BY <1>4, <3>1, <3>2
        <3>3. CASE x # c
            BY <1>2, <1>4, <3>1, <3>3 DEF SameIds
        <3>4. QED
            BY <3>2, <3>3
    <2>2. QED
        BY <2>1 DEF SameIds
<1>6. QED
    BY <1>1, <1>4, <1>5

(* What was deleted stays away from the disk when what is saved does not    *)
(* have it.                                                                 *)
LEMMA StaysGone ==
    ASSUME NEW E, NEW F, NEW u, Gone(u, E), NEW c,
           \A x \in Colls : x # c => F[x] = E[x],
           u # NoUndo /\ u.node.col = c => ~Has(F[c], u.id)
    PROVE  Gone(u, F)
<1>1. u # NoUndo => u.node.col \in Colls
    BY DEF Gone, Node
<1>2. QED
    BY <1>1 DEF Gone

(* The trees are loaded again. *)
LEMMA ReloadKeeps ==
    ASSUME Good, disk' = disk, undo' = undo, Selected(row'), Window', Held(mem'),
           \A c \in DOMAIN mem' : mem'[c] = disk[c]
    PROVE  Good'
BY DEF Good, SameIds

-----------------------------------------------------------------------------
(* The tabs.                                                                *)
LEMMA GoodParts ==
    ASSUME Good
    PROVE  /\ Held(mem) /\ Held(disk) /\ DOMAIN disk = Colls /\ DOMAIN mem \subseteq Colls
           /\ Window /\ Strip(tabs) /\ drafts \in Desk /\ shown \in Text
           /\ typed \in BOOLEAN /\ adrift \in BOOLEAN
           /\ Selected(row) /\ Gone(undo, disk) /\ SameIds(mem, disk)
BY DEF Good, Stored, Held, Window

(* A row of the sidebar is selected.                                        *)
LEMMA SelectsNode ==
    ASSUME NEW n \in Node, NEW on \in BOOLEAN
    PROVE  Selected([node |-> n, on |-> on])
BY DEF Selected

(* A request is selected in the sidebar, which opens or shows its tab.      *)
LEMMA GoodSelectRequest ==
    ASSUME Good, NEW c \in Colls, NEW id \in Ids, SelectRequest(c, id)
    PROVE  Good'
<1>1. /\ c \in DOMAIN mem /\ Has(mem[c], id) /\ OpenTab(tabs, mem, drafts, c, id)
      /\ disk' = disk /\ undo' = undo /\ row' = [node |-> NodeAt(mem, c, id), on |-> TRUE]
    BY DEF SelectRequest, Selects
<1>2. Window' /\ Held(mem') /\ Like(mem, mem')
    BY <1>1, GoodParts, OpenTabProperties
<1>3. NodeAt(mem, c, id) \in Node
    BY <1>1, GoodParts, NodeProperties
<1>4. Selected(row')
    BY <1>1, <1>3, SelectsNode
<1>5. QED
    BY <1>1, <1>2, <1>4, QuietKeeps

(* The row of a collection is selected: nothing else changes.               *)
LEMMA GoodSelectCollection ==
    ASSUME Good, NEW c \in Colls, SelectCollection(c)
    PROVE  Good'
<1>1. /\ mem' = mem /\ disk' = disk /\ undo' = undo /\ row' = [node |-> Root(c), on |-> TRUE]
      /\ UNCHANGED <<tabs, active, drafts, bound, boundId, shown, typed, persisted, adrift>>
    BY DEF SelectCollection, Selects, strip, editor
<1>2. Root(c) \in Node
    BY DEF Root, Node, Kinds
<1>3. Selected(row')
    BY <1>1, <1>2, SelectsNode
<1>4. Window'
    BY <1>1, GoodParts DEF Window
<1>5. QED
    BY <1>1, <1>3, <1>4 DEF Good

(* A tab of the strip is shown, and nothing else happens.                   *)
LEMMA GoodShow ==
    ASSUME Good, NEW T, Strip(T), NEW i \in DOMAIN T, NEW D \in Desk, Show(T, i, mem, D), Quiet
    PROVE  Good'
<1>1. Window' /\ Held(mem') /\ Like(mem, mem')
    BY GoodParts, ShowProperties
<1>2. disk' = disk /\ undo' = undo /\ row' = row
    BY DEF Quiet
<1>3. QED
    BY <1>1, <1>2, GoodParts, QuietKeeps

(* A scratch tab is opened.                                                 *)
LEMMA GoodNewScratch ==
    ASSUME Good, NEW d \in Drafts, NEW t \in Pasted \cup {Blank}, NewScratch(d, t)
    PROVE  Good'
<1>1. /\ IndexOf(tabs, NoColl, d) = 0 /\ Len(tabs) < MaxTabs /\ Quiet
      /\ Show(Append(tabs, DraftTab(d)), Len(tabs) + 1, mem, [drafts EXCEPT ![d] = Fold[t]])
    BY DEF NewScratch
<1>2. DraftTab(d) \in Tab /\ DraftTab(d).col = NoColl /\ DraftTab(d).id = d
    BY DEF DraftTab, Tab, Clean
<1>3. \A k \in DOMAIN tabs : ~(tabs[k].col = NoColl /\ tabs[k].id = d)
    BY <1>1, GoodParts, StripParts, IndexProperties
<1>4. Strip(Append(tabs, DraftTab(d))) /\ Len(tabs) + 1 \in DOMAIN Append(tabs, DraftTab(d))
    BY <1>1, <1>2, <1>3, GoodParts, AppendStrip
<1>5. [drafts EXCEPT ![d] = Fold[t]] \in Desk
    <2>1. t \in Text /\ Fold \in [Text -> Text]
        BY WorkbenchAssumption DEF Text
    <2>2. QED
        BY <2>1, GoodParts DEF Desk
<1>6. QED
    BY <1>1, <1>4, <1>5, GoodShow

(* A tab is shown.                                                          *)
LEMMA GoodActivate ==
    ASSUME Good, NEW i \in DOMAIN tabs, Activate(i)
    PROVE  Good'
<1>1. Show(tabs, i, mem, drafts) /\ Quiet
    BY DEF Activate
<1>2. QED
    BY <1>1, GoodParts, GoodShow

(* The drafts that are left when tabs are closed.                           *)
LEMMA WithoutProperties ==
    ASSUME Good, NEW victims \in SUBSET DOMAIN tabs
    PROVE  /\ Without(victims) \in Desk
           /\ tabs # <<>> /\ active \notin victims /\ IsDraft(tabs[active]) =>
                Without(victims)[tabs[active].id] = drafts[tabs[active].id]
<1>1. drafts \in Desk /\ Strip(tabs)
    BY GoodParts
<1>2. Without(victims) \in Desk
    BY <1>1 DEF Without, Desk, Text
<1>3. ASSUME tabs # <<>>, active \notin victims, IsDraft(tabs[active])
      PROVE  Without(victims)[tabs[active].id] = drafts[tabs[active].id]
    <2> DEFINE d == tabs[active].id
    <2>1. active \in DOMAIN tabs /\ tabs[active] \in Tab
        BY <1>1, <1>3, GoodParts, StripParts DEF Window
    <2>2. d \in Drafts /\ tabs[active].col = NoColl
        BY <1>3, <2>1, TabKinds DEF IsDraft
    <2>3. ASSUME NEW k \in victims, tabs[k] = DraftTab(d) PROVE FALSE
        <3>1. tabs[k].col = tabs[active].col /\ tabs[k].id = tabs[active].id /\ k \in DOMAIN tabs
            BY <2>2, <2>3 DEF DraftTab
        <3>2. k = active
            BY <1>1, <2>1, <3>1, StripParts DEF NoneTwice
        <3>3. QED
            BY <1>3, <3>2
    <2> HIDE DEF d
    <2>4. Without(victims)[d] = drafts[d]
        BY <2>2, <2>3 DEF Without
    <2>5. QED
        BY <2>4 DEF d
<1>4. QED
    BY <1>2, <1>3

(* The strip changes, and the editor stays on its tab.                      *)
LEMMA GoodRedraw ==
    ASSUME Good, tabs # <<>>, NEW D \in Desk,
           IsDraft(tabs[active]) => D[tabs[active].id] = drafts[tabs[active].id],
           Strip(tabs'), active' \in DOMAIN tabs', tabs'[active'] = tabs[active],
           Redraw(D), Persist(tabs', active'), Quiet
    PROVE  Good'
<1>1. Window' /\ Held(mem') /\ Like(mem, mem')
    BY GoodParts, RedrawProperties
<1>2. disk' = disk /\ undo' = undo /\ row' = row
    BY DEF Quiet
<1>3. QED
    BY <1>1, <1>2, GoodParts, QuietKeeps

(* The strip without a tab: the tab that takes over is of it, and the       *)
(* active one is found again.                                               *)
LEMMA ClosedStrip ==
    ASSUME Good, NEW i \in DOMAIN tabs, NEW kept, kept = RemoveAt(tabs, i)
    PROVE  /\ Strip(kept) /\ Open(kept) /\ tabs # <<>>
           /\ kept # <<>> => (IF i > Len(kept) THEN Len(kept) ELSE i) \in DOMAIN kept
           /\ i # active => LET a == IF active > i THEN active - 1 ELSE active IN
                a \in DOMAIN kept /\ kept[a] = tabs[active]
<1>1. Strip(kept)
    BY GoodParts, RemoveStrip
<1>2. PICK n \in Nat : n = Len(tabs) /\ i \in 1 .. n /\ DOMAIN tabs = 1 .. n
    BY GoodParts, StripParts
<1>3. /\ Len(kept) = n - 1 /\ DOMAIN kept = 1 .. n - 1
      /\ \A k \in 1 .. n - 1 : kept[k] = IF k < i THEN tabs[k] ELSE tabs[k + 1]
    <2>1. tabs \in Seq(Tab)
        BY GoodParts, StripParts
    <2>2. /\ kept \in Seq(Tab) /\ Len(kept) = n - 1
          /\ \A k \in 1 .. n - 1 : kept[k] = IF k < i THEN tabs[k] ELSE tabs[k + 1]
        BY <1>2, <2>1, RemoveAtProperties
    <2>3. QED
        BY <2>2, LenProperties
<1>4. Open(kept)
    <2>1. \A k \in 1 .. n - 1 : k \in DOMAIN tabs /\ k + 1 \in DOMAIN tabs
        BY <1>2
    <2>2. QED
        BY <1>3, <2>1 DEF Open
<1>5. tabs # <<>>
    BY <1>2, GoodParts, StripParts
<1>6. ASSUME kept # <<>> PROVE (IF i > Len(kept) THEN Len(kept) ELSE i) \in DOMAIN kept
    <2>1. n - 1 # 0
        BY <1>1, <1>3, <1>6, StripParts
    <2>2. QED
        BY <1>2, <1>3, <2>1
<1>7. ASSUME i # active
      PROVE  LET a == IF active > i THEN active - 1 ELSE active IN
                a \in DOMAIN kept /\ kept[a] = tabs[active]
    <2>1. active \in 1 .. n
        BY <1>2, <1>5, GoodParts DEF Window
    <2>2. CASE active > i
        <3>1. active - 1 \in 1 .. n - 1 /\ ~(active - 1 < i) /\ active - 1 + 1 = active
            BY <1>2, <2>1, <2>2
        <3>2. QED
            BY <1>3, <2>2, <3>1
    <2>3. CASE ~(active > i)
        <3>1. active \in 1 .. n - 1 /\ active < i
            BY <1>2, <1>7, <2>1, <2>3
        <3>2. QED
            BY <1>3, <2>3, <3>1
    <2>4. QED
        BY <2>2, <2>3
<1>8. QED
    BY <1>1, <1>4, <1>5, <1>6, <1>7

(* A tab is closed; if it was the active one, its neighbour is shown.       *)
LEMMA GoodClose ==
    ASSUME Good, NEW i \in DOMAIN tabs, Close(i)
    PROVE  Good'
<1> DEFINE D == Without({i})
<1>1. PICK kept : kept = RemoveAt(tabs, i)
    OBVIOUS
<1>2. /\ Strip(kept) /\ tabs # <<>>
      /\ kept # <<>> => (IF i > Len(kept) THEN Len(kept) ELSE i) \in DOMAIN kept
      /\ i # active => LET a == IF active > i THEN active - 1 ELSE active IN
                a \in DOMAIN kept /\ kept[a] = tabs[active]
    BY <1>1, ClosedStrip
<1>3. D \in Desk /\ (tabs # <<>> /\ active # i /\ IsDraft(tabs[active]) =>
                        D[tabs[active].id] = drafts[tabs[active].id])
    BY WithoutProperties
<1>4. /\ Quiet
      /\ \/ kept = <<>> /\ NoTabs(mem, D) /\ Persist(<<>>, 0)
         \/ kept # <<>> /\ i = active /\ Show(kept, IF i > Len(kept) THEN Len(kept) ELSE i, mem, D)
         \/ /\ kept # <<>> /\ i # active
            /\ tabs' = kept /\ active' = (IF active > i THEN active - 1 ELSE active)
            /\ Redraw(D) /\ Persist(kept, active')
    BY <1>1 DEF Close
<1> HIDE DEF D
<1>5. CASE kept = <<>> /\ NoTabs(mem, D) /\ Persist(<<>>, 0)
    <2>1. Remembered(persisted'.tabs)
        BY <1>2, <1>5, PersistProperties
    <2>2. Window' /\ Held(mem') /\ Like(mem, mem')
        BY <1>3, <1>5, <2>1, GoodParts, EmptyWindow
    <2>3. QED
        BY <1>4, <2>2, GoodParts, QuietKeeps DEF Quiet
<1>6. CASE kept # <<>> /\ i = active /\ Show(kept, IF i > Len(kept) THEN Len(kept) ELSE i, mem, D)
    BY <1>2, <1>3, <1>4, <1>6, GoodShow
<1>7. CASE /\ kept # <<>> /\ i # active
           /\ tabs' = kept /\ active' = (IF active > i THEN active - 1 ELSE active)
           /\ Redraw(D) /\ Persist(kept, active')
    <2>1. active' \in DOMAIN tabs' /\ tabs'[active'] = tabs[active]
        BY <1>2, <1>7
    <2>2. QED
        BY <1>2, <1>3, <1>4, <1>7, <2>1, GoodRedraw
<1>8. QED
    BY <1>4, <1>5, <1>6, <1>7

(* The strip without several tabs.                                          *)
LEMMA KeptStrip ==
    ASSUME Good, NEW victims \in SUBSET DOMAIN tabs, NEW kept,
           kept = Pick(tabs, DOMAIN tabs \ victims)
    PROVE  /\ Strip(kept) /\ Open(kept)
           /\ \A k \in DOMAIN tabs \ victims : LET a == IndexOf(kept, tabs[k].col, tabs[k].id) IN
                a \in DOMAIN kept /\ kept[a] = tabs[k]
<1> DEFINE at == DOMAIN tabs \ victims
<1>1. at \in SUBSET DOMAIN tabs /\ kept = Pick(tabs, at)
    OBVIOUS
<1> HIDE DEF at
<1>2. /\ Strip(kept) /\ \A k \in at : \E l \in DOMAIN kept : kept[l] = tabs[k]
      /\ \A l \in DOMAIN kept : \E k \in at : kept[l] = tabs[k]
    <2>1. Strip(tabs)
        BY GoodParts
    <2> DEFINE P == Pick(tabs, at)
    <2>2. /\ Strip(P) /\ \A k \in at : \E l \in DOMAIN P : P[l] = tabs[k]
          /\ \A l \in DOMAIN P : \E k \in at : P[l] = tabs[k]
        BY <1>1, <2>1, PickStrip
    <2>3. kept = P
        BY <1>1
    <2> HIDE DEF P
    <2>4. QED
        BY <2>2, <2>3
<1>3. Open(kept)
    BY <1>1, <1>2 DEF Open
<1>4. \A k \in at : /\ IndexOf(kept, tabs[k].col, tabs[k].id) \in DOMAIN kept
                    /\ kept[IndexOf(kept, tabs[k].col, tabs[k].id)] = tabs[k]
    BY <1>2, IndexInStrip
<1>5. at = DOMAIN tabs \ victims
    BY DEF at
<1>6. QED
    BY <1>2, <1>3, <1>4, <1>5

(* Several tabs are closed at once.                                         *)
LEMMA GoodCloseTabs ==
    ASSUME Good, NEW victims \in SUBSET DOMAIN tabs, NEW anchor \in DOMAIN tabs \ victims,
           CloseTabs(victims, anchor), Quiet
    PROVE  Good'
<1> DEFINE D == Without(victims)
<1>1. PICK kept : kept = Pick(tabs, DOMAIN tabs \ victims)
    OBVIOUS
<1>2. /\ Strip(kept)
      /\ \A k \in DOMAIN tabs \ victims : LET a == IndexOf(kept, tabs[k].col, tabs[k].id) IN
                a \in DOMAIN kept /\ kept[a] = tabs[k]
    BY <1>1, KeptStrip
<1>3. D \in Desk /\ (tabs # <<>> /\ active \notin victims /\ IsDraft(tabs[active]) =>
                        D[tabs[active].id] = drafts[tabs[active].id])
    BY WithoutProperties
<1>4. CASE active \in victims
    <2>1. Show(kept, IndexOf(kept, tabs[anchor].col, tabs[anchor].id), mem, D)
        BY <1>1, <1>4 DEF CloseTabs
    <2> HIDE DEF D
    <2>2. QED
        BY <1>2, <1>3, <2>1, GoodShow
<1>5. CASE active \notin victims
    <2>1. /\ tabs' = kept /\ active' = IndexOf(kept, tabs[active].col, tabs[active].id)
          /\ Redraw(D) /\ Persist(kept, active')
        BY <1>1, <1>5 DEF CloseTabs
    <2>2. tabs # <<>>
        BY GoodParts, StripParts
    <2>3. active \in DOMAIN tabs \ victims
        BY <1>5, <2>2, GoodParts DEF Window
    <2>4. active' \in DOMAIN tabs' /\ tabs'[active'] = tabs[active]
        BY <1>2, <2>1, <2>3
    <2> HIDE DEF D
    <2>5. QED
        BY <1>2, <1>3, <1>5, <2>1, <2>2, <2>4, GoodRedraw
<1>6. QED
    BY <1>4, <1>5

(* All tabs but one are closed.                                             *)
LEMMA GoodCloseOthers ==
    ASSUME Good, NEW i \in DOMAIN tabs, CloseOthers(i)
    PROVE  Good'
<1>1. CloseTabs(DOMAIN tabs \ {i}, i) /\ Quiet
    BY DEF CloseOthers
<1>2. i \in DOMAIN tabs \ (DOMAIN tabs \ {i})
    OBVIOUS
<1>3. QED
    BY <1>1, <1>2, GoodCloseTabs

(* The tabs to the right are closed.                                        *)
LEMMA GoodCloseRight ==
    ASSUME Good, NEW i \in DOMAIN tabs, CloseRight(i)
    PROVE  Good'
<1> DEFINE victims == {k \in DOMAIN tabs : k > i}
<1>1. CloseTabs(victims, i) /\ Quiet
    BY DEF CloseRight
<1>2. i \in DOMAIN tabs \ victims
    <2>1. i \in Nat
        BY GoodParts, StripParts
    <2>2. QED
        BY <2>1
<1>3. victims \in SUBSET DOMAIN tabs
    OBVIOUS
<1> HIDE DEF victims
<1>4. QED
    BY <1>1, <1>2, <1>3, GoodCloseTabs

(* A tab is dragged to another place of the strip: the active one is found  *)
(* again.                                                                   *)
LEMMA DraggedStrip ==
    ASSUME Good, NEW i \in DOMAIN tabs, NEW j \in DOMAIN tabs, Drag(i, j)
    PROVE  /\ Strip(tabs') /\ Open(tabs') /\ tabs # <<>>
           /\ active' \in DOMAIN tabs' /\ tabs'[active'] = tabs[active]
<1>1. tabs' = Moved(tabs, i, j) /\ active' = IndexOf(tabs', tabs[active].col, tabs[active].id)
    BY DEF Drag
<1>2. Strip(tabs') /\ \A k \in DOMAIN tabs : \E l \in DOMAIN tabs' : tabs'[l] = tabs[k]
    BY <1>1, GoodParts, MovedStrip
<1>3. tabs # <<>> /\ active \in DOMAIN tabs
    <2>1. tabs # <<>>
        BY GoodParts, StripParts
    <2>2. QED
        BY <2>1, GoodParts DEF Window
<1>4. active' \in DOMAIN tabs' /\ tabs'[active'] = tabs[active]
    BY <1>1, <1>2, <1>3, IndexInStrip
<1>5. Open(tabs')
    <2>1. tabs \in Seq(Tab) /\ DOMAIN tabs = 1 .. Len(tabs) /\ Len(tabs) \in Nat
        BY GoodParts, StripParts
    <2>2. ToSet(tabs') = ToSet(tabs)
        BY <1>1, <2>1, MovedOnce
    <2>3. QED
        BY <2>2 DEF Open, ToSet
<1>6. QED
    BY <1>2, <1>3, <1>4, <1>5

(* A tab is dragged.                                                        *)
LEMMA GoodDrag ==
    ASSUME Good, NEW i \in DOMAIN tabs, NEW j \in DOMAIN tabs, Drag(i, j)
    PROVE  Good'
<1>1. Persist(tabs', active') /\ Redraw(drafts) /\ Quiet
    BY DEF Drag
<1>2. QED
    BY <1>1, DraggedStrip, GoodParts, GoodRedraw

-----------------------------------------------------------------------------
(* Editing and saving.                                                      *)

(* Where the editor can write, there is a tab.                              *)
LEMMA BoundHasTab ==
    ASSUME Good, bound # Nowhere
    PROVE  tabs # <<>> /\ active \in DOMAIN tabs /\ tabs[active] \in Tab
<1>1. tabs # <<>> /\ active \in DOMAIN tabs
    BY DEF Good, Window
<1>2. QED
    BY <1>1, GoodParts, StripParts

(* Something is written, or not.                                            *)
LEMMA GoodWrite ==
    ASSUME Good, NEW w, Wrote(mem, w), mem' = w.m, drafts' = w.d, bound' = w.b,
           shown' \in Text, typed' \in BOOLEAN, tabs = <<>> => w.b = Nowhere,
           tabs # <<>> /\ ~adrift => Follows(w.m, w.d, tabs[active], w.b, boundId, shown', typed'),
           Quiet, UNCHANGED <<boundId, tabs, active, persisted, adrift>>
    PROVE  Good'
<1>1. Held(mem') /\ Like(mem, mem') /\ drafts' \in Desk
    BY DEF Wrote
<1>2. Window
    BY GoodParts
<1>3. Window'
    BY <1>1, <1>2 DEF Window
<1>4. QED
    BY <1>1, <1>3, GoodParts, QuietKeeps DEF Quiet

(* A field is edited.                                                       *)
LEMMA GoodEdit ==
    ASSUME Good, NEW t \in Text, Edit(t)
    PROVE  Good'
<1>1. PICK w : w = WrittenTo(mem, drafts, bound, t)
    OBVIOUS
<1>2. /\ bound # Nowhere /\ mem' = w.m /\ drafts' = w.d /\ bound' = w.b
      /\ shown' = t /\ typed' = FALSE
      /\ Quiet /\ UNCHANGED <<boundId, tabs, active, persisted, adrift>>
    BY <1>1 DEF Edit, Written
<1>3. Wrote(mem, w)
    BY <1>1, GoodParts, WrittenProperties
<1>4. tabs # <<>> /\ active \in DOMAIN tabs /\ tabs[active] \in Tab
    BY <1>2, BoundHasTab
<1>5. ASSUME ~adrift PROVE Follows(w.m, w.d, tabs[active], w.b, boundId, t, FALSE)
    <2>1. Follows(mem, drafts, tabs[active], bound, boundId, shown, typed)
        BY <1>4, <1>5, GoodParts DEF Window
    <2>2. QED
        BY <1>1, <1>4, <2>1, GoodParts, WriteFollows
<1>6. QED
    BY <1>2, <1>3, <1>4, <1>5, GoodWrite

(* The body is typed: nothing is written back yet.                          *)
LEMMA GoodTypeBody ==
    ASSUME Good, NEW t \in Text, TypeBody(t)
    PROVE  Good'
<1>1. /\ bound # Nowhere /\ shown' = t /\ typed' = TRUE /\ mem' = mem
      /\ tabs' = tabs /\ active' = active /\ drafts' = drafts /\ bound' = bound
      /\ boundId' = boundId /\ persisted' = persisted /\ adrift' = adrift /\ Quiet
    BY DEF TypeBody, strip
<1>2. Window /\ tabs # <<>>
    BY <1>1, GoodParts, BoundHasTab
<1>3. ~adrift => Follows(mem, drafts, tabs[active], bound, boundId, t, TRUE)
    BY <1>2 DEF Window, Follows
<1>4. Window'
    BY <1>1, <1>2, <1>3 DEF Window
<1>5. QED
    BY <1>1, <1>4, GoodParts, LikeItself, QuietKeeps DEF Quiet

(* The typing pauses.                                                       *)
LEMMA GoodPause ==
    ASSUME Good, Pause
    PROVE  Good'
<1>1. PICK w : w = WrittenTo(mem, drafts, bound, shown)
    OBVIOUS
<1>2. /\ mem' = w.m /\ drafts' = w.d /\ bound' = w.b /\ shown' = shown /\ typed' = FALSE
      /\ Quiet /\ UNCHANGED <<boundId, tabs, active, persisted, adrift>>
    BY <1>1 DEF Pause, Written
<1>3. Wrote(mem, w)
    BY <1>1, GoodParts, WrittenProperties
<1>4. ASSUME tabs # <<>>, ~adrift PROVE Follows(w.m, w.d, tabs[active], w.b, boundId, shown, FALSE)
    <2>1. Follows(mem, drafts, tabs[active], bound, boundId, shown, typed) /\ active \in DOMAIN tabs
        BY <1>4, GoodParts DEF Window
    <2>2. tabs[active] \in Tab
        BY <2>1, GoodParts, StripParts
    <2>3. QED
        BY <1>1, <2>1, <2>2, GoodParts, WriteFollows
<1>5. tabs = <<>> => w.b = Nowhere
    <2>1. tabs = <<>> => bound.at = "nowhere" /\ bound = Nowhere
        BY GoodParts DEF Window, Nowhere
    <2>2. QED
        BY <1>1, <2>1 DEF WrittenTo
<1>6. QED
    BY <1>2, <1>3, <1>4, <1>5, GoodParts, GoodWrite

(* The editor is written back. *)
LEMMA SyncedGood ==
    ASSUME Good, bound # Nowhere, NEW w \in Synced
    PROVE  /\ Wrote(mem, w)
           /\ ~adrift => Follows(w.m, w.d, tabs[active], w.b, boundId, shown, FALSE)
<1>1. w \in SyncedTo(mem, drafts, bound, shown, typed)
    BY DEF Synced
<1>2. Wrote(mem, w)
    BY <1>1, GoodParts, SyncedProperties
<1>3. tabs # <<>> /\ active \in DOMAIN tabs /\ tabs[active] \in Tab
    BY BoundHasTab
<1>4. ASSUME ~adrift PROVE Follows(w.m, w.d, tabs[active], w.b, boundId, shown, FALSE)
    <2>1. Follows(mem, drafts, tabs[active], bound, boundId, shown, typed)
        BY <1>3, <1>4, GoodParts DEF Window
    <2>2. QED
        BY <1>1, <1>3, <2>1, GoodParts, SyncFollows
<1>5. QED
    BY <1>2, <1>4

(* The quit guard and the validation of the body write it back.             *)
LEMMA GoodWriteBack ==
    ASSUME Good, WriteBack
    PROVE  Good'
<1>1. PICK w \in Synced : mem' = w.m /\ drafts' = w.d /\ bound' = w.b
    BY DEF WriteBack
<1>2. bound # Nowhere /\ shown' = shown /\ typed' = FALSE
      /\ Quiet /\ UNCHANGED <<boundId, tabs, active, persisted, adrift>>
    BY DEF WriteBack
<1>3. Wrote(mem, w) /\ (~adrift => Follows(w.m, w.d, tabs[active], w.b, boundId, shown, FALSE))
    BY <1>2, SyncedGood
<1>4. tabs # <<>>
    BY <1>2, BoundHasTab
<1>5. QED
    BY <1>1, <1>2, <1>3, <1>4, GoodParts, GoodWrite

(* A collection is saved, as it is in the tree M.                           *)
LEMMA SavedKeeps ==
    ASSUME Good, NEW c \in DOMAIN mem, NEW M, Held(M), DOMAIN M = DOMAIN mem,
           \A x \in DOMAIN mem : x # c => DOMAIN M[x].text = DOMAIN mem[x].text,
           SavedAs(c, M),
           \/ Gone(undo', disk')
           \/ undo' = undo /\ (undo # NoUndo /\ undo.node.col = c => ~Has(M[c], undo.id)),
           Selected(row'), Window', Held(mem'), Like(M, mem')
    PROVE  Good'
<1>1. /\ Stored(disk') /\ SameIds(M, disk') /\ c \in Colls
      /\ \A x \in Colls : disk'[x] = IF x = c THEN M[c] ELSE disk[x]
    BY SavedProperties
<1>2. SameIds(mem', disk')
    BY <1>1, LikeIds
<1>3. Gone(undo', disk')
    <2>1. Gone(undo, disk)
        BY GoodParts
    <2>2. ASSUME undo' = undo, undo # NoUndo /\ undo.node.col = c => ~Has(M[c], undo.id)
          PROVE  Gone(undo', disk')
        BY <1>1, <2>1, <2>2, StaysGone
    <2>3. QED
        BY <2>2
<1>4. QED
    BY <1>1, <1>2, <1>3 DEF Good

(* The requests are the same as before.                                     *)
LEMMA SavedSame ==
    ASSUME Good, NEW c \in DOMAIN mem, NEW M, Held(M), Like(mem, M), SavedAs(c, M), undo' = undo,
           Selected(row'), Window', Held(mem'), Like(M, mem')
    PROVE  Good'
<1>1. DOMAIN M = DOMAIN mem /\ \A x \in DOMAIN mem : DOMAIN M[x].text = DOMAIN mem[x].text
    BY DEF Like
<1>2. undo # NoUndo /\ undo.node.col = c => ~Has(M[c], undo.id)
    BY <1>1, GoodParts DEF Gone, SameIds, Has
<1>3. QED
    BY <1>1, <1>2, SavedKeeps

(* A save fails, and the trees are loaded again.                            *)
LEMMA GoodLoadAgain ==
    ASSUME Good, NEW w, w.d \in Desk, tabs = <<>> => w.b = Nowhere, typed' \in BOOLEAN,
           LoadAgain(w), disk' = disk, undo' \in {undo, NoUndo}, row' = row
    PROVE  Good'
<1>1. Window' /\ Held(mem') /\ DOMAIN mem' = DOMAIN mem /\ \A c \in DOMAIN mem : mem'[c] = disk[c]
    BY GoodParts, LoadAgainProperties
<1>2. SameIds(mem', disk')
    BY <1>1 DEF SameIds
<1>3. Gone(undo', disk')
    BY GoodParts DEF Gone
<1>4. QED
    BY <1>1, <1>2, <1>3 DEF Good

(* Nothing was written before.                                              *)
LEMMA AsIsProperties ==
    ASSUME Good
    PROVE  AsIs.d \in Desk /\ AsIs.m = mem /\ AsIs.b = bound /\ (tabs = <<>> => AsIs.b = Nowhere)
<1>1. AsIs.d = drafts /\ AsIs.m = mem /\ AsIs.b = bound
    BY DEF AsIs
<1>2. QED
    BY <1>1, GoodParts DEF Window

(* The save at the end of an operation on the tree fails.                   *)
LEMMA GoodFailedSave ==
    ASSUME Good, FailedSave
    PROVE  Good'
<1>1. LoadAgain(AsIs) /\ typed' = typed /\ disk' = disk /\ undo' = undo /\ row' = row
    BY DEF FailedSave
<1>2. QED
    BY <1>1, GoodParts, AsIsProperties, GoodLoadAgain

(* The request in the editor is saved.                                      *)
LEMMA GoodSaveRequest ==
    ASSUME Good, NEW c \in Colls, SaveRequest(c)
    PROVE  Good'
<1> DEFINE t == tabs[active]
<1>1. /\ bound # Nowhere /\ ~IsDraft(t) /\ c \in DOMAIN mem
      /\ typed' = FALSE /\ undo' = undo /\ row' = row
    BY DEF SaveRequest
<1>2. PICK w \in Synced :
        \/ /\ mem' = w.m /\ bound' = w.b /\ SavedAs(c, w.m)
           /\ tabs' = Refresh(tabs, t.col, w.m)
           /\ UNCHANGED <<active, drafts, boundId, shown, persisted, adrift>>
        \/ LoadAgain(w) /\ disk' = disk
    BY DEF SaveRequest
<1>3. Wrote(mem, w) /\ (~adrift => Follows(w.m, w.d, t, w.b, boundId, shown, FALSE))
    BY <1>1, SyncedGood
<1>4. tabs # <<>> /\ active \in DOMAIN tabs /\ t \in Tab /\ t.col # NoColl
    BY <1>1, BoundHasTab DEF IsDraft
<1>5. CASE LoadAgain(w) /\ disk' = disk
    BY <1>1, <1>3, <1>4, <1>5, GoodLoadAgain DEF Wrote
<1>6. CASE /\ mem' = w.m /\ bound' = w.b /\ SavedAs(c, w.m)
           /\ tabs' = Refresh(tabs, t.col, w.m)
           /\ UNCHANGED <<active, drafts, boundId, shown, persisted, adrift>>
    <2> HIDE DEF t
    <2>1. Held(w.m) /\ Like(mem, w.m)
        BY <1>3 DEF Wrote
    <2>2. SameTabs(tabs, tabs') /\ DOMAIN tabs' = DOMAIN tabs
        BY <1>4, <1>6, <2>1, GoodParts, RefreshStrip
    <2>3. Strip(tabs') /\ tabs' # <<>> /\ active' \in DOMAIN tabs'
        BY <1>4, <1>6, <2>2, GoodParts, SameStrip
    <2>4. tabs'[active].col = t.col /\ tabs'[active].id = t.id
        BY <1>4, <2>2, GoodParts, StripParts DEF SameTabs, t
    <2>5. ~adrift => Follows(w.m, drafts, t, w.b, boundId, shown, FALSE)
        BY <1>1, <1>3 DEF Follows, Live, t
    <2>6. ~adrift => Follows(mem', drafts', tabs'[active'], bound', boundId', shown', typed')
        BY <1>1, <1>6, <2>4, <2>5, FollowsSame
    <2>7. Finds(persisted', tabs', active')
        <3>1. Finds(persisted, tabs, active)
            BY <1>4, GoodParts DEF Window
        <3>2. QED
            BY <1>4, <1>6, <2>2, <3>1, GoodParts, FindsSame
    <2>8. Window'
        BY <1>1, <1>6, <2>3, <2>6, <2>7, GoodParts DEF Window
    <2>9. QED
        BY <1>1, <1>6, <2>1, <2>8, GoodParts, LikeItself, SavedSame
<1>7. QED
    BY <1>2, <1>5, <1>6

(* The request of another tab is saved, which is shown first.               *)
LEMMA GoodSaveTab ==
    ASSUME Good, NEW i \in DOMAIN tabs, SaveTab(i)
    PROVE  Good'
<1> DEFINE t == tabs[i]
           M == Put(mem, t.col, t.id, Fold[mem[t.col].text[t.id]])
           T == [tabs EXCEPT ![i] = Snapshot(@, M[t.col].text[t.id])]
<1>1. /\ ~IsDraft(t) /\ Located(mem, t) /\ undo' = undo /\ row' = row
      /\ \/ Show(Refresh(T, t.col, M), i, M, drafts) /\ SavedAs(t.col, M)
         \/ /\ active' = i /\ tabs' = T
            /\ mem' = Loaded(DOMAIN mem) /\ bound' = Lost(M[t.col].text[t.id])
            /\ boundId' = NodeAt(M, t.col, t.id) /\ shown' = M[t.col].text[t.id]
            /\ adrift' = TRUE /\ typed' = FALSE
            /\ Persist(tabs', active')
            /\ disk' = disk /\ drafts' = drafts
    BY DEF SaveTab
<1>2. t.col \in DOMAIN mem /\ Has(mem[t.col], t.id) /\ t.col # NoColl
    BY <1>1 DEF Located, IsDraft
<1>3. Fold[mem[t.col].text[t.id]] \in Text
    BY <1>2, GoodParts, TextProperties
<1> HIDE DEF t
<1>4. Held(M) /\ Like(mem, M)
    BY <1>3, GoodParts, PutTree
<1> HIDE DEF M
<1>5. M[t.col].text[t.id] \in Text
    BY <1>2, <1>4, TextProperties DEF Like, Has
<1>6. SameTabs(tabs, T) /\ DOMAIN T = DOMAIN tabs
    BY <1>5, GoodParts, SnapshotStrip
<1> HIDE DEF T
<1>7. Strip(T)
    BY <1>6, GoodParts, SameStrip
<1>8. CASE Show(Refresh(T, t.col, M), i, M, drafts) /\ SavedAs(t.col, M)
    <2>1. SameTabs(T, Refresh(T, t.col, M)) /\ DOMAIN Refresh(T, t.col, M) = DOMAIN tabs
        BY <1>2, <1>4, <1>6, <1>7, RefreshStrip
    <2>2. Strip(Refresh(T, t.col, M))
        BY <1>7, <2>1, SameStrip
    <2>3. Window' /\ Held(mem') /\ Like(M, mem')
        BY <1>4, <1>8, <2>1, <2>2, GoodParts, ShowProperties
    <2>4. QED
        BY <1>1, <1>2, <1>4, <1>8, <2>3, GoodParts, SavedSame
<1>9. CASE /\ active' = i /\ tabs' = T
           /\ mem' = Loaded(DOMAIN mem) /\ bound' = Lost(M[t.col].text[t.id])
           /\ boundId' = NodeAt(M, t.col, t.id) /\ shown' = M[t.col].text[t.id]
           /\ adrift' = TRUE /\ typed' = FALSE
           /\ Persist(tabs', active')
           /\ disk' = disk /\ drafts' = drafts
    <2>1. Remembered(persisted'.tabs) /\ Finds(persisted', tabs', active') /\ tabs' # <<>>
          /\ active' \in DOMAIN tabs'
        BY <1>6, <1>7, <1>9, PersistProperties
    <2>2. Window'
        BY <1>5, <1>7, <1>9, <2>1, GoodParts DEF Window
    <2>3. Held(mem') /\ \A x \in DOMAIN mem' : mem'[x] = disk[x]
        <3>1. DOMAIN mem \in SUBSET Colls /\ \A x \in DOMAIN mem : GoodColl(disk[x])
            BY GoodParts DEF Held
        <3>2. mem' = [x \in DOMAIN mem |-> disk[x]]
            BY <1>9 DEF Loaded
        <3>3. mem' = [x \in DOMAIN mem |-> mem'[x]] /\ \A x \in DOMAIN mem : mem'[x] = disk[x]
            BY <3>2
        <3>4. QED
            BY <3>1, <3>3, MakeTree
    <2>4. QED
        BY <1>1, <1>9, <2>2, <2>3, GoodParts, ReloadKeeps
<1>10. QED
    BY <1>1, <1>8, <1>9

(* A scratch request becomes one of a collection.                           *)
LEMMA GoodSaveDraft ==
    ASSUME Good, NEW c \in Colls, NEW id \in Ids, SaveDraft(c, id)
    PROVE  Good'
<1> DEFINE t == tabs[active]
<1>1. /\ IsDraft(t) /\ bound # Nowhere /\ c \in DOMAIN mem /\ IsFresh(c, id)
      /\ undo' = undo /\ row' = row
    BY DEF SaveDraft
<1>2. PICK w \in Synced :
        \/ LET M == [w.m EXCEPT ![c] =
                        Insert(w.m[c], "root", Len(w.m[c].root) + 1, id, w.d[t.id])] IN
           /\ SavedAs(c, M)
           /\ Show([tabs EXCEPT ![active] = TreeTab(c, id)], active, M,
                   [w.d EXCEPT ![t.id] = Blank])
        \/ LoadAgain(w) /\ typed' = FALSE /\ disk' = disk
    BY DEF SaveDraft
<1>3. Wrote(mem, w)
    BY <1>1, SyncedGood
<1>4. tabs # <<>> /\ active \in DOMAIN tabs /\ t \in Tab
    BY <1>1, BoundHasTab
<1>5. CASE LoadAgain(w) /\ typed' = FALSE /\ disk' = disk
    BY <1>1, <1>3, <1>4, <1>5, GoodLoadAgain DEF Wrote
<1> DEFINE M == [w.m EXCEPT ![c] = Insert(w.m[c], "root", Len(w.m[c].root) + 1, id, w.d[t.id])]
           T == [tabs EXCEPT ![active] = TreeTab(c, id)]
           D == [w.d EXCEPT ![t.id] = Blank]
<1>6. CASE SavedAs(c, M) /\ Show(T, active, M, D)
    <2>1. Held(w.m) /\ Like(mem, w.m) /\ w.d \in Desk
        BY <1>3 DEF Wrote
    <2>2. c \in DOMAIN w.m /\ ~Has(w.m[c], id) /\ t.id \in Drafts /\ w.d[t.id] \in Text
        <3>1. c \in DOMAIN w.m /\ ~Has(w.m[c], id)
            BY <1>1, <2>1 DEF Like, IsFresh, Has
        <3>2. t.id \in Drafts
            BY <1>1, <1>4, TabKinds
        <3>3. QED
            BY <2>1, <3>1, <3>2 DEF Desk
    <2>3. Len(w.m[c].root) + 1 \in 1 .. Len(w.m[c]["root"]) + 1 /\ "root" \in Kinds
        <3>1. Len(w.m[c].root) \in Nat
            BY <2>1, <2>2, CollParts DEF Held
        <3>2. QED
            BY <3>1 DEF Kinds
    <2>4. /\ Held(M) /\ DOMAIN M = DOMAIN w.m
          /\ DOMAIN M[c].text = DOMAIN w.m[c].text \cup {id}
          /\ \A x \in DOMAIN w.m : x # c => M[x] = w.m[x]
        BY <2>1, <2>2, <2>3, AddTree
    <2>5. Strip(T) /\ DOMAIN T = DOMAIN tabs
        <3>1. TreeTab(c, id) \in Tab /\ TreeTab(c, id).col = c /\ TreeTab(c, id).id = id
            BY DEF TreeTab, Tab, Clean
        <3>2. \A k \in DOMAIN tabs : ~(tabs[k].col = c /\ tabs[k].id = id)
            BY <1>1, GoodParts, StripParts, IndexProperties DEF IsFresh
        <3>3. QED
            BY <1>4, <3>1, <3>2, GoodParts, RetabStrip
    <2>6. D \in Desk
        BY <2>1 DEF Desk, Text
    <2> HIDE DEF M, T, D
    <2>7. Window' /\ Held(mem') /\ Like(M, mem')
        BY <1>4, <1>6, <2>4, <2>5, <2>6, ShowProperties
    <2>8. undo # NoUndo /\ undo.node.col = c => ~Has(M[c], undo.id)
        BY <1>1, <2>1, <2>4, GoodParts DEF Gone, SameIds, Has, Like, IsFresh
    <2>9. /\ DOMAIN M = DOMAIN mem
          /\ \A x \in DOMAIN mem : x # c => DOMAIN M[x].text = DOMAIN mem[x].text
        BY <2>1, <2>4 DEF Like
    <2>10. QED
        BY <1>1, <1>6, <2>4, <2>7, <2>8, <2>9, GoodParts, SavedKeeps
<1>7. QED
    BY <1>2, <1>5, <1>6

-----------------------------------------------------------------------------
(* The tree.                                                                *)

(* What an operation on the tree ends with.                                 *)
LEMMA ReconcileAndSelectProperties ==
    ASSUME Good, NEW M, Held(M), Agrees(M, mem), NEW c \in DOMAIN M, NEW id, Has(M[c], id),
           ReconcileAndSelect(M, c, id)
    PROVE  Window' /\ Held(mem') /\ Like(M, mem') /\ Selected(row')
<1> DEFINE n == NodeAt(M, c, id)
<1>1. n \in Node /\ c \in Colls /\ id \in Ids
    BY NodeProperties
<1>2. CASE n.kind = "root" /\ ~IsSelected(n)
    <2>1. row' = [node |-> n, on |-> TRUE]
        BY <1>2 DEF ReconcileAndSelect, Selects
    <2>2. PICK w \in Reconciled(M, shown, typed) : OpenTab(Kept(M), w.m, w.d, c, id)
        BY <1>2 DEF ReconcileAndSelect
    <2> HIDE DEF n
    <2>3. Wrote(M, w)
        <3>1. \/ \E b : w \in SyncedTo(M, drafts, b, shown, typed)
              \/ w = [m |-> M, d |-> drafts, b |-> bound]
            BY <2>2 DEF Reconciled
        <3>2. CASE \E b : w \in SyncedTo(M, drafts, b, shown, typed)
            BY <3>2, GoodParts, SyncedProperties
        <3>3. CASE w = [m |-> M, d |-> drafts, b |-> bound]
            BY <3>3, GoodParts, LikeItself DEF Wrote
        <3>4. QED
            BY <3>1, <3>2, <3>3
    <2>4. Strip(Kept(M))
        BY GoodParts, KeptProperties
    <2>5. Window' /\ Held(mem') /\ Like(w.m, mem')
        BY <1>1, <2>2, <2>3, <2>4, OpenTabProperties DEF Wrote
    <2>6. Like(M, mem')
        BY <2>3, <2>5 DEF Wrote, Like
    <2>7. QED
        BY <1>1, <2>1, <2>5, <2>6, SelectsNode
<1>3. CASE ~(n.kind = "root" /\ ~IsSelected(n))
    <2>1. Reconcile(M, FALSE) /\ row' = [node |-> n, on |-> row.on]
        BY <1>3 DEF ReconcileAndSelect
    <2>2. row.on \in BOOLEAN
        BY GoodParts DEF Selected
    <2> HIDE DEF n
    <2>3. Window' /\ Held(mem') /\ Like(M, mem')
        BY <2>1, GoodParts, ReconcileProperties
    <2>4. QED
        BY <1>1, <2>1, <2>2, <2>3, SelectsNode
<1>4. QED
    BY <1>2, <1>3

(* Other collections are as before. *)
OthersSame(M, c) == DOMAIN M = DOMAIN mem /\ \A x \in DOMAIN mem : x # c => M[x] = mem[x]

(* The trees M have all requests that memory has, and say the same. *)
Grows(M) ==
    /\ Agrees(M, mem)
    /\ \A x \in DOMAIN mem : x \in DOMAIN M /\ DOMAIN mem[x].text \subseteq DOMAIN M[x].text

(* An operation makes M of the tree, saves c, and ends with its request id; *)
(* or the save fails.                                                       *)
Changes(M, c, id) ==
    /\ c \in DOMAIN mem /\ Held(M) /\ Agrees(M, mem) /\ OthersSame(M, c) /\ Has(M[c], id)
    /\ undo # NoUndo /\ undo.node.col = c => ~Has(M[c], undo.id)
    /\ \/ SavedAs(c, M) /\ ReconcileAndSelect(M, c, id) /\ undo' = undo
       \/ FailedSave

(* A request is added, or a copy of one. *)
LEMMA AddRequestChanges ==
    ASSUME Good, NEW c \in Colls, NEW k, NEW id \in Ids, AddRequest(c, k, id)
    PROVE  \E M : Changes(M, c, id)
<1> DEFINE t == IF k > Len(mem[c].root) THEN Blank ELSE mem[c].text[mem[c].root[k]]
           p == IF k > Len(mem[c].root) THEN k ELSE k + 1
           M == [mem EXCEPT ![c] = Insert(mem[c], "root", p, id, t)]
<1>1. /\ c \in DOMAIN mem /\ IsFresh(c, id) /\ k \in 1 .. Len(mem[c].root) + 1
      /\ \/ SavedAs(c, M) /\ ReconcileAndSelect(M, c, id) /\ undo' = undo
         \/ FailedSave
    BY DEF AddRequest
<1>2. "root" \in Kinds /\ GoodColl(mem[c]) /\ Len(mem[c].root) \in Nat
      /\ DOMAIN mem[c].root = 1 .. Len(mem[c].root)
    BY <1>1, GoodParts, CollParts DEF Kinds, Held
<1>3. t \in Text
    <2>1. CASE k > Len(mem[c].root)
        BY <2>1 DEF Text
    <2>2. CASE ~(k > Len(mem[c].root))
        <3>1. k \in DOMAIN mem[c]["root"]
            BY <1>1, <1>2, <2>2
        <3>2. Has(mem[c], mem[c]["root"][k])
            BY <1>2, <3>1, AtPosition
        <3>3. QED
            BY <1>1, <2>2, <3>2, GoodParts, TextProperties
    <2>3. QED
        BY <2>1, <2>2
<1>4. p \in 1 .. Len(mem[c]["root"]) + 1
    BY <1>1, <1>2
<1>5. ~Has(mem[c], id)
    BY <1>1 DEF IsFresh
<1> HIDE DEF t, p
<1>6. /\ Held(M) /\ DOMAIN M = DOMAIN mem /\ Agrees(M, mem) /\ Has(M[c], id)
      /\ DOMAIN M[c].text = DOMAIN mem[c].text \cup {id}
      /\ \A x \in DOMAIN mem : x # c => M[x] = mem[x]
    BY <1>1, <1>2, <1>3, <1>4, <1>5, GoodParts, AddTree
<1> HIDE DEF M
<1>7. undo # NoUndo /\ undo.node.col = c => ~Has(M[c], undo.id)
    BY <1>1, <1>6, GoodParts DEF Gone, SameIds, Has, IsFresh
<1>8. QED
    BY <1>1, <1>6, <1>7 DEF Changes, OthersSame

(* A request moves within its container. *)
LEMMA MoveChanges ==
    ASSUME Good, NEW c \in Colls, NEW kind \in Kinds, NEW from, NEW to, Move(c, kind, from, to)
    PROVE  \E M, id : Changes(M, c, id)
<1> DEFINE M == [mem EXCEPT ![c] = Shift(mem[c], kind, from, to)]
           id == mem[c][kind][from]
<1>1. /\ c \in DOMAIN mem /\ from \in DOMAIN mem[c][kind] /\ to \in DOMAIN mem[c][kind]
      /\ \/ SavedAs(c, M) /\ undo' = undo /\ ReconcileAndSelect(M, c, id)
         \/ FailedSave
    BY DEF Move
<1>2. Has(mem[c], id)
    BY <1>1, GoodParts, AtPosition DEF Held
<1>3. /\ Held(M) /\ DOMAIN M = DOMAIN mem /\ Agrees(M, mem)
      /\ \A x \in DOMAIN mem : M[x].text = mem[x].text
    BY <1>1, GoodParts, ShiftTree
<1>4. \A x \in DOMAIN mem : x # c => M[x] = mem[x]
    OBVIOUS
<1> HIDE DEF M, id
<1>5. Has(M[c], id)
    BY <1>1, <1>2, <1>3 DEF Has
<1>6. undo # NoUndo /\ undo.node.col = c => ~Has(M[c], undo.id)
    BY <1>1, <1>3, GoodParts DEF Gone, SameIds, Has
<1>7. QED
    BY <1>1, <1>3, <1>4, <1>5, <1>6 DEF Changes, OthersSame

(* Both keep the invariant. *)
LEMMA GoodChange ==
    ASSUME Good, NEW M, NEW c \in Colls, NEW id, Changes(M, c, id)
    PROVE  Good'
<1>1. /\ c \in DOMAIN mem /\ Held(M) /\ Agrees(M, mem) /\ Has(M[c], id)
      /\ DOMAIN M = DOMAIN mem /\ \A x \in DOMAIN mem : x # c => M[x] = mem[x]
      /\ undo # NoUndo /\ undo.node.col = c => ~Has(M[c], undo.id)
    BY DEF Changes, OthersSame
<1>2. CASE SavedAs(c, M) /\ ReconcileAndSelect(M, c, id) /\ undo' = undo
    <2>1. Window' /\ Held(mem') /\ Like(M, mem') /\ Selected(row')
        BY <1>1, <1>2, ReconcileAndSelectProperties
    <2>2. QED
        BY <1>1, <1>2, <2>1, SavedKeeps
<1>3. QED
    BY <1>2, GoodFailedSave DEF Changes

(* A collection is saved as it is. *)
LEMMA GoodSaveCollection ==
    ASSUME Good, NEW c \in Colls, SaveCollection(c)
    PROVE  Good'
<1>1. CASE FailedSave
    BY <1>1, GoodFailedSave
<1>2. ASSUME SavedAs(c, mem), c \in DOMAIN mem, undo' = undo, row' = row,
             Reconcile(mem, FALSE) \/ Same(mem)
      PROVE  Good'
    <2>1. Agrees(mem, mem) /\ Like(mem, mem)
        BY LikeItself DEF Agrees
    <2>2. CASE Reconcile(mem, FALSE)
        <3>1. Window' /\ Held(mem') /\ Like(mem, mem')
            BY <2>1, <2>2, GoodParts, ReconcileProperties
        <3>2. QED
            BY <1>2, <2>1, <3>1, GoodParts, SavedSame
    <2>3. CASE Same(mem)
        <3>1. mem' = mem /\ UNCHANGED <<tabs, active, drafts, bound, boundId, shown, typed,
                                        persisted, adrift>>
            BY <2>3 DEF Same, strip, editor
        <3>2. Window'
            BY <3>1, GoodParts DEF Window
        <3>3. QED
            BY <1>2, <2>1, <3>1, <3>2, GoodParts, SavedSame
    <2>4. QED
        BY <1>2, <2>2, <2>3
<1>3. QED
    BY <1>1, <1>2 DEF SaveCollection

(* Trees are loaded again under the open tabs.                              *)
LEMMA GoodReload ==
    ASSUME Good, NEW cs \in SUBSET Colls, mem' = [c \in cs |-> disk[c]], disk' = disk,
           Gone(undo', disk), Selected(row'), shown' \in Text, typed' \in BOOLEAN,
           adrift' = (tabs # <<>>), tabs = <<>> => bound' = Nowhere,
           UNCHANGED <<tabs, active, drafts, persisted>>
    PROVE  Good'
<1>1. \A c \in cs : mem'[c] = disk[c] /\ GoodColl(disk[c])
    BY GoodParts DEF Held
<1>2. Held(mem') /\ DOMAIN mem' = cs
    <2>1. mem' = [c \in cs |-> mem'[c]]
        BY <1>1
    <2>2. QED
        BY <1>1, <2>1, MakeTree
<1>3. SameIds(mem', disk')
    BY <1>1, <1>2 DEF SameIds
<1>4. Window'
    BY GoodParts DEF Window
<1>5. QED
    BY <1>2, <1>3, <1>4, GoodParts DEF Good

(* The tabs are reconciled over the trees M; the editor was cleared before  *)
(* only if the active tab's request is not in M, or it is adrift.           *)
Reconciles(M, cleared) ==
    /\ Reconcile(M, cleared) /\ cleared \in BOOLEAN /\ (cleared => boundId # NoNode)
    /\ cleared /\ tabs # <<>> => adrift \/ ~Located(M, tabs[active])

(* The trees are loaded again after a delete, and the editor with them.     *)
DeleteFails ==
    /\ undo' = NoUndo /\ UNCHANGED <<disk, row>>
    /\ \/ LoadAgain(AsIs) /\ typed' = typed
       \/ /\ mem' = Loaded(DOMAIN mem) /\ ClearEditor /\ adrift' = (tabs # <<>>)
          /\ UNCHANGED <<strip, persisted>>

(* A delete makes M of the tree, by taking the request id out of c; or its  *)
(* save fails.                                                              *)
Deletes(M, c, id) ==
    /\ c \in DOMAIN mem /\ Held(M) /\ Agrees(M, mem) /\ OthersSame(M, c)
    /\ \/ /\ SavedAs(c, M) /\ Reconciles(M, boundId = row.node)
          /\ undo' = [node |-> row.node, id |-> id, text |-> mem[c].text[id]]
          /\ Gone(undo', disk') /\ Selected(row')
       \/ DeleteFails

(* The selected request is deleted; the editor was cleared first if it was  *)
(* the one in it.                                                           *)
LEMMA DeleteDeletes ==
    ASSUME Good, Delete
    PROVE  \E M, c, id : Deletes(M, c, id)
<1> DEFINE c == row.node.col
           kind == row.node.kind
           k == row.node.pos
           doomed == boundId = row.node
           id == mem[c][kind][k]
           M == [mem EXCEPT ![c] = Taken(mem[c], kind, k)]
<1>1. /\ row.on /\ c \in DOMAIN mem /\ k \in DOMAIN mem[c][kind]
      /\ \/ /\ SavedAs(c, M) /\ Reconcile(M, doomed)
            /\ undo' = [node |-> row.node, id |-> id, text |-> mem[c].text[id]]
            /\ row' = [row EXCEPT !.on = FALSE]
         \/ /\ undo' = NoUndo
            /\ mem' = Loaded(DOMAIN mem)
            /\ IF doomed THEN ClearEditor
               ELSE bound' = Detached(AsIs) /\ UNCHANGED <<boundId, shown, typed>>
            /\ adrift' = (tabs # <<>>)
            /\ UNCHANGED <<disk, strip, persisted, row>>
    BY DEF Delete
<1>2. row.node \in Node /\ row \in [node : Node \cup {NoNode}, on : BOOLEAN]
    BY <1>1, GoodParts DEF Selected
<1>3. c \in Colls /\ kind \in Kinds /\ row.node = [col |-> c, kind |-> kind, pos |-> k]
    BY <1>2 DEF Node
<1>4. /\ id \in Ids /\ Has(mem[c], id) /\ Position(mem[c], id) = [kind |-> kind, pos |-> k]
      /\ GoodColl(mem[c])
    BY <1>1, <1>3, GoodParts, AtPosition DEF Held
<1>5. /\ Held(M) /\ DOMAIN M = DOMAIN mem /\ Agrees(M, mem) /\ ~Has(M[c], id)
      /\ \A x \in DOMAIN mem : x # c => M[x] = mem[x]
    BY <1>1, <1>3, GoodParts, TakeTree
<1>6. k > 0
    <2>1. k \in 1 .. Len(mem[c][kind]) /\ Len(mem[c][kind]) \in Nat
        BY <1>1, <1>3, <1>4, KindList
    <2>2. QED
        BY <2>1
<1>7. mem[c].text[id] \in Text
    BY <1>1, <1>4, GoodParts, TextProperties
<1> HIDE DEF id, M
<1>8. CASE /\ SavedAs(c, M) /\ Reconcile(M, doomed)
           /\ undo' = [node |-> row.node, id |-> id, text |-> mem[c].text[id]]
           /\ row' = [row EXCEPT !.on = FALSE]
    <2>1. ASSUME doomed, tabs # <<>>, ~adrift PROVE ~Located(M, tabs[active])
        <3> DEFINE t == tabs[active]
        <3>1. Follows(mem, drafts, t, bound, boundId, shown, typed)
            BY <2>1, GoodParts DEF Window
        <3>2. ~IsDraft(t)
            BY <1>2, <2>1, <3>1, WorkbenchAssumption DEF Follows
        <3>3. /\ t.col \in DOMAIN mem /\ Has(mem[t.col], t.id)
              /\ NodeAt(mem, t.col, t.id) = row.node
            BY <2>1, <3>1, <3>2 DEF Follows, Located
        <3> HIDE DEF t
        <3>4. t.col = c
            BY <3>3, GoodParts, NodeProperties
        <3>5. t.id = id
            <4>1. mem[c][kind][k] = t.id
                BY <3>3, <3>4, GoodParts, NodeProperties
            <4>2. QED
                BY <4>1 DEF id
        <3>6. QED
            BY <1>5, <3>2, <3>4, <3>5 DEF Located, t
    <2>2. Reconciles(M, doomed)
        <3>1. doomed => boundId # NoNode
            BY <1>2, WorkbenchAssumption
        <3> HIDE DEF doomed
        <3>2. doomed \in BOOLEAN
            BY DEF doomed
        <3>3. QED
            BY <1>8, <2>1, <3>1, <3>2, GoodParts DEF Reconciles
    <2> HIDE DEF kind, k
    <2>3. \A x \in Colls : disk'[x] = IF x = c THEN M[c] ELSE disk[x]
        BY <1>1, <1>5, <1>8, SavedProperties
    <2>4. undo'.node = row.node /\ undo'.id = id /\ undo'.text = mem[c].text[id]
        BY <1>8
    <2>5. Gone(undo', disk')
        <3>1. row.node.col = c /\ row.node.pos = k
            BY DEF c, k
        <3>2. QED
            BY <1>2, <1>3, <1>4, <1>5, <1>6, <1>7, <2>3, <2>4, <3>1 DEF Gone
    <2>6. Selected(row')
        BY <1>2, <1>8 DEF Selected
    <2>7. QED
        BY <1>1, <1>5, <1>8, <2>2, <2>5, <2>6 DEF Deletes, OthersSame
<1>9. CASE /\ undo' = NoUndo
           /\ mem' = Loaded(DOMAIN mem)
           /\ IF doomed THEN ClearEditor
              ELSE bound' = Detached(AsIs) /\ UNCHANGED <<boundId, shown, typed>>
           /\ adrift' = (tabs # <<>>)
           /\ UNCHANGED <<disk, strip, persisted, row>>
    <2>1. DeleteFails
        BY <1>9 DEF DeleteFails, LoadAgain, AsIs, strip
    <2>2. QED
        BY <1>1, <1>5, <2>1 DEF Deletes, OthersSame
<1>10. QED
    BY <1>1, <1>8, <1>9

(* It keeps the invariant. *)
LEMMA GoodDelete ==
    ASSUME Good, NEW M, NEW c, NEW id, Deletes(M, c, id)
    PROVE  Good'
<1>1. /\ c \in DOMAIN mem /\ Held(M) /\ Agrees(M, mem)
      /\ DOMAIN M = DOMAIN mem /\ \A x \in DOMAIN mem : x # c => M[x] = mem[x]
    BY DEF Deletes, OthersSame
<1>2. CASE /\ SavedAs(c, M) /\ Reconciles(M, boundId = row.node)
           /\ Gone(undo', disk') /\ Selected(row')
    <2>1. Window' /\ Held(mem') /\ Like(M, mem')
        <3> DEFINE doomed == boundId = row.node
        <3>1. /\ Reconcile(M, doomed) /\ doomed \in BOOLEAN
              /\ doomed /\ tabs # <<>> => adrift \/ ~Located(M, tabs[active])
            BY <1>2 DEF Reconciles
        <3> HIDE DEF doomed
        <3>2. QED
            BY <1>1, <3>1, GoodParts, ReconcileProperties
    <2>2. QED
        BY <1>1, <1>2, <2>1, SavedKeeps
<1>3. CASE DeleteFails
    <2>1. tabs = <<>> => bound = Nowhere /\ AsIs.b = bound
        BY GoodParts, AsIsProperties DEF Window
    <2>2. tabs = <<>> => bound' = Nowhere
        BY <1>3, <2>1 DEF DeleteFails, LoadAgain, ClearEditor, Detached, Nowhere
    <2>3. shown' \in Text /\ typed' \in BOOLEAN
        BY <1>3, GoodParts DEF DeleteFails, LoadAgain, ClearEditor, Text
    <2>4. mem' = [x \in DOMAIN mem |-> disk[x]] /\ DOMAIN mem \in SUBSET Colls
        BY <1>3, GoodParts DEF DeleteFails, LoadAgain, Loaded
    <2>5. UNCHANGED <<tabs, active, drafts, persisted>> /\ Selected(row') /\ Gone(undo', disk)
          /\ disk' = disk /\ adrift' = (tabs # <<>>)
        BY <1>3, GoodParts DEF DeleteFails, LoadAgain, AsIs, strip, Gone
    <2>6. QED
        BY <2>2, <2>3, <2>4, <2>5, GoodReload
<1>4. QED
    BY <1>2, <1>3 DEF Deletes

(* The request id is in the tree M again, in c, and its row is n; its tab   *)
(* is shown, or nothing is, or the save fails.                              *)
Undoes(M, c, id, n) ==
    /\ c \in DOMAIN mem /\ c \in Colls /\ id \in Ids /\ n \in Node
    /\ Held(M) /\ OthersSame(M, c) /\ Grows(M) /\ undo' = NoUndo
    /\ \/ /\ SavedAs(c, M) /\ row' = [node |-> n, on |-> ~IsSelected(n) \/ row.on]
          /\ \/ OpenTab(tabs, M, drafts, c, id)
             \/ /\ mem' = M /\ adrift' = (tabs # <<>>)
                /\ bound' = bound \/ (bound.at = "slot" /\ bound' = Detached(AsIs))
                /\ UNCHANGED <<strip, boundId, shown, typed, persisted>>
       \/ LoadAgain(AsIs) /\ UNCHANGED <<typed, disk, row>>

(* The last delete is undone. *)
LEMMA UndoUndoes ==
    ASSUME Good, Undo
    PROVE  \E M, c, id, n : Undoes(M, c, id, n)
<1> DEFINE c == undo.node.col
           kind == undo.node.kind
           last == Len(mem[c][kind]) + 1
           k == IF undo.node.pos > last THEN last ELSE undo.node.pos
           M == [mem EXCEPT ![c] = Insert(mem[c], kind, k, undo.id, undo.text)]
           n == [col |-> c, kind |-> kind, pos |-> k]
<1>1. /\ undo # NoUndo /\ c \in DOMAIN mem /\ undo' = NoUndo
      /\ \/ /\ SavedAs(c, M)
            /\ \/ kind = "root" /\ ~IsSelected(n) /\ OpenTab(tabs, M, drafts, c, undo.id)
               \/ /\ mem' = M
                  /\ bound' \in {bound, IF bound.at = "slot" /\ bound.col = c
                                        THEN Detached(AsIs) ELSE bound}
                  /\ adrift' = (tabs # <<>>)
                  /\ UNCHANGED <<strip, boundId, shown, typed, persisted>>
            /\ row' = [node |-> n, on |-> ~IsSelected(n) \/ row.on]
         \/ LoadAgain(AsIs) /\ UNCHANGED <<typed, disk, row>>
    BY DEF Undo
<1>2. /\ undo.node \in Node /\ undo.node.pos > 0 /\ undo.id \in Ids /\ undo.text \in Text
      /\ ~Has(disk[c], undo.id) /\ c \in Colls /\ kind \in Kinds /\ undo.node.pos \in Nat
    BY <1>1, GoodParts DEF Gone, Node
<1>3. ~Has(mem[c], undo.id)
    BY <1>1, <1>2, GoodParts DEF SameIds, Has
<1>4. k \in 1 .. last /\ k \in Nat
    <2>1. PICK m \in Nat : m = Len(mem[c][kind])
        BY <1>1, <1>2, GoodParts, KindList DEF Held
    <2>2. PICK p \in Nat : p = undo.node.pos /\ p > 0
        BY <1>2
    <2>3. last = m + 1 /\ k = IF p > m + 1 THEN m + 1 ELSE p
        BY <2>1, <2>2
    <2> HIDE DEF last, k
    <2>4. QED
        BY <2>2, <2>3
<1>5. n \in Node
    BY <1>2, <1>4 DEF Node
<1>6. /\ Held(M) /\ DOMAIN M = DOMAIN mem /\ Agrees(M, mem)
      /\ DOMAIN mem[c].text \subseteq DOMAIN M[c].text
      /\ \A x \in DOMAIN mem : x # c => M[x] = mem[x]
    <2>1. PICK p : p = k
        OBVIOUS
    <2>2. Held(mem) /\ p \in 1 .. Len(mem[c][kind]) + 1
        BY <1>4, <2>1, GoodParts
    <2>3. M = [mem EXCEPT ![c] = Insert(mem[c], kind, p, undo.id, undo.text)]
        BY <2>1
    <2>4. c \in DOMAIN mem /\ kind \in Kinds /\ undo.id \in Ids /\ undo.text \in Text
        BY <1>1, <1>2
    <2> HIDE DEF M, c, kind, last, k
    <2>5. Held(M) /\ \A x \in DOMAIN mem : x # c => M[x] = mem[x]
        BY <1>3, <2>2, <2>3, <2>4, AddTree
    <2>6. DOMAIN M = DOMAIN mem /\ M[c] = Insert(mem[c], kind, p, undo.id, undo.text)
        BY <2>3, <2>4
    <2>7. Inserted(mem[c], M[c], undo.id, undo.text)
        <3>1. GoodColl(mem[c])
            BY <2>2, <2>4 DEF Held
        <3>2. QED
            BY <1>3, <2>2, <2>4, <2>6, <3>1, InsertColl
    <2>8. Agrees(M, mem)
        BY <2>5, <2>6, <2>7 DEF Agrees, Inserted
    <2>9. QED
        BY <2>5, <2>6, <2>7, <2>8 DEF Inserted
<1> HIDE DEF c, kind, last, k, M, n
<1>7. OthersSame(M, c) /\ Grows(M)
    BY <1>6 DEF OthersSame, Grows
<1>8. Undoes(M, c, undo.id, n)
    BY <1>1, <1>2, <1>5, <1>6, <1>7 DEF Undoes
<1>9. QED
    BY <1>8

(* It keeps the invariant.                                                  *)
LEMMA GoodUndo ==
    ASSUME Good, NEW M, NEW c, NEW id, NEW n, Undoes(M, c, id, n)
    PROVE  Good'
<1>1. /\ c \in DOMAIN mem /\ c \in Colls /\ id \in Ids /\ n \in Node
      /\ Held(M) /\ DOMAIN M = DOMAIN mem /\ undo' = NoUndo
      /\ \A x \in DOMAIN mem : x # c => M[x] = mem[x]
    BY DEF Undoes, OthersSame
<1>2. Gone(undo', disk')
    BY <1>1 DEF Gone
<1>3. ASSUME SavedAs(c, M), row' = [node |-> n, on |-> ~IsSelected(n) \/ row.on],
             Window', Held(mem'), Like(M, mem')
      PROVE  Good'
    <2>1. (~IsSelected(n) \/ row.on) \in BOOLEAN
        OBVIOUS
    <2>2. Selected(row')
        BY <1>1, <1>3, <2>1, SelectsNode
    <2>3. QED
        BY <1>1, <1>2, <1>3, <2>2, SavedKeeps
<1>4. CASE /\ SavedAs(c, M) /\ row' = [node |-> n, on |-> ~IsSelected(n) \/ row.on]
           /\ OpenTab(tabs, M, drafts, c, id)
    <2>1. Window' /\ Held(mem') /\ Like(M, mem')
        BY <1>1, <1>4, GoodParts, OpenTabProperties
    <2>2. QED
        BY <1>3, <1>4, <2>1
<1>5. CASE /\ SavedAs(c, M) /\ row' = [node |-> n, on |-> ~IsSelected(n) \/ row.on]
           /\ mem' = M /\ adrift' = (tabs # <<>>)
           /\ bound' = bound \/ (bound.at = "slot" /\ bound' = Detached(AsIs))
           /\ UNCHANGED <<strip, boundId, shown, typed, persisted>>
    <2>1. tabs = <<>> => bound' = Nowhere
        BY <1>5, GoodParts DEF Window, Nowhere
    <2>2. UNCHANGED <<tabs, active, drafts, persisted, shown, typed>>
        BY <1>5 DEF strip
    <2>3. Window'
        BY <1>5, <2>1, <2>2, GoodParts DEF Window
    <2>4. QED
        BY <1>1, <1>3, <1>5, <2>3, LikeItself
<1>6. CASE LoadAgain(AsIs) /\ UNCHANGED <<typed, disk, row>>
    BY <1>1, <1>6, GoodParts, AsIsProperties, GoodLoadAgain
<1>7. QED
    BY <1>4, <1>5, <1>6 DEF Undoes

-----------------------------------------------------------------------------
(* Collections and workspaces.                                              *)

(* The trees M are those without c; the editor was cleared if it showed a   *)
(* request of c.                                                            *)
Removes(M, c) ==
    /\ Held(M) /\ DOMAIN M = DOMAIN mem \ {c} /\ \A x \in DOMAIN M : M[x] = mem[x]
    /\ Reconciles(M, boundId # NoNode /\ boundId.col = c)

(* A collection leaves the session.                                         *)
LEMMA RemoveCollectionRemoves ==
    ASSUME Good, NEW c \in Colls, RemoveCollection(c)
    PROVE  \E M : Removes(M, c)
<1> DEFINE M == [x \in DOMAIN mem \ {c} |-> mem[x]]
           cleared == boundId # NoNode /\ boundId.col = c
<1>1. Reconcile(M, cleared) /\ cleared \in BOOLEAN
    BY DEF RemoveCollection
<1>2. /\ DOMAIN M = DOMAIN mem \ {c} /\ Held(M)
      /\ \A x \in DOMAIN M : M[x] = mem[x]
    <2>1. DOMAIN mem \ {c} \in SUBSET Colls /\ \A x \in DOMAIN mem \ {c} : GoodColl(M[x])
        BY GoodParts DEF Held
    <2>2. M = [x \in DOMAIN mem \ {c} |-> M[x]] /\ \A x \in DOMAIN M : M[x] = mem[x]
        OBVIOUS
    <2> HIDE DEF M
    <2>3. QED
        BY <2>1, <2>2, MakeTree
<1>3. ASSUME cleared, tabs # <<>>, ~adrift PROVE ~Located(M, tabs[active])
    <2> DEFINE t == tabs[active]
    <2>1. Follows(mem, drafts, t, bound, boundId, shown, typed)
        BY <1>3, GoodParts DEF Window
    <2>2. ~IsDraft(t)
        BY <1>3, <2>1 DEF Follows
    <2>3. t.col \in DOMAIN mem /\ Has(mem[t.col], t.id) /\ boundId = NodeAt(mem, t.col, t.id)
        BY <2>1, <2>2 DEF Follows, Located
    <2>4. t.col = c
        BY <1>3, <2>3, GoodParts, NodeProperties
    <2>5. QED
        BY <1>2, <2>2, <2>4 DEF Located
<1>4. adrift \in BOOLEAN
    BY GoodParts
<1> HIDE DEF M
<1>5. Reconciles(M, cleared)
    <2>1. cleared => boundId # NoNode
        OBVIOUS
    <2> HIDE DEF cleared
    <2>2. QED
        BY <1>1, <1>3, <1>4, <2>1 DEF Reconciles
<1>6. QED
    BY <1>2, <1>5 DEF Removes

(* It keeps the invariant.                                                  *)
LEMMA GoodRemoveCollection ==
    ASSUME Good, NEW c \in Colls, RemoveCollection(c)
    PROVE  Good'
<1>1. PICK M : Removes(M, c)
    BY RemoveCollectionRemoves
<1>2. /\ disk' = disk /\ undo' = undo
      /\ row' = IF row.node # NoNode /\ row.node.col = c
                THEN [node |-> NoNode, on |-> FALSE] ELSE row
    BY DEF RemoveCollection
<1> DEFINE cleared == boundId # NoNode /\ boundId.col = c
<1>3. /\ Held(M) /\ \A x \in DOMAIN M : x \in DOMAIN mem /\ M[x] = mem[x]
      /\ Reconciles(M, cleared)
    BY <1>1 DEF Removes
<1> HIDE DEF cleared
<1>4. Agrees(M, mem)
    BY <1>3 DEF Agrees
<1>5. Window' /\ Held(mem') /\ Like(M, mem')
    BY <1>3, <1>4, GoodParts, ReconcileProperties DEF Reconciles
<1>6. SameIds(mem', disk')
    <2>1. SameIds(M, disk)
        BY <1>3, GoodParts DEF SameIds
    <2>2. QED
        BY <1>2, <1>5, <2>1, LikeIds
<1>7. Selected(row')
    BY <1>2, GoodParts DEF Selected
<1>8. QED
    BY <1>2, <1>5, <1>6, <1>7 DEF Good

(* The editor follows a tab of a collection that stays as it is.            *)
LEMMA FollowsIn ==
    ASSUME NEW M, NEW N, DOMAIN M \subseteq DOMAIN N, \A x \in DOMAIN M : N[x] = M[x],
           NEW D, NEW t, NEW b, NEW bid, NEW sh, NEW ty, Follows(M, D, t, b, bid, sh, ty)
    PROVE  Follows(N, D, t, b, bid, sh, ty)
<1>1. CASE IsDraft(t)
    BY <1>1 DEF Follows, Located, Live
<1>2. CASE ~IsDraft(t)
    <2>1. t.col \in DOMAIN M /\ t.col \in DOMAIN N /\ N[t.col] = M[t.col]
        BY <1>2 DEF Follows, Located
    <2>2. NodeAt(N, t.col, t.id) = NodeAt(M, t.col, t.id)
        BY <2>1 DEF NodeAt
    <2>3. PlaceOf(N, t.col, t.id) = PlaceOf(M, t.col, t.id)
        BY <2>2 DEF PlaceOf
    <2>4. QED
        BY <1>2, <2>1, <2>2, <2>3 DEF Follows, Located, Live
<1>3. QED
    BY <1>1, <1>2

(* A collection is loaded beside the others.                                *)
LEMMA GoodOpenCollection ==
    ASSUME Good, NEW c \in Colls, OpenCollection(c)
    PROVE  Good'
<1>1. /\ c \notin DOMAIN mem
      /\ mem' = [x \in DOMAIN mem \cup {c} |-> IF x = c THEN disk[c] ELSE mem[x]]
      /\ disk' = disk /\ undo' = undo /\ row' = row
      /\ UNCHANGED <<tabs, active, drafts, bound, boundId, shown, typed, persisted, adrift>>
    BY DEF OpenCollection, strip, editor, Quiet
<1>2. /\ DOMAIN mem' = DOMAIN mem \cup {c} /\ mem'[c] = disk[c]
      /\ \A x \in DOMAIN mem : mem'[x] = mem[x]
    BY <1>1
<1>3. Held(mem')
    <2>1. DOMAIN mem \cup {c} \in SUBSET Colls
        BY GoodParts
    <2>2. \A x \in DOMAIN mem \cup {c} : GoodColl(mem'[x])
        BY <1>2, GoodParts DEF Held
    <2>3. mem' = [x \in DOMAIN mem \cup {c} |-> mem'[x]]
        BY <1>1
    <2>4. QED
        BY <2>1, <2>2, <2>3, MakeTree
<1>4. SameIds(mem', disk')
    BY <1>1, <1>2, GoodParts DEF SameIds
<1>5. Window'
    <2>1. ASSUME tabs # <<>>, ~adrift
          PROVE  Follows(mem', drafts, tabs[active], bound, boundId, shown, typed)
        <3>1. Follows(mem, drafts, tabs[active], bound, boundId, shown, typed)
            BY <2>1, GoodParts DEF Window
        <3>2. QED
            BY <1>2, <3>1, FollowsIn
    <2>2. QED
        BY <1>1, <2>1, GoodParts DEF Window
<1>6. QED
    BY <1>1, <1>3, <1>4, <1>5, GoodParts DEF Good

(* The trees as the directories hold them. *)
LEMMA DiskTree ==
    ASSUME Good, NEW cs \in SUBSET Colls
    PROVE  LET M == [c \in cs |-> disk[c]] IN
           Held(M) /\ DOMAIN M = cs /\ \A c \in cs : M[c] = disk[c]
<1> DEFINE M == [c \in cs |-> disk[c]]
<1>1. \A c \in cs : M[c] = disk[c] /\ GoodColl(M[c])
    BY GoodParts DEF Held
<1>2. M = [c \in cs |-> M[c]]
    OBVIOUS
<1> HIDE DEF M
<1>3. Held(M) /\ DOMAIN M = cs
    BY <1>1, <1>2, MakeTree
<1>4. QED
    BY <1>1, <1>3 DEF M

(* What the window shows is of trees as the directories hold them.          *)
LEMMA GoodFromDisk ==
    ASSUME Good, NEW M, \A c \in DOMAIN M : M[c] = disk[c], DOMAIN M \subseteq Colls,
           disk' = disk, undo' \in {undo, NoUndo}, row' = [node |-> NoNode, on |-> FALSE],
           Window', Held(mem'), Like(M, mem')
    PROVE  Good'
<1>1. SameIds(M, disk)
    BY DEF SameIds
<1>2. SameIds(mem', disk') /\ Selected(row') /\ Gone(undo', disk')
    BY <1>1, GoodParts, LikeIds DEF Selected, Gone
<1>3. QED
    BY <1>2, GoodParts DEF Good

(* Another workspace is opened, with no tabs.                               *)
LEMMA GoodSwitchWorkspace ==
    ASSUME Good, NEW cs \in Workspaces, SwitchWorkspace(cs)
    PROVE  Good'
<1> DEFINE M == [c \in cs |-> disk[c]]
           D == [d \in Drafts |-> Blank]
<1>1. /\ NoTabs(M, D) /\ row' = [node |-> NoNode, on |-> FALSE]
      /\ disk' = disk /\ undo' = undo /\ persisted' = persisted
    BY DEF SwitchWorkspace
<1>2. cs \in SUBSET Colls
    BY WorkbenchAssumption
<1>3. Held(M) /\ DOMAIN M = cs /\ \A c \in cs : M[c] = disk[c]
    BY <1>2, DiskTree
<1>4. D \in Desk
    BY DEF Desk, Text
<1> HIDE DEF M, D
<1>5. Remembered(persisted'.tabs)
    BY <1>1, GoodParts DEF Window
<1>6. Window' /\ Held(mem') /\ Like(M, mem')
    BY <1>1, <1>3, <1>4, <1>5, EmptyWindow
<1>7. QED
    BY <1>1, <1>2, <1>3, <1>6, GoodFromDisk

(* A workspace is deleted, and the active one loaded again.                 *)
LEMMA GoodDeleteWorkspace ==
    ASSUME Good, NEW cs \in Workspaces, DeleteWorkspace(cs)
    PROVE  Good'
<1>1. /\ mem' = [c \in cs |-> disk[c]] /\ bound' = Nowhere /\ shown' = Blank /\ typed' = FALSE
      /\ adrift' = (tabs # <<>>) /\ UNCHANGED <<tabs, active, drafts, persisted>>
      /\ disk' = disk /\ undo' = undo /\ row' = row
    BY DEF DeleteWorkspace, Loaded, ClearEditor, strip, Quiet
<1>2. cs \in SUBSET Colls
    BY WorkbenchAssumption
<1>3. QED
    BY <1>1, <1>2, GoodParts, GoodReload DEF Text

(* What a restart finds of the strip.                                       *)
LEMMA PickRemembered ==
    ASSUME NEW P, Remembered(P), NEW at \in SUBSET DOMAIN P, NEW T,
           T = [k \in DOMAIN Pick(P, at) |-> TreeTab(Pick(P, at)[k].col, Pick(P, at)[k].id)]
    PROVE  Strip(T)
<1> DEFINE R == [col : Colls, id : Ids]
           U == Pick(P, at)
           p == TheWay(at)
<1>1. P \in Seq(R) /\ Len(P) \in Nat /\ DOMAIN P = 1 .. Len(P) /\ NoneTwice(P) /\ Len(P) <= MaxTabs
    BY LenProperties DEF Remembered
<1>2. U \in Seq(R) /\ Along(U, P, p, at) /\ Len(U) <= Len(P)
    BY <1>1, PickProperties, PickShorter
<1> HIDE DEF U, p
<1>3. Len(U) \in Nat /\ DOMAIN U = 1 .. Len(U)
    BY <1>2, LenProperties
<1>4. Ordered(Len(U), p)
    <2>1. at \in SUBSET Int
        BY <1>1
    <2>2. Way(Len(U), p, at)
        BY <1>2 DEF Along
    <2>3. QED
        BY <1>3, <2>1, <2>2, WayBack
<1>5. \A k \in 1 .. Len(U) : U[k] \in R
    BY <1>2, <1>3, ElementOfSeq
<1>6. T = [k \in 1 .. Len(U) |-> TreeTab(U[k].col, U[k].id)]
    BY <1>3 DEF U
<1>7. \A k \in 1 .. Len(U) : T[k] \in Tab /\ T[k].col = U[k].col /\ T[k].id = U[k].id
    BY <1>5, <1>6 DEF TreeTab, Tab, Clean
<1>8. T \in Seq(Tab) /\ Len(T) = Len(U)
    <2>1. T \in [1 .. Len(U) -> Tab]
        BY <1>6, <1>7
    <2>2. PICK n \in Nat : n = Len(U)
        BY <1>3
    <2>3. QED
        BY <2>1, <2>2, SeqDef
<1>9. Drawn(T, P, p)
    <2>1. \A k \in 1 .. Len(U) : p[k] \in 1 .. Len(P) /\ U[k] = P[p[k]]
        BY <1>1, <1>2 DEF Along, Way
    <2>2. \A k, l \in 1 .. Len(U) : p[k] = p[l] => k = l
        BY <1>4 DEF Ordered
    <2> HIDE DEF R
    <2>3. QED
        BY <1>2, <1>7, <1>8, <2>1, <2>2 DEF Drawn
<1>10. NoneTwice(T)
    <2> HIDE DEF R
    <2>1. QED
        BY <1>1, <1>8, <1>9, DrawnOnce
<1>11. Len(T) <= MaxTabs
    BY <1>1, <1>2, <1>3, <1>8, WorkbenchAssumption
<1>12. QED
    BY <1>8, <1>10, <1>11 DEF Strip

(* The program starts again. *)
LEMMA GoodRestart ==
    ASSUME Good, Restart
    PROVE  Good'
<1> DEFINE M == [c \in DOMAIN mem |-> disk[c]]
           at == {k \in DOMAIN persisted.tabs : Located(M, persisted.tabs[k])}
           found == Pick(persisted.tabs, at)
           T == [k \in DOMAIN found |-> TreeTab(found[k].col, found[k].id)]
           I == {k \in 1 .. Len(T) : T[k].id = persisted.tabs[persisted.active].id}
           i == SelectInSeq(T, LAMBDA t : t.id = persisted.tabs[persisted.active].id)
           D == [d \in Drafts |-> Blank]
<1>1. /\ undo' = NoUndo /\ row' = [node |-> NoNode, on |-> FALSE] /\ disk' = disk
      /\ \/ T # <<>> /\ Show(T, IF i = 0 THEN 1 ELSE i, M, D)
         \/ T = <<>> /\ NoTabs(M, D) /\ persisted' = persisted
    BY DEF Restart
<1>2. DOMAIN mem \in SUBSET Colls
    BY GoodParts
<1>3. Held(M) /\ DOMAIN M = DOMAIN mem /\ \A c \in DOMAIN mem : M[c] = disk[c]
    BY <1>2, DiskTree
<1>4. D \in Desk
    BY DEF Desk, Text
<1>5. Remembered(persisted.tabs)
    BY GoodParts DEF Window
<1>6. Strip(T)
    <2>1. at \in SUBSET DOMAIN persisted.tabs
        OBVIOUS
    <2> HIDE DEF at
    <2>2. QED
        BY <1>5, <2>1, PickRemembered
<1>7. i = IF I # {} THEN Min(I) ELSE 0
    BY DEF SelectInSeq
<1> HIDE DEF M, D, T, i
<1>8. T # <<>> => (IF i = 0 THEN 1 ELSE i) \in DOMAIN T
    <2>1. PICK n \in Nat : n = Len(T) /\ DOMAIN T = 1 .. n /\ (T # <<>> => n # 0)
        BY <1>6, StripParts
    <2>2. I \in SUBSET Nat /\ I \subseteq 1 .. n
        BY <2>1
    <2> HIDE DEF I
    <2>3. I # {} => Min(I) \in I
        BY <2>2, LeastNat DEF Min
    <2>4. CASE I # {}
        <3>1. i = Min(I) /\ i \in 1 .. n
            BY <1>7, <2>2, <2>3, <2>4
        <3>2. QED
            BY <2>1, <3>1
    <2>5. CASE I = {}
        <3>1. i = 0
            BY <1>7, <2>5
        <3>2. QED
            BY <2>1, <3>1
    <2>6. QED
        BY <2>4, <2>5
<1>9. CASE T # <<>> /\ Show(T, IF i = 0 THEN 1 ELSE i, M, D)
    <2>1. Window' /\ Held(mem') /\ Like(M, mem')
        BY <1>3, <1>4, <1>6, <1>8, <1>9, ShowProperties
    <2>2. QED
        BY <1>1, <1>2, <1>3, <2>1, GoodFromDisk
<1>10. CASE T = <<>> /\ NoTabs(M, D) /\ persisted' = persisted
    <2>1. Window' /\ Held(mem') /\ Like(M, mem')
        BY <1>3, <1>4, <1>5, <1>10, EmptyWindow
    <2>2. QED
        BY <1>1, <1>2, <1>3, <2>1, GoodFromDisk
<1>11. QED
    BY <1>1, <1>9, <1>10

-----------------------------------------------------------------------------
(* Every step keeps the invariant.                                          *)
LEMMA GoodTabs ==
    ASSUME Good, OfTabs
    PROVE  Good'
<1>1. ASSUME NEW c \in Colls, NEW id \in Ids, SelectRequest(c, id) PROVE Good'
    BY <1>1, GoodSelectRequest
<1>2. ASSUME NEW d \in Drafts, NEW t \in Pasted \cup {Blank}, NewScratch(d, t) PROVE Good'
    BY <1>2, GoodNewScratch
<1>3. ASSUME NEW i \in DOMAIN tabs,
             \/ Activate(i) \/ Close(i) \/ CloseOthers(i) \/ CloseRight(i)
             \/ \E j \in DOMAIN tabs : Drag(i, j)
      PROVE  Good'
    BY <1>3, GoodActivate, GoodClose, GoodCloseOthers, GoodCloseRight, GoodDrag
<1>4. QED
    BY <1>1, <1>2, <1>3 DEF OfTabs

(* The operations of the editor.                                            *)
LEMMA GoodEditor ==
    ASSUME Good, OfEditor \/ FromEditor \/ AskQuit \/ Validate \/ Pause
    PROVE  Good'
<1>1. ASSUME NEW t \in Texts, Edit(Fold[t]) \/ TypeBody(Fold[t]) PROVE Good'
    <2>1. Fold[t] \in Text
        BY FoldText DEF Text
    <2> DEFINE u == Fold[t]
    <2>2. u \in Text /\ (Edit(u) \/ TypeBody(u))
        BY <1>1, <2>1
    <2> HIDE DEF u
    <2>3. QED
        BY <2>2, GoodEdit, GoodTypeBody
<1>2. ASSUME NEW c \in Colls, SaveRequest(c) PROVE Good'
    BY <1>2, GoodSaveRequest
<1>3. ASSUME NEW i \in DOMAIN tabs, SaveTab(i) PROVE Good'
    BY <1>3, GoodSaveTab
<1>4. QED
    BY <1>1, <1>2, <1>3, GoodWriteBack, GoodPause DEF OfEditor, FromEditor, AskQuit, Validate

(* The operations on the tree.                                              *)
LEMMA GoodTree ==
    ASSUME Good, OfTree
    PROVE  Good'
<1>1. ASSUME NEW c \in Colls, SaveCollection(c) PROVE Good'
    BY <1>1, GoodSaveCollection
<1>2. ASSUME NEW c \in Colls, NEW id \in Ids, SaveDraft(c, id) PROVE Good'
    BY <1>2, GoodSaveDraft
<1>3. ASSUME NEW c \in Colls, NEW id \in Ids, NEW k, AddRequest(c, k, id) PROVE Good'
    BY <1>3, AddRequestChanges, GoodChange
<1>4. ASSUME NEW c \in Colls, NEW kind \in Kinds, NEW i, NEW j, Move(c, kind, i, j) PROVE Good'
    BY <1>4, MoveChanges, GoodChange
<1>5. QED
    BY <1>1, <1>2, <1>3, <1>4, DeleteDeletes, GoodDelete, UndoUndoes, GoodUndo DEF OfTree

(* The operations on collections and workspaces.                            *)
LEMMA GoodCollections ==
    ASSUME Good, OfCollections
    PROVE  Good'
<1>1. ASSUME NEW c \in Colls, RemoveCollection(c) \/ OpenCollection(c) PROVE Good'
    BY <1>1, GoodRemoveCollection, GoodOpenCollection
<1>2. ASSUME NEW cs \in Workspaces, SwitchWorkspace(cs) \/ DeleteWorkspace(cs) PROVE Good'
    BY <1>2, GoodSwitchWorkspace, GoodDeleteWorkspace
<1>3. QED
    BY <1>1, <1>2, GoodRestart DEF OfCollections

(* The parts of Next, and nothing of the trees and the window.              *)
LEMMA NextParts ==
    ASSUME Next
    PROVE  /\ \/ OfTabs \/ OfEditor \/ FromEditor \/ OfTree \/ OfCollections
              \/ AskQuit \/ Validate \/ Pause \/ \E c \in Colls : SelectCollection(c)
           /\ missed' \subseteq Request
<1>1. missed' \subseteq Request
    BY DEF Next, Missed
<1>2. QED
    BY <1>1 DEF Next

(* Every step.                                                              *)
LEMMA GoodStep ==
    ASSUME Good, [Next]_vars
    PROVE  Good'
<1>1. CASE Next
    <2>1. ASSUME NEW c \in Colls, SelectCollection(c) PROVE Good'
        BY <2>1, GoodSelectCollection
    <2>2. QED
        BY <1>1, <2>1, NextParts, GoodTabs, GoodEditor, GoodTree, GoodCollections
<1>2. CASE UNCHANGED vars
    <2>1. UNCHANGED <<disk, mem, undo, row, tabs, active, drafts, bound, boundId, shown, typed,
                      persisted, adrift>>
        BY <1>2 DEF vars, session, editor, strip
    <2>2. Window'
        BY <2>1, GoodParts DEF Window
    <2>3. QED
        BY <2>1, <2>2 DEF Good
<1>3. QED
    BY <1>1, <1>2

(* The invariant holds.                                                     *)
THEOREM AlwaysGood == Spec => []Good
<1>1. Init => Good
    BY GoodInit
<1>2. Good /\ [Next]_vars => Good'
    BY GoodStep
<1>3. QED
    BY <1>1, <1>2, PTL DEF Spec

-----------------------------------------------------------------------------
(* The requests the program counts as missed are requests.                  *)
MissedRequests == missed \subseteq Request

(* It is so at the start and after every step.                              *)
LEMMA AlwaysMissedRequests == Spec => []MissedRequests
<1>1. Init => MissedRequests
    BY DEF Init, MissedRequests
<1>2. MissedRequests /\ [Next]_vars => MissedRequests'
    BY NextParts DEF MissedRequests, vars
<1>3. QED
    BY <1>1, <1>2, PTL DEF Spec

(* The types of the window and of the trees: each request of a collection   *)
(* is at one place of it and has one text; no request has two tabs, there   *)
(* is an active one among them while there are any, and the editor shows a  *)
(* text.                                                                    *)
THEOREM WorkbenchTypes == Spec => []TypeOK
<1>1. Good /\ MissedRequests => TypeOK
    <2>1. SUFFICES ASSUME Good, MissedRequests PROVE TypeOK
        OBVIOUS
    <2>2. DOMAIN mem \subseteq Colls /\ DOMAIN disk = Colls
        BY <2>1, GoodParts
    <2>3. ASSUME NEW c \in DOMAIN mem
          PROVE  ToSet(mem[c].root \o mem[c].folders) = DOMAIN mem[c].text
        <3>1. GoodColl(mem[c])
            BY <2>1, GoodParts DEF Held
        <3>2. mem[c].root \in Seq(Ids) /\ mem[c].folders \in Seq(Ids)
            BY <3>1, CollParts
        <3>3. QED
            BY <3>1, <3>2, ElementsOfBoth DEF GoodColl, EachOnce
    <2>4. Len(tabs) <= MaxTabs /\ NoneTwice(tabs)
        BY <2>1, GoodParts DEF Strip
    <2>5. active \in DOMAIN tabs \/ (active = 0 /\ tabs = <<>>)
        BY <2>1, GoodParts DEF Window
    <2>6. drafts \in [Drafts -> Texts \cup {Blank}] /\ shown \in Texts \cup {Blank}
        BY <2>1, GoodParts DEF Desk, Text
    <2>7. QED
        BY <2>1, <2>2, <2>3, <2>4, <2>5, <2>6 DEF TypeOK, NoneTwice, MissedRequests
<1>2. QED
    BY <1>1, AlwaysGood, AlwaysMissedRequests, PTL

(* The editor is on the active tab: what the user types, formats or saves   *)
(* goes into the request the strip shows as active, however tabs, requests  *)
(* and collections come, go and move (until a reload or an undo that does   *)
(* not look at the tabs).                                                   *)
THEOREM EditorFollowsActiveTab == Spec => []EditorOnActiveTab
<1>1. Good => EditorOnActiveTab
    <2>1. SUFFICES ASSUME Good, ~adrift PROVE EditorOnActiveTab
        BY DEF EditorOnActiveTab
    <2>2. tabs = <<>> => bound = Nowhere
        BY <2>1, GoodParts DEF Window
    <2>3. tabs # <<>> => Follows(mem, drafts, tabs[active], bound, boundId, shown, typed)
        BY <2>1, GoodParts DEF Window
    <2>4. QED
        BY <2>2, <2>3 DEF EditorOnActiveTab, Follows
<1>2. QED
    BY <1>1, AlwaysGood, PTL

(* A restart opens the tabs that were open, and shows the one that was      *)
(* active: after every operation on the strip, the tree or the collections  *)
(* the config has them.                                                     *)
THEOREM RestartsWithTabs == Spec => []RestartFindsTabs
<1>1. Good => RestartFindsTabs
    BY GoodParts DEF Window, Finds, Names, RestartFindsTabs
<1>2. QED
    BY <1>1, AlwaysGood, PTL

(* A save that succeeds has put what the editor shows on disk, at the       *)
(* request of the active tab, whatever row the sidebar has selected.        *)
THEOREM SavesReachDisk == Spec => SavedIsOnDisk
<1>1. ASSUME Good, ~adrift PROVE SavesWhatIsShown
    <2>1. SUFFICES ASSUME NEW c \in Colls, SaveRequest(c), adrift' = adrift
                   PROVE  LET t == tabs[active] IN
                          Has(disk'[t.col], t.id) /\ Fold[disk'[t.col].text[t.id]] = Fold[shown]
        BY DEF SavesWhatIsShown
    <2> DEFINE t == tabs[active]
    <2>2. bound # Nowhere /\ ~IsDraft(t) /\ c = boundId.col /\ c \in DOMAIN mem
        BY <2>1 DEF SaveRequest
    <2>3. PICK w \in Synced : SavedAs(c, w.m) \/ LoadAgain(w)
        BY <2>1 DEF SaveRequest
    <2>4. tabs # <<>>
        BY <1>1, <2>2, BoundHasTab
    <2>5. SavedAs(c, w.m)
        BY <1>1, <2>1, <2>3, <2>4 DEF LoadAgain
    <2>6. Wrote(mem, w) /\ Follows(w.m, w.d, t, w.b, boundId, shown, FALSE)
        BY <1>1, <2>2, SyncedGood
    <2>7. /\ t.col \in DOMAIN w.m /\ Has(w.m[t.col], t.id) /\ shown = w.m[t.col].text[t.id]
          /\ boundId = NodeAt(w.m, t.col, t.id)
        BY <2>2, <2>6 DEF Follows, Located, Live
    <2>8. c = t.col
        BY <2>2, <2>6, <2>7, NodeProperties DEF Wrote
    <2>9. disk'[c] = w.m[c]
        BY <1>1, <2>5, <2>8, <2>7, GoodParts DEF SavedAs
    <2>10. QED
        BY <2>7, <2>8, <2>9
<1>2. Good /\ [Next]_vars => [~adrift => SavesWhatIsShown]_vars
    BY <1>1
<1>3. QED
    BY <1>2, AlwaysGood, PTL DEF Spec, SavedIsOnDisk

-----------------------------------------------------------------------------
(* Unsaved edits.  An edit of a request without a loaded tab is one that    *)
(* was missed; and the clean snapshot of a request that was not missed is   *)
(* what the disk has, up to its fold.                                       *)
Unseen == \A r \in Request : Edited(r) /\ ~HasTab(r) => r \in missed
Snaps == \A r \in Request : r \notin missed => InSync(r)

IsLoaded(u) == ~IsDraft(u) /\ u.snap # NoText

(* The snapshot of the tab u is what the disk has now. *)
OnDisk(u) ==
    Has(disk'[u.col], u.id) => LET x == disk'[u.col].text[u.id] IN u.snap = x \/ u.snap = Fold[x]

(* The tab u is an open one, or is loaded from the tree in memory. *)
Before(u) ==
    \/ \E j \in DOMAIN tabs : tabs[j] = u
    \/ /\ ~HasTab(Entry(u)) /\ u.col \in DOMAIN mem /\ Has(mem[u.col], u.id)
       /\ u.snap = Fold[mem[u.col].text[u.id]]

(* So are all tabs, but of collections that are not on disk as they were.   *)
Steady ==
    \A k \in DOMAIN tabs' : LET u == tabs'[k] IN
        IsLoaded(u) => OnDisk(u) \/ Before(u) \/ disk'[u.col] # disk[u.col]

(* The trees N have what is on disk now, or what is in memory, for requests *)
(* without a loaded tab.                                                    *)
Reads(N) ==
    \A c \in DOMAIN N : \A id \in DOMAIN N[c].text : ~HasTab([col |-> c, id |-> id]) =>
        \/ Has(disk'[c], id) => N[c].text[id] = disk'[c].text[id]
        \/ c \in DOMAIN mem /\ Has(mem[c], id) /\ N[c].text[id] = mem[c].text[id]

(* Snapshots that are taken from such trees.                                *)
LEMMA FreshSteady ==
    ASSUME NEW N, FreshSnaps(N), Reads(N)
    PROVE  Steady
<1>1. ASSUME NEW k \in DOMAIN tabs', IsLoaded(tabs'[k])
      PROVE  OnDisk(tabs'[k]) \/ Before(tabs'[k])
    <2>1. PICK u : u = tabs'[k]
        OBVIOUS
    <2>2. (\E j \in DOMAIN tabs : tabs[j] = u) \/ Fresh(u, N)
        BY <1>1, <2>1 DEF FreshSnaps, IsLoaded
    <2>3. CASE \E j \in DOMAIN tabs : tabs[j] = u
        BY <2>1, <2>3 DEF Before
    <2>4. CASE Fresh(u, N)
        <3>1. /\ ~HasTab([col |-> u.col, id |-> u.id]) /\ u.col \in DOMAIN N
              /\ u.id \in DOMAIN N[u.col].text /\ u.snap = Fold[N[u.col].text[u.id]]
            BY <1>1, <2>1, <2>4 DEF Fresh, Entry, Located, Has, IsLoaded
        <3>2. \/ Has(disk'[u.col], u.id) => N[u.col].text[u.id] = disk'[u.col].text[u.id]
              \/ /\ u.col \in DOMAIN mem /\ Has(mem[u.col], u.id)
                 /\ N[u.col].text[u.id] = mem[u.col].text[u.id]
            BY <3>1 DEF Reads
        <3>3. QED
            BY <2>1, <3>1, <3>2 DEF OnDisk, Before, Entry
    <2>5. QED
        BY <2>2, <2>3, <2>4
<1>2. QED
    BY <1>1 DEF Steady

(* A step keeps the snapshots in line with the disk, if they are as above;  *)
(* other requests are among those that were written.                        *)
LEMMA SnapsKept ==
    ASSUME Good, Good', Unseen, Snaps, NEW written, missed' = Missed(written),
           \A k \in DOMAIN tabs' : LET u == tabs'[k] IN
                IsLoaded(u) =>
                    \/ OnDisk(u) \/ (Before(u) /\ disk'[u.col] = disk[u.col])
                    \/ Entry(u) \in written
    PROVE  Unseen' /\ Snaps'
<1>1. Unseen'
    BY DEF Unseen, Missed
<1>2. Held(disk) /\ DOMAIN disk = Colls /\ Held(mem) /\ DOMAIN mem \subseteq Colls
      /\ Held(disk') /\ DOMAIN disk' = Colls /\ Strip(tabs')
    BY DEF Good, Stored, Held, Window
<1>3. ASSUME NEW r \in Request, r \notin missed', NEW k \in DOMAIN tabs',
             tabs'[k].col = r.col, tabs'[k].id = r.id, tabs'[k].snap # NoText,
             Has(disk'[r.col], r.id)
      PROVE  Fold[tabs'[k].snap] = Fold[disk'[r.col].text[r.id]]
    <2>1. PICK u : u = tabs'[k]
        OBVIOUS
    <2>2. u.col = r.col /\ u.id = r.id /\ r.col \in Colls /\ r.id \in Ids /\ Entry(u) = r
        BY <1>3, <2>1 DEF Request, Entry
    <2>3. IsLoaded(u)
        BY <1>3, <2>1, <2>2, WorkbenchAssumption DEF IsLoaded, IsDraft
    <2>4. InSync(r)' \/ (r \notin missed /\ r \notin written)
        BY <1>3 DEF Missed
    <2>5. CASE InSync(r)'
        BY <1>3, <2>5 DEF InSync
    <2>6. CASE r \notin missed /\ r \notin written
        <3>1. OnDisk(u) \/ (Before(u) /\ disk'[r.col] = disk[r.col])
            BY <2>1, <2>2, <2>3, <2>6
        <3>2. disk'[r.col].text[r.id] \in Text
            BY <1>2, <1>3, <2>2, TextProperties
        <3>3. InSync(r)
            BY <2>6 DEF Snaps
        <3>4. CASE OnDisk(u)
            <4>1. u.snap = disk'[r.col].text[r.id] \/ u.snap = Fold[disk'[r.col].text[r.id]]
                BY <1>3, <2>2, <3>4 DEF OnDisk
            <4>2. QED
                BY <2>1, <3>2, <4>1, FoldText
        <3>5. CASE Before(u) /\ disk'[r.col] = disk[r.col]
            <4>1. CASE \E j \in DOMAIN tabs : tabs[j] = u
                BY <1>3, <2>1, <3>3, <3>5, <4>1 DEF InSync
            <4>2. CASE /\ ~HasTab(r) /\ r.col \in DOMAIN mem /\ Has(mem[r.col], r.id)
                       /\ u.snap = Fold[mem[r.col].text[r.id]]
                <5>1. ~Unsaved(mem, r.col, r.id)
                    BY <2>6, <4>2 DEF Unseen, Edited
                <5>2. Fold[mem[r.col].text[r.id]] = Fold[disk[r.col].text[r.id]]
                    BY <4>2, <5>1 DEF Unsaved
                <5>3. mem[r.col].text[r.id] \in Text
                    BY <1>2, <4>2, TextProperties
                <5>4. Fold[u.snap] = u.snap
                    BY <4>2, <5>3, FoldText
                <5>5. QED
                    BY <2>1, <3>5, <4>2, <5>2, <5>4
            <4>3. QED
                BY <2>2, <3>5, <4>1, <4>2 DEF Before
        <3>6. QED
            BY <3>1, <3>4, <3>5
    <2>7. QED
        BY <2>4, <2>5, <2>6
<1>4. Snaps'
    BY <1>3 DEF Snaps, InSync
<1>5. QED
    BY <1>1, <1>4

(* What an action keeps of this. *)
Ties == Tied' /\ Steady

(* The tree in memory is what it is.                                        *)
LEMMA ReadsMem == Reads(mem)
BY DEF Reads, Has

(* No tab is loaded, and none is new.                                       *)
LEMMA OpenSteady ==
    ASSUME \A k \in DOMAIN tabs' : \E j \in DOMAIN tabs : tabs'[k] = tabs[j]
    PROVE  Steady
BY DEF Steady, Before

(* A tab of the strip T is shown, over the tree in memory.                  *)
LEMMA TiesShow ==
    ASSUME Good, NEW T, Strip(T), Open(T), NEW i \in DOMAIN T, NEW D, Neat(D), Show(T, i, mem, D)
    PROVE  Ties
<1>1. Tied' /\ Snapped(T, tabs', mem)
    BY GoodParts, ShowTies
<1>2. FreshSnaps(mem)
    BY <1>1, GoodParts, SnappedFresh
<1>3. QED
    BY <1>1, <1>2, ReadsMem, FreshSteady DEF Ties

(* The strip and the editor stay.                                           *)
LEMMA TiesSame ==
    ASSUME Tied, UNCHANGED <<tabs, active, drafts, bound, boundId, shown>>, typed' => tabs # <<>>
    PROVE  Ties
<1>1. Tied'
    BY DEF Tied, Neat
<1>2. Steady
    BY OpenSteady
<1>3. QED
    BY <1>1, <1>2 DEF Ties

(* A request is selected in the sidebar.                                    *)
LEMMA TiesSelectRequest ==
    ASSUME Good, Tied, NEW c \in Colls, NEW id \in Ids, SelectRequest(c, id)
    PROVE  Ties
<1>1. OpenTab(tabs, mem, drafts, c, id)
    BY DEF SelectRequest
<1>2. Open(tabs) /\ Neat(drafts)
    BY DEF Open, Tied
<1>3. Tied' /\ FreshSnaps(mem)
    BY <1>1, <1>2, GoodParts, OpenTabTies
<1>4. QED
    BY <1>3, ReadsMem, FreshSteady DEF Ties

(* A collection is selected.                                                *)
LEMMA TiesSelectCollection ==
    ASSUME Good, Tied, NEW c \in Colls, SelectCollection(c)
    PROVE  Ties
<1>1. UNCHANGED <<tabs, active, drafts, bound, boundId, shown, typed>>
    BY DEF SelectCollection, strip, editor
<1>2. QED
    BY <1>1, TiesSame DEF Tied

(* A scratch tab is opened.                                                 *)
LEMMA TiesNewScratch ==
    ASSUME Good, Tied, NEW d \in Drafts, NEW t \in Pasted \cup {Blank}, NewScratch(d, t)
    PROVE  Ties
<1> DEFINE U == Append(tabs, DraftTab(d))
           D == [drafts EXCEPT ![d] = Fold[t]]
<1>1. /\ IndexOf(tabs, NoColl, d) = 0 /\ Len(tabs) < MaxTabs /\ Show(U, Len(tabs) + 1, mem, D)
    BY DEF NewScratch
<1>2. DraftTab(d) \in Tab /\ DraftTab(d).col = NoColl /\ DraftTab(d).id = d
    BY DEF DraftTab, Tab, Clean
<1>3. \A k \in DOMAIN tabs : ~(tabs[k].col = NoColl /\ tabs[k].id = d)
    BY <1>1, GoodParts, StripParts, IndexProperties
<1>4. Strip(U) /\ Len(tabs) + 1 \in DOMAIN U
    BY <1>1, <1>2, <1>3, GoodParts, AppendStrip
<1>5. t \in Text
    BY WorkbenchAssumption DEF Text
<1>6. Neat(D)
    <2>1. Fold[t] \in Text /\ Fold[Fold[t]] = Fold[t]
        BY <1>5, FoldText
    <2>2. Neat(drafts)
        BY DEF Tied
    <2>3. QED
        BY <2>1, <2>2 DEF Neat, Desk
<1>7. \A k \in DOMAIN U : (\E j \in DOMAIN tabs : U[k] = tabs[j]) \/ U[k] = DraftTab(d)
    <2>1. tabs \in Seq(Tab) /\ DOMAIN tabs = 1 .. Len(tabs)
        BY GoodParts, StripParts
    <2>2. DOMAIN U = 1 .. Len(tabs) + 1 /\ U[Len(tabs) + 1] = DraftTab(d)
          /\ \A k \in 1 .. Len(tabs) : U[k] = tabs[k]
        BY <2>1
    <2>3. \A k \in 1 .. Len(tabs) + 1 : k \in 1 .. Len(tabs) \/ k = Len(tabs) + 1
        BY <2>1
    <2> HIDE DEF U
    <2>4. QED
        BY <2>1, <2>2, <2>3
<1> HIDE DEF U, D
<1>8. Tied' /\ Snapped(U, tabs', mem)
    BY <1>1, <1>4, <1>6, GoodParts, ShowTies
<1>9. ASSUME NEW k \in DOMAIN tabs', ~IsDraft(tabs'[k])
      PROVE  (\E j \in DOMAIN tabs : tabs[j] = tabs'[k]) \/ Fresh(tabs'[k], mem)
    <2>1. PICK j \in DOMAIN U : Turns(U[j], tabs'[k], mem)
        BY <1>8 DEF Snapped
    <2>2. U[j] # DraftTab(d)
        BY <1>2, <1>9, <2>1 DEF Turns, IsDraft
    <2>3. PICK l \in DOMAIN tabs : U[j] = tabs[l]
        BY <1>7, <2>2
    <2>4. QED
        BY <2>1, <2>3, GoodParts, TurnsFresh
<1>10. FreshSnaps(mem)
    BY <1>9 DEF FreshSnaps
<1>11. QED
    BY <1>8, <1>10, ReadsMem, FreshSteady DEF Ties

(* A tab is shown.                                                          *)
LEMMA TiesActivate ==
    ASSUME Good, Tied, NEW i \in DOMAIN tabs, Activate(i)
    PROVE  Ties
<1>1. Show(tabs, i, mem, drafts) /\ Open(tabs) /\ Neat(drafts)
    BY DEF Activate, Open, Tied
<1>2. QED
    BY <1>1, GoodParts, TiesShow

(* The drafts of closed tabs go.                                            *)
LEMMA WithoutNeat ==
    ASSUME Good, Tied, NEW victims \in SUBSET DOMAIN tabs
    PROVE  Neat(Without(victims))
<1>1. Without(victims) \in Desk
    BY WithoutProperties
<1>2. Fold[Blank] = Blank
    BY WorkbenchAssumption
<1>3. QED
    BY <1>1, <1>2 DEF Without, Tied, Neat

(* The strip changes, and the editor stays on its tab.                      *)
LEMMA TiesRedraw ==
    ASSUME Good, Tied, tabs # <<>>, NEW D, Neat(D), tabs' # <<>>,
           tabs'[active'] = tabs[active], Redraw(D), Open(tabs')
    PROVE  Ties
<1>1. Tied'
    BY GoodParts, RedrawTies
<1>2. QED
    BY <1>1, OpenSteady DEF Open, Ties

(* A tab is closed.                                                         *)
LEMMA TiesClose ==
    ASSUME Good, Tied, NEW i \in DOMAIN tabs, Close(i)
    PROVE  Ties
<1> DEFINE D == Without({i})
<1>1. PICK kept : kept = RemoveAt(tabs, i)
    OBVIOUS
<1>2. /\ Strip(kept) /\ Open(kept) /\ tabs # <<>>
      /\ kept # <<>> => (IF i > Len(kept) THEN Len(kept) ELSE i) \in DOMAIN kept
      /\ i # active => LET a == IF active > i THEN active - 1 ELSE active IN
                a \in DOMAIN kept /\ kept[a] = tabs[active]
    BY <1>1, ClosedStrip
<1>3. Neat(D)
    BY WithoutNeat
<1>4. \/ kept = <<>> /\ NoTabs(mem, D)
      \/ kept # <<>> /\ i = active /\ Show(kept, IF i > Len(kept) THEN Len(kept) ELSE i, mem, D)
      \/ /\ kept # <<>> /\ i # active
         /\ tabs' = kept /\ active' = (IF active > i THEN active - 1 ELSE active) /\ Redraw(D)
    BY <1>1 DEF Close
<1> HIDE DEF D
<1>5. CASE kept = <<>> /\ NoTabs(mem, D)
    <2>1. Tied' /\ tabs' = <<>>
        BY <1>3, <1>5, EmptyTies
    <2>2. QED
        BY <2>1, OpenSteady DEF Ties
<1>6. CASE kept # <<>> /\ i = active /\ Show(kept, IF i > Len(kept) THEN Len(kept) ELSE i, mem, D)
    BY <1>2, <1>3, <1>6, TiesShow
<1>7. CASE /\ kept # <<>> /\ i # active
           /\ tabs' = kept /\ active' = (IF active > i THEN active - 1 ELSE active) /\ Redraw(D)
    <2>1. tabs'[active'] = tabs[active] /\ tabs' # <<>> /\ Open(tabs')
        BY <1>2, <1>7
    <2>2. QED
        BY <1>2, <1>3, <1>7, <2>1, TiesRedraw
<1>8. QED
    BY <1>4, <1>5, <1>6, <1>7

(* Several tabs are closed at once.                                         *)
LEMMA TiesCloseTabs ==
    ASSUME Good, Tied, NEW victims \in SUBSET DOMAIN tabs, NEW anchor \in DOMAIN tabs \ victims,
           CloseTabs(victims, anchor)
    PROVE  Ties
<1> DEFINE D == Without(victims)
<1>1. PICK kept : kept = Pick(tabs, DOMAIN tabs \ victims)
    OBVIOUS
<1>2. /\ Strip(kept) /\ Open(kept)
      /\ \A k \in DOMAIN tabs \ victims : LET a == IndexOf(kept, tabs[k].col, tabs[k].id) IN
                a \in DOMAIN kept /\ kept[a] = tabs[k]
    BY <1>1, KeptStrip
<1>3. Neat(D)
    BY WithoutNeat
<1>4. CASE active \in victims
    <2>1. Show(kept, IndexOf(kept, tabs[anchor].col, tabs[anchor].id), mem, D)
        BY <1>1, <1>4 DEF CloseTabs
    <2> HIDE DEF D
    <2>2. QED
        BY <1>2, <1>3, <2>1, TiesShow
<1>5. CASE active \notin victims
    <2>1. /\ tabs' = kept /\ active' = IndexOf(kept, tabs[active].col, tabs[active].id)
          /\ Redraw(D)
        BY <1>1, <1>5 DEF CloseTabs
    <2>2. tabs # <<>>
        BY GoodParts, StripParts
    <2>3. active \in DOMAIN tabs \ victims
        BY <1>5, <2>2, GoodParts DEF Window
    <2>4. active' \in DOMAIN tabs' /\ tabs'[active'] = tabs[active] /\ Open(tabs')
        BY <1>2, <2>1, <2>3
    <2>5. tabs' # <<>>
        BY <2>4
    <2> HIDE DEF D
    <2>6. QED
        BY <1>3, <2>1, <2>2, <2>4, <2>5, TiesRedraw
<1>6. QED
    BY <1>4, <1>5

(* All tabs but one are closed.                                             *)
LEMMA TiesCloseOthers ==
    ASSUME Good, Tied, NEW i \in DOMAIN tabs, CloseOthers(i)
    PROVE  Ties
<1>1. CloseTabs(DOMAIN tabs \ {i}, i)
    BY DEF CloseOthers
<1>2. i \in DOMAIN tabs \ (DOMAIN tabs \ {i})
    OBVIOUS
<1>3. QED
    BY <1>1, <1>2, TiesCloseTabs

(* The tabs to the right are closed.                                        *)
LEMMA TiesCloseRight ==
    ASSUME Good, Tied, NEW i \in DOMAIN tabs, CloseRight(i)
    PROVE  Ties
<1> DEFINE victims == {k \in DOMAIN tabs : k > i}
<1>1. CloseTabs(victims, i)
    BY DEF CloseRight
<1>2. i \in DOMAIN tabs \ victims
    <2>1. i \in Nat
        BY GoodParts, StripParts
    <2>2. QED
        BY <2>1
<1>3. victims \in SUBSET DOMAIN tabs
    OBVIOUS
<1> HIDE DEF victims
<1>4. QED
    BY <1>1, <1>2, <1>3, TiesCloseTabs

(* A tab is dragged.                                                        *)
LEMMA TiesDrag ==
    ASSUME Good, Tied, NEW i \in DOMAIN tabs, NEW j \in DOMAIN tabs, Drag(i, j)
    PROVE  Ties
<1>1. Redraw(drafts) /\ Neat(drafts)
    BY DEF Drag, Tied
<1>2. Open(tabs') /\ tabs # <<>> /\ active' \in DOMAIN tabs' /\ tabs'[active'] = tabs[active]
    BY DraggedStrip
<1>3. tabs' # <<>>
    BY <1>2
<1>4. QED
    BY <1>1, <1>2, <1>3, TiesRedraw

(* Scratch requests stay what loading makes of them.                        *)
LEMMA SyncedNeat ==
    ASSUME NEW M, NEW D, Neat(D), NEW b, NEW t \in Text, Fold[t] = t, NEW isBody,
           NEW w \in SyncedTo(M, D, b, t, isBody)
    PROVE  Neat(w.d)
<1>1. w.d = D \/ w.d = WrittenTo(M, D, b, t).d
    BY DEF SyncedTo
<1>2. w.d = D \/ w.d = [D EXCEPT ![b.id] = t]
    BY <1>1 DEF WrittenTo
<1>3. QED
    BY <1>2 DEF Neat, Desk

(* Something is written through the pointer, or not: the strip stays.       *)
LEMMA TiesWrite ==
    ASSUME Good, Tied, NEW t \in Text, Fold[t] = t, NEW isBody,
           NEW w \in SyncedTo(mem, drafts, bound, t, isBody),
           drafts' = w.d, bound' = w.b, shown' = t, typed' = FALSE,
           UNCHANGED <<boundId, tabs, active>>
    PROVE  Ties
<1>1. Neat(drafts)
    BY DEF Tied
<1>2. tabs # <<>> => Anchored(tabs[active], w.b, boundId)
    BY <1>1, SyncedTies DEF Tied
<1>3. Neat(w.d)
    BY <1>1, SyncedNeat
<1>4. Tied'
    BY <1>2, <1>3 DEF Tied, Neat
<1>5. QED
    BY <1>4, OpenSteady DEF Ties

(* A field is edited.                                                       *)
LEMMA TiesEdit ==
    ASSUME Good, Tied, NEW t \in Text, Fold[t] = t, Edit(t)
    PROVE  Ties
<1>1. PICK w : w = WrittenTo(mem, drafts, bound, t)
    OBVIOUS
<1>2. /\ drafts' = w.d /\ bound' = w.b /\ shown' = t /\ typed' = FALSE
      /\ UNCHANGED <<boundId, tabs, active>>
    BY <1>1 DEF Edit, Written
<1>3. w \in SyncedTo(mem, drafts, bound, t, TRUE)
    BY <1>1 DEF SyncedTo
<1>4. QED
    BY <1>2, <1>3, TiesWrite

(* The body is typed.                                                       *)
LEMMA TiesTypeBody ==
    ASSUME Good, Tied, NEW t \in Text, Fold[t] = t, TypeBody(t)
    PROVE  Ties
<1>1. /\ bound # Nowhere /\ shown' = t /\ UNCHANGED <<tabs, active, drafts, bound, boundId>>
    BY DEF TypeBody, strip
<1>2. tabs # <<>>
    BY <1>1, BoundHasTab
<1>3. Tied'
    BY <1>1, <1>2 DEF Tied, Neat
<1>4. QED
    BY <1>1, <1>3, OpenSteady DEF Ties

(* The typing pauses.                                                       *)
LEMMA TiesPause ==
    ASSUME Good, Tied, Pause
    PROVE  Ties
<1>1. PICK w : w = WrittenTo(mem, drafts, bound, shown)
    OBVIOUS
<1>2. /\ drafts' = w.d /\ bound' = w.b /\ shown' = shown /\ typed' = FALSE
      /\ UNCHANGED <<boundId, tabs, active>>
    BY <1>1 DEF Pause, Written
<1>3. w \in SyncedTo(mem, drafts, bound, shown, TRUE)
    BY <1>1 DEF SyncedTo
<1>4. shown \in Text /\ Fold[shown] = shown
    BY GoodParts DEF Tied
<1>5. QED
    BY <1>2, <1>3, <1>4, TiesWrite

(* The editor is written back.                                              *)
LEMMA TiesWriteBack ==
    ASSUME Good, Tied, WriteBack
    PROVE  Ties
<1>1. PICK w \in Synced : drafts' = w.d /\ bound' = w.b
    BY DEF WriteBack
<1>2. shown' = shown /\ typed' = FALSE /\ UNCHANGED <<boundId, tabs, active>>
    BY DEF WriteBack
<1>3. shown \in Text /\ Fold[shown] = shown /\ w \in SyncedTo(mem, drafts, bound, shown, typed)
    BY GoodParts DEF Tied, Synced
<1>4. QED
    BY <1>1, <1>2, <1>3, TiesWrite

(* A save from the editor keeps more: the snapshots are what is on disk in  *)
(* the collection that is saved, too.                                       *)
Firm ==
    \A k \in DOMAIN tabs' : LET u == tabs'[k] IN
        IsLoaded(u) => OnDisk(u) \/ (Before(u) /\ disk'[u.col] = disk[u.col])

(* The trees M were saved, and other collections are as in memory.          *)
LEMMA ReadsSaved ==
    ASSUME Good, NEW c \in DOMAIN mem, NEW M, DOMAIN M = DOMAIN mem,
           \A x \in DOMAIN mem : x # c => M[x] = mem[x], SavedAs(c, M)
    PROVE  Reads(M) /\ disk'[c] = M[c] /\ \A x \in Colls : x # c => disk'[x] = disk[x]
<1>1. c \in Colls /\ DOMAIN disk = Colls
    BY GoodParts
<1>2. disk'[c] = M[c] /\ \A x \in Colls : x # c => disk'[x] = disk[x]
    BY <1>1 DEF SavedAs
<1>3. QED
    BY <1>2 DEF Reads, Has

(* What refreshCleanSnapshots makes of the tabs.                            *)
LEMMA RefreshTabs ==
    ASSUME NEW T, Strip(T), NEW M, Held(M), NEW c \in DOMAIN M, NEW U, U = Refresh(T, c, M)
    PROVE  /\ DOMAIN U = DOMAIN T
           /\ \A k \in DOMAIN T :
                /\ U[k].col = T[k].col /\ U[k].id = T[k].id
                /\ U[k].snap = NoText <=> T[k].snap = NoText
                /\ T[k].col # c \/ T[k].snap = NoText => U[k] = T[k]
                /\ T[k].col = c /\ T[k].snap # NoText /\ Has(M[c], T[k].id) =>
                        U[k].snap = M[c].text[T[k].id]
<1>1. DOMAIN U = DOMAIN T
    BY DEF Refresh
<1>2. ASSUME NEW k \in DOMAIN T
      PROVE  /\ U[k].col = T[k].col /\ U[k].id = T[k].id
             /\ U[k].snap = NoText <=> T[k].snap = NoText
             /\ T[k].col # c \/ T[k].snap = NoText => U[k] = T[k]
             /\ T[k].col = c /\ T[k].snap # NoText /\ Has(M[c], T[k].id) =>
                     U[k].snap = M[c].text[T[k].id]
    <2>1. PICK t : t = T[k]
        OBVIOUS
    <2>2. t = [col |-> t.col, id |-> t.id, snap |-> t.snap]
        BY <2>1, StripParts, TabKinds
    <2>3. U[k] = IF t.col = c /\ t.snap # NoText /\ Located(M, t)
                 THEN [t EXCEPT !.snap = M[c].text[t.id]] ELSE t
        BY <2>1 DEF Refresh
    <2>4. CASE t.col = c /\ t.snap # NoText /\ Located(M, t)
        <3>1. U[k] = [col |-> t.col, id |-> t.id, snap |-> M[c].text[t.id]]
            BY <2>2, <2>3, <2>4
        <3>2. ~IsDraft(t)
            BY <2>4, WorkbenchAssumption DEF Held, IsDraft
        <3>3. Has(M[c], t.id)
            BY <2>4, <3>2 DEF Located
        <3>4. M[c].text[t.id] # NoText
            BY <3>3, TextProperties, WorkbenchAssumption DEF Text
        <3>5. QED
            BY <2>1, <2>4, <3>1, <3>4
    <2>5. CASE ~(t.col = c /\ t.snap # NoText /\ Located(M, t))
        BY <2>1, <2>3, <2>5 DEF Located
    <2>6. QED
        BY <2>4, <2>5
<1>3. QED
    BY <1>1, <1>2

(* The request in the editor is saved.                                      *)
LEMMA TiesSaveRequest ==
    ASSUME Good, Tied, NEW c \in Colls, SaveRequest(c)
    PROVE  Tied' /\ Firm
<1> DEFINE t == tabs[active]
<1>1. bound # Nowhere /\ ~IsDraft(t) /\ c = boundId.col /\ c \in DOMAIN mem /\ typed' = FALSE
    BY DEF SaveRequest
<1>2. PICK w \in Synced :
        \/ /\ bound' = w.b /\ SavedAs(c, w.m)
           /\ tabs' = Refresh(tabs, t.col, w.m)
           /\ UNCHANGED <<active, drafts, boundId, shown>>
        \/ LoadAgain(w) /\ disk' = disk
    BY DEF SaveRequest
<1>3. tabs # <<>> /\ active \in DOMAIN tabs /\ t \in Tab
    BY <1>1, BoundHasTab
<1>4. Anchored(t, bound, boundId) /\ Neat(drafts) /\ shown \in Text /\ Fold[shown] = shown
    BY <1>3, GoodParts DEF Tied
<1>5. w \in SyncedTo(mem, drafts, bound, shown, typed)
    BY DEF Synced
<1>6. Anchored(t, w.b, boundId) /\ Neat(w.d)
    BY <1>4, <1>5, SyncedTies
<1>7. t.col = c /\ t.snap # NoText
    BY <1>1, <1>4 DEF Anchored
<1>8. Wrote(mem, w)
    BY <1>1, SyncedGood
<1>9. CASE LoadAgain(w) /\ disk' = disk
    <2>1. Tied'
        BY <1>1, <1>6, <1>9, LoadAgainTies
    <2>2. tabs' = tabs
        BY <1>9 DEF LoadAgain
    <2>3. QED
        BY <1>9, <2>1, <2>2 DEF Firm, Before
<1>10. CASE /\ bound' = w.b /\ SavedAs(c, w.m)
            /\ tabs' = Refresh(tabs, t.col, w.m)
            /\ UNCHANGED <<active, drafts, boundId, shown>>
    <2> HIDE DEF t
    <2>1. Held(w.m) /\ Like(mem, w.m) /\ c \in DOMAIN w.m
        BY <1>1, <1>8 DEF Wrote, Like
    <2>2. /\ DOMAIN tabs' = DOMAIN tabs
          /\ \A k \in DOMAIN tabs :
                /\ tabs'[k].col = tabs[k].col /\ tabs'[k].id = tabs[k].id
                /\ tabs'[k].snap = NoText <=> tabs[k].snap = NoText
                /\ tabs[k].col # c \/ tabs[k].snap = NoText => tabs'[k] = tabs[k]
                /\ tabs[k].col = c /\ tabs[k].snap # NoText /\ Has(w.m[c], tabs[k].id) =>
                        tabs'[k].snap = w.m[c].text[tabs[k].id]
        BY <1>7, <1>10, <2>1, GoodParts, RefreshTabs
    <2>3. disk'[c] = w.m[c] /\ \A x \in Colls : x # c => disk'[x] = disk[x]
        BY <1>10, GoodParts DEF SavedAs
    <2>4. /\ tabs'[active].col = t.col /\ tabs'[active].id = t.id /\ tabs'[active].snap # NoText
          /\ tabs' # <<>>
        BY <1>3, <1>7, <2>2 DEF t
    <2>5. Anchored(tabs'[active], w.b, boundId)
        BY <1>1, <1>6, <2>4 DEF Anchored, IsDraft, t
    <2>6. Tied'
        BY <1>1, <1>4, <1>10, <2>4, <2>5 DEF Tied, Neat
    <2>7. ASSUME NEW k \in DOMAIN tabs', IsLoaded(tabs'[k])
          PROVE  LET u == tabs'[k] IN OnDisk(u) \/ (Before(u) /\ disk'[u.col] = disk[u.col])
        <3>1. k \in DOMAIN tabs /\ tabs[k].col \in Colls /\ tabs[k].snap # NoText
              /\ tabs'[k].col = tabs[k].col /\ tabs'[k].id = tabs[k].id
            BY <2>2, <2>7, GoodParts, StripParts, TabKinds DEF IsLoaded, IsDraft
        <3>2. CASE tabs[k].col = c
            <4>1. Has(w.m[c], tabs[k].id) => tabs'[k].snap = w.m[c].text[tabs[k].id]
                BY <2>2, <3>1, <3>2
            <4>2. QED
                BY <2>3, <3>1, <3>2, <4>1 DEF OnDisk
        <3>3. CASE tabs[k].col # c
            BY <2>2, <2>3, <3>1, <3>3 DEF Before
        <3>4. QED
            BY <3>2, <3>3
    <2>8. QED
        BY <2>6, <2>7 DEF Firm
<1>11. QED
    BY <1>2, <1>9, <1>10

(* The request of another tab is saved, which is shown first.               *)
LEMMA TiesSaveTab ==
    ASSUME Good, Tied, NEW i \in DOMAIN tabs, SaveTab(i)
    PROVE  Tied' /\ Firm
<1> DEFINE t == tabs[i]
           c == t.col
           x == Fold[mem[c].text[t.id]]
           M == Put(mem, c, t.id, x)
           T == [tabs EXCEPT ![i] = Snapshot(t, M[c].text[t.id])]
           R == Refresh(T, c, M)
<1>1. /\ ~IsDraft(t) /\ Located(mem, t)
      /\ \/ Show(R, i, M, drafts) /\ SavedAs(c, M)
         \/ /\ active' = i /\ tabs' = T /\ bound' = Lost(M[c].text[t.id])
            /\ boundId' = NodeAt(M, c, t.id) /\ shown' = M[c].text[t.id] /\ typed' = FALSE
            /\ disk' = disk /\ drafts' = drafts
    BY DEF SaveTab
<1>2. c \in DOMAIN mem /\ Has(mem[c], t.id) /\ c \in Colls /\ t \in Tab
    BY <1>1, GoodParts, StripParts DEF Located
<1>3. mem[c].text[t.id] \in Text
    BY <1>2, GoodParts, TextProperties
<1>4. x \in Text /\ Fold[x] = x
    BY <1>3, FoldText
<1>5. Neat(drafts)
    BY DEF Tied
<1> HIDE DEF x
<1>6. Held(M) /\ Like(mem, M) /\ Texted(mem, M, c, t.id, x)
      /\ \A y \in DOMAIN mem : y # c => M[y] = mem[y]
    <2>1. Held(M) /\ Like(mem, M) /\ Texted(mem, M, c, t.id, x)
        BY <1>4, GoodParts, PutTree
    <2>2. \A y \in DOMAIN mem : y # c => M[y] = mem[y]
        BY DEF Put
    <2>3. QED
        BY <2>1, <2>2
<1>7. M[c].text[t.id] = x
    BY <1>2, <1>6 DEF Texted, Has
<1> HIDE DEF M
<1>8. DOMAIN M = DOMAIN mem /\ Has(M[c], t.id)
    BY <1>2, <1>6 DEF Like, Has
<1> DEFINE v == Snapshot(t, x)
<1>9. T = [tabs EXCEPT ![i] = v]
    BY <1>7
<1>10. SameTabs(tabs, T) /\ DOMAIN T = DOMAIN tabs
    <2>1. T = [tabs EXCEPT ![i] = Snapshot(@, x)]
        BY <1>7
    <2> HIDE DEF T
    <2>2. QED
        BY <1>4, <2>1, GoodParts, SnapshotStrip
<1>11. T[i] = v /\ \A k \in DOMAIN tabs : k # i => T[k] = tabs[k]
    BY <1>9
<1>12. /\ v.col = c /\ v.id = t.id /\ v.snap # NoText
       /\ t.snap # NoText => v = t
       /\ t.snap = NoText => v.snap = x
    <2>1. t = [col |-> c, id |-> t.id, snap |-> t.snap]
        BY <1>2, TabKinds
    <2>2. x # NoText
        BY <1>4, WorkbenchAssumption DEF Text
    <2>3. t.snap # NoText => v = t
        BY DEF Snapshot
    <2>4. t.snap = NoText => v = [col |-> c, id |-> t.id, snap |-> x]
        BY <2>1 DEF Snapshot
    <2>5. QED
        BY <2>1, <2>2, <2>3, <2>4
<1>13. t.snap = NoText => ~HasTab([col |-> c, id |-> t.id])
    BY GoodParts DEF HasTab, Strip, NoneTwice
<1>14. CASE /\ active' = i /\ tabs' = T /\ bound' = Lost(M[c].text[t.id])
            /\ boundId' = NodeAt(M, c, t.id) /\ shown' = M[c].text[t.id] /\ typed' = FALSE
            /\ disk' = disk /\ drafts' = drafts
    <2> HIDE DEF T, v, t, c
    <2>1. boundId' # NoNode /\ boundId'.col = c
        BY <1>2, <1>6, <1>8, <1>14, NodeProperties, WorkbenchAssumption
    <2>2. ~IsDraft(v)
        BY <1>1, <1>12 DEF IsDraft, c
    <2>3. Anchored(tabs'[active'], bound', boundId') /\ tabs' # <<>>
        BY <1>11, <1>10, <1>12, <1>14, <2>1, <2>2 DEF Anchored
    <2>4. Tied'
        BY <1>4, <1>5, <1>7, <1>14, <2>3 DEF Tied, Neat
    <2>5. ASSUME NEW k \in DOMAIN tabs' PROVE Before(tabs'[k])
        <3>1. k \in DOMAIN tabs
            BY <1>10, <1>14
        <3>2. CASE k # i
            BY <1>11, <1>14, <3>1, <3>2 DEF Before
        <3>3. CASE k = i /\ t.snap # NoText
            BY <1>11, <1>12, <1>14, <3>3 DEF Before, t
        <3>4. CASE k = i /\ t.snap = NoText
            <4>1. tabs'[k] = v /\ v.col = c /\ v.id = t.id /\ v.snap = Fold[mem[c].text[t.id]]
                BY <1>11, <1>12, <1>14, <3>4 DEF x
            <4>2. QED
                BY <1>2, <1>13, <3>4, <4>1 DEF Before, Entry
        <3>5. QED
            BY <3>2, <3>3, <3>4
    <2>6. Firm
        BY <1>14, <2>5 DEF Firm
    <2>7. QED
        BY <2>4, <2>6
<1>15. CASE Show(R, i, M, drafts) /\ SavedAs(c, M)
    <2>1. Strip(T)
        BY <1>10, GoodParts, SameStrip
    <2> HIDE DEF T, v, t, c
    <2>2. /\ DOMAIN R = DOMAIN T
          /\ \A k \in DOMAIN T :
                /\ R[k].col = T[k].col /\ R[k].id = T[k].id
                /\ R[k].snap = NoText <=> T[k].snap = NoText
                /\ T[k].col # c \/ T[k].snap = NoText => R[k] = T[k]
                /\ T[k].col = c /\ T[k].snap # NoText /\ Has(M[c], T[k].id) =>
                        R[k].snap = M[c].text[T[k].id]
        BY <1>2, <1>6, <1>8, <2>1, RefreshTabs
    <2>3. SameTabs(T, R)
        BY <1>2, <1>6, <2>1, WorkbenchAssumption, RefreshStrip
    <2>4. Strip(R)
        BY <2>1, <2>3, SameStrip
    <2> HIDE DEF R
    <2>5. Tied' /\ Snapped(R, tabs', M)
        BY <1>5, <1>6, <1>10, <1>15, <2>2, <2>4, ShowTies
    <2>6. disk'[c] = M[c] /\ \A y \in Colls : y # c => disk'[y] = disk[y]
        BY <1>2, <1>6, <1>8, <1>15, ReadsSaved
    <2>7. ASSUME NEW k \in DOMAIN tabs', IsLoaded(tabs'[k])
          PROVE  LET u == tabs'[k] IN OnDisk(u) \/ (Before(u) /\ disk'[u.col] = disk[u.col])
        <3>1. PICK u : u = tabs'[k]
            OBVIOUS
        <3>2. PICK j \in DOMAIN R : Turns(R[j], u, M)
            BY <2>5, <3>1 DEF Snapped
        <3>3. u.col = T[j].col /\ u.id = T[j].id /\ j \in DOMAIN tabs /\ j \in DOMAIN T
            BY <1>10, <2>2, <3>2 DEF Turns
        <3>4. CASE u.col = c
            <4>1. Has(M[c], u.id) => u.snap = M[c].text[u.id] \/ u.snap = Fold[M[c].text[u.id]]
                <5>1. CASE u = R[j]
                    BY <2>2, <2>7, <3>1, <3>3, <3>4, <5>1 DEF IsLoaded
                <5>2. CASE u # R[j]
                    BY <2>2, <3>2, <3>3, <3>4, <5>2 DEF Turns
                <5>3. QED
                    BY <5>1, <5>2
            <4>2. QED
                BY <2>6, <3>1, <3>4, <4>1 DEF OnDisk
        <3>5. CASE u.col # c
            <4>1. j # i
                BY <1>11, <1>12, <3>3, <3>5
            <4>2. R[j] = tabs[j] /\ u.col = tabs[j].col
                BY <1>11, <2>2, <3>3, <3>5, <4>1
            <4>3. u.col \in Colls
                BY <2>7, <3>1, <3>3, <4>2, GoodParts, StripParts, TabKinds DEF IsLoaded, IsDraft
            <4>4. (\E l \in DOMAIN tabs : tabs[l] = u) \/ Fresh(u, M)
                BY <3>2, <3>3, <4>2, GoodParts, TurnsFresh
            <4>5. Before(u)
                <5>1. CASE \E l \in DOMAIN tabs : tabs[l] = u
                    BY <5>1 DEF Before
                <5>2. CASE Fresh(u, M)
                    <6>1. u.col \in DOMAIN M /\ Has(M[u.col], u.id)
                        BY <2>7, <3>1, <5>2 DEF Fresh, Located, IsLoaded
                    <6>2. QED
                        BY <1>6, <1>8, <3>5, <5>2, <6>1 DEF Fresh, Before
                <5>3. QED
                    BY <4>4, <5>1, <5>2
            <4>6. QED
                BY <2>6, <3>1, <3>5, <4>3, <4>5
        <3>6. QED
            BY <3>4, <3>5
    <2>8. QED
        BY <2>5, <2>7 DEF Firm
<1>16. QED
    BY <1>1, <1>14, <1>15

(* A scratch request becomes id of c: the tree is M, T are the tabs with    *)
(* one of that request in its place, and D the scratch requests.            *)
Drafted(M, T, D, c, id) ==
    /\ Held(M) /\ OthersSame(M, c) /\ SavedAs(c, M) /\ Strip(T) /\ Neat(D)
    /\ tabs # <<>> /\ active \in DOMAIN tabs /\ DOMAIN T = DOMAIN tabs
    /\ T[active] = TreeTab(c, id) /\ TreeTab(c, id) \in Tab
    /\ \A k \in DOMAIN tabs :
        /\ ~(tabs[k].col = c /\ tabs[k].id = id)
        /\ k # active => T[k] = tabs[k]
    /\ Grows(M) /\ \E w \in Synced : \A d \in Drafts : d # tabs[active].id => D[d] = w.d[d]
    /\ Show(T, active, M, D)

(* It is saved, or the save fails.                                          *)
LEMMA SaveDraftDrafts ==
    ASSUME Good, Tied, NEW c \in Colls, NEW id \in Ids, SaveDraft(c, id)
    PROVE  \/ \E M, T, D : Drafted(M, T, D, c, id)
           \/ \E w \in Synced :
                /\ LoadAgain(w) /\ typed' = FALSE /\ Neat(w.d) /\ tabs # <<>>
                /\ Anchored(tabs[active], w.b, boundId)
<1> DEFINE t == tabs[active]
<1>1. /\ IsDraft(t) /\ bound # Nowhere /\ c \in DOMAIN mem /\ IsFresh(c, id)
    BY DEF SaveDraft
<1>2. PICK w \in Synced :
        \/ LET M == [w.m EXCEPT ![c] =
                        Insert(w.m[c], "root", Len(w.m[c].root) + 1, id, w.d[t.id])] IN
           /\ SavedAs(c, M)
           /\ Show([tabs EXCEPT ![active] = TreeTab(c, id)], active, M,
                   [w.d EXCEPT ![t.id] = Blank])
        \/ LoadAgain(w) /\ typed' = FALSE /\ disk' = disk
    BY DEF SaveDraft
<1>3. Wrote(mem, w)
    BY <1>1, SyncedGood
<1>4. tabs # <<>> /\ active \in DOMAIN tabs /\ t \in Tab
    BY <1>1, BoundHasTab
<1>5. Anchored(t, bound, boundId) /\ Neat(drafts) /\ shown \in Text /\ Fold[shown] = shown
    BY <1>4, GoodParts DEF Tied
<1>6. w \in SyncedTo(mem, drafts, bound, shown, typed)
    BY DEF Synced
<1>7. Anchored(t, w.b, boundId) /\ Neat(w.d)
    BY <1>5, <1>6, SyncedTies
<1>8. CASE LoadAgain(w) /\ typed' = FALSE /\ disk' = disk
    BY <1>4, <1>7, <1>8
<1>9. w.m = mem
    <2>1. bound.at \notin {"slot", "folder"}
        BY <1>1, <1>5 DEF Anchored
    <2>2. WrittenTo(mem, drafts, bound, shown).m = mem
        BY <2>1 DEF WrittenTo
    <2>3. QED
        BY <1>6, <2>2 DEF SyncedTo
<1> DEFINE M == [mem EXCEPT ![c] = Insert(mem[c], "root", Len(mem[c].root) + 1, id, w.d[t.id])]
           T == [tabs EXCEPT ![active] = TreeTab(c, id)]
           D == [w.d EXCEPT ![t.id] = Blank]
<1>10. CASE SavedAs(c, M) /\ Show(T, active, M, D)
    <2>1. ~Has(mem[c], id) /\ t.id \in Drafts /\ w.d[t.id] \in Text
        <3>1. ~Has(mem[c], id)
            BY <1>1 DEF IsFresh
        <3>2. t.id \in Drafts
            BY <1>1, <1>4, TabKinds
        <3>3. QED
            BY <1>7, <3>1, <3>2 DEF Neat, Desk
    <2>2. Len(mem[c].root) + 1 \in 1 .. Len(mem[c]["root"]) + 1 /\ "root" \in Kinds
        <3>1. Len(mem[c].root) \in Nat
            BY <1>1, GoodParts, CollParts DEF Held
        <3>2. QED
            BY <3>1 DEF Kinds
    <2>3. /\ Held(M) /\ DOMAIN M = DOMAIN mem /\ \A x \in DOMAIN mem : x # c => M[x] = mem[x]
          /\ Agrees(M, mem) /\ DOMAIN mem[c].text \subseteq DOMAIN M[c].text
        BY <1>1, <2>1, <2>2, GoodParts, AddTree
    <2>4. \A k \in DOMAIN tabs : ~(tabs[k].col = c /\ tabs[k].id = id)
        BY <1>1, GoodParts, StripParts, IndexProperties DEF IsFresh
    <2> DEFINE u == TreeTab(c, id)
    <2>5. u \in Tab /\ u.col = c /\ u.id = id /\ u.snap = NoText
        BY DEF TreeTab, Tab, Clean
    <2> HIDE DEF u
    <2>6. T = [tabs EXCEPT ![active] = u]
        BY DEF u
    <2>7. /\ Strip(T) /\ DOMAIN T = DOMAIN tabs
          /\ T[active] = u /\ \A k \in DOMAIN tabs : k # active => T[k] = tabs[k]
        BY <1>4, <2>4, <2>5, <2>6, GoodParts, RetabStrip
    <2>8. Neat(D)
        <3>1. Blank \in Text /\ Fold[Blank] = Blank
            BY WorkbenchAssumption DEF Text
        <3>2. D \in Desk /\ \A d \in Drafts : D[d] = IF d = t.id THEN Blank ELSE w.d[d]
            BY <1>7, <3>1 DEF Neat, Desk
        <3>3. QED
            BY <1>7, <3>1, <3>2 DEF Neat
    <2>9. \A d \in Drafts : d # t.id => D[d] = w.d[d]
        BY <1>7 DEF Neat, Desk
    <2> HIDE DEF M, T, D
    <2>10. Grows(M) /\ OthersSame(M, c)
        BY <2>3 DEF Grows, OthersSame
    <2>11. Drafted(M, T, D, c, id)
        BY <1>4, <1>10, <2>3, <2>4, <2>5, <2>7, <2>8, <2>9, <2>10 DEF Drafted, u
    <2>12. QED
        BY <2>11
<1>11. QED
    BY <1>2, <1>8, <1>9, <1>10

(* The tab of the new request has no clean snapshot before it is shown.     *)
LEMMA TiesDrafted ==
    ASSUME Good, Tied, NEW c \in Colls, NEW id \in Ids, c \in DOMAIN mem, NEW M, NEW T, NEW D,
           Drafted(M, T, D, c, id)
    PROVE  Ties
<1>1. /\ Held(M) /\ SavedAs(c, M) /\ Strip(T) /\ Neat(D) /\ Show(T, active, M, D)
      /\ DOMAIN M = DOMAIN mem /\ \A x \in DOMAIN mem : x # c => M[x] = mem[x]
      /\ tabs # <<>> /\ active \in DOMAIN tabs /\ DOMAIN T = DOMAIN tabs
      /\ \A k \in DOMAIN tabs : k # active => T[k] = tabs[k]
    BY DEF Drafted, OthersSame
<1>2. PICK u : u = TreeTab(c, id)
    OBVIOUS
<1>3. T[active] = u /\ u \in Tab /\ u.col = c /\ u.id = id /\ u.snap = NoText
    BY <1>2 DEF Drafted, TreeTab
<1>4. ~HasTab([col |-> c, id |-> id])
    BY DEF HasTab, Drafted
<1>5. Tied' /\ Snapped(T, tabs', M)
    BY <1>1, ShowTies
<1>6. ASSUME NEW k \in DOMAIN tabs', ~IsDraft(tabs'[k]), tabs'[k].snap # NoText
      PROVE  (\E j \in DOMAIN tabs : tabs[j] = tabs'[k]) \/ Fresh(tabs'[k], M)
    <2>1. PICK y : y = tabs'[k]
        OBVIOUS
    <2>2. PICK j \in DOMAIN T : Turns(T[j], y, M)
        BY <1>5, <2>1 DEF Snapped
    <2>3. CASE j = active
        <3>1. Turns(u, y, M) /\ y # u
            BY <1>3, <1>6, <2>1, <2>2, <2>3
        <3>2. /\ y.col = c /\ y.id = id /\ Located(M, u) /\ ~IsDraft(u)
              /\ y.snap = Fold[M[c].text[id]]
            BY <1>3, <3>1 DEF Turns
        <3>3. Located(M, y) /\ Entry(y) = [col |-> c, id |-> id]
            BY <1>3, <3>2 DEF Located, IsDraft, Entry
        <3>4. QED
            BY <1>4, <2>1, <3>2, <3>3 DEF Fresh
    <2>4. CASE j # active
        BY <1>1, <2>1, <2>2, <2>4, <1>6, GoodParts, TurnsFresh
    <2>5. QED
        BY <2>3, <2>4
<1>7. FreshSnaps(M)
    BY <1>6 DEF FreshSnaps
<1>8. Reads(M)
    BY <1>1, ReadsSaved
<1>9. QED
    BY <1>5, <1>7, <1>8, FreshSteady DEF Ties

(* A scratch request is saved into a collection.                            *)
LEMMA TiesSaveDraft ==
    ASSUME Good, Tied, NEW c \in Colls, NEW id \in Ids, SaveDraft(c, id)
    PROVE  Ties
<1>1. CASE \E M, T, D : Drafted(M, T, D, c, id)
    <2>1. c \in DOMAIN mem
        BY DEF SaveDraft
    <2>2. QED
        BY <1>1, <2>1, TiesDrafted
<1>2. ASSUME NEW w \in Synced, LoadAgain(w), typed' = FALSE, Neat(w.d), tabs # <<>>,
             Anchored(tabs[active], w.b, boundId)
      PROVE  Ties
    <2>1. Tied'
        BY <1>2, LoadAgainTies
    <2>2. tabs' = tabs
        BY <1>2 DEF LoadAgain
    <2>3. QED
        BY <2>1, <2>2, OpenSteady DEF Ties
<1>3. QED
    BY <1>1, <1>2, SaveDraftDrafts

(* A save fails: nothing was written before.                                *)
LEMMA TiesLoadAgain ==
    ASSUME Good, Tied, LoadAgain(AsIs), typed' = typed
    PROVE  Ties
<1>1. AsIs.b = bound /\ AsIs.d = drafts
    BY DEF AsIs
<1>2. Tied'
    BY <1>1, LoadAgainTies DEF Tied
<1>3. tabs' = tabs
    BY DEF LoadAgain
<1>4. QED
    BY <1>2, <1>3, OpenSteady DEF Ties

(* The save at the end of an operation on the tree fails.                   *)
LEMMA TiesFailedSave ==
    ASSUME Good, Tied, FailedSave
    PROVE  Ties
BY TiesLoadAgain DEF FailedSave

(* What is written to the active tab's request makes no difference to those *)
(* without a loaded tab.                                                    *)
LEMMA ReadsWritten ==
    ASSUME Good, Tied, NEW M, Held(M), Reads(M), NEW w \in Reconciled(M, shown, typed)
    PROVE  Held(w.m) /\ Neat(w.d) /\ Reads(w.m)
<1> DEFINE t == tabs[active]
<1>1. Neat(drafts) /\ drafts \in Desk /\ shown \in Text /\ Fold[shown] = shown
    BY GoodParts DEF Tied
<1>2. CASE w = [m |-> M, d |-> drafts, b |-> bound]
    BY <1>1, <1>2
<1>3. CASE /\ tabs # <<>> /\ Located(M, t)
           /\ w \in SyncedTo(M, drafts, BoundTo(M, t), shown, typed)
    <2>1. Held(w.m) /\ Neat(w.d)
        BY <1>1, <1>3, SyncedProperties, SyncedNeat DEF Wrote
    <2>2. Anchored(t, bound, boundId) /\ active \in DOMAIN tabs
        BY <1>3, GoodParts DEF Tied, Window
    <2> HIDE DEF t
    <2>3. CASE w.m = M
        BY <2>1, <2>3
    <2>4. CASE w = WrittenTo(M, drafts, BoundTo(M, t), shown)
        <3>1. CASE IsDraft(t)
            <4>1. BoundTo(M, t).at \notin {"slot", "folder"}
                BY <2>2, <3>1 DEF BoundTo, Anchored
            <4>2. w.m = M
                BY <2>4, <4>1 DEF WrittenTo
            <4>3. QED
                BY <2>3, <4>2
        <3>2. CASE ~IsDraft(t)
            <4> DEFINE b == PlaceOf(M, t.col, t.id)
            <4>1. t.col \in DOMAIN M /\ Has(M[t.col], t.id) /\ BoundTo(M, t) = b
                BY <1>3, <3>2 DEF Located, BoundTo
            <4>2. b.at \in {"slot", "folder"} /\ b.col = t.col /\ IdAt(M, b) = t.id
                BY <4>1, NodeProperties
            <4> HIDE DEF b
            <4>3. w.m = Put(M, t.col, t.id, shown)
                BY <2>4, <4>1, <4>2 DEF WrittenTo
            <4>4. Like(M, w.m) /\ Texted(M, w.m, t.col, t.id, shown)
                BY <1>1, <4>3, PutTree
            <4>5. HasTab([col |-> t.col, id |-> t.id])
                BY <2>2, <3>2 DEF Anchored, HasTab, t
            <4>6. QED
                BY <2>1, <4>4, <4>5 DEF Reads, Like, Texted
        <3>3. QED
            BY <3>1, <3>2
    <2>5. QED
        BY <1>3, <2>3, <2>4 DEF SyncedTo
<1>4. QED
    BY <1>2, <1>3 DEF Reconciled

(* What an operation on the tree ends with.                                 *)
LEMMA TiesReconcileAndSelect ==
    ASSUME Good, Tied, NEW M, Held(M), Reads(M), NEW c \in DOMAIN M, NEW id, Has(M[c], id),
           ReconcileAndSelect(M, c, id)
    PROVE  Ties
<1> DEFINE n == NodeAt(M, c, id)
<1>1. c \in Colls /\ id \in Ids
    BY NodeProperties
<1>2. CASE n.kind = "root" /\ ~IsSelected(n)
    <2>1. PICK w \in Reconciled(M, shown, typed) : OpenTab(Kept(M), w.m, w.d, c, id)
        BY <1>2 DEF ReconcileAndSelect
    <2>2. Held(w.m) /\ Neat(w.d) /\ Reads(w.m)
        BY ReadsWritten
    <2>3. Strip(Kept(M)) /\ Open(Kept(M)) /\ \A k \in DOMAIN tabs : Located(M, tabs[k]) =>
                \E l \in DOMAIN Kept(M) : Kept(M)[l] = tabs[k]
        BY GoodParts, KeptProperties, KeptOpen
    <2>4. \A k \in DOMAIN tabs : tabs[k].col = c /\ tabs[k].id = id => Located(M, tabs[k])
        BY DEF Located
    <2>5. Tied' /\ FreshSnaps(w.m)
        BY <1>1, <2>1, <2>2, <2>3, <2>4, GoodParts, OpenTabTies
    <2>6. QED
        BY <2>2, <2>5, FreshSteady DEF Ties
<1>3. CASE ~(n.kind = "root" /\ ~IsSelected(n))
    <2>1. Reconcile(M, FALSE)
        BY <1>3 DEF ReconcileAndSelect
    <2>2. Tied' /\ FreshSnaps(M)
        BY <2>1, GoodParts, ReconcileTies
    <2>3. QED
        BY <2>2, FreshSteady DEF Ties
<1>4. QED
    BY <1>2, <1>3

(* A request is added or moved. *)
LEMMA TiesChange ==
    ASSUME Good, Tied, NEW M, NEW c \in Colls, NEW id, Changes(M, c, id)
    PROVE  Ties
<1>1. /\ c \in DOMAIN mem /\ Held(M) /\ Has(M[c], id)
      /\ DOMAIN M = DOMAIN mem /\ \A x \in DOMAIN mem : x # c => M[x] = mem[x]
    BY DEF Changes, OthersSame
<1>2. CASE SavedAs(c, M) /\ ReconcileAndSelect(M, c, id)
    <2>1. Reads(M)
        BY <1>1, <1>2, ReadsSaved
    <2>2. QED
        BY <1>1, <1>2, <2>1, TiesReconcileAndSelect
<1>3. QED
    BY <1>2, TiesFailedSave DEF Changes

(* A collection is saved as it is. *)
LEMMA TiesSaveCollection ==
    ASSUME Good, Tied, NEW c \in Colls, SaveCollection(c)
    PROVE  Ties
<1>1. CASE Reconcile(mem, FALSE)
    <2>1. Tied' /\ FreshSnaps(mem)
        BY <1>1, GoodParts, ReconcileTies
    <2>2. QED
        BY <2>1, ReadsMem, FreshSteady DEF Ties
<1>2. CASE Same(mem)
    <2>1. UNCHANGED <<tabs, active, drafts, bound, boundId, shown, typed>>
        BY <1>2 DEF Same, strip, editor
    <2>2. QED
        BY <2>1, TiesSame DEF Tied
<1>3. QED
    BY <1>1, <1>2, TiesFailedSave DEF SaveCollection

(* The editor is cleared under the open tabs.                               *)
LEMMA TiesCleared ==
    ASSUME Good, Tied, ClearEditor, UNCHANGED <<tabs, active, drafts>>
    PROVE  Ties
<1>1. bound' = Nowhere /\ boundId' = NoNode /\ shown' = Blank /\ typed' = FALSE
    BY DEF ClearEditor
<1>2. Fold[Blank] = Blank
    BY WorkbenchAssumption
<1>3. Nowhere.at \notin {"slot", "folder"}
    BY DEF Nowhere
<1>4. tabs # <<>> => Anchored(tabs[active], Nowhere, NoNode)
    BY <1>3 DEF Tied, Anchored
<1>5. Tied'
    BY <1>1, <1>2, <1>4 DEF Tied, Neat
<1>6. QED
    BY <1>5, OpenSteady DEF Ties

(* The selected request is deleted.                                         *)
LEMMA TiesDelete ==
    ASSUME Good, Tied, NEW M, NEW c, NEW id, Deletes(M, c, id)
    PROVE  Ties
<1>1. /\ c \in DOMAIN mem /\ Held(M) /\ DOMAIN M = DOMAIN mem
      /\ \A x \in DOMAIN mem : x # c => M[x] = mem[x]
    BY DEF Deletes, OthersSame
<1>2. ASSUME NEW doomed, SavedAs(c, M), Reconciles(M, doomed)
      PROVE  Ties
    <2>1. Reads(M)
        BY <1>1, <1>2, ReadsSaved
    <2>2. Tied' /\ FreshSnaps(M)
        BY <1>1, <1>2, GoodParts, ReconcileTies DEF Reconciles
    <2>3. QED
        BY <2>1, <2>2, FreshSteady DEF Ties
<1>3. CASE DeleteFails
    BY <1>3, TiesCleared, TiesLoadAgain DEF DeleteFails, strip
<1>4. QED
    BY <1>2, <1>3 DEF Deletes

(* The last delete is undone. *)
LEMMA TiesUndo ==
    ASSUME Good, Tied, NEW M, NEW c, NEW id, NEW n, Undoes(M, c, id, n)
    PROVE  Ties
<1>1. /\ c \in DOMAIN mem /\ c \in Colls /\ id \in Ids
      /\ Held(M) /\ DOMAIN M = DOMAIN mem
      /\ \A x \in DOMAIN mem : x # c => M[x] = mem[x]
    BY DEF Undoes, OthersSame
<1>2. CASE SavedAs(c, M) /\ OpenTab(tabs, M, drafts, c, id)
    <2>1. Open(tabs) /\ Neat(drafts)
        BY DEF Open, Tied
    <2>2. Tied' /\ FreshSnaps(M)
        BY <1>1, <1>2, <2>1, GoodParts, OpenTabTies
    <2>3. Reads(M)
        BY <1>1, <1>2, ReadsSaved
    <2>4. QED
        BY <2>2, <2>3, FreshSteady DEF Ties
<1>3. CASE /\ bound' = bound \/ (bound.at = "slot" /\ bound' = Detached(AsIs))
           /\ UNCHANGED <<strip, boundId, shown, typed, persisted>>
    <2>1. UNCHANGED <<tabs, active, drafts, boundId, shown, typed>>
        BY <1>3 DEF strip
    <2>2. tabs # <<>> => Anchored(tabs[active], bound', boundId)
        BY <1>3 DEF Tied, Anchored, Nowhere
    <2>3. Tied'
        BY <2>1, <2>2 DEF Tied, Neat
    <2>4. QED
        BY <2>1, <2>3, OpenSteady DEF Ties
<1>4. QED
    BY <1>2, <1>3, TiesLoadAgain DEF Undoes

(* A collection leaves the session. *)
LEMMA TiesRemoveCollection ==
    ASSUME Good, Tied, NEW c \in Colls, RemoveCollection(c)
    PROVE  Ties
<1>1. PICK M : Removes(M, c)
    BY RemoveCollectionRemoves
<1> DEFINE cleared == boundId # NoNode /\ boundId.col = c
<1>2. /\ Held(M) /\ \A x \in DOMAIN M : x \in DOMAIN mem /\ M[x] = mem[x]
      /\ Reconcile(M, cleared) /\ cleared \in BOOLEAN
    BY <1>1 DEF Removes, Reconciles
<1> HIDE DEF cleared
<1>3. Tied' /\ FreshSnaps(M)
    BY <1>2, GoodParts, ReconcileTies
<1>4. Reads(M)
    BY <1>2 DEF Reads, Has
<1>5. QED
    BY <1>3, <1>4, FreshSteady DEF Ties

(* A collection is loaded beside the others.                                *)
LEMMA TiesOpenCollection ==
    ASSUME Good, Tied, NEW c \in Colls, OpenCollection(c)
    PROVE  Ties
<1>1. UNCHANGED <<tabs, active, drafts, bound, boundId, shown, typed>>
    BY DEF OpenCollection, strip, editor
<1>2. QED
    BY <1>1, TiesSame DEF Tied

(* No scratch request has content.                                          *)
LEMMA BlankNeat == Neat([d \in Drafts |-> Blank])
<1>1. Fold[Blank] = Blank
    BY WorkbenchAssumption
<1>2. QED
    BY <1>1 DEF Neat, Desk, Text

(* Another workspace is opened, with no tabs.                               *)
LEMMA TiesSwitchWorkspace ==
    ASSUME Good, Tied, NEW cs \in Workspaces, SwitchWorkspace(cs)
    PROVE  Ties
<1> DEFINE D == [d \in Drafts |-> Blank]
           M == [c \in cs |-> disk[c]]
<1>1. Neat(D) /\ NoTabs(M, D)
    BY BlankNeat DEF SwitchWorkspace
<1> HIDE DEF D, M
<1>2. Tied' /\ tabs' = <<>>
    BY <1>1, EmptyTies
<1>3. QED
    BY <1>2 DEF Ties, Steady

(* A workspace is deleted, and the active one loaded again.                 *)
LEMMA TiesDeleteWorkspace ==
    ASSUME Good, Tied, NEW cs \in Workspaces, DeleteWorkspace(cs)
    PROVE  Ties
BY TiesCleared DEF DeleteWorkspace, strip

(* The trees M are as on disk, and T are the tabs that are loaded again.     *)
Restarted(M, T, D) ==
    /\ disk' = disk /\ Held(M) /\ (\A c \in DOMAIN M : M[c] = disk[c]) /\ Neat(D) /\ Strip(T)
    /\ \A k \in DOMAIN T : T[k].snap = NoText /\ ~IsDraft(T[k])
    /\ NoTabs(M, D) \/ \E i \in DOMAIN T : Show(T, i, M, D)

(* The program starts again: the tabs are loaded from disk.                 *)
LEMMA RestartRestarts ==
    ASSUME Good, Restart
    PROVE  \E M, T, D : Restarted(M, T, D)
<1> DEFINE M == [c \in DOMAIN mem |-> disk[c]]
           at == {k \in DOMAIN persisted.tabs : Located(M, persisted.tabs[k])}
           found == Pick(persisted.tabs, at)
           T == [k \in DOMAIN found |-> TreeTab(found[k].col, found[k].id)]
           I == {k \in 1 .. Len(T) : T[k].id = persisted.tabs[persisted.active].id}
           i == SelectInSeq(T, LAMBDA t : t.id = persisted.tabs[persisted.active].id)
           D == [d \in Drafts |-> Blank]
<1>1. /\ disk' = disk
      /\ \/ T # <<>> /\ Show(T, IF i = 0 THEN 1 ELSE i, M, D)
         \/ NoTabs(M, D)
    BY DEF Restart
<1>2. Held(M) /\ \A c \in DOMAIN M : c \in Colls /\ M[c] = disk[c]
    <2>1. DOMAIN mem \in SUBSET Colls
        BY GoodParts
    <2>2. QED
        BY <2>1, DiskTree
<1>3. Neat(D)
    BY BlankNeat
<1>4. at \in SUBSET DOMAIN persisted.tabs /\ Remembered(persisted.tabs)
    BY GoodParts DEF Window
<1> HIDE DEF at
<1>5. Strip(T)
    BY <1>4, PickRemembered
<1>6. \A k \in DOMAIN T : T[k].snap = NoText
    BY DEF TreeTab
<1>7. \A k \in DOMAIN T : ~IsDraft(T[k])
    <2> DEFINE S == [col : Colls, id : Ids]
    <2>1. persisted.tabs \in Seq(S) /\ DOMAIN persisted.tabs = 1 .. Len(persisted.tabs)
        BY <1>4, LenProperties DEF Remembered
    <2>2. \A e \in S : e.col \in Colls
        OBVIOUS
    <2> HIDE DEF S
    <2>3. found \in Seq(S)
        BY <1>4, <2>1, PickProperties
    <2>4. \A k \in DOMAIN found : found[k].col \in Colls
        BY <2>2, <2>3, LenProperties, ElementOfSeq
    <2> HIDE DEF found
    <2>5. QED
        BY <2>4, WorkbenchAssumption DEF TreeTab, IsDraft
<1>8. i = IF I # {} THEN Min(I) ELSE 0
    BY DEF SelectInSeq
<1> HIDE DEF M, D, T, i
<1>9. T # <<>> => (IF i = 0 THEN 1 ELSE i) \in DOMAIN T
    <2>1. PICK n \in Nat : n = Len(T) /\ DOMAIN T = 1 .. n /\ (T # <<>> => n # 0)
        BY <1>5, StripParts
    <2>2. I \in SUBSET Nat /\ I \subseteq 1 .. n
        BY <2>1
    <2> HIDE DEF I
    <2>3. I # {} => Min(I) \in I
        BY <2>2, LeastNat DEF Min
    <2>4. I # {} => i \in 1 .. n
        BY <1>8, <2>2, <2>3
    <2>5. I = {} => i = 0
        BY <1>8
    <2>6. QED
        BY <2>1, <2>4, <2>5
<1>10. NoTabs(M, D) \/ \E j \in DOMAIN T : Show(T, j, M, D)
    BY <1>1, <1>9
<1>11. Restarted(M, T, D)
    BY <1>1, <1>2, <1>3, <1>5, <1>6, <1>7, <1>10 DEF Restarted
<1>12. QED
    BY <1>11

(* The loaded tabs are as on disk.                                          *)
LEMMA TiesRestart ==
    ASSUME Good, Tied, Restart
    PROVE  Ties
<1>1. PICK M, T, D : Restarted(M, T, D)
    BY RestartRestarts
<1>2. /\ disk' = disk /\ Held(M) /\ (\A c \in DOMAIN M : M[c] = disk[c]) /\ Neat(D) /\ Strip(T)
      /\ \A k \in DOMAIN T : T[k].snap = NoText
    BY <1>1 DEF Restarted
<1>3. ASSUME NEW i \in DOMAIN T, Show(T, i, M, D)
      PROVE  Ties
    <2>1. Tied' /\ Snapped(T, tabs', M)
        BY <1>2, <1>3, ShowTies
    <2>2. ASSUME NEW k \in DOMAIN tabs', IsLoaded(tabs'[k]) PROVE OnDisk(tabs'[k])
        <3>1. PICK u : u = tabs'[k]
            OBVIOUS
        <3>2. PICK j \in DOMAIN T : Turns(T[j], u, M)
            BY <2>1, <3>1 DEF Snapped
        <3>3. T[j].snap = NoText /\ u.snap # NoText
            BY <1>2, <2>2, <3>1 DEF IsLoaded
        <3>4. /\ u.col = T[j].col /\ u.id = T[j].id /\ ~IsDraft(T[j]) /\ Located(M, T[j])
              /\ u.snap = Fold[M[u.col].text[u.id]]
            BY <3>2, <3>3 DEF Turns
        <3>5. u.col \in DOMAIN M /\ M[u.col] = disk'[u.col]
            BY <1>2, <3>4 DEF Located
        <3>6. QED
            BY <3>1, <3>4, <3>5 DEF OnDisk
    <2>3. QED
        BY <2>1, <2>2 DEF Ties, Steady
<1>4. CASE NoTabs(M, D)
    <2>1. Tied' /\ tabs' = <<>>
        BY <1>2, <1>4, EmptyTies
    <2>2. QED
        BY <2>1 DEF Ties, Steady
<1>5. QED
    BY <1>1, <1>3, <1>4 DEF Restarted

(* What the steps keep of the window and the snapshots.                     *)
LEMMA TiesTabs ==
    ASSUME Good, Tied, OfTabs
    PROVE  Ties /\ disk' = disk
<1>1. ASSUME NEW c \in Colls, NEW id \in Ids, SelectRequest(c, id) PROVE Ties /\ disk' = disk
    BY <1>1, TiesSelectRequest DEF SelectRequest
<1>2. ASSUME NEW d \in Drafts, NEW t \in Pasted \cup {Blank}, NewScratch(d, t)
      PROVE  Ties /\ disk' = disk
    BY <1>2, TiesNewScratch DEF NewScratch, Quiet
<1>3. ASSUME NEW i \in DOMAIN tabs,
             \/ Activate(i) \/ Close(i) \/ CloseOthers(i) \/ CloseRight(i)
             \/ \E j \in DOMAIN tabs : Drag(i, j)
      PROVE  Ties /\ disk' = disk
    <2>1. Ties
        BY <1>3, TiesActivate, TiesClose, TiesCloseOthers, TiesCloseRight, TiesDrag
    <2>2. Quiet
        BY <1>3 DEF Activate, Close, CloseOthers, CloseRight, Drag
    <2>3. QED
        BY <2>1, <2>2 DEF Quiet
<1>4. QED
    BY <1>1, <1>2, <1>3 DEF OfTabs

(* What is typed, and what is written back.                                 *)
LEMMA TiesTyping ==
    ASSUME Good, Tied, OfEditor \/ AskQuit \/ Validate \/ Pause
    PROVE  Ties /\ disk' = disk
<1>1. ASSUME NEW t \in Texts, Edit(Fold[t]) \/ TypeBody(Fold[t]) PROVE Ties /\ disk' = disk
    <2>1. Fold[t] \in Text /\ Fold[Fold[t]] = Fold[t]
        BY FoldText DEF Text
    <2> DEFINE u == Fold[t]
    <2>2. u \in Text /\ Fold[u] = u /\ (Edit(u) \/ TypeBody(u))
        BY <1>1, <2>1
    <2> HIDE DEF u
    <2>3. disk' = disk
        BY <2>2 DEF Edit, TypeBody, Quiet
    <2>4. QED
        BY <2>2, <2>3, TiesEdit, TiesTypeBody
<1>2. CASE WriteBack
    BY <1>2, TiesWriteBack DEF WriteBack, Quiet
<1>3. CASE Pause
    BY <1>3, TiesPause DEF Pause, Quiet
<1>4. QED
    BY <1>1, <1>2, <1>3 DEF OfEditor, AskQuit, Validate

(* The saves from the editor.                                               *)
LEMMA FirmSaves ==
    ASSUME Good, Tied, FromEditor
    PROVE  Tied' /\ Firm
BY TiesSaveRequest, TiesSaveTab DEF FromEditor

(* The operations on the tree, on collections and on workspaces.            *)
LEMMA TiesOperations ==
    ASSUME Good, Tied, OfTree \/ OfCollections
    PROVE  Ties
<1>1. ASSUME NEW c \in Colls,
             SaveCollection(c) \/ RemoveCollection(c) \/ OpenCollection(c)
      PROVE  Ties
    BY <1>1, TiesSaveCollection, TiesRemoveCollection, TiesOpenCollection
<1>2. ASSUME NEW c \in Colls, NEW id \in Ids, SaveDraft(c, id) PROVE Ties
    BY <1>2, TiesSaveDraft
<1>3. ASSUME NEW c \in Colls, NEW id \in Ids, NEW k, AddRequest(c, k, id) PROVE Ties
    BY <1>3, AddRequestChanges, TiesChange
<1>4. ASSUME NEW c \in Colls, NEW kind \in Kinds, NEW i, NEW j, Move(c, kind, i, j) PROVE Ties
    BY <1>4, MoveChanges, TiesChange
<1>5. ASSUME NEW cs \in Workspaces, SwitchWorkspace(cs) \/ DeleteWorkspace(cs) PROVE Ties
    BY <1>5, TiesSwitchWorkspace, TiesDeleteWorkspace
<1>6. CASE OfTree
    BY <1>1, <1>2, <1>3, <1>4, <1>6, DeleteDeletes, TiesDelete, UndoUndoes, TiesUndo DEF OfTree
<1>7. CASE OfCollections
    BY <1>1, <1>5, <1>7, TiesRestart DEF OfCollections
<1>8. QED
    BY <1>6, <1>7

-----------------------------------------------------------------------------
(* What the program knows of its unsaved edits.                             *)
Known == Tied /\ Unseen /\ Snaps

(* At the start nothing is edited.                                          *)
LEMMA KnownInit ==
    ASSUME Good, Init
    PROVE  Known
<1>1. /\ mem = disk /\ tabs = <<>> /\ shown = Blank /\ typed = FALSE
      /\ drafts = [d \in Drafts |-> Blank]
    BY DEF Init
<1>2. Tied
    BY <1>1, BlankNeat, WorkbenchAssumption DEF Tied
<1>3. Flushed.m = mem
    BY <1>1 DEF Flushed, AsIs
<1>4. Unseen
    BY <1>1, <1>3 DEF Unseen, Edited, Unsaved
<1>5. Snaps
    BY <1>1 DEF Snaps, InSync
<1>6. QED
    BY <1>2, <1>4, <1>5 DEF Known

(* Nothing changes. *)
LEMMA KnownStutter ==
    ASSUME Known, UNCHANGED vars
    PROVE  Known'
<1>1. UNCHANGED <<disk, mem, tabs, active, drafts, bound, boundId, shown, typed, missed>>
    BY DEF vars, session, editor, strip
<1>2. Flushed' = Flushed
    BY <1>1 DEF Flushed, Written, AsIs
<1>3. ASSUME NEW r \in Request
      PROVE  (Edited(r)' <=> Edited(r)) /\ (HasTab(r)' <=> HasTab(r)) /\ (InSync(r)' <=> InSync(r))
    BY <1>1, <1>2 DEF Edited, Unsaved, HasTab, InSync
<1>4. Unseen' /\ Snaps'
    BY <1>1, <1>3 DEF Known, Unseen, Snaps
<1>5. Tied'
    BY <1>1 DEF Known, Tied, Neat
<1>6. QED
    BY <1>4, <1>5 DEF Known

(* Every step keeps it. *)
LEMMA KnownStep ==
    ASSUME Good, Known, [Next]_vars
    PROVE  Known'
<1>1. Good' /\ Tied /\ Unseen /\ Snaps
    BY GoodStep DEF Known
<1>2. ASSUME Ties, disk' = disk, missed' = Missed({})
      PROVE  Known'
    <2>1. \A k \in DOMAIN tabs' : LET u == tabs'[k] IN
            IsLoaded(u) => OnDisk(u) \/ (Before(u) /\ disk'[u.col] = disk[u.col])
        BY <1>2 DEF Ties, Steady
    <2>2. Unseen' /\ Snaps'
        BY <1>1, <1>2, <2>1, SnapsKept
    <2>3. QED
        BY <1>2, <2>2 DEF Known, Ties
<1>3. ASSUME FromEditor, missed' = Missed({})
      PROVE  Known'
    <2>1. Tied' /\ Firm
        BY <1>1, <1>3, FirmSaves
    <2>2. Unseen' /\ Snaps'
        BY <1>1, <1>3, <2>1, SnapsKept DEF Firm
    <2>3. QED
        BY <2>1, <2>2 DEF Known
<1>4. ASSUME OfTree \/ OfCollections,
             missed' = Missed({r \in Request : disk'[r.col] # disk[r.col]})
      PROVE  Known'
    <2> DEFINE W == {r \in Request : disk'[r.col] # disk[r.col]}
    <2>1. Tied' /\ Steady
        BY <1>1, <1>4, TiesOperations DEF Ties
    <2>2. ASSUME NEW k \in DOMAIN tabs', IsLoaded(tabs'[k]),
                 disk'[tabs'[k].col] # disk[tabs'[k].col]
          PROVE  Entry(tabs'[k]) \in W
        <3>1. PICK u : u = tabs'[k]
            OBVIOUS
        <3>2. Strip(tabs')
            BY <1>1 DEF Good, Window
        <3>3. u \in Tab /\ ~IsDraft(u)
            <4>1. \A T : Strip(T) => \A l \in DOMAIN T : T[l] \in Tab
                BY StripParts
            <4>2. QED
                BY <2>2, <3>1, <3>2, <4>1 DEF IsLoaded
        <3>4. u.col \in Colls /\ u.id \in Ids
            BY <3>3, TabKinds
        <3>5. QED
            BY <2>2, <3>1, <3>4 DEF Entry, Request
    <2>3. \A k \in DOMAIN tabs' : LET u == tabs'[k] IN
            IsLoaded(u) =>
                OnDisk(u) \/ (Before(u) /\ disk'[u.col] = disk[u.col]) \/ Entry(u) \in W
        BY <2>1, <2>2 DEF Steady
    <2> HIDE DEF W
    <2>4. missed' = Missed(W)
        BY <1>4 DEF W
    <2>5. Unseen' /\ Snaps'
        BY <1>1, <2>3, <2>4, SnapsKept
    <2>6. QED
        BY <2>1, <2>5 DEF Known
<1>5. ASSUME NEW c \in Colls, SelectCollection(c), missed' = Missed({})
      PROVE  Known'
    <2>1. disk' = disk
        BY <1>5 DEF SelectCollection
    <2>2. QED
        BY <1>1, <1>2, <1>5, <2>1, TiesSelectCollection
<1>6. CASE Next
    BY <1>1, <1>2, <1>3, <1>4, <1>5, <1>6, TiesTabs, TiesTyping DEF Next
<1>7. QED
    BY <1>6, KnownStutter

(* The program always knows.                                                *)
THEOREM AlwaysKnown == Spec => [](Good /\ Known)
<1>1. Init => Good /\ Known
    BY GoodInit, KnownInit
<1>2. (Good /\ Known) /\ [Next]_vars => (Good /\ Known)'
    BY GoodStep, KnownStep
<1>3. QED
    BY <1>1, <1>2, PTL DEF Spec

(* The quit guard asks for an unsaved edit of a request that has a tab, if  *)
(* the tab was not closed since the edit, nor the collection saved from     *)
(* elsewhere with it: the tab is loaded, so it has a clean snapshot, and    *)
(* that is what the disk has.                                               *)
THEOREM QuitGuardAsks == Spec => []QuitAsksForOpenEdits
<1>1. ASSUME Good, Known PROVE QuitAsksForOpenEdits
    <2>1. ASSUME NEW k \in DOMAIN tabs, ~IsDraft(tabs[k]),
                 Unsaved(Flushed.m, tabs[k].col, tabs[k].id), Entry(tabs[k]) \notin missed
          PROVE  Dirty(Flushed.m, Flushed.d, tabs[k])
        <3>1. PICK t : t = tabs[k]
            OBVIOUS
        <3>2. PICK M : M = Flushed.m
            OBVIOUS
        <3>3. t \in Tab /\ t.col \in Colls /\ t.id \in Ids
            BY <1>1, <2>1, <3>1, GoodParts, StripParts, TabKinds
        <3>4. PICK r \in Request : r = Entry(t) /\ r.col = t.col /\ r.id = t.id
            <4>1. Entry(t) \in Request /\ Entry(t).col = t.col /\ Entry(t).id = t.id
                BY <3>3 DEF Entry, Request
            <4>2. QED
                BY <4>1
        <3>5. Edited(r)
            BY <2>1, <3>1, <3>4 DEF Edited
        <3>6. HasTab(r) /\ InSync(r)
            BY <1>1, <2>1, <3>1, <3>4, <3>5 DEF Known, Unseen, Snaps
        <3>7. t.snap # NoText
            <4>1. PICK l \in DOMAIN tabs :
                    tabs[l].col = r.col /\ tabs[l].id = r.id /\ tabs[l].snap # NoText
                BY <3>6 DEF HasTab
            <4>2. l = k
                BY <1>1, <3>1, <3>4, <4>1, GoodParts, StripParts DEF NoneTwice
            <4>3. QED
                BY <3>1, <4>1, <4>2
        <3>8. Held(M) /\ Like(mem, M)
            <4>1. Wrote(mem, Written(shown)) /\ Wrote(mem, AsIs)
                BY <1>1, GoodParts, WrittenProperties, LikeItself DEF Written, AsIs, Wrote
            <4>2. QED
                BY <3>2, <4>1 DEF Flushed, Wrote
        <3>9. t.col \in DOMAIN M /\ Has(M[t.col], t.id) /\ Unsaved(M, t.col, t.id)
            BY <2>1, <3>1, <3>2 DEF Unsaved
        <3>10. Has(disk[t.col], t.id)
            BY <1>1, <3>8, <3>9, GoodParts DEF SameIds, Like, Has
        <3>11. Fold[M[t.col].text[t.id]] # Fold[disk[t.col].text[t.id]]
            BY <3>9, <3>10 DEF Unsaved
        <3>12. Fold[t.snap] = Fold[disk[t.col].text[t.id]]
            BY <2>1, <3>1, <3>4, <3>6, <3>7, <3>10 DEF InSync
        <3>13. Dirty(M, Flushed.d, t)
            BY <2>1, <3>1, <3>7, <3>9, <3>11, <3>12 DEF Dirty, Located
        <3>14. QED
            BY <3>1, <3>2, <3>13
    <2>2. QED
        BY <2>1 DEF QuitAsksForOpenEdits, Entry
<1>2. QED
    BY <1>1, AlwaysKnown, PTL

-----------------------------------------------------------------------------
(* Scratch requests and typed bodies.                                       *)
HasEntry(T, t) == \E k \in DOMAIN T : T[k].col = t.col /\ T[k].id = t.id

(* The scratch tabs of T are in U.                                          *)
Stays(T, U) == \A k \in DOMAIN T : IsDraft(T[k]) => HasEntry(U, T[k])

(* What was typed is written to its request when it no longer waits, or the *)
(* request has no tab any more.                                             *)
KeepsBody ==
    typed /\ ~typed' /\ ~adrift /\ ~adrift' => LET t == tabs[active] IN
        (Located(mem', t) /\ Live(mem', drafts', t) = shown) \/ ~HasEntry(tabs', t)

(* The editor stays on the same tab, with what it shows.                    *)
LEMMA BodyStays ==
    ASSUME Good', tabs' # <<>>, tabs'[active'].col = tabs[active].col,
           tabs'[active'].id = tabs[active].id, shown' = shown
    PROVE  KeepsBody
<1>1. ASSUME ~typed', ~adrift'
      PROVE  Located(mem', tabs[active]) /\ Live(mem', drafts', tabs[active]) = shown
    <2>1. PICK t : t = tabs[active]
        OBVIOUS
    <2>2. PICK u : u = tabs'[active']
        OBVIOUS
    <2>3. Follows(mem', drafts', u, bound', boundId', shown', typed')
        BY <1>1, <2>2 DEF Good, Window
    <2>4. u.col = t.col /\ u.id = t.id
        BY <2>1, <2>2
    <2>5. Located(mem', t) /\ Live(mem', drafts', t) = shown
        BY <1>1, <2>3, <2>4 DEF Follows, Located, Live, IsDraft
    <2>6. QED
        BY <2>1, <2>5
<1>2. QED
    BY <1>1 DEF KeepsBody

(* It is adrift after the step.                                             *)
LEMMA BodyAdrift ==
    ASSUME Tied, adrift' = (tabs # <<>>)
    PROVE  KeepsBody
BY DEF Tied, KeepsBody

(* Scratch tabs are in any tree, so that they stay when a tab is shown; and *)
(* no tab is new.                                                           *)
LEMMA ShowStays ==
    ASSUME NEW M, Held(M), NEW D, Neat(D), NEW T, Strip(T), NEW i \in DOMAIN T, Show(T, i, M, D)
    PROVE  /\ Stays(T, tabs')
           /\ \A k \in DOMAIN tabs' : HasEntry(T, tabs'[k])
<1>1. PICK s : s = Settled(T, M, i)
    OBVIOUS
<1>2. /\ Strip(s.tabs) /\ Remains(T, s.tabs, M)
      /\ s.at # 0 => s.at \in DOMAIN s.tabs
      /\ s.at = 0 => s.tabs = <<>>
    BY <1>1, SettledProperties
<1>3. \A k \in DOMAIN T : IsDraft(T[k]) => HasEntry(s.tabs, T[k])
    BY <1>2 DEF Remains, HasEntry, Located
<1>4. CASE s.at = 0
    <2>1. tabs' = s.tabs
        BY <1>1, <1>2, <1>4 DEF Show, NoTabs
    <2>2. QED
        BY <1>2, <1>3, <2>1 DEF Stays, HasEntry, Remains
<1>5. CASE s.at # 0
    <2> DEFINE t == s.tabs[s.at]
    <2>1. \/ tabs' = s.tabs
          \/ ~IsDraft(t) /\ tabs' = [s.tabs EXCEPT ![s.at] = Snapshot(t, shown')]
        BY <1>1, <1>5 DEF Show
    <2>2. t \in Tab
        BY <1>2, <1>5, StripParts
    <2>3. Snapshot(t, shown').col = t.col /\ Snapshot(t, shown').id = t.id
        <3>1. t = [col |-> t.col, id |-> t.id, snap |-> t.snap]
            BY <2>2, TabKinds
        <3> HIDE DEF t
        <3>2. \/ Snapshot(t, shown') = t
              \/ Snapshot(t, shown') = [col |-> t.col, id |-> t.id, snap |-> shown']
            BY <3>1 DEF Snapshot
        <3>3. QED
            BY <3>2
    <2>4. /\ DOMAIN tabs' = DOMAIN s.tabs
          /\ \A k \in DOMAIN s.tabs : tabs'[k].col = s.tabs[k].col /\ tabs'[k].id = s.tabs[k].id
        BY <2>1, <2>3
    <2>5. QED
        BY <1>2, <1>3, <2>4 DEF Stays, HasEntry, Remains
<1>6. QED
    BY <1>4, <1>5

(* The tab that was typed in is not among those that are left.              *)
LEMMA ShowGone ==
    ASSUME NEW M, Held(M), NEW D, Neat(D), NEW T, Strip(T), NEW i \in DOMAIN T, Show(T, i, M, D),
           ~HasEntry(T, tabs[active])
    PROVE  KeepsBody
BY ShowStays DEF KeepsBody, HasEntry

(* Showing a tab folds its text, and no other.                              *)
LEMMA ShowLive ==
    ASSUME NEW M, Held(M), NEW D, NEW T, Strip(T), NEW i \in DOMAIN T, Show(T, i, M, D),
           NEW t \in Tab, Located(M, t), Fold[Live(M, D, t)] = Live(M, D, t)
    PROVE  Located(mem', t) /\ Live(mem', drafts', t) = Live(M, D, t)
<1>1. PICK s : s = Settled(T, M, i)
    OBVIOUS
<1>2. CASE mem' = M /\ drafts' = D
    BY <1>2 DEF Live, Located
<1>3. ASSUME NEW u, s.at # 0, u = s.tabs[s.at], ~IsDraft(u), drafts' = D,
             mem' = Put(M, u.col, u.id, Fold[M[u.col].text[u.id]])
      PROVE  Located(mem', t) /\ Live(mem', drafts', t) = Live(M, D, t)
    <2>1. s.at \in DOMAIN s.tabs /\ Located(M, u)
        BY <1>1, <1>3, SettledProperties
    <2>2. u.col \in DOMAIN M /\ Has(M[u.col], u.id)
        BY <1>3, <2>1 DEF Located
    <2> DEFINE x == Fold[M[u.col].text[u.id]]
    <2>3. x \in Text
        BY <2>2, TextProperties
    <2> HIDE DEF x
    <2>4. Like(M, mem') /\ Texted(M, mem', u.col, u.id, x)
        BY <1>3, <2>3, PutTree DEF x
    <2>5. CASE IsDraft(t)
        BY <1>3, <2>5 DEF Live, Located
    <2>6. CASE ~IsDraft(t)
        <3>1. /\ t.col \in DOMAIN M /\ t.id \in DOMAIN M[t.col].text
              /\ Live(M, D, t) = M[t.col].text[t.id]
            BY <2>6 DEF Located, Has, Live
        <3>2. t.col \in DOMAIN mem' /\ Has(mem'[t.col], t.id)
            BY <2>4, <3>1 DEF Like, Has
        <3>3. mem'[t.col].text[t.id] = M[t.col].text[t.id]
            BY <2>4, <3>1 DEF Texted, x
        <3>4. QED
            BY <2>6, <3>1, <3>2, <3>3 DEF Located, Live
    <2>7. QED
        BY <2>5, <2>6
<1>4. CASE s.at = 0
    BY <1>1, <1>2, <1>4 DEF Show, NoTabs
<1>5. CASE s.at # 0
    BY <1>1, <1>2, <1>3, <1>5 DEF Show
<1>6. QED
    BY <1>4, <1>5

(* The strip without a tab does not have it.                                *)
LEMMA ClosedGone ==
    ASSUME Good, NEW i \in DOMAIN tabs, NEW kept, kept = RemoveAt(tabs, i)
    PROVE  ~HasEntry(kept, tabs[i])
<1>1. PICK n \in Nat : n = Len(tabs) /\ i \in 1 .. n /\ DOMAIN tabs = 1 .. n
    BY GoodParts, StripParts
<1>2. DOMAIN kept = 1 .. n - 1
      /\ \A k \in 1 .. n - 1 : kept[k] = IF k < i THEN tabs[k] ELSE tabs[k + 1]
    <2>1. tabs \in Seq(Tab)
        BY GoodParts, StripParts
    <2>2. /\ kept \in Seq(Tab) /\ Len(kept) = n - 1
          /\ \A k \in 1 .. n - 1 : kept[k] = IF k < i THEN tabs[k] ELSE tabs[k + 1]
        BY <1>1, <2>1, RemoveAtProperties
    <2>3. QED
        BY <2>2, LenProperties
<1>3. NoneTwice(tabs)
    BY GoodParts, StripParts
<1>4. ASSUME NEW k \in DOMAIN kept PROVE \E l \in DOMAIN tabs : l # i /\ kept[k] = tabs[l]
    <2>1. k \in 1 .. n - 1
        BY <1>2, <1>4
    <2>2. CASE k < i
        BY <1>1, <1>2, <2>1, <2>2
    <2>3. CASE ~(k < i)
        <3>1. k + 1 \in DOMAIN tabs /\ k + 1 # i
            BY <1>1, <2>1, <2>3
        <3>2. QED
            BY <1>2, <2>1, <2>3, <3>1
    <2>4. QED
        BY <2>2, <2>3
<1>5. QED
    BY <1>3, <1>4 DEF HasEntry, NoneTwice

(* Nor has the strip without several.                                       *)
LEMMA KeptGone ==
    ASSUME Good, NEW victims \in SUBSET DOMAIN tabs, NEW i \in victims, NEW kept,
           kept = Pick(tabs, DOMAIN tabs \ victims)
    PROVE  ~HasEntry(kept, tabs[i])
<1> DEFINE at == DOMAIN tabs \ victims
<1>1. at \in SUBSET DOMAIN tabs /\ kept = Pick(tabs, at) /\ i \notin at /\ i \in DOMAIN tabs
    OBVIOUS
<1> HIDE DEF at
<1>2. Strip(tabs) /\ NoneTwice(tabs)
    BY GoodParts, StripParts
<1> DEFINE P == Pick(tabs, at)
<1>3. \A l \in DOMAIN P : \E k \in at : P[l] = tabs[k]
    BY <1>1, <1>2, PickStrip
<1>4. kept = P
    BY <1>1
<1> HIDE DEF P
<1>5. QED
    BY <1>1, <1>2, <1>3, <1>4 DEF HasEntry, NoneTwice

(* The tabs that reconcileTabs keeps are of requests of the tree.           *)
LEMMA KeptLocated ==
    ASSUME Strip(tabs), NEW M
    PROVE  \A l \in DOMAIN Kept(M) : Located(M, Kept(M)[l])
<1> DEFINE at == {k \in DOMAIN tabs : Located(M, tabs[k])}
           P == Pick(tabs, at)
<1>1. at \in SUBSET DOMAIN tabs /\ P = Kept(M) /\ \A k \in at : Located(M, tabs[k])
    BY DEF Kept
<1> HIDE DEF at
<1>2. \A l \in DOMAIN P : \E k \in at : P[l] = tabs[k]
    BY <1>1, PickStrip
<1> HIDE DEF P
<1>3. QED
    BY <1>1, <1>2

(* A tab whose request is gone is not among them, and the scratch tabs are. *)
LEMMA KeptEntries ==
    ASSUME Strip(tabs), NEW M
    PROVE  /\ Stays(tabs, Kept(M))
           /\ \A t : ~Located(M, t) => ~HasEntry(Kept(M), t)
<1>1. PICK kept : kept = Kept(M)
    OBVIOUS
<1>2. /\ \A k \in DOMAIN tabs : Located(M, tabs[k]) => \E l \in DOMAIN kept : kept[l] = tabs[k]
      /\ \A l \in DOMAIN kept : Located(M, kept[l])
    BY <1>1, KeptProperties, KeptLocated
<1>3. Stays(tabs, kept)
    BY <1>2 DEF Stays, HasEntry, Located
<1>4. ASSUME NEW t, HasEntry(kept, t) PROVE Located(M, t)
    BY <1>2, <1>4 DEF HasEntry, Located, IsDraft
<1>5. QED
    BY <1>1, <1>3, <1>4

(* Scratch tabs that stay twice stay.                                       *)
LEMMA StaysOn ==
    ASSUME NEW T, NEW U, NEW V, Stays(T, U), Stays(U, V)
    PROVE  Stays(T, V)
<1>1. ASSUME NEW k \in DOMAIN T, IsDraft(T[k]) PROVE HasEntry(V, T[k])
    <2>1. PICK l \in DOMAIN U : U[l].col = T[k].col /\ U[l].id = T[k].id
        BY <1>1 DEF Stays, HasEntry
    <2>2. HasEntry(V, U[l])
        BY <1>1, <2>1 DEF Stays, IsDraft
    <2>3. QED
        BY <2>1, <2>2 DEF HasEntry
<1>2. QED
    BY <1>1 DEF Stays

(* reconcileTabs. *)
LEMMA KeepsReconcile ==
    ASSUME Good, Good', Tied, NEW M, Held(M), NEW cleared \in BOOLEAN, Reconcile(M, cleared),
           cleared /\ tabs # <<>> => adrift \/ ~Located(M, tabs[active])
    PROVE  Stays(tabs, tabs') /\ KeepsBody
<1> DEFINE t == tabs[active]
<1>1. PICK kept : kept = Kept(M)
    OBVIOUS
<1>2. /\ Strip(tabs) /\ Strip(kept) /\ Stays(tabs, kept)
      /\ ~Located(M, t) => ~HasEntry(kept, t)
    BY <1>1, GoodParts, KeptProperties, KeptEntries
<1>3. CASE tabs = <<>>
    <2>1. tabs' = tabs /\ typed' = typed
        BY <1>3 DEF Reconcile, Same, strip, editor
    <2>2. QED
        BY <2>1 DEF Stays, HasEntry, KeepsBody
<1>4. CASE tabs # <<>> /\ Located(M, t)
    <2>1. /\ tabs' = kept /\ active' = IndexOf(kept, t.col, t.id) /\ adrift' = adrift
          /\ shown' = IF cleared THEN Blank ELSE shown
        BY <1>1, <1>4 DEF Reconcile
    <2>2. Stays(tabs, tabs')
        BY <1>2, <2>1
    <2>3. CASE cleared
        BY <1>4, <2>1, <2>2, <2>3 DEF KeepsBody
    <2>4. CASE ~cleared
        <3>1. active \in DOMAIN tabs
            BY <1>4, GoodParts DEF Window
        <3>2. \E l \in DOMAIN kept : kept[l] = t
            BY <1>1, <1>2, <1>4, <3>1, KeptProperties
        <3>3. active' \in DOMAIN tabs' /\ tabs'[active'] = t
            BY <1>2, <2>1, <3>2, IndexInStrip
        <3>4. tabs' # <<>>
            BY <3>3
        <3>5. KeepsBody
            BY <2>1, <2>4, <3>3, <3>4, BodyStays
        <3>6. QED
            BY <2>2, <3>5
    <2>5. QED
        BY <2>3, <2>4
<1>5. CASE tabs # <<>> /\ ~Located(M, t) /\ kept # <<>>
    <2>1. Show(kept, 1, M, drafts)
        BY <1>1, <1>5 DEF Reconcile
    <2>2. 1 \in DOMAIN kept
        BY <1>2, <1>5, StripParts
    <2>3. Neat(drafts)
        BY DEF Tied
    <2>4. Stays(kept, tabs')
        BY <1>2, <2>1, <2>2, <2>3, ShowStays
    <2>5. KeepsBody
        BY <1>2, <1>5, <2>1, <2>2, <2>3, ShowGone
    <2>6. QED
        BY <1>2, <2>4, <2>5, StaysOn
<1>6. CASE tabs # <<>> /\ ~Located(M, t) /\ kept = <<>>
    <2>1. tabs' = kept
        BY <1>1, <1>6 DEF Reconcile, NoTabs
    <2>2. QED
        BY <1>2, <1>6, <2>1 DEF KeepsBody
<1>7. QED
    BY <1>3, <1>4, <1>5, <1>6

(* The strip U is T, or it has a new tab of the request id of c beside them. *)
Opens(T, U, c, id) ==
    /\ Strip(U) /\ Stays(T, U)
    /\ \A k \in DOMAIN U : (\E j \in DOMAIN T : T[j] = U[k]) \/ U[k] = TreeTab(c, id)

(* openOrActivate shows a tab of such a strip.                              *)
LEMMA OpenTabShows ==
    ASSUME NEW T, Strip(T), NEW M, NEW D, NEW c \in Colls, NEW id \in Ids, OpenTab(T, M, D, c, id)
    PROVE  \E U : \E i \in DOMAIN U : Opens(T, U, c, id) /\ Show(U, i, M, D)
<1> DEFINE i == IndexOf(T, c, id)
<1>1. /\ T \in Seq(Tab) /\ DOMAIN T = 1 .. Len(T) /\ Len(T) \in Nat
      /\ i \in 0 .. Len(T) /\ (i = 0 => \A k \in DOMAIN T : ~(T[k].col = c /\ T[k].id = id))
    <2>1. T \in Seq(Tab) /\ DOMAIN T = 1 .. Len(T) /\ Len(T) \in Nat
        BY StripParts
    <2>2. QED
        BY <2>1, IndexProperties
<1>2. CASE i > 0
    <2>1. Show(T, i, M, D)
        BY <1>2 DEF OpenTab
    <2> HIDE DEF i
    <2>2. i \in DOMAIN T
        BY <1>1, <1>2
    <2>3. Stays(T, T)
        BY DEF Stays, HasEntry
    <2>4. QED
        BY <2>1, <2>2, <2>3 DEF Opens
<1>3. CASE i = 0
    <2> DEFINE t == TreeTab(c, id)
               U == Append(T, t)
    <2>1. Len(T) < MaxTabs /\ Show(U, Len(T) + 1, M, D)
        BY <1>3 DEF OpenTab
    <2>2. t \in Tab /\ t.col = c /\ t.id = id
        BY DEF TreeTab, Tab, Clean
    <2>3. \A k \in DOMAIN T : ~(T[k].col = t.col /\ T[k].id = t.id)
        BY <1>1, <1>3, <2>2
    <2> HIDE DEF i, t
    <2>4. Strip(U) /\ Len(T) + 1 \in DOMAIN U
        BY <2>1, <2>2, <2>3, AppendStrip
    <2>5. DOMAIN U = 1 .. Len(T) + 1 /\ U[Len(T) + 1] = t /\ \A k \in 1 .. Len(T) : U[k] = T[k]
        BY <1>1, <2>2
    <2>6. \A k \in 1 .. Len(T) + 1 : k \in 1 .. Len(T) \/ k = Len(T) + 1
        BY <1>1
    <2> HIDE DEF U
    <2>7. \A k \in DOMAIN U : (\E j \in DOMAIN T : T[j] = U[k]) \/ U[k] = t
        BY <1>1, <2>5, <2>6
    <2>8. Stays(T, U)
        <3>1. \A k \in 1 .. Len(T) : k \in DOMAIN U
            BY <1>1, <2>5
        <3>2. QED
            BY <1>1, <2>5, <3>1 DEF Stays, HasEntry
    <2>9. QED
        BY <2>1, <2>4, <2>7, <2>8 DEF Opens, t
<1>4. QED
    BY <1>1, <1>2, <1>3

(* What is written before the row is selected.                              *)
LEMMA ReconciledNeat ==
    ASSUME Good, Tied, NEW M, Held(M), NEW w \in Reconciled(M, shown, typed)
    PROVE  Held(w.m) /\ Neat(w.d)
<1>1. Neat(drafts) /\ drafts \in Desk /\ shown \in Text /\ Fold[shown] = shown
    BY GoodParts DEF Tied
<1>2. CASE w = [m |-> M, d |-> drafts, b |-> bound]
    BY <1>1, <1>2
<1>3. CASE w \in SyncedTo(M, drafts, BoundTo(M, tabs[active]), shown, typed)
    BY <1>1, <1>3, SyncedProperties, SyncedNeat DEF Wrote
<1>4. QED
    BY <1>2, <1>3 DEF Reconciled

(* It is what was typed, in the request of the active tab.                  *)
LEMMA ReconciledLive ==
    ASSUME Good, Tied, NEW M, Held(M), Agrees(M, mem), NEW w \in Reconciled(M, shown, typed),
           typed, ~adrift, Located(M, tabs[active])
    PROVE  Located(w.m, tabs[active]) /\ Live(w.m, w.d, tabs[active]) = shown
<1>1. PICK t : t = tabs[active]
    OBVIOUS
<1>2. tabs # <<>> /\ active \in DOMAIN tabs /\ t \in Tab
    BY <1>1, GoodParts, StripParts DEF Tied, Window
<1>3. Follows(mem, drafts, t, bound, boundId, shown, typed)
    BY <1>1, <1>2, GoodParts DEF Window
<1> DEFINE b == BoundTo(M, t)
           n == IF IsDraft(t) THEN boundId ELSE NodeAt(M, t.col, t.id)
<1>4. Follows(M, drafts, t, b, n, shown, typed)
    <2>1. CASE IsDraft(t)
        BY <1>3, <2>1 DEF Follows, Located, Live, BoundTo
    <2>2. CASE ~IsDraft(t)
        BY <1>1, <1>3, <2>2, StillFollows DEF BoundTo
    <2>3. QED
        BY <2>1, <2>2
<1>5. w \in SyncedTo(M, drafts, b, shown, typed)
    BY <1>1, <1>2 DEF Reconciled
<1> HIDE DEF b, n
<1>6. drafts \in Desk /\ shown \in Text /\ typed \in BOOLEAN
    BY GoodParts
<1>7. Follows(w.m, w.d, t, w.b, n, shown, FALSE)
    BY <1>2, <1>4, <1>5, <1>6, SyncFollows
<1>8. QED
    BY <1>1, <1>7 DEF Follows

(* What an operation on the tree ends with.                                 *)
LEMMA KeepsSelect ==
    ASSUME Good, Good', Tied, NEW M, Held(M), Agrees(M, mem), NEW c \in DOMAIN M, NEW id,
           Has(M[c], id), ReconcileAndSelect(M, c, id)
    PROVE  Stays(tabs, tabs') /\ KeepsBody
<1> DEFINE n == NodeAt(M, c, id)
<1>1. c \in Colls /\ id \in Ids
    BY NodeProperties
<1>2. CASE n.kind = "root" /\ ~IsSelected(n)
    <2>1. PICK w \in Reconciled(M, shown, typed) : OpenTab(Kept(M), w.m, w.d, c, id)
        BY <1>2 DEF ReconcileAndSelect
    <2> HIDE DEF n
    <2>2. Held(w.m) /\ Neat(w.d)
        BY ReconciledNeat
    <2>3. PICK kept : kept = Kept(M)
        OBVIOUS
    <2>4. /\ Strip(kept) /\ Stays(tabs, kept)
          /\ ~Located(M, tabs[active]) => ~HasEntry(kept, tabs[active])
        BY <2>3, GoodParts, KeptProperties, KeptEntries
    <2>5. PICK U : \E i \in DOMAIN U : Opens(kept, U, c, id) /\ Show(U, i, w.m, w.d)
        <3>1. OpenTab(kept, w.m, w.d, c, id)
            BY <2>1, <2>3
        <3>2. QED
            BY <1>1, <2>4, <3>1, OpenTabShows
    <2>6. PICK i \in DOMAIN U : Show(U, i, w.m, w.d)
        BY <2>5
    <2>7. Strip(U) /\ Stays(kept, U)
          /\ \A k \in DOMAIN U : HasEntry(kept, U[k]) \/ (U[k].col = c /\ U[k].id = id)
        BY <2>5 DEF Opens, HasEntry, TreeTab
    <2>8. Stays(tabs, tabs')
        <3>1. Stays(U, tabs')
            BY <2>2, <2>6, <2>7, ShowStays
        <3>2. QED
            BY <2>4, <2>7, <3>1, StaysOn
    <2>9. CASE ~Located(M, tabs[active])
        <3>1. ~(tabs[active].col = c /\ tabs[active].id = id)
            BY <2>9 DEF Located
        <3>2. ~HasEntry(U, tabs[active])
            BY <2>4, <2>7, <2>9, <3>1 DEF HasEntry
        <3>3. QED
            BY <2>2, <2>6, <2>7, <2>8, <3>2, ShowGone
    <2>10. CASE Located(M, tabs[active])
        <3>1. ASSUME typed, ~adrift
              PROVE  Located(mem', tabs[active]) /\ Live(mem', drafts', tabs[active]) = shown
            <4>1. Located(w.m, tabs[active]) /\ Live(w.m, w.d, tabs[active]) = shown
                BY <2>10, <3>1, ReconciledLive
            <4>2. tabs[active] \in Tab /\ Fold[shown] = shown
                BY <3>1, GoodParts, StripParts DEF Tied, Window
            <4>3. QED
                BY <2>2, <2>6, <2>7, <4>1, <4>2, ShowLive
        <3>2. KeepsBody
            BY <3>1 DEF KeepsBody
        <3>3. QED
            BY <2>8, <3>2
    <2>11. QED
        BY <2>9, <2>10
<1>3. CASE ~(n.kind = "root" /\ ~IsSelected(n))
    <2>1. Reconcile(M, FALSE)
        BY <1>3 DEF ReconcileAndSelect
    <2>2. QED
        BY <2>1, KeepsReconcile
<1>4. QED
    BY <1>2, <1>3

(* A save fails. *)
LEMMA KeepsFailed ==
    ASSUME Tied, NEW w, LoadAgain(w)
    PROVE  Stays(tabs, tabs') /\ KeepsBody
<1>1. tabs' = tabs /\ adrift' = (tabs # <<>>)
    BY DEF LoadAgain
<1>2. QED
    BY <1>1, BodyAdrift DEF Stays, HasEntry

(* The strip, the active tab and what the editor shows stay.                *)
LEMMA KeepsSame ==
    ASSUME Good, Good', UNCHANGED <<tabs, active, shown>>
    PROVE  Stays(tabs, tabs') /\ KeepsBody
<1>1. tabs' = tabs /\ active' = active /\ shown' = shown
    OBVIOUS
<1>2. Stays(tabs, tabs')
    BY <1>1 DEF Stays, HasEntry
<1>3. CASE tabs = <<>>
    <2>1. DOMAIN tabs' = {}
        BY <1>1, <1>3
    <2>2. QED
        BY <1>2, <2>1 DEF KeepsBody, HasEntry
<1>4. CASE tabs # <<>>
    BY <1>1, <1>2, <1>4, BodyStays
<1>5. QED
    BY <1>3, <1>4

(* A tab is closed.                                                         *)
LEMMA KeepsClose ==
    ASSUME Good, Good', Tied, NEW i \in DOMAIN tabs, Close(i)
    PROVE  KeepsBody
<1> DEFINE D == Without({i})
<1>1. PICK kept : kept = RemoveAt(tabs, i)
    OBVIOUS
<1>2. /\ Strip(kept)
      /\ kept # <<>> => (IF i > Len(kept) THEN Len(kept) ELSE i) \in DOMAIN kept
      /\ i # active => LET a == IF active > i THEN active - 1 ELSE active IN
                a \in DOMAIN kept /\ kept[a] = tabs[active]
    BY <1>1, ClosedStrip
<1>3. Neat(D)
    BY WithoutNeat
<1>4. \/ kept = <<>> /\ NoTabs(mem, D)
      \/ kept # <<>> /\ i = active /\ Show(kept, IF i > Len(kept) THEN Len(kept) ELSE i, mem, D)
      \/ /\ kept # <<>> /\ i # active
         /\ tabs' = kept /\ active' = (IF active > i THEN active - 1 ELSE active) /\ Redraw(D)
    BY <1>1 DEF Close
<1> HIDE DEF D
<1>5. CASE kept = <<>> /\ NoTabs(mem, D)
    BY <1>5 DEF NoTabs, KeepsBody, HasEntry
<1>6. CASE kept # <<>> /\ i = active /\ Show(kept, IF i > Len(kept) THEN Len(kept) ELSE i, mem, D)
    <2>1. ~HasEntry(kept, tabs[active])
        BY <1>1, <1>6, ClosedGone
    <2>2. PICK j \in DOMAIN kept : Show(kept, j, mem, D)
        BY <1>2, <1>6
    <2>3. QED
        BY <1>2, <1>3, <2>1, <2>2, GoodParts, ShowGone
<1>7. CASE /\ kept # <<>> /\ i # active
           /\ tabs' = kept /\ active' = (IF active > i THEN active - 1 ELSE active) /\ Redraw(D)
    <2>1. tabs'[active'] = tabs[active] /\ tabs' # <<>> /\ shown' = shown
        BY <1>2, <1>7 DEF Redraw
    <2>2. QED
        BY <2>1, BodyStays
<1>8. QED
    BY <1>4, <1>5, <1>6, <1>7

(* Several tabs are closed at once.                                         *)
LEMMA KeepsCloseTabs ==
    ASSUME Good, Good', Tied, NEW victims \in SUBSET DOMAIN tabs,
           NEW anchor \in DOMAIN tabs \ victims, CloseTabs(victims, anchor)
    PROVE  KeepsBody
<1> DEFINE D == Without(victims)
<1>1. PICK kept : kept = Pick(tabs, DOMAIN tabs \ victims)
    OBVIOUS
<1>2. /\ Strip(kept)
      /\ \A k \in DOMAIN tabs \ victims : LET a == IndexOf(kept, tabs[k].col, tabs[k].id) IN
                a \in DOMAIN kept /\ kept[a] = tabs[k]
    BY <1>1, KeptStrip
<1>3. Neat(D)
    BY WithoutNeat
<1>4. CASE active \in victims
    <2>1. Show(kept, IndexOf(kept, tabs[anchor].col, tabs[anchor].id), mem, D)
        BY <1>1, <1>4 DEF CloseTabs
    <2> HIDE DEF D
    <2>2. PICK j \in DOMAIN kept : Show(kept, j, mem, D)
        BY <1>2, <2>1
    <2>3. ~HasEntry(kept, tabs[active])
        BY <1>1, <1>4, KeptGone
    <2>4. QED
        BY <1>2, <1>3, <2>2, <2>3, GoodParts, ShowGone
<1>5. CASE active \notin victims
    <2>1. /\ tabs' = kept /\ active' = IndexOf(kept, tabs[active].col, tabs[active].id)
          /\ Redraw(D)
        BY <1>1, <1>5 DEF CloseTabs
    <2>2. active \in DOMAIN tabs \ victims
        BY <1>5, GoodParts, StripParts DEF Window
    <2>3. active' \in DOMAIN tabs' /\ tabs'[active'] = tabs[active] /\ shown' = shown
        BY <1>2, <2>1, <2>2 DEF Redraw
    <2>4. tabs' # <<>>
        BY <2>3
    <2>5. QED
        BY <2>3, <2>4, BodyStays
<1>6. QED
    BY <1>4, <1>5

(* All tabs but one are closed.                                             *)
LEMMA KeepsCloseOthers ==
    ASSUME Good, Good', Tied, NEW i \in DOMAIN tabs, CloseOthers(i)
    PROVE  KeepsBody
<1>1. CloseTabs(DOMAIN tabs \ {i}, i) /\ i \in DOMAIN tabs \ (DOMAIN tabs \ {i})
    BY DEF CloseOthers
<1>2. QED
    BY <1>1, KeepsCloseTabs

(* The tabs to the right are closed.                                        *)
LEMMA KeepsCloseRight ==
    ASSUME Good, Good', Tied, NEW i \in DOMAIN tabs, CloseRight(i)
    PROVE  KeepsBody
<1> DEFINE victims == {k \in DOMAIN tabs : k > i}
<1>1. CloseTabs(victims, i) /\ victims \in SUBSET DOMAIN tabs
    BY DEF CloseRight
<1>2. i \in DOMAIN tabs \ victims
    <2>1. i \in Nat
        BY GoodParts, StripParts
    <2>2. QED
        BY <2>1
<1> HIDE DEF victims
<1>3. QED
    BY <1>1, <1>2, KeepsCloseTabs

(* A tab is dragged.                                                        *)
LEMMA KeepsDrag ==
    ASSUME Good, Good', NEW i \in DOMAIN tabs, NEW j \in DOMAIN tabs, Drag(i, j)
    PROVE  KeepsBody
<1>1. shown' = shown
    BY DEF Drag, Redraw
<1>2. active' \in DOMAIN tabs' /\ tabs'[active'] = tabs[active]
    BY DraggedStrip
<1>3. tabs' # <<>>
    BY <1>2
<1>4. QED
    BY <1>1, <1>2, <1>3, BodyStays

(* The request in the editor is saved.                                      *)
LEMMA KeepsSaveRequest ==
    ASSUME Good, Good', Tied, NEW c \in Colls, SaveRequest(c)
    PROVE  Stays(tabs, tabs') /\ KeepsBody
<1> DEFINE t == tabs[active]
<1>1. bound # Nowhere /\ ~IsDraft(t) /\ c = boundId.col /\ c \in DOMAIN mem
    BY DEF SaveRequest
<1>2. PICK w \in Synced :
        \/ /\ mem' = w.m /\ tabs' = Refresh(tabs, t.col, w.m)
           /\ UNCHANGED <<active, shown>>
        \/ LoadAgain(w)
    BY DEF SaveRequest
<1>3. tabs # <<>> /\ active \in DOMAIN tabs
    BY <1>1, BoundHasTab
<1>4. t.col = c
    <2>1. Anchored(t, bound, boundId)
        BY <1>3 DEF Tied
    <2>2. QED
        BY <1>1, <2>1 DEF Anchored
<1>5. Wrote(mem, w)
    BY <1>1, SyncedGood
<1>6. CASE mem' = w.m /\ tabs' = Refresh(tabs, t.col, w.m) /\ UNCHANGED <<active, shown>>
    <2> HIDE DEF t
    <2>1. Held(w.m) /\ c \in DOMAIN w.m
        BY <1>1, <1>5 DEF Wrote, Like
    <2>2. /\ DOMAIN tabs' = DOMAIN tabs
          /\ \A k \in DOMAIN tabs : tabs'[k].col = tabs[k].col /\ tabs'[k].id = tabs[k].id
        BY <1>4, <1>6, <2>1, GoodParts, RefreshTabs
    <2>3. tabs' # <<>>
        BY <1>3, <2>2
    <2>4. KeepsBody
        BY <1>3, <1>6, <2>2, <2>3, BodyStays
    <2>5. QED
        BY <2>2, <2>4 DEF Stays, HasEntry
<1>7. QED
    BY <1>2, <1>6, KeepsFailed

(* A request is added or moved. *)
LEMMA KeepsChange ==
    ASSUME Good, Good', Tied, NEW M, NEW c, NEW id, Changes(M, c, id)
    PROVE  Stays(tabs, tabs') /\ KeepsBody
<1>1. /\ c \in DOMAIN M /\ Held(M) /\ Agrees(M, mem) /\ Has(M[c], id)
    BY DEF Changes, OthersSame
<1>2. CASE ReconcileAndSelect(M, c, id)
    BY <1>1, <1>2, KeepsSelect
<1>3. CASE FailedSave
    BY <1>3, KeepsFailed DEF FailedSave
<1>4. QED
    BY <1>2, <1>3 DEF Changes

(* A collection is saved as it is. *)
LEMMA KeepsSaveCollection ==
    ASSUME Good, Good', Tied, NEW c \in Colls, SaveCollection(c)
    PROVE  Stays(tabs, tabs') /\ KeepsBody
<1>1. CASE Reconcile(mem, FALSE)
    BY <1>1, GoodParts, KeepsReconcile
<1>2. CASE Same(mem)
    <2>1. UNCHANGED <<tabs, active, shown>>
        BY <1>2 DEF Same, strip, editor
    <2>2. QED
        BY <2>1, KeepsSame
<1>3. CASE FailedSave
    BY <1>3, KeepsFailed DEF FailedSave
<1>4. QED
    BY <1>1, <1>2, <1>3 DEF SaveCollection

(* The selected request is deleted.                                         *)
LEMMA KeepsDelete ==
    ASSUME Good, Good', Tied, NEW M, NEW c, NEW id, Deletes(M, c, id)
    PROVE  Stays(tabs, tabs') /\ KeepsBody
<1>1. Held(M)
    BY DEF Deletes
<1>2. ASSUME NEW doomed, Reconciles(M, doomed)
      PROVE  Stays(tabs, tabs') /\ KeepsBody
    BY <1>1, <1>2, KeepsReconcile DEF Reconciles
<1>3. CASE LoadAgain(AsIs)
    BY <1>3, KeepsFailed
<1>4. CASE adrift' = (tabs # <<>>) /\ UNCHANGED strip
    <2>1. tabs' = tabs
        BY <1>4 DEF strip
    <2>2. QED
        BY <1>4, <2>1, BodyAdrift DEF Stays, HasEntry
<1>5. QED
    BY <1>2, <1>3, <1>4 DEF Deletes, DeleteFails

(* A collection leaves the session. *)
LEMMA KeepsRemoveCollection ==
    ASSUME Good, Good', Tied, NEW c \in Colls, RemoveCollection(c)
    PROVE  Stays(tabs, tabs') /\ KeepsBody
<1>1. PICK M : Removes(M, c)
    BY RemoveCollectionRemoves
<1> DEFINE cleared == boundId # NoNode /\ boundId.col = c
<1>2. Held(M) /\ Reconciles(M, cleared)
    BY <1>1 DEF Removes
<1> HIDE DEF cleared
<1>3. QED
    BY <1>2, KeepsReconcile DEF Reconciles

(* A collection is loaded beside the others.                                *)
LEMMA KeepsOpenCollection ==
    ASSUME Good, Good', NEW c \in Colls, OpenCollection(c)
    PROVE  Stays(tabs, tabs') /\ KeepsBody
<1>1. UNCHANGED <<tabs, active, shown>>
    BY DEF OpenCollection, strip, editor
<1>2. QED
    BY <1>1, KeepsSame

(* A workspace is deleted, and the active one loaded again.                 *)
LEMMA KeepsDeleteWorkspace ==
    ASSUME Tied, NEW cs \in Workspaces, DeleteWorkspace(cs)
    PROVE  Stays(tabs, tabs') /\ KeepsBody
<1>1. tabs' = tabs /\ adrift' = (tabs # <<>>)
    BY DEF DeleteWorkspace, strip
<1>2. QED
    BY <1>1, BodyAdrift DEF Stays, HasEntry

(* Another workspace is opened, with no tabs.                               *)
LEMMA KeepsSwitchWorkspace ==
    ASSUME NEW cs \in Workspaces, SwitchWorkspace(cs)
    PROVE  KeepsBody
<1>1. tabs' = <<>>
    BY DEF SwitchWorkspace, NoTabs
<1>2. QED
    BY <1>1 DEF KeepsBody, HasEntry

(* A scratch request is saved into a collection: its tab goes.              *)
LEMMA KeepsSaveDraft ==
    ASSUME Good, Good', Tied, NEW c \in Colls, NEW id \in Ids, SaveDraft(c, id)
    PROVE  KeepsBody
<1>1. ASSUME NEW M, NEW T, NEW D, Drafted(M, T, D, c, id)
      PROVE  KeepsBody
    <2> DEFINE t == tabs[active]
    <2>1. /\ Held(M) /\ Strip(T) /\ Neat(D) /\ active \in DOMAIN T /\ Show(T, active, M, D)
          /\ active \in DOMAIN tabs /\ DOMAIN T = DOMAIN tabs
          /\ \A k \in DOMAIN tabs : k # active => T[k] = tabs[k]
        BY <1>1 DEF Drafted
    <2>2. T[active].col = c /\ T[active].id = id /\ ~(t.col = c /\ t.id = id)
        BY <1>1, <2>1 DEF Drafted, TreeTab
    <2>3. NoneTwice(tabs)
        BY GoodParts, StripParts
    <2>4. ~HasEntry(T, t)
        BY <2>1, <2>2, <2>3 DEF HasEntry, NoneTwice
    <2>5. QED
        BY <2>1, <2>4, ShowGone
<1>2. ASSUME NEW w, LoadAgain(w) PROVE KeepsBody
    BY <1>2, KeepsFailed
<1>3. QED
    BY <1>1, <1>2, SaveDraftDrafts

(* The last delete is undone: scratch tabs stay.                            *)
LEMMA StaysUndo ==
    ASSUME Good, Tied, NEW M, NEW c, NEW id, NEW n, Undoes(M, c, id, n)
    PROVE  Stays(tabs, tabs')
<1>1. c \in Colls /\ id \in Ids /\ Held(M)
    BY DEF Undoes
<1>2. CASE OpenTab(tabs, M, drafts, c, id)
    <2>1. PICK U : \E i \in DOMAIN U : Opens(tabs, U, c, id) /\ Show(U, i, M, drafts)
        BY <1>1, <1>2, GoodParts, OpenTabShows
    <2>2. PICK i \in DOMAIN U : Show(U, i, M, drafts)
        BY <2>1
    <2>3. Strip(U) /\ Stays(tabs, U)
        BY <2>1 DEF Opens
    <2>4. Neat(drafts)
        BY DEF Tied
    <2>5. Stays(U, tabs')
        BY <1>1, <2>2, <2>3, <2>4, ShowStays
    <2>6. QED
        BY <2>3, <2>5, StaysOn
<1>3. CASE tabs' = tabs
    BY <1>3 DEF Stays, HasEntry
<1>4. QED
    BY <1>2, <1>3 DEF Undoes, LoadAgain, strip

(* The request of another tab is saved: scratch tabs stay.                  *)
LEMMA StaysSaveTab ==
    ASSUME Good, Tied, NEW i \in DOMAIN tabs, SaveTab(i)
    PROVE  Stays(tabs, tabs')
<1> DEFINE t == tabs[i]
           M == Put(mem, t.col, t.id, Fold[mem[t.col].text[t.id]])
           T == [tabs EXCEPT ![i] = Snapshot(@, M[t.col].text[t.id])]
           R == Refresh(T, t.col, M)
<1>1. /\ ~IsDraft(t) /\ Located(mem, t)
      /\ Show(R, i, M, drafts) \/ tabs' = T
    BY DEF SaveTab
<1>2. t.col \in DOMAIN mem /\ Has(mem[t.col], t.id) /\ t.col # NoColl
    BY <1>1 DEF Located, IsDraft
<1>3. Fold[mem[t.col].text[t.id]] \in Text
    BY <1>2, GoodParts, TextProperties
<1> HIDE DEF t
<1>4. Held(M) /\ Like(mem, M)
    BY <1>3, GoodParts, PutTree
<1> HIDE DEF M
<1>5. M[t.col].text[t.id] \in Text
    BY <1>2, <1>4, TextProperties DEF Like, Has
<1>6. SameTabs(tabs, T) /\ DOMAIN T = DOMAIN tabs
    BY <1>5, GoodParts, SnapshotStrip
<1> HIDE DEF T
<1>7. Strip(T)
    BY <1>6, GoodParts, SameStrip
<1>8. SameTabs(T, R) /\ DOMAIN R = DOMAIN tabs
    BY <1>2, <1>4, <1>6, <1>7, RefreshStrip
<1> HIDE DEF R
<1>9. Strip(R)
    BY <1>7, <1>8, SameStrip
<1>10. DOMAIN tabs = 1 .. Len(tabs) /\ DOMAIN T = 1 .. Len(T)
    BY <1>7, GoodParts, StripParts
<1>11. Stays(tabs, T)
    BY <1>6, <1>10 DEF Stays, HasEntry, SameTabs
<1>12. Stays(T, R)
    BY <1>6, <1>8, <1>10 DEF Stays, HasEntry, SameTabs
<1>13. CASE Show(R, i, M, drafts)
    <2>1. Neat(drafts)
        BY DEF Tied
    <2>2. Stays(R, tabs')
        BY <1>4, <1>8, <1>9, <1>13, <2>1, ShowStays
    <2>3. QED
        BY <1>11, <1>12, <2>2, StaysOn
<1>14. QED
    BY <1>1, <1>11, <1>13

(* Operations on the strip, and those that leave the requests alone.        *)
LEMMA KeepsTabs ==
    ASSUME Good, Good', Tied, OfTabs
    PROVE  Shows \/ KeepsBody
<1>1. ASSUME NEW i \in DOMAIN tabs, Close(i) \/ CloseOthers(i) \/ CloseRight(i)
      PROVE  KeepsBody
    BY <1>1, KeepsClose, KeepsCloseOthers, KeepsCloseRight
<1>2. QED
    BY <1>1, KeepsDrag DEF OfTabs, Shows

(* What is typed, and what is written back.                                 *)
LEMMA KeepsTyping ==
    ASSUME Good, Good',
           \/ AskQuit \/ Validate \/ Pause \/ OfEditor
           \/ \E c \in Colls : SelectCollection(c)
    PROVE  Stays(tabs, tabs') /\ (Edit(shown') \/ KeepsBody)
<1>1. ASSUME NEW t, Edit(t) PROVE tabs' = tabs /\ Edit(shown')
    <2>1. shown' = t /\ tabs' = tabs
        BY <1>1 DEF Edit
    <2>2. QED
        BY <1>1, <2>1
<1>2. ASSUME NEW t, TypeBody(t) PROVE tabs' = tabs /\ KeepsBody
    BY <1>2 DEF TypeBody, strip, KeepsBody
<1>3. CASE AskQuit \/ Validate \/ Pause \/ \E c \in Colls : SelectCollection(c)
    <2>1. CASE WriteBack \/ Pause
        <3>1. tabs' = tabs /\ active' = active /\ shown' = shown
            BY <2>1 DEF WriteBack, Pause
        <3>2. QED
            BY <3>1, KeepsSame
    <2>2. ASSUME NEW c \in Colls, SelectCollection(c) PROVE UNCHANGED <<tabs, active, shown>>
        BY <2>2 DEF SelectCollection, strip, editor
    <2>3. QED
        BY <1>3, <2>1, <2>2, KeepsSame DEF AskQuit, Validate
<1>4. CASE OfEditor
    <2>1. tabs' = tabs /\ (Edit(shown') \/ KeepsBody)
        BY <1>1, <1>2, <1>4 DEF OfEditor
    <2>2. QED
        BY <2>1 DEF Stays, HasEntry
<1>5. QED
    BY <1>3, <1>4

(* The saves from the editor.                                               *)
LEMMA KeepsSaves ==
    ASSUME Good, Good', Tied, FromEditor
    PROVE  Stays(tabs, tabs') /\ (Shows \/ KeepsBody)
<1>1. ASSUME NEW i \in DOMAIN tabs, SaveTab(i) PROVE Stays(tabs, tabs') /\ Shows
    BY <1>1, StaysSaveTab DEF Shows
<1>2. QED
    BY <1>1, KeepsSaveRequest DEF FromEditor

(* A scratch request is saved into a collection.                            *)
DraftSaved == \E c \in Colls, id \in Ids : SaveDraft(c, id)

(* The operations on the tree.                                              *)
LEMMA KeepsTree ==
    ASSUME Good, Good', Tied, OfTree
    PROVE  (Stays(tabs, tabs') \/ DraftSaved) /\ (Shows \/ KeepsBody)
<1> DEFINE Fine == (Stays(tabs, tabs') \/ DraftSaved) /\ (Shows \/ KeepsBody)
<1>1. ASSUME NEW c \in Colls, SaveCollection(c) PROVE Fine
    BY <1>1, KeepsSaveCollection
<1>2. ASSUME NEW c \in Colls, NEW id \in Ids, SaveDraft(c, id) PROVE Fine
    BY <1>2, KeepsSaveDraft DEF DraftSaved
<1>3. ASSUME NEW c \in Colls, NEW id \in Ids, NEW k, AddRequest(c, k, id) PROVE Fine
    BY <1>3, AddRequestChanges, KeepsChange
<1>4. ASSUME NEW c \in Colls, NEW kind \in Kinds, NEW i, NEW j, Move(c, kind, i, j) PROVE Fine
    BY <1>4, MoveChanges, KeepsChange
<1>5. ASSUME Delete PROVE Fine
    BY <1>5, DeleteDeletes, KeepsDelete
<1>6. ASSUME Undo PROVE Fine
    BY <1>6, UndoUndoes, StaysUndo DEF Shows
<1> HIDE DEF Fine
<1>7. Fine
    BY <1>1, <1>2, <1>3, <1>4, <1>5, <1>6 DEF OfTree
<1>8. QED
    BY <1>7 DEF Fine

(* The operations on collections and workspaces.                            *)
Leaves == Restart \/ \E cs \in Workspaces : SwitchWorkspace(cs)

(* They keep the tabs and what is typed, but for those that leave them.     *)
LEMMA KeepsCollections ==
    ASSUME Good, Good', Tied, OfCollections
    PROVE  (Stays(tabs, tabs') \/ Leaves) /\ (Restart \/ KeepsBody)
<1>1. ASSUME NEW c \in Colls, RemoveCollection(c) \/ OpenCollection(c)
      PROVE  Stays(tabs, tabs') /\ KeepsBody
    BY <1>1, KeepsRemoveCollection, KeepsOpenCollection
<1>2. ASSUME NEW cs \in Workspaces, DeleteWorkspace(cs)
      PROVE  Stays(tabs, tabs') /\ KeepsBody
    BY <1>2, KeepsDeleteWorkspace
<1>3. ASSUME NEW cs \in Workspaces, SwitchWorkspace(cs)
      PROVE  Leaves /\ KeepsBody
    BY <1>3, KeepsSwitchWorkspace DEF Leaves
<1>4. QED
    BY <1>1, <1>2, <1>3 DEF OfCollections, Leaves

(* What every step keeps of the strip and of a typed body.                  *)
LEMMA KeepsStep ==
    ASSUME Good, Good', Tied, Next
    PROVE  /\ Stays(tabs, tabs') \/ OfTabs \/ DraftSaved \/ Leaves
           /\ KeepsBody \/ Edit(shown') \/ Shows \/ Restart
BY NextParts, KeepsTabs, KeepsTyping, KeepsSaves, KeepsTree, KeepsCollections

(* What DraftsAreKept says of a step.                                       *)
DraftsKept ==
    /\ \A d \in Drafts : IndexOf(tabs, NoColl, d) # 0 /\ IndexOf(tabs', NoColl, d) = 0 =>
        \/ OfTabs \/ Restart
        \/ \E c \in Colls, id \in Ids : SaveDraft(c, id)
        \/ \E cs \in Workspaces : SwitchWorkspace(cs)
    /\ typed /\ ~typed' /\ ~adrift /\ ~adrift' => LET t == tabs[active] IN
        \/ Located(mem', t) /\ Live(mem', drafts', t) = shown
        \/ Edit(shown')
        \/ IndexOf(tabs', t.col, t.id) = 0 \/ Shows \/ Restart

(* A request has an entry in the strip where IndexOf finds it.              *)
LEMMA EntryIndex ==
    ASSUME NEW T, Strip(T), NEW col, NEW id
    PROVE  IndexOf(T, col, id) # 0 <=> \E k \in DOMAIN T : T[k].col = col /\ T[k].id = id
<1>1. T \in Seq(Tab) /\ DOMAIN T = 1 .. Len(T) /\ Len(T) \in Nat
    BY StripParts
<1>2. /\ IndexOf(T, col, id) \in 0 .. Len(T)
      /\ IndexOf(T, col, id) # 0 =>
            T[IndexOf(T, col, id)].col = col /\ T[IndexOf(T, col, id)].id = id
      /\ IndexOf(T, col, id) = 0 => \A k \in DOMAIN T : ~(T[k].col = col /\ T[k].id = id)
    BY <1>1, IndexProperties
<1>3. QED
    BY <1>1, <1>2

(* Scratch requests and typed bodies are kept by every step.                *)
LEMMA DraftsStep ==
    ASSUME Good, Good', Tied, Next
    PROVE  DraftsKept
<1>1. /\ Stays(tabs, tabs') \/ OfTabs \/ DraftSaved \/ Leaves
      /\ KeepsBody \/ Edit(shown') \/ Shows \/ Restart
    BY KeepsStep
<1>2. Strip(tabs) /\ Strip(tabs')
    BY GoodParts DEF Good, Window
<1>3. ASSUME Stays(tabs, tabs'), NEW d \in Drafts, IndexOf(tabs, NoColl, d) # 0
      PROVE  IndexOf(tabs', NoColl, d) # 0
    <2>1. PICK k \in DOMAIN tabs : tabs[k].col = NoColl /\ tabs[k].id = d
        BY <1>2, <1>3, EntryIndex
    <2>2. \E l \in DOMAIN tabs' : tabs'[l].col = NoColl /\ tabs'[l].id = d
        BY <1>3, <2>1 DEF Stays, HasEntry, IsDraft
    <2>3. QED
        BY <1>2, <2>2, EntryIndex
<1>4. ASSUME NEW t, ~HasEntry(tabs', t) PROVE IndexOf(tabs', t.col, t.id) = 0
    BY <1>2, <1>4, EntryIndex DEF HasEntry
<1>5. \A d \in Drafts : IndexOf(tabs, NoColl, d) # 0 /\ IndexOf(tabs', NoColl, d) = 0 =>
        \/ OfTabs \/ Restart
        \/ \E c \in Colls, id \in Ids : SaveDraft(c, id)
        \/ \E cs \in Workspaces : SwitchWorkspace(cs)
    BY <1>1, <1>3 DEF DraftSaved, Leaves
<1>6. typed /\ ~typed' /\ ~adrift /\ ~adrift' => LET t == tabs[active] IN
        \/ Located(mem', t) /\ Live(mem', drafts', t) = shown
        \/ Edit(shown')
        \/ IndexOf(tabs', t.col, t.id) = 0 \/ Shows \/ Restart
    BY <1>1, <1>4 DEF KeepsBody
<1>7. QED
    BY <1>5, <1>6 DEF DraftsKept

(* A scratch request with content goes only with its own tab; and what was  *)
(* typed into the body reaches its request, whatever is done next, but for  *)
(* the cases DraftsAreKept names (closeTab, saveRequest, reconcileTabs and  *)
(* all that redraws the strip).                                             *)
THEOREM DraftsStay == Spec => DraftsAreKept
<1>1. ASSUME Good, Good', Known, Next PROVE DraftsKept
    BY <1>1, DraftsStep DEF Known
<1>2. Good /\ Good' /\ Known /\ [Next]_vars => [DraftsKept]_vars
    BY <1>1
<1>3. [](Good /\ Known) /\ [][Next]_vars => [][DraftsKept]_vars
    BY <1>2, PTL
<1>4. DraftsAreKept <=> [][DraftsKept]_vars
    BY DEF DraftsAreKept, DraftsKept
<1>5. QED
    BY <1>3, <1>4, AlwaysKnown, PTL DEF Spec

-----------------------------------------------------------------------------
(* What makes a tab read as unsaved.                                        *)

(* Texts that loading leaves as they are. *)
Solid == {x \in Text : Fold[x] = x}

(* What is written through the pointer b, into the trees M, is t's request. *)
Hits(M, b, t) ==
    IF IsDraft(t) THEN b.at = "draft" /\ b.id = t.id
    ELSE b.at \in {"slot", "folder"} /\ b.col = t.col /\ IdAt(M, b) = t.id

(* What t's request says is in X, and what the editor would write to it.    *)
In(M, D, t, X) == Located(M, t) /\ Live(M, D, t) \in X
Says(M, D, b, sh, t, X) == In(M, D, t, X) /\ (Hits(M, b, t) => sh \in X)

(* A write leaves it there.                                                 *)
LEMMA WriteSays ==
    ASSUME NEW M, Held(M), NEW D \in Desk, NEW b, NEW x \in Text, NEW isBody,
           NEW w \in SyncedTo(M, D, b, x, isBody), NEW t \in Tab, NEW X, Says(M, D, b, x, t, X)
    PROVE  Says(w.m, w.d, w.b, x, t, X)
<1>1. /\ Located(M, t) /\ Live(M, D, t) \in X /\ (Hits(M, b, t) => x \in X)
      /\ IsDraft(t) => t.id \in Drafts
    BY TabKinds DEF Says, In
<1>2. w = WrittenTo(M, D, b, x) \/ w = [m |-> M, d |-> D, b |-> b]
    BY DEF SyncedTo
<1>3. ASSUME w.m = M, w.d = D, Hits(M, w.b, t) => Hits(M, b, t)
      PROVE  Says(w.m, w.d, w.b, x, t, X)
    BY <1>1, <1>3 DEF Says, In
<1>4. CASE w = [m |-> M, d |-> D, b |-> b]
    BY <1>3, <1>4
<1>5. CASE w = WrittenTo(M, D, b, x) /\ b.at = "lost"
    <2>1. w.m = M /\ w.d = D /\ w.b = Lost(x)
        BY <1>5 DEF WrittenTo
    <2>2. ~Hits(M, w.b, t)
        BY <2>1 DEF Hits, Lost
    <2>3. QED
        BY <1>3, <2>1, <2>2
<1>6. CASE w = WrittenTo(M, D, b, x) /\ b.at = "draft"
    <2>1. w.m = M /\ w.d = [D EXCEPT ![b.id] = x] /\ w.b = b
        BY <1>6 DEF WrittenTo
    <2>2. Live(M, w.d, t) \in X
        <3>1. CASE IsDraft(t)
            <4>1. w.d[t.id] = IF b.id = t.id THEN x ELSE D[t.id]
                BY <1>1, <2>1, <3>1 DEF Desk
            <4>2. QED
                BY <1>1, <1>6, <3>1, <4>1 DEF Live, Hits
        <3>2. CASE ~IsDraft(t)
            BY <1>1, <3>2 DEF Live
        <3>3. QED
            BY <3>1, <3>2
    <2>3. QED
        BY <1>1, <2>1, <2>2 DEF Says, In
<1>7. CASE w = WrittenTo(M, D, b, x) /\ b.at \in {"slot", "folder"}
    <2>1. w.m = Put(M, b.col, IdAt(M, b), x) /\ w.d = D /\ w.b = b
        BY <1>7 DEF WrittenTo
    <2>2. Like(M, w.m) /\ Texted(M, w.m, b.col, IdAt(M, b), x)
        BY <2>1, PutTree
    <2>3. Located(w.m, t)
        BY <1>1, <2>2, LikeLocated
    <2>4. CASE IsDraft(t)
        <3>1. Live(w.m, w.d, t) = Live(M, D, t) /\ ~Hits(w.m, w.b, t)
            BY <1>7, <2>1, <2>4 DEF Live, Hits
        <3>2. QED
            BY <1>1, <2>3, <3>1 DEF Says, In
    <2>5. CASE ~IsDraft(t)
        <3>1. t.col \in DOMAIN M /\ t.id \in DOMAIN M[t.col].text /\ M[t.col].text[t.id] \in X
            BY <1>1, <2>5 DEF Located, Has, Live
        <3>2. w.m[t.col].text[t.id] =
                IF t.col = b.col /\ t.id = IdAt(M, b) THEN x ELSE M[t.col].text[t.id]
            BY <2>2, <3>1 DEF Texted
        <3>3. Hits(M, b, t) <=> b.col = t.col /\ IdAt(M, b) = t.id
            BY <1>7, <2>5 DEF Hits
        <3>4. w.m[t.col].text[t.id] \in X
            BY <1>1, <3>1, <3>2, <3>3
        <3>5. Hits(w.m, b, t) => Hits(M, b, t)
            <4>1. w.m[t.col].root = M[t.col].root
                BY <2>2, <3>1 DEF Like
            <4>2. QED
                BY <1>7, <2>5, <4>1 DEF Hits, IdAt
        <3>6. QED
            BY <1>1, <2>1, <2>3, <2>5, <3>4, <3>5 DEF Says, In, Live
    <2>6. QED
        BY <2>4, <2>5
<1>8. CASE w = WrittenTo(M, D, b, x) /\ b.at \notin {"lost", "draft", "slot", "folder"}
    <2>1. w.m = M /\ w.d = D /\ w.b = b
        BY <1>8 DEF WrittenTo
    <2>2. QED
        BY <1>3, <2>1
<1>9. QED
    BY <1>2, <1>4, <1>5, <1>6, <1>7, <1>8

(* An editor that is on the tab a writes to a's request only.               *)
LEMMA FollowsHits ==
    ASSUME NEW M, Held(M), NEW D, NEW a \in Tab, NEW t \in Tab, NEW b, NEW bid, NEW sh, NEW ty,
           Follows(M, D, a, b, bid, sh, ty)
    PROVE  Hits(M, b, t) <=> a.col = t.col /\ a.id = t.id
<1>1. CASE IsDraft(a)
    <2>1. b.at = "draft" /\ b.id = a.id
        BY <1>1 DEF Follows, OfDraft
    <2>2. QED
        BY <1>1, <2>1 DEF Hits, IsDraft
<1>2. CASE ~IsDraft(a)
    <2>1. /\ b.at \in {"slot", "folder"} /\ b.col = a.col /\ IdAt(M, b) = a.id
        BY <1>2, NodeProperties DEF Follows, Located
    <2>2. QED
        BY <1>2, <2>1 DEF Hits, IsDraft
<1>3. QED
    BY <1>1, <1>2

(* So it would write what a's request says.                                 *)
LEMMA FollowsSays ==
    ASSUME NEW M, Held(M), NEW D, NEW a \in Tab, NEW t \in Tab, NEW b, NEW bid, NEW sh,
           Follows(M, D, a, b, bid, sh, FALSE), NEW X, In(M, D, t, X)
    PROVE  Says(M, D, b, sh, t, X)
<1>1. Hits(M, b, t) => a.col = t.col /\ a.id = t.id
    BY FollowsHits
<1>2. a.col = t.col /\ a.id = t.id => Live(M, D, a) = Live(M, D, t)
    BY DEF Live, IsDraft
<1>3. sh = Live(M, D, a)
    BY DEF Follows
<1>4. QED
    BY <1>1, <1>2, <1>3 DEF Says, In

(* The tab u is new in that it was loaded by this step. *)
Loads(u) ==
    Located(mem', u) /\ Live(mem', drafts', u) = u.snap /\ u.snap \in Solid /\ typed' = FALSE
LoadedOf(T) ==
    \A k \in DOMAIN tabs' : IsLoaded(tabs'[k]) =>
        (\E j \in DOMAIN T : T[j] = tabs'[k]) \/ Loads(tabs'[k])

(* The requests of tabs say what they say in the trees M and the drafts D.  *)
Tells(M, D) ==
    \A t \in Tab, X \in SUBSET Solid :
        HasEntry(tabs', t) /\ In(M, D, t, X) => Says(mem', drafts', bound', shown', t, X)

(* So it is when a tab is shown, and no other tab is loaded.                *)
LEMMA ShowTells ==
    ASSUME NEW M, Held(M), NEW D, Neat(D), NEW T, Strip(T), NEW i \in DOMAIN T, Show(T, i, M, D)
    PROVE  Tells(M, D) /\ LoadedOf(T) /\ adrift' = FALSE
<1>1. PICK s : s = Settled(T, M, i)
    OBVIOUS
<1>2. /\ Strip(s.tabs) /\ Remains(T, s.tabs, M)
      /\ s.at # 0 => s.at \in DOMAIN s.tabs
    BY <1>1, SettledProperties
<1>3. Window' /\ Held(mem') /\ D \in Desk
    <2>1. D \in Desk
        BY DEF Neat
    <2>2. QED
        BY <2>1, ShowProperties
<1>4. CASE s.at = 0
    <2>1. tabs' = <<>> /\ adrift' = FALSE
        BY <1>1, <1>4 DEF Show, NoTabs
    <2>2. QED
        BY <2>1 DEF Tells, LoadedOf, HasEntry
<1>5. CASE s.at # 0
    <2>1. PICK t : t = s.tabs[s.at]
        OBVIOUS
    <2>2. /\ active' = s.at /\ adrift' = FALSE /\ typed' = FALSE
          /\ \/ tabs' = s.tabs
             \/ /\ ~IsDraft(t) /\ tabs' = [s.tabs EXCEPT ![s.at] = Snapshot(t, shown')]
                /\ shown' = mem'[t.col].text[t.id]
        BY <1>1, <1>5, <2>1 DEF Show
    <2>3. PICK a : a = tabs'[active']
        OBVIOUS
    <2>4. tabs' # <<>> /\ active' \in DOMAIN tabs'
        BY <1>2, <1>5, <2>2
    <2>5. a \in Tab /\ Follows(mem', drafts', a, bound', boundId', shown', FALSE)
        BY <1>3, <2>2, <2>3, <2>4, StripParts DEF Window
    <2>6. ASSUME NEW u \in Tab, NEW X \in SUBSET Solid, In(M, D, u, X)
          PROVE  Says(mem', drafts', bound', shown', u, X)
        <3>1. Located(M, u) /\ Live(M, D, u) \in X /\ Fold[Live(M, D, u)] = Live(M, D, u)
            BY <2>6 DEF In, Solid
        <3>2. Located(mem', u) /\ Live(mem', drafts', u) = Live(M, D, u)
            BY <3>1, ShowLive
        <3>3. In(mem', drafts', u, X)
            BY <3>1, <3>2 DEF In
        <3>4. QED
            BY <1>3, <2>5, <3>3, FollowsSays
    <2>7. shown' \in Solid
        BY <1>3, ShowTies DEF Tied, Window, Solid
    <2>8. ASSUME NEW k \in DOMAIN tabs', IsLoaded(tabs'[k])
          PROVE  (\E j \in DOMAIN T : T[j] = tabs'[k]) \/ Loads(tabs'[k])
        <3>1. CASE k \in DOMAIN s.tabs /\ tabs'[k] = s.tabs[k]
            BY <1>2, <3>1 DEF Remains
        <3>2. CASE ~(k \in DOMAIN s.tabs /\ tabs'[k] = s.tabs[k])
            <4>1. /\ k = s.at /\ ~IsDraft(t) /\ tabs'[k] = Snapshot(t, shown')
                  /\ shown' = mem'[t.col].text[t.id] /\ tabs'[k] # t /\ k = active'
                BY <2>1, <2>2, <3>2
            <4>2. t = [col |-> t.col, id |-> t.id, snap |-> t.snap]
                BY <1>2, <1>5, <2>1, StripParts, TabKinds
            <4>3. tabs'[k] = [col |-> t.col, id |-> t.id, snap |-> shown']
                BY <4>1, <4>2 DEF Snapshot
            <4>4. Located(mem', tabs'[k])
                BY <2>3, <2>5, <4>1 DEF Follows
            <4>5. ~IsDraft(tabs'[k])
                BY <2>8 DEF IsLoaded
            <4>6. Live(mem', drafts', tabs'[k]) = mem'[tabs'[k].col].text[tabs'[k].id]
                BY <4>5 DEF Live
            <4>7. tabs'[k].col = t.col /\ tabs'[k].id = t.id /\ tabs'[k].snap = shown'
                BY <4>3
            <4>8. QED
                BY <2>2, <2>7, <4>1, <4>4, <4>6, <4>7 DEF Loads
        <3>3. QED
            BY <3>1, <3>2
    <2>9. QED
        BY <2>2, <2>6, <2>8 DEF Tells, LoadedOf
<1>6. QED
    BY <1>4, <1>5

(* So it is when a request is opened.                                       *)
LEMMA OpenTabTells ==
    ASSUME NEW M, Held(M), NEW D, Neat(D), NEW T, Strip(T), NEW c \in Colls, NEW id \in Ids,
           OpenTab(T, M, D, c, id)
    PROVE  Tells(M, D) /\ LoadedOf(T) /\ adrift' = FALSE
<1>1. PICK U : \E i \in DOMAIN U : Opens(T, U, c, id) /\ Show(U, i, M, D)
    BY OpenTabShows
<1>2. PICK i \in DOMAIN U : Show(U, i, M, D)
    BY <1>1
<1>3. Strip(U) /\ \A k \in DOMAIN U : (\E j \in DOMAIN T : T[j] = U[k]) \/ U[k] = TreeTab(c, id)
    BY <1>1 DEF Opens
<1>4. Tells(M, D) /\ LoadedOf(U) /\ adrift' = FALSE
    BY <1>2, <1>3, ShowTells
<1>5. ~IsLoaded(TreeTab(c, id))
    BY DEF IsLoaded, TreeTab
<1>6. LoadedOf(T)
    BY <1>3, <1>4, <1>5 DEF LoadedOf
<1>7. QED
    BY <1>4, <1>6

(* A scratch request says what the editor shows of it, unless that is typed *)
(* only.                                                                    *)
Even(D, b, sh, ty, t) == IsDraft(t) /\ b.at = "draft" /\ b.id = t.id /\ ~ty => sh = D[t.id]
Scratch ==
    /\ bound.at = "draft" => boundId = NoNode
    /\ \A t \in Tab : HasEntry(tabs, t) => Even(drafts, bound, shown, typed, t)

(* A loaded tab, unless the trees were loaded again under it, has a request *)
(* in memory, and that and its snapshot are what loading leaves.            *)
Clear ==
    \A k \in DOMAIN tabs : LET u == tabs[k] IN
        IsLoaded(u) /\ Entry(u) \notin reloaded =>
            ~adrift /\ u.snap \in Solid /\ In(mem, drafts, u, Solid)

(* The tab t is open before and after the step, and what it says is in X.   *)
Asked(t, X) ==
    /\ HasEntry(tabs, t) /\ HasEntry(tabs', t)
    /\ IF IsDraft(t) THEN Blank \in X ELSE ~adrift /\ ~adrift'
    /\ Says(mem, drafts, bound, shown, t, X)

(* So it is in the trees M and the drafts D, and after the step.            *)
Passes(M, D) == \A t \in Tab, X \in SUBSET Solid : Asked(t, X) => In(M, D, t, X)
Eases ==
    \A t \in Tab, X \in SUBSET Solid : Asked(t, X) => Says(mem', drafts', bound', shown', t, X)

(* A tab that is loaded was, or is loaded by this step.                     *)
News ==
    \A k \in DOMAIN tabs' : IsLoaded(tabs'[k]) /\ ~adrift' /\ Entry(tabs'[k]) \notin reloaded =>
        (\E j \in DOMAIN tabs : tabs[j] = tabs'[k]) \/ Loads(tabs'[k])

(* What an action but an edit keeps of this. *)
Calm == Eases /\ News /\ (adrift' => Scratch')

(* The loaded tabs of T are open. *)
From(T) == \A k \in DOMAIN T : IsLoaded(T[k]) => \E j \in DOMAIN tabs : tabs[j] = T[k]

(* A scratch tab is where it is, whatever happens in the tree.              *)
LEMMA DraftSays ==
    ASSUME NEW M, NEW N, NEW D, NEW b, NEW e, NEW sh, NEW X, NEW t, IsDraft(t),
           Says(M, D, b, sh, t, X), e = b \/ e.at # "draft"
    PROVE  Says(N, D, e, sh, t, X)
<1>1. Live(N, D, t) = Live(M, D, t) /\ Located(N, t)
    BY DEF Live, Located
<1>2. Hits(N, e, t) => Hits(M, b, t)
    BY DEF Hits
<1>3. QED
    BY <1>1, <1>2 DEF Says, In

(* No tabs are left.                                                        *)
LEMMA CalmEmpty ==
    ASSUME tabs' = <<>>, bound' = Nowhere \/ adrift' = FALSE
    PROVE  Calm
<1>1. \A t : ~HasEntry(tabs', t)
    BY DEF HasEntry
<1>2. Eases /\ News
    BY <1>1 DEF Eases, News, Asked
<1>3. adrift' => Scratch'
    BY <1>1 DEF Scratch, Nowhere
<1>4. QED
    BY <1>2, <1>3 DEF Calm

(* A tab is shown.                                                          *)
LEMMA CalmTells ==
    ASSUME NEW M, NEW D, NEW T, Tells(M, D), LoadedOf(T), adrift' = FALSE, From(T), Passes(M, D)
    PROVE  Calm
<1>1. Eases
    BY DEF Eases, Passes, Tells, Asked
<1>2. News
    BY DEF News, LoadedOf, From
<1>3. QED
    BY <1>1, <1>2 DEF Calm

(* So it is with activateTab.                                               *)
LEMMA CalmShow ==
    ASSUME NEW M, Held(M), NEW D, Neat(D), NEW T, Strip(T), NEW i \in DOMAIN T, Show(T, i, M, D),
           From(T), Passes(M, D)
    PROVE  Calm
BY ShowTells, CalmTells

(* What a tab says passes when nothing changes it. *)
LEMMA PassesItself ==
    Passes(mem, drafts)
BY DEF Passes, Asked, Says

(* A request is opened.                                                     *)
LEMMA CalmOpenTab ==
    ASSUME NEW M, Held(M), NEW D, Neat(D), NEW T, Strip(T), NEW c \in Colls, NEW id \in Ids,
           OpenTab(T, M, D, c, id), From(T), Passes(M, D)
    PROVE  Calm
BY OpenTabTells, CalmTells

(* Nothing of the window changes.                                           *)
LEMMA CalmSame ==
    ASSUME Good, Scratch, UNCHANGED <<tabs, drafts, bound, boundId, shown, typed>>,
           \A x \in DOMAIN mem : x \in DOMAIN mem' /\ mem'[x] = mem[x]
    PROVE  Calm
<1>1. /\ tabs' = tabs /\ drafts' = drafts /\ bound' = bound /\ boundId' = boundId
      /\ shown' = shown /\ typed' = typed
    OBVIOUS
<1>2. ASSUME NEW t \in Tab, NEW X, Says(mem, drafts, bound, shown, t, X)
      PROVE  Says(mem', drafts, bound, shown, t, X)
    <2>1. CASE IsDraft(t)
        BY <1>2, <2>1, DraftSays
    <2>2. CASE ~IsDraft(t)
        <3>1. t.col \in DOMAIN mem /\ Has(mem[t.col], t.id) /\ mem[t.col].text[t.id] \in X
            BY <1>2, <2>2 DEF Says, In, Located, Live
        <3>2. t.col \in DOMAIN mem' /\ mem'[t.col] = mem[t.col]
            BY <3>1
        <3>3. In(mem', drafts, t, X)
            BY <2>2, <3>1, <3>2 DEF In, Located, Live
        <3>4. Hits(mem', bound, t) => Hits(mem, bound, t)
            BY <2>2, <3>2 DEF Hits, IdAt
        <3>5. QED
            BY <1>2, <3>3, <3>4 DEF Says
    <2>3. QED
        BY <2>1, <2>2
<1>3. Eases
    BY <1>1, <1>2 DEF Eases, Asked
<1>4. News
    BY <1>1 DEF News
<1>5. Scratch'
    BY <1>1 DEF Scratch
<1>6. QED
    BY <1>3, <1>4, <1>5 DEF Calm

(* What is written to a scratch request is what the editor shows; nothing   *)
(* is written only when it says that, or another field was typed.           *)
LEMMA WriteEven ==
    ASSUME NEW M, NEW D \in Desk, NEW b, NEW x, NEW isBody, NEW w \in SyncedTo(M, D, b, x, isBody),
           NEW t \in Tab, Even(D, b, x, isBody, t)
    PROVE  Even(w.d, w.b, x, FALSE, t)
<1>1. IsDraft(t) => t.id \in Drafts
    BY TabKinds
<1>2. w = WrittenTo(M, D, b, x) \/ (~isBody /\ w = [m |-> M, d |-> D, b |-> b])
    BY DEF SyncedTo
<1>3. CASE ~isBody /\ w = [m |-> M, d |-> D, b |-> b]
    <2>1. w.d = D /\ w.b = b
        BY <1>3
    <2>2. QED
        BY <1>3, <2>1 DEF Even
<1>4. CASE w = WrittenTo(M, D, b, x)
    <2>1. ASSUME w.b.at = "draft" PROVE w.b = b /\ w.d = [D EXCEPT ![b.id] = x]
        <3>1. CASE b.at = "lost"
            BY <1>4, <2>1, <3>1 DEF WrittenTo, Lost
        <3>2. CASE b.at # "lost"
            <4>1. w.b = b
                BY <1>4, <3>2 DEF WrittenTo
            <4>2. b.at = "draft"
                BY <2>1, <4>1
            <4>3. w.d = [D EXCEPT ![b.id] = x]
                BY <1>4, <4>2 DEF WrittenTo
            <4>4. QED
                BY <4>1, <4>3
        <3>3. QED
            BY <3>1, <3>2
    <2>2. ASSUME IsDraft(t), w.b.at = "draft", w.b.id = t.id PROVE x = w.d[t.id]
        BY <1>1, <2>1, <2>2 DEF Desk
    <2>3. QED
        BY <2>2 DEF Even
<1>5. QED
    BY <1>2, <1>3, <1>4

(* A pointer to no scratch request does not become one. *)
LEMMA WriteDraft ==
    ASSUME NEW M, NEW D, NEW b, NEW x, NEW isBody, NEW w \in SyncedTo(M, D, b, x, isBody),
           w.b.at = "draft"
    PROVE  b.at = "draft"
<1>1. w.b = b \/ (b.at = "lost" /\ w.b = Lost(x))
    BY DEF SyncedTo, WrittenTo
<1>2. QED
    BY <1>1 DEF Lost

(* What is typed is written back, over the drafts D.                        *)
LEMMA CalmWrite ==
    ASSUME Good, Scratch, NEW D \in Desk, NEW isBody, typed => isBody,
           NEW w \in SyncedTo(mem, D, bound, shown, isBody),
           \A t \in Tab : IsDraft(t) /\ HasEntry(tabs', t) =>
                HasEntry(tabs, t) /\ D[t.id] = drafts[t.id],
           mem' = w.m, drafts' = w.d, bound' = w.b, shown' = shown, typed' = FALSE,
           boundId' = boundId, News
    PROVE  Calm
<1>1. Held(mem) /\ shown \in Text
    BY GoodParts
<1>2. ASSUME NEW t \in Tab, NEW X \in SUBSET Solid, Asked(t, X)
      PROVE  Says(mem', drafts', bound', shown', t, X)
    <2>1. HasEntry(tabs', t) /\ Says(mem, drafts, bound, shown, t, X)
        BY <1>2 DEF Asked
    <2>2. IsDraft(t) => D[t.id] = drafts[t.id]
        BY <2>1
    <2>3. Says(mem, D, bound, shown, t, X)
        BY <2>1, <2>2 DEF Says, In, Live
    <2>4. Says(w.m, w.d, w.b, shown, t, X)
        BY <1>1, <2>3, WriteSays
    <2>5. QED
        BY <2>4
<1>3. ASSUME NEW t \in Tab, HasEntry(tabs', t)
      PROVE  Even(w.d, w.b, shown, FALSE, t)
    <2>1. CASE ~IsDraft(t)
        BY <2>1 DEF Even
    <2>2. CASE IsDraft(t)
        <3>1. HasEntry(tabs, t) /\ D[t.id] = drafts[t.id]
            BY <1>3, <2>2
        <3>2. Even(drafts, bound, shown, typed, t)
            BY <3>1 DEF Scratch
        <3>3. Even(D, bound, shown, isBody, t)
            BY <3>1, <3>2 DEF Even
        <3>4. QED
            BY <3>3, WriteEven
    <2>3. QED
        BY <2>1, <2>2
<1>4. bound'.at = "draft" => boundId' = NoNode
    BY WriteDraft DEF Scratch
<1>5. Scratch'
    BY <1>3, <1>4 DEF Scratch
<1>6. QED
    BY <1>2, <1>5 DEF Calm, Eases

(* The trees are loaded again under the tabs.                               *)
LEMMA CalmAgain ==
    ASSUME Good, Scratch, NEW w, LoadAgain(w),
           (w \in Synced /\ typed' = FALSE) \/ (w = AsIs /\ typed' = typed)
    PROVE  Calm
<1>1. /\ tabs' = tabs /\ drafts' = w.d /\ bound' = Detached(w) /\ adrift' = (tabs # <<>>)
      /\ boundId' = boundId /\ shown' = shown
    BY DEF LoadAgain
<1>2. CASE tabs = <<>>
    BY <1>1, <1>2, CalmEmpty
<1>3. CASE tabs # <<>>
    <2>1. Held(mem) /\ drafts \in Desk /\ shown \in Text
        BY GoodParts
    <2>2. w = AsIs => w.m = mem /\ w.d = drafts /\ w.b = bound
        BY DEF AsIs
    <2>3. ASSUME NEW t \in Tab, NEW X, Says(mem, drafts, bound, shown, t, X)
          PROVE  Says(w.m, w.d, w.b, shown, t, X)
        BY <2>1, <2>2, <2>3, WriteSays DEF Synced
    <2>4. Detached(w) = w.b \/ Detached(w).at # "draft"
        BY DEF Detached, Lost
    <2>5. ASSUME NEW t \in Tab, NEW X \in SUBSET Solid, Asked(t, X)
          PROVE  Says(mem', drafts', bound', shown', t, X)
        <3>1. IsDraft(t) /\ Says(mem, drafts, bound, shown, t, X)
            BY <1>1, <1>3, <2>5 DEF Asked
        <3>2. Says(w.m, w.d, w.b, shown, t, X)
            BY <2>3, <3>1
        <3>3. Says(mem', w.d, Detached(w), shown, t, X)
            BY <2>4, <3>1, <3>2, DraftSays
        <3>4. QED
            BY <1>1, <3>3
    <2>6. ASSUME NEW t \in Tab, HasEntry(tabs, t)
          PROVE  Even(w.d, w.b, shown, typed', t)
        <3>1. Even(drafts, bound, shown, typed, t)
            BY <2>6 DEF Scratch
        <3>2. CASE w \in Synced /\ typed' = FALSE
            <4>1. Even(w.d, w.b, shown, FALSE, t)
                BY <2>1, <3>1, <3>2, WriteEven DEF Synced
            <4>2. QED
                BY <3>2, <4>1
        <3>3. CASE w = AsIs /\ typed' = typed
            BY <2>2, <3>1, <3>3
        <3>4. QED
            BY <3>2, <3>3
    <2>7. w.b.at = "draft" => boundId = NoNode
        BY <2>2, WriteDraft DEF Scratch, Synced
    <2>8. Scratch'
        <3>1. Detached(w).at = "draft" => Detached(w) = w.b
            BY <2>4
        <3>2. \A t \in Tab : HasEntry(tabs, t) => Even(w.d, Detached(w), shown, typed', t)
            BY <2>6, <3>1 DEF Even
        <3>3. Detached(w).at = "draft" => boundId = NoNode
            BY <2>7, <3>1
        <3>4. QED
            BY <1>1, <3>2, <3>3 DEF Scratch
    <2>9. News
        BY <1>1, <1>3 DEF News
    <2>10. QED
        BY <2>5, <2>8, <2>9 DEF Calm, Eases
<1>4. QED
    BY <1>2, <1>3

(* A save fails. *)
LEMMA CalmFailedSave ==
    ASSUME Good, Scratch, FailedSave
    PROVE  Calm
<1>1. LoadAgain(AsIs) /\ typed' = typed
    BY DEF FailedSave
<1>2. QED
    BY <1>1, CalmAgain

(* The strip changes, and the editor stays.                                 *)
LEMMA CalmRedraw ==
    ASSUME Good, Scratch, NEW D \in Desk, Redraw(D), Open(tabs'),
           \A t \in Tab : IsDraft(t) /\ HasEntry(tabs', t) => D[t.id] = drafts[t.id]
    PROVE  Calm
<1>1. PICK w \in SyncedTo(mem, D, bound, shown, typed) :
        mem' = w.m /\ drafts' = w.d /\ bound' = w.b
    BY DEF Redraw
<1>2. typed' = FALSE /\ boundId' = boundId /\ shown' = shown
    BY DEF Redraw
<1>3. News
    BY DEF News, Open
<1>4. \A t : HasEntry(tabs', t) => HasEntry(tabs, t)
    BY DEF HasEntry, Open
<1>5. QED
    BY <1>1, <1>2, <1>3, <1>4, CalmWrite

(* The tabs that are left are of scratch requests that stay.                *)
LEMMA WithoutDrafts ==
    ASSUME Good, NEW victims \in SUBSET DOMAIN tabs, NEW T,
           \A k \in victims : ~HasEntry(T, tabs[k])
    PROVE  /\ \A t \in Tab : IsDraft(t) /\ HasEntry(T, t) => Without(victims)[t.id] = drafts[t.id]
           /\ (\A k \in DOMAIN tabs' : HasEntry(T, tabs'[k])) => Passes(mem, Without(victims))
<1>1. ASSUME NEW t \in Tab, IsDraft(t), HasEntry(T, t)
      PROVE  Without(victims)[t.id] = drafts[t.id]
    <2>1. t.id \in Drafts
        BY <1>1, TabKinds
    <2>2. ASSUME NEW k \in victims, tabs[k] = DraftTab(t.id) PROVE FALSE
        <3>1. HasEntry(T, tabs[k])
            BY <1>1, <2>2 DEF HasEntry, DraftTab, IsDraft
        <3>2. QED
            BY <3>1
    <2>3. QED
        BY <2>1, <2>2 DEF Without
<1>2. ASSUME \A k \in DOMAIN tabs' : HasEntry(T, tabs'[k]),
             NEW t \in Tab, NEW X \in SUBSET Solid, Asked(t, X)
      PROVE  In(mem, Without(victims), t, X)
    <2>1. HasEntry(tabs', t) /\ In(mem, drafts, t, X)
        BY <1>2 DEF Asked, Says
    <2>2. HasEntry(T, t)
        BY <1>2, <2>1 DEF HasEntry
    <2>3. QED
        BY <1>1, <2>1, <2>2 DEF In, Live
<1>3. QED
    BY <1>1, <1>2 DEF Passes

(* A request is selected.                                                   *)
LEMMA CalmSelectRequest ==
    ASSUME Good, Tied, NEW c \in Colls, NEW id \in Ids, SelectRequest(c, id)
    PROVE  Calm
<1>1. OpenTab(tabs, mem, drafts, c, id)
    BY DEF SelectRequest
<1>2. From(tabs) /\ Neat(drafts)
    BY DEF From, Tied
<1>3. QED
    BY <1>1, <1>2, GoodParts, PassesItself, CalmOpenTab

(* A collection is selected, or opened.                                     *)
LEMMA CalmCollection ==
    ASSUME Good, Scratch, NEW c \in Colls, SelectCollection(c) \/ OpenCollection(c)
    PROVE  Calm
<1>1. UNCHANGED <<tabs, drafts, bound, boundId, shown, typed>>
    BY DEF SelectCollection, OpenCollection, strip, editor
<1>2. \A x \in DOMAIN mem : x \in DOMAIN mem' /\ mem'[x] = mem[x]
    BY DEF SelectCollection, OpenCollection
<1>3. QED
    BY <1>1, <1>2, CalmSame

(* A scratch tab is opened.                                                 *)
LEMMA CalmNewScratch ==
    ASSUME Good, Tied, NEW d \in Drafts, NEW t \in Pasted \cup {Blank}, NewScratch(d, t)
    PROVE  Calm
<1> DEFINE U == Append(tabs, DraftTab(d))
           D == [drafts EXCEPT ![d] = Fold[t]]
<1>1. /\ IndexOf(tabs, NoColl, d) = 0 /\ Len(tabs) < MaxTabs /\ Show(U, Len(tabs) + 1, mem, D)
    BY DEF NewScratch
<1>2. DraftTab(d) \in Tab /\ DraftTab(d).col = NoColl /\ DraftTab(d).id = d
    BY DEF DraftTab, Tab, Clean
<1>3. \A k \in DOMAIN tabs : ~(tabs[k].col = NoColl /\ tabs[k].id = d)
    BY <1>1, GoodParts, StripParts, IndexProperties
<1>4. Strip(U) /\ Len(tabs) + 1 \in DOMAIN U
    BY <1>1, <1>2, <1>3, GoodParts, AppendStrip
<1>5. Neat(D)
    <2>1. t \in Text
        BY WorkbenchAssumption DEF Text
    <2>2. Fold[t] \in Text /\ Fold[Fold[t]] = Fold[t] /\ Neat(drafts)
        BY <2>1, FoldText DEF Tied
    <2>3. QED
        BY <2>2 DEF Neat, Desk
<1>6. From(U)
    <2>1. tabs \in Seq(Tab) /\ DOMAIN tabs = 1 .. Len(tabs) /\ Len(tabs) \in Nat
        BY GoodParts, StripParts
    <2>2. DOMAIN U = 1 .. Len(tabs) + 1 /\ U[Len(tabs) + 1] = DraftTab(d)
          /\ \A k \in 1 .. Len(tabs) : U[k] = tabs[k]
        BY <2>1
    <2>3. \A k \in 1 .. Len(tabs) + 1 : k \in 1 .. Len(tabs) \/ k = Len(tabs) + 1
        BY <2>1
    <2>4. ~IsLoaded(DraftTab(d))
        BY DEF IsLoaded, IsDraft, DraftTab
    <2> HIDE DEF U
    <2>5. QED
        BY <2>1, <2>2, <2>3, <2>4 DEF From
<1>7. ASSUME NEW u \in Tab, NEW X \in SUBSET Solid, Asked(u, X)
      PROVE  In(mem, D, u, X)
    <2>1. HasEntry(tabs, u) /\ In(mem, drafts, u, X)
        BY <1>7 DEF Asked, Says
    <2>2. IsDraft(u) => u.id # d
        BY <1>3, <2>1 DEF HasEntry, IsDraft
    <2>3. IsDraft(u) => u.id \in Drafts
        BY TabKinds
    <2>4. drafts \in Desk
        BY GoodParts
    <2>5. IsDraft(u) => D[u.id] = drafts[u.id]
        BY <2>2, <2>3, <2>4 DEF Desk
    <2> HIDE DEF D
    <2>6. QED
        BY <2>1, <2>5 DEF In, Live
<1> HIDE DEF U, D
<1>8. Passes(mem, D)
    BY <1>7 DEF Passes
<1>9. QED
    BY <1>1, <1>4, <1>5, <1>6, <1>8, GoodParts, CalmShow

(* A tab is shown.                                                          *)
LEMMA CalmActivate ==
    ASSUME Good, Tied, NEW i \in DOMAIN tabs, Activate(i)
    PROVE  Calm
<1>1. Show(tabs, i, mem, drafts) /\ From(tabs) /\ Neat(drafts)
    BY DEF Activate, From, Tied
<1>2. QED
    BY <1>1, GoodParts, PassesItself, CalmShow

(* The tabs but the victims are left, and one is shown, or none is left, or *)
(* the editor stays.                                                        *)
LEMMA CalmWithout ==
    ASSUME Good, Tied, Scratch, NEW victims \in SUBSET DOMAIN tabs, NEW kept,
           Strip(kept), Open(kept), \A k \in victims : ~HasEntry(kept, tabs[k]),
           \/ NoTabs(mem, Without(victims))
           \/ \E j \in DOMAIN kept : Show(kept, j, mem, Without(victims))
           \/ tabs' = kept /\ Redraw(Without(victims))
    PROVE  Calm
<1>1. PICK D : D = Without(victims)
    OBVIOUS
<1>2. Neat(D) /\ D \in Desk
    BY <1>1, WithoutNeat DEF Neat
<1>3. CASE NoTabs(mem, D)
    BY <1>3, CalmEmpty DEF NoTabs
<1>4. CASE \E j \in DOMAIN kept : Show(kept, j, mem, D)
    <2>1. PICK j \in DOMAIN kept : Show(kept, j, mem, D)
        BY <1>4
    <2>2. \A k \in DOMAIN tabs' : HasEntry(kept, tabs'[k])
        BY <1>2, <2>1, GoodParts, ShowStays
    <2>3. Passes(mem, D)
        BY <1>1, <2>2, WithoutDrafts
    <2>4. From(kept)
        BY DEF From, Open
    <2>5. QED
        BY <1>2, <2>1, <2>3, <2>4, GoodParts, CalmShow
<1>5. CASE tabs' = kept /\ Redraw(D)
    <2>1. \A t \in Tab : IsDraft(t) /\ HasEntry(tabs', t) => D[t.id] = drafts[t.id]
        BY <1>1, <1>5, WithoutDrafts
    <2>2. Open(tabs')
        BY <1>5
    <2>3. QED
        BY <1>2, <1>5, <2>1, <2>2, CalmRedraw
<1>6. QED
    BY <1>1, <1>3, <1>4, <1>5

(* A tab is closed.                                                         *)
LEMMA CalmClose ==
    ASSUME Good, Tied, Scratch, NEW i \in DOMAIN tabs, Close(i)
    PROVE  Calm
<1>1. PICK kept : kept = RemoveAt(tabs, i)
    OBVIOUS
<1>2. /\ Strip(kept) /\ Open(kept)
      /\ kept # <<>> => (IF i > Len(kept) THEN Len(kept) ELSE i) \in DOMAIN kept
    BY <1>1, ClosedStrip
<1>3. \A k \in {i} : ~HasEntry(kept, tabs[k])
    BY <1>1, ClosedGone
<1>4. \/ NoTabs(mem, Without({i}))
      \/ \E j \in DOMAIN kept : Show(kept, j, mem, Without({i}))
      \/ tabs' = kept /\ Redraw(Without({i}))
    BY <1>1, <1>2 DEF Close
<1>5. {i} \in SUBSET DOMAIN tabs
    OBVIOUS
<1>6. QED
    BY <1>2, <1>3, <1>4, <1>5, CalmWithout

(* Several tabs are closed at once.                                         *)
LEMMA CalmCloseTabs ==
    ASSUME Good, Tied, Scratch, NEW victims \in SUBSET DOMAIN tabs,
           NEW anchor \in DOMAIN tabs \ victims, CloseTabs(victims, anchor)
    PROVE  Calm
<1>1. PICK kept : kept = Pick(tabs, DOMAIN tabs \ victims)
    OBVIOUS
<1>2. /\ Strip(kept) /\ Open(kept)
      /\ IndexOf(kept, tabs[anchor].col, tabs[anchor].id) \in DOMAIN kept
    BY <1>1, KeptStrip
<1>3. \A k \in victims : ~HasEntry(kept, tabs[k])
    BY <1>1, KeptGone
<1>4. \/ \E j \in DOMAIN kept : Show(kept, j, mem, Without(victims))
      \/ tabs' = kept /\ Redraw(Without(victims))
    BY <1>1, <1>2 DEF CloseTabs
<1>5. QED
    BY <1>2, <1>3, <1>4, CalmWithout

(* All tabs but one are closed, or those to the right.                      *)
LEMMA CalmCloseMany ==
    ASSUME Good, Tied, Scratch, NEW i \in DOMAIN tabs, CloseOthers(i) \/ CloseRight(i)
    PROVE  Calm
<1>1. CASE CloseOthers(i)
    <2>1. CloseTabs(DOMAIN tabs \ {i}, i) /\ i \in DOMAIN tabs \ (DOMAIN tabs \ {i})
        BY <1>1 DEF CloseOthers
    <2>2. QED
        BY <2>1, CalmCloseTabs
<1>2. CASE CloseRight(i)
    <2> DEFINE victims == {k \in DOMAIN tabs : k > i}
    <2>1. CloseTabs(victims, i) /\ victims \in SUBSET DOMAIN tabs
        BY <1>2 DEF CloseRight
    <2>2. i \in Nat
        BY GoodParts, StripParts
    <2>3. i \in DOMAIN tabs \ victims
        BY <2>2
    <2> HIDE DEF victims
    <2>4. QED
        BY <2>1, <2>3, CalmCloseTabs
<1>3. QED
    BY <1>1, <1>2

(* A tab is dragged.                                                        *)
LEMMA CalmDrag ==
    ASSUME Good, Scratch, NEW i \in DOMAIN tabs, NEW j \in DOMAIN tabs, Drag(i, j)
    PROVE  Calm
<1>1. Redraw(drafts) /\ Open(tabs') /\ drafts \in Desk
    BY GoodParts, DraggedStrip DEF Drag
<1>2. QED
    BY <1>1, CalmRedraw

(* The typing pauses, or the editor is written back.                        *)
LEMMA CalmWriteBack ==
    ASSUME Good, Scratch, Pause \/ WriteBack
    PROVE  Calm
<1>1. PICK isBody \in BOOLEAN :
        /\ typed => isBody
        /\ \E w \in SyncedTo(mem, drafts, bound, shown, isBody) :
                mem' = w.m /\ drafts' = w.d /\ bound' = w.b
    <2>1. CASE Pause
        <3>1. \E w \in SyncedTo(mem, drafts, bound, shown, TRUE) :
                mem' = w.m /\ drafts' = w.d /\ bound' = w.b
            BY <2>1 DEF Pause, Written, SyncedTo
        <3>2. QED
            BY <3>1
    <2>2. CASE WriteBack
        BY <2>2, GoodParts DEF WriteBack, Synced
    <2>3. QED
        BY <2>1, <2>2
<1>2. typed' = FALSE /\ boundId' = boundId /\ shown' = shown /\ tabs' = tabs
    BY DEF Pause, WriteBack
<1>3. News
    BY <1>2 DEF News
<1>4. drafts \in Desk
    BY GoodParts
<1>5. QED
    BY <1>1, <1>2, <1>3, <1>4, CalmWrite

(* The editor loses its request: the scratch requests stay.                 *)
LEMMA CalmLost ==
    ASSUME adrift' = TRUE \/ tabs' = <<>>, drafts' = drafts, bound' = Nowhere \/ bound'.at = "lost"
    PROVE  Calm
<1>1. CASE tabs' = <<>>
    <2>1. bound' # Nowhere => bound'.at # "draft"
        BY <1>1
    <2>2. \A t : ~HasEntry(tabs', t)
        BY <1>1 DEF HasEntry
    <2>3. QED
        BY <1>1, <2>1, <2>2 DEF Calm, Eases, News, Asked, Scratch, Nowhere
<1>2. CASE adrift' = TRUE
    <2>1. bound'.at # "draft"
        BY DEF Nowhere
    <2>2. ASSUME NEW t \in Tab, NEW X \in SUBSET Solid, Asked(t, X)
          PROVE  Says(mem', drafts', bound', shown', t, X)
        <3>1. IsDraft(t) /\ In(mem, drafts, t, X)
            BY <1>2, <2>2 DEF Asked, Says
        <3>2. In(mem', drafts', t, X) /\ ~Hits(mem', bound', t)
            BY <2>1, <3>1 DEF In, Located, Live, Hits
        <3>3. QED
            BY <3>2 DEF Says
    <2>3. Scratch'
        BY <2>1 DEF Scratch, Even
    <2>4. News
        BY <1>2 DEF News
    <2>5. QED
        BY <2>2, <2>3, <2>4 DEF Calm, Eases
<1>3. QED
    BY <1>1, <1>2

(* What a loaded tab's request says, and would say, loading leaves.         *)
LEMMA ClearSays ==
    ASSUME Good, Tied, Clear, NEW k \in DOMAIN tabs, IsLoaded(tabs[k]),
           Entry(tabs[k]) \notin reloaded
    PROVE  /\ tabs[k] \in Tab /\ ~adrift /\ tabs[k].snap \in Solid
           /\ Says(mem, drafts, bound, shown, tabs[k], Solid)
<1>1. tabs[k] \in Tab /\ shown \in Solid
    BY GoodParts, StripParts DEF Tied, Solid
<1>2. ~adrift /\ tabs[k].snap \in Solid /\ In(mem, drafts, tabs[k], Solid)
    BY DEF Clear
<1>3. QED
    BY <1>1, <1>2 DEF Says

(* The request in the editor is saved.                                      *)
LEMMA CalmSaveRequest ==
    ASSUME Good, Tied, Scratch, Clear, NEW c \in Colls, SaveRequest(c)
    PROVE  Calm
<1> DEFINE t == tabs[active]
<1>1. bound # Nowhere /\ ~IsDraft(t) /\ c = boundId.col /\ c \in DOMAIN mem /\ typed' = FALSE
    BY DEF SaveRequest
<1>2. PICK w \in Synced :
        \/ /\ mem' = w.m /\ bound' = w.b /\ tabs' = Refresh(tabs, t.col, w.m)
           /\ drafts' = drafts /\ boundId' = boundId /\ shown' = shown
        \/ LoadAgain(w)
    BY DEF SaveRequest
<1>3. tabs # <<>> /\ active \in DOMAIN tabs
    BY <1>1, BoundHasTab
<1>4. t.col = c /\ boundId # NoNode
    <2>1. Anchored(t, bound, boundId)
        BY <1>3 DEF Tied
    <2>2. QED
        BY <1>1, <2>1 DEF Anchored
<1>5. Wrote(mem, w)
    BY <1>1, SyncedGood
<1> HIDE DEF t
<1>6. CASE /\ mem' = w.m /\ bound' = w.b /\ tabs' = Refresh(tabs, t.col, w.m)
           /\ drafts' = drafts /\ boundId' = boundId /\ shown' = shown
    <2>1. Held(w.m) /\ c \in DOMAIN w.m
        BY <1>1, <1>5 DEF Wrote, Like
    <2>2. /\ DOMAIN tabs' = DOMAIN tabs
          /\ \A k \in DOMAIN tabs :
                /\ tabs'[k].col = tabs[k].col /\ tabs'[k].id = tabs[k].id
                /\ tabs'[k].snap = NoText <=> tabs[k].snap = NoText
                /\ tabs[k].col # c \/ tabs[k].snap = NoText => tabs'[k] = tabs[k]
                /\ tabs[k].col = c /\ tabs[k].snap # NoText /\ Has(w.m[c], tabs[k].id) =>
                        tabs'[k].snap = w.m[c].text[tabs[k].id]
        BY <1>4, <1>6, <2>1, GoodParts, RefreshTabs
    <2>3. w.d = drafts
        <3>1. bound.at # "draft"
            BY <1>4 DEF Scratch
        <3>2. QED
            BY <3>1 DEF Synced, SyncedTo, WrittenTo
    <2>4. ASSUME NEW k \in DOMAIN tabs', IsLoaded(tabs'[k]), Entry(tabs'[k]) \notin reloaded
          PROVE  (\E j \in DOMAIN tabs : tabs[j] = tabs'[k]) \/ Loads(tabs'[k])
        <3>1. IsLoaded(tabs[k]) /\ Entry(tabs[k]) \notin reloaded /\ k \in DOMAIN tabs
            BY <2>2, <2>4 DEF IsLoaded, IsDraft, Entry
        <3>2. CASE tabs[k].col # c
            BY <2>2, <3>1, <3>2
        <3>3. CASE tabs[k].col = c
            <4>1. tabs[k] \in Tab /\ Says(mem, drafts, bound, shown, tabs[k], Solid)
                BY <3>1, ClearSays
            <4>2. Says(w.m, w.d, w.b, shown, tabs[k], Solid)
                <5>1. Held(mem) /\ drafts \in Desk /\ shown \in Text
                    BY GoodParts
                <5>2. PICK u \in Tab : u = tabs[k]
                    BY <4>1
                <5>3. Says(w.m, w.d, w.b, shown, u, Solid)
                    BY <4>1, <5>1, <5>2, WriteSays DEF Synced
                <5>4. QED
                    BY <5>2, <5>3
            <4>3. /\ Has(w.m[c], tabs[k].id) /\ Located(w.m, tabs[k])
                  /\ w.m[c].text[tabs[k].id] \in Solid
                BY <3>1, <3>3, <4>2 DEF Says, In, Located, Live, IsLoaded
            <4>4. tabs'[k].snap = w.m[c].text[tabs[k].id]
                BY <2>2, <3>1, <3>3, <4>3 DEF IsLoaded
            <4>5. tabs'[k].col = c /\ tabs'[k].id = tabs[k].id /\ ~IsDraft(tabs'[k])
                BY <2>2, <2>4, <3>1, <3>3 DEF IsLoaded
            <4>6. Located(mem', tabs'[k]) /\ Live(mem', drafts', tabs'[k]) = w.m[c].text[tabs[k].id]
                BY <1>6, <2>1, <4>3, <4>5 DEF Located, Live
            <4>7. PICK u : u = tabs'[k]
                OBVIOUS
            <4>8. /\ Located(mem', u) /\ Live(mem', drafts', u) = u.snap /\ u.snap \in Solid
                  /\ typed' = FALSE
                BY <1>1, <4>3, <4>4, <4>6, <4>7
            <4>9. Loads(u)
                BY <4>8 DEF Loads
            <4>10. QED
                BY <4>7, <4>9
        <3>4. QED
            BY <3>2, <3>3
    <2>5. News
        BY <2>4 DEF News
    <2>6. \A u : HasEntry(tabs', u) => HasEntry(tabs, u)
        BY <2>2 DEF HasEntry
    <2>7. typed \in BOOLEAN /\ drafts \in Desk /\ w \in SyncedTo(mem, drafts, bound, shown, typed)
        BY GoodParts DEF Synced
    <2>8. QED
        BY <1>1, <1>6, <2>3, <2>5, <2>6, <2>7, CalmWrite
<1>7. CASE LoadAgain(w)
    BY <1>1, <1>7, CalmAgain
<1>8. QED
    BY <1>2, <1>6, <1>7

(* Loading a request leaves those in the trees that it has been done to.    *)
LEMMA PutIn ==
    ASSUME NEW M, Held(M), NEW c \in DOMAIN M, NEW id, Has(M[c], id), NEW D, NEW X \in SUBSET Solid,
           NEW t \in Tab, In(M, D, t, X), NEW N, N = Put(M, c, id, Fold[M[c].text[id]])
    PROVE  In(N, D, t, X)
<1>1. Fold[M[c].text[id]] \in Text
    BY TextProperties
<1>2. Like(M, N) /\ Texted(M, N, c, id, Fold[M[c].text[id]])
    BY <1>1, PutTree
<1>3. Located(N, t)
    BY <1>2, LikeLocated DEF In
<1>4. CASE IsDraft(t)
    BY <1>3, <1>4 DEF In, Live
<1>5. CASE ~IsDraft(t)
    <2>1. t.col \in DOMAIN M /\ t.id \in DOMAIN M[t.col].text /\ M[t.col].text[t.id] \in X
        BY <1>5 DEF In, Located, Has, Live
    <2>2. Fold[M[t.col].text[t.id]] = M[t.col].text[t.id]
        BY <2>1 DEF Solid
    <2>3. N[t.col].text[t.id] = M[t.col].text[t.id]
        BY <1>2, <2>1, <2>2 DEF Texted
    <2>4. QED
        BY <1>3, <1>5, <2>1, <2>3 DEF In, Live
<1>6. QED
    BY <1>4, <1>5

(* The request of another tab is saved, which shows the tab first.          *)
LEMMA CalmSaveTab ==
    ASSUME Good, Tied, Clear, NEW i \in DOMAIN tabs, SaveTab(i)
    PROVE  Calm
<1> DEFINE t == tabs[i]
           c == t.col
           x == Fold[mem[c].text[t.id]]
           M == Put(mem, c, t.id, x)
           T == [tabs EXCEPT ![i] = Snapshot(@, M[c].text[t.id])]
           R == Refresh(T, c, M)
<1>1. /\ ~IsDraft(t) /\ Located(mem, t)
      /\ \/ Show(R, i, M, drafts)
         \/ adrift' = TRUE /\ drafts' = drafts /\ bound' = Lost(M[c].text[t.id])
    BY DEF SaveTab
<1>2. c \in DOMAIN mem /\ Has(mem[c], t.id) /\ c \in Colls /\ t \in Tab /\ c # NoColl
    BY <1>1, GoodParts, StripParts DEF Located, IsDraft
<1>3. x \in Solid
    BY <1>2, GoodParts, TextProperties, FoldText DEF Solid
<1>4. CASE adrift' = TRUE /\ drafts' = drafts /\ bound' = Lost(M[c].text[t.id])
    <2>1. bound'.at = "lost"
        BY <1>4 DEF Lost
    <2>2. QED
        BY <1>4, <2>1, CalmLost
<1>5. x \in Text /\ x # NoText
    BY <1>3, WorkbenchAssumption DEF Solid, Text
<1>6. \A u \in Tab, X \in SUBSET Solid : In(mem, drafts, u, X) => In(M, drafts, u, X)
    BY <1>2, GoodParts, PutIn
<1> HIDE DEF x
<1>7. Held(M) /\ Like(mem, M) /\ Texted(mem, M, c, t.id, x)
    BY <1>5, GoodParts, PutTree
<1>8. M[c].text[t.id] = x
    BY <1>2, <1>7 DEF Texted, Has
<1> HIDE DEF M
<1>9. c \in DOMAIN M /\ Has(M[c], t.id)
    BY <1>2, <1>7 DEF Like, Has
<1>10. SameTabs(tabs, T) /\ DOMAIN T = DOMAIN tabs /\ \A k \in DOMAIN tabs : k # i => T[k] = tabs[k]
    <2>1. T = [tabs EXCEPT ![i] = Snapshot(@, x)]
        BY <1>8
    <2>2. \A k \in DOMAIN tabs : k # i => T[k] = tabs[k]
        OBVIOUS
    <2> HIDE DEF T
    <2>3. QED
        BY <1>5, <2>1, <2>2, GoodParts, SnapshotStrip
<1>11. T[i].col = c /\ T[i].id = t.id
    <2>1. T[i] = Snapshot(t, M[c].text[t.id])
        OBVIOUS
    <2>2. t = [col |-> c, id |-> t.id, snap |-> t.snap]
        BY <1>2, TabKinds
    <2>3. QED
        BY <2>1, <2>2 DEF Snapshot
<1> HIDE DEF T, t, c
<1>12. Strip(T)
    BY <1>10, GoodParts, SameStrip
<1>13. /\ DOMAIN R = DOMAIN T
       /\ \A k \in DOMAIN T :
            /\ R[k].col = T[k].col /\ R[k].id = T[k].id
            /\ R[k].snap = NoText <=> T[k].snap = NoText
            /\ T[k].col # c \/ T[k].snap = NoText => R[k] = T[k]
            /\ T[k].col = c /\ T[k].snap # NoText /\ Has(M[c], T[k].id) =>
                    R[k].snap = M[c].text[T[k].id]
    BY <1>7, <1>9, <1>12, RefreshTabs
<1>14. Strip(R)
    <2>1. SameTabs(T, R)
        BY <1>2, <1>7, <1>12, RefreshStrip
    <2>2. QED
        BY <1>12, <2>1, SameStrip
<1> HIDE DEF R
<1>15. CASE Show(R, i, M, drafts)
    <2>1. Neat(drafts) /\ i \in DOMAIN R
        BY <1>10, <1>13 DEF Tied
    <2>2. Tells(M, drafts) /\ LoadedOf(R) /\ adrift' = FALSE
        BY <1>7, <1>14, <1>15, <2>1, ShowTells
    <2>3. typed' = FALSE
        BY <1>15 DEF Show, NoTabs, ClearEditor
    <2>4. Eases
        <3>1. Passes(M, drafts)
            BY <1>6 DEF Passes, Asked, Says
        <3>2. QED
            BY <2>2, <3>1 DEF Eases, Passes, Tells, Asked
    <2>5. ASSUME NEW k \in DOMAIN tabs', IsLoaded(tabs'[k]), Entry(tabs'[k]) \notin reloaded
          PROVE  (\E j \in DOMAIN tabs : tabs[j] = tabs'[k]) \/ Loads(tabs'[k])
        <3>1. PICK u : u = tabs'[k]
            OBVIOUS
        <3>2. CASE Loads(u)
            BY <3>1, <3>2
        <3>3. CASE ~Loads(u)
            <4>1. PICK j \in DOMAIN R : R[j] = u
                BY <2>2, <2>5, <3>1, <3>3 DEF LoadedOf
            <4>2. /\ j \in DOMAIN tabs /\ u.col = T[j].col /\ u.id = T[j].id
                  /\ ~IsDraft(u) /\ u.snap # NoText /\ T[j].snap # NoText
                BY <1>10, <1>13, <2>5, <3>1, <4>1 DEF IsLoaded
            <4>3. CASE T[j].col # c
                BY <1>10, <1>11, <1>13, <3>1, <4>1, <4>2, <4>3
            <4>4. CASE T[j].col = c
                <5>1. In(M, drafts, u, Solid)
                    <6>1. CASE j = i
                        BY <1>1, <1>3, <1>8, <1>9, <1>11, <4>2, <6>1
                           DEF In, Located, Live, IsDraft, t, c
                    <6>2. CASE j # i
                        <7>1. T[j] = tabs[j] /\ IsLoaded(tabs[j]) /\ Entry(tabs[j]) \notin reloaded
                            BY <1>10, <2>5, <3>1, <4>2, <6>2 DEF IsLoaded, IsDraft, Entry
                        <7>2. tabs[j] \in Tab /\ In(mem, drafts, tabs[j], Solid)
                            BY <4>2, <7>1, ClearSays DEF Says
                        <7>3. In(M, drafts, tabs[j], Solid)
                            BY <1>6, <7>2
                        <7>4. QED
                            BY <4>2, <7>1, <7>3 DEF In, Located, Live, IsDraft
                    <6>3. QED
                        BY <6>1, <6>2
                <5>2. Has(M[c], u.id) /\ Live(M, drafts, u) = M[c].text[u.id] /\ u \in Tab
                    BY <1>14, <4>1, <4>2, <4>4, <5>1, StripParts DEF In, Located, Live
                <5>3. u.snap = Live(M, drafts, u)
                    BY <1>10, <1>13, <4>1, <4>2, <4>4, <5>2
                <5>4. Located(mem', u) /\ Live(mem', drafts', u) = Live(M, drafts, u)
                    BY <1>7, <1>14, <1>15, <2>1, <5>1, <5>2, ShowLive DEF In, Solid
                <5>5. Live(M, drafts, u) \in Solid
                    BY <5>1 DEF In
                <5>6. Loads(u)
                    BY <2>3, <5>3, <5>4, <5>5 DEF Loads
                <5>7. QED
                    BY <3>1, <5>6
            <4>5. QED
                BY <4>3, <4>4
        <3>4. QED
            BY <3>2, <3>3
    <2>6. News
        BY <2>5 DEF News
    <2>7. QED
        BY <2>2, <2>4, <2>6 DEF Calm
<1>16. QED
    BY <1>1, <1>4, <1>15

(* What a tab says is there in trees that agree with those in memory.       *)
LEMMA AgreesIn ==
    ASSUME NEW M, Agrees(M, mem), NEW t, Located(M, t), NEW X, In(mem, drafts, t, X)
    PROVE  In(M, drafts, t, X)
<1>1. CASE IsDraft(t)
    BY <1>1 DEF In, Live
<1>2. CASE ~IsDraft(t)
    <2>1. /\ t.col \in DOMAIN M \cap DOMAIN mem
          /\ t.id \in DOMAIN M[t.col].text \cap DOMAIN mem[t.col].text
          /\ mem[t.col].text[t.id] \in X
        BY <1>2 DEF In, Located, Has, Live
    <2>2. M[t.col].text[t.id] = mem[t.col].text[t.id]
        BY <2>1 DEF Agrees
    <2>3. QED
        BY <1>2, <2>1, <2>2 DEF In, Live
<1>3. QED
    BY <1>1, <1>2

(* reconcileTabs writes through a pointer that is a scratch request's only  *)
(* if the editor's was.                                                     *)
LEMMA BoundDraft ==
    ASSUME Good, Tied, tabs # <<>>, NEW M, Held(M), Located(M, tabs[active]),
           NEW b, b = BoundTo(M, tabs[active]), b.at = "draft"
    PROVE  b = bound /\ IsDraft(tabs[active])
<1>1. CASE IsDraft(tabs[active])
    BY <1>1 DEF BoundTo
<1>2. CASE ~IsDraft(tabs[active])
    BY <1>2, NodeProperties DEF BoundTo, Located
<1>3. QED
    BY <1>1, <1>2

(* What a tab says it says also over the trees of reconcileTabs, with the   *)
(* pointer of the active tab.                                               *)
LEMMA BoundSays ==
    ASSUME Good, Tied, tabs # <<>>, NEW M, Held(M), Agrees(M, mem), Located(M, tabs[active]),
           NEW b, b = BoundTo(M, tabs[active]), NEW text, text = shown \/ (text = Blank /\ adrift),
           NEW t \in Tab, NEW X \in SUBSET Solid, Asked(t, X), Located(M, t)
    PROVE  Says(M, drafts, b, text, t, X)
<1>1. PICK a : a = tabs[active]
    OBVIOUS
<1>2. a \in Tab /\ Held(mem)
    BY <1>1, GoodParts, StripParts DEF Window
<1>3. In(M, drafts, t, X) /\ (Hits(mem, bound, t) => shown \in X)
    <2>1. Says(mem, drafts, bound, shown, t, X)
        BY DEF Asked
    <2>2. QED
        BY <2>1, AgreesIn DEF Says
<1>4. CASE IsDraft(t)
    <2>1. ASSUME Hits(M, b, t) PROVE text \in X
        <3>1. b = bound
            BY <1>4, <2>1, BoundDraft DEF Hits
        <3>2. Hits(mem, bound, t)
            BY <1>4, <2>1, <3>1 DEF Hits
        <3>3. Blank \in X
            BY <1>4 DEF Asked
        <3>4. QED
            BY <1>3, <3>2, <3>3
    <2>2. QED
        BY <1>3, <2>1 DEF Says
<1>5. CASE ~IsDraft(t)
    <2>1. ~adrift /\ text = shown
        BY <1>5 DEF Asked
    <2>2. ASSUME Hits(M, b, t) PROVE shown \in X
        <3>1. b.at \in {"slot", "folder"} /\ b.col = t.col /\ IdAt(M, b) = t.id
            BY <1>5, <2>2 DEF Hits
        <3>2. ~IsDraft(a)
            <4>1. Anchored(a, bound, boundId)
                BY <1>1 DEF Tied
            <4>2. IsDraft(a) => b = bound
                BY <1>1 DEF BoundTo
            <4>3. QED
                BY <3>1, <4>1, <4>2 DEF Anchored
        <3>3. b = PlaceOf(M, a.col, a.id) /\ a.col \in DOMAIN M /\ Has(M[a.col], a.id)
            BY <1>1, <3>2 DEF BoundTo, Located
        <3>4. b.col = a.col /\ IdAt(M, b) = a.id
            BY <3>3, NodeProperties
        <3>5. Follows(mem, drafts, a, bound, boundId, shown, typed)
            BY <1>1, <2>1, GoodParts DEF Window
        <3>6. Hits(mem, bound, t)
            BY <1>2, <3>1, <3>4, <3>5, FollowsHits
        <3>7. QED
            BY <1>3, <3>6
    <2>3. QED
        BY <1>3, <2>1, <2>2 DEF Says
<1>6. QED
    BY <1>4, <1>5

(* reconcileTabs. *)
LEMMA CalmReconcile ==
    ASSUME Good, Tied, Scratch, NEW M, Held(M), Agrees(M, mem), NEW cleared, Reconciles(M, cleared)
    PROVE  Calm
<1>1. PICK kept : kept = Kept(M)
    OBVIOUS
<1>2. PICK a : a = tabs[active]
    OBVIOUS
<1>3. /\ Reconcile(M, cleared) /\ cleared \in BOOLEAN /\ (cleared => boundId # NoNode)
      /\ cleared /\ tabs # <<>> => adrift \/ ~Located(M, a)
    BY <1>2 DEF Reconciles
<1>4. /\ Strip(kept) /\ Open(kept) /\ \A t : HasEntry(kept, t) => Located(M, t)
    BY <1>1, GoodParts, KeptProperties, KeptOpen, KeptEntries
<1>5. CASE tabs = <<>>
    <2>1. tabs' = <<>> /\ bound' = Nowhere
        BY <1>3, <1>5, GoodParts DEF Reconcile, Same, strip, editor, Window
    <2>2. QED
        BY <2>1, CalmEmpty
<1>6. CASE tabs # <<>> /\ ~Located(M, a) /\ kept = <<>>
    <2>1. NoTabs(M, drafts)
        BY <1>1, <1>2, <1>3, <1>6 DEF Reconcile
    <2>2. QED
        BY <2>1, CalmEmpty DEF NoTabs
<1>7. CASE tabs # <<>> /\ ~Located(M, a) /\ kept # <<>>
    <2>1. Show(kept, 1, M, drafts) /\ Neat(drafts)
        BY <1>1, <1>2, <1>3, <1>7 DEF Reconcile, Tied
    <2>2. 1 \in DOMAIN kept
        BY <1>4, <1>7, StripParts
    <2>3. \A k \in DOMAIN tabs' : HasEntry(kept, tabs'[k])
        BY <1>4, <2>1, <2>2, ShowStays
    <2>4. ASSUME NEW t \in Tab, NEW X \in SUBSET Solid, Asked(t, X)
          PROVE  In(M, drafts, t, X)
        <3>1. HasEntry(kept, t) /\ In(mem, drafts, t, X)
            BY <2>3, <2>4 DEF Asked, HasEntry, Says
        <3>2. QED
            BY <1>4, <3>1, AgreesIn
    <2>5. Passes(M, drafts)
        BY <2>4 DEF Passes
    <2>6. From(kept)
        BY <1>4 DEF From, Open
    <2>7. QED
        BY <1>4, <2>1, <2>2, <2>5, <2>6, CalmShow
<1>8. CASE tabs # <<>> /\ Located(M, a)
    <2>1. PICK b : b = BoundTo(M, a)
        OBVIOUS
    <2>2. PICK text : text = IF cleared THEN Blank ELSE shown
        OBVIOUS
    <2>3. PICK w \in SyncedTo(M, drafts, b, text, typed /\ ~cleared) :
            mem' = w.m /\ drafts' = w.d /\ bound' = w.b
        BY <1>2, <1>3, <1>8, <2>1, <2>2 DEF Reconcile, Reconciled
    <2>4. /\ tabs' = kept /\ boundId' = (IF IsDraft(a) THEN boundId ELSE NodeAt(M, a.col, a.id))
          /\ shown' = text /\ typed' = FALSE /\ adrift' = adrift
        BY <1>1, <1>2, <1>3, <1>8, <2>2 DEF Reconcile
    <2>5. cleared => adrift /\ boundId # NoNode
        BY <1>3, <1>8
    <2>6. text = shown \/ (text = Blank /\ adrift)
        BY <2>2, <2>5
    <2>7. text \in Text /\ drafts \in Desk /\ typed \in BOOLEAN
        BY <2>2, GoodParts DEF Text
    <2>8. ASSUME NEW t \in Tab, NEW X \in SUBSET Solid, Asked(t, X)
          PROVE  Says(mem', drafts', bound', shown', t, X)
        <3>1. Located(M, t)
            BY <1>4, <2>4, <2>8 DEF Asked
        <3>2. Says(M, drafts, b, text, t, X)
            BY <1>2, <1>8, <2>1, <2>6, <2>8, <3>1, BoundSays
        <3>3. Says(w.m, w.d, w.b, text, t, X)
            BY <2>7, <3>2, WriteSays
        <3>4. QED
            BY <2>3, <2>4, <3>3
    <2>9. News
        BY <1>4, <2>4 DEF News, Open
    <2>10. b.at = "draft" => b = bound /\ IsDraft(a) /\ boundId = NoNode /\ ~cleared /\ text = shown
        <3>1. b.at = "draft" => b = bound /\ IsDraft(a)
            BY <1>2, <1>8, <2>1, BoundDraft
        <3>2. QED
            BY <2>2, <2>5, <3>1 DEF Scratch
    <2>11. ASSUME NEW t \in Tab, HasEntry(kept, t) PROVE Even(w.d, w.b, text, FALSE, t)
        <3>1. HasEntry(tabs, t)
            BY <1>4, <2>11 DEF HasEntry, Open
        <3>2. Even(drafts, bound, shown, typed, t)
            BY <3>1 DEF Scratch
        <3>3. Even(drafts, b, text, typed /\ ~cleared, t)
            BY <2>10, <3>2 DEF Even
        <3>4. QED
            BY <2>7, <3>3, WriteEven
    <2>12. bound'.at = "draft" => boundId' = NoNode
        <3>1. w.b.at = "draft" => b.at = "draft"
            BY WriteDraft
        <3>2. QED
            BY <2>3, <2>4, <2>10, <3>1
    <2>13. Scratch'
        BY <2>3, <2>4, <2>11, <2>12 DEF Scratch
    <2>14. QED
        BY <2>8, <2>9, <2>13 DEF Calm, Eases
<1>9. QED
    BY <1>5, <1>6, <1>7, <1>8

(* An operation on the tree selects the row of its request.                 *)
LEMMA CalmSelect ==
    ASSUME Good, Tied, Scratch, NEW M, Held(M), Agrees(M, mem), NEW c \in DOMAIN M, NEW id,
           Has(M[c], id), ReconcileAndSelect(M, c, id)
    PROVE  Calm
<1> DEFINE n == NodeAt(M, c, id)
<1>1. c \in Colls /\ id \in Ids
    BY NodeProperties
<1>2. CASE n.kind = "root" /\ ~IsSelected(n)
    <2>1. PICK w \in Reconciled(M, shown, typed) : OpenTab(Kept(M), w.m, w.d, c, id)
        BY <1>2 DEF ReconcileAndSelect
    <2> HIDE DEF n
    <2>2. Held(w.m) /\ Neat(w.d)
        BY ReconciledNeat
    <2>3. PICK kept : kept = Kept(M)
        OBVIOUS
    <2>4. Strip(kept) /\ Open(kept) /\ \A t : HasEntry(kept, t) => Located(M, t)
        BY <2>3, GoodParts, KeptProperties, KeptOpen, KeptEntries
    <2>5. OpenTab(kept, w.m, w.d, c, id)
        BY <2>1, <2>3
    <2>6. PICK U : \E i \in DOMAIN U : Opens(kept, U, c, id) /\ Show(U, i, w.m, w.d)
        BY <1>1, <2>4, <2>5, OpenTabShows
    <2>7. PICK i \in DOMAIN U : Show(U, i, w.m, w.d)
        BY <2>6
    <2>8. Strip(U) /\ \A k \in DOMAIN U : HasEntry(kept, U[k]) \/ (U[k].col = c /\ U[k].id = id)
        BY <2>6 DEF Opens, HasEntry, TreeTab
    <2>9. ASSUME NEW t, HasEntry(tabs', t) PROVE Located(M, t)
        <3>1. PICK k \in DOMAIN U : U[k].col = t.col /\ U[k].id = t.id
            BY <2>2, <2>7, <2>8, <2>9, ShowStays DEF HasEntry
        <3>2. CASE HasEntry(kept, U[k])
            BY <2>4, <3>1, <3>2 DEF HasEntry
        <3>3. CASE U[k].col = c /\ U[k].id = id
            BY <3>1, <3>3 DEF Located
        <3>4. QED
            BY <2>8, <3>2, <3>3
    <2>10. ASSUME NEW t \in Tab, NEW X \in SUBSET Solid, Asked(t, X)
           PROVE  In(w.m, w.d, t, X)
        <3>1. Located(M, t) /\ In(mem, drafts, t, X)
            BY <2>9, <2>10 DEF Asked, Says
        <3>2. CASE w = [m |-> M, d |-> drafts, b |-> bound]
            <4>1. In(M, drafts, t, X)
                BY <3>1, AgreesIn
            <4>2. QED
                BY <3>2, <4>1
        <3>3. CASE /\ tabs # <<>> /\ Located(M, tabs[active])
                   /\ w \in SyncedTo(M, drafts, BoundTo(M, tabs[active]), shown, typed)
            <4>1. PICK b : b = BoundTo(M, tabs[active])
                OBVIOUS
            <4>2. Says(M, drafts, b, shown, t, X)
                BY <2>10, <3>1, <3>3, <4>1, BoundSays
            <4>3. drafts \in Desk /\ shown \in Text
                BY GoodParts
            <4>4. Says(w.m, w.d, w.b, shown, t, X)
                BY <3>3, <4>1, <4>2, <4>3, WriteSays
            <4>5. QED
                BY <4>4 DEF Says
        <3>4. QED
            BY <3>2, <3>3 DEF Reconciled
    <2>11. Passes(w.m, w.d)
        BY <2>10 DEF Passes
    <2>12. From(kept)
        BY <2>4 DEF From, Open
    <2>13. QED
        BY <1>1, <2>2, <2>4, <2>5, <2>11, <2>12, CalmOpenTab
<1>3. CASE ~(n.kind = "root" /\ ~IsSelected(n))
    <2>1. Reconciles(M, FALSE)
        BY <1>3 DEF ReconcileAndSelect, Reconciles
    <2>2. QED
        BY <2>1, CalmReconcile
<1>4. QED
    BY <1>2, <1>3

(* A request is added or moved. *)
LEMMA CalmChange ==
    ASSUME Good, Tied, Scratch, NEW M, NEW c, NEW id, Changes(M, c, id)
    PROVE  Calm
<1>1. /\ c \in DOMAIN M /\ Held(M) /\ Agrees(M, mem) /\ Has(M[c], id)
    BY DEF Changes, OthersSame
<1>2. CASE ReconcileAndSelect(M, c, id)
    BY <1>1, <1>2, CalmSelect
<1>3. CASE FailedSave
    BY <1>3, CalmFailedSave
<1>4. QED
    BY <1>2, <1>3 DEF Changes

(* A collection is saved as it is. *)
LEMMA CalmSaveCollection ==
    ASSUME Good, Tied, Scratch, NEW c \in Colls, SaveCollection(c)
    PROVE  Calm
<1>1. CASE Reconcile(mem, FALSE)
    <2>1. Reconciles(mem, FALSE) /\ Agrees(mem, mem)
        BY <1>1 DEF Reconciles, Agrees
    <2>2. QED
        BY <2>1, GoodParts, CalmReconcile
<1>2. CASE Same(mem)
    <2>1. /\ UNCHANGED <<tabs, drafts, bound, boundId, shown, typed>>
          /\ \A x \in DOMAIN mem : x \in DOMAIN mem' /\ mem'[x] = mem[x]
        BY <1>2 DEF Same, strip, editor
    <2>2. QED
        BY <2>1, CalmSame
<1>3. CASE FailedSave
    BY <1>3, CalmFailedSave
<1>4. QED
    BY <1>1, <1>2, <1>3 DEF SaveCollection

(* The selected request is deleted. *)
LEMMA CalmDelete ==
    ASSUME Good, Tied, Scratch, Delete
    PROVE  Calm
<1>1. PICK M, c, id : Deletes(M, c, id)
    BY DeleteDeletes
<1>2. CASE Reconciles(M, boundId = row.node)
    BY <1>1, <1>2, CalmReconcile DEF Deletes
<1>3. CASE DeleteFails
    <2>1. CASE LoadAgain(AsIs) /\ typed' = typed
        BY <2>1, CalmAgain
    <2>2. CASE ClearEditor /\ adrift' = (tabs # <<>>) /\ UNCHANGED strip
        <3>1. drafts' = drafts /\ bound' = Nowhere /\ tabs' = tabs
            BY <2>2 DEF ClearEditor, strip
        <3>2. adrift' = TRUE \/ tabs' = <<>>
            BY <2>2, <3>1
        <3>3. QED
            BY <3>1, <3>2, CalmLost
    <2>3. QED
        BY <1>3, <2>1, <2>2 DEF DeleteFails
<1>4. QED
    BY <1>1, <1>2, <1>3 DEF Deletes

(* The last delete is undone. *)
LEMMA CalmUndo ==
    ASSUME Good, Tied, Scratch, Undo
    PROVE  Calm
<1>1. PICK M, c, id, n : Undoes(M, c, id, n)
    BY UndoUndoes
<1>2. /\ Held(M) /\ Agrees(M, mem) /\ c \in Colls /\ id \in Ids
      /\ \A x \in DOMAIN mem : x \in DOMAIN M /\ DOMAIN mem[x].text \subseteq DOMAIN M[x].text
    BY <1>1 DEF Undoes, Grows
<1>3. CASE OpenTab(tabs, M, drafts, c, id)
    <2>1. ASSUME NEW t \in Tab, NEW X \in SUBSET Solid, Asked(t, X)
          PROVE  In(M, drafts, t, X)
        <3>1. In(mem, drafts, t, X)
            BY <2>1 DEF Asked, Says
        <3>2. Located(M, t)
            BY <1>2, <3>1 DEF In, Located, Has
        <3>3. QED
            BY <1>2, <3>1, <3>2, AgreesIn
    <2>2. Passes(M, drafts)
        BY <2>1 DEF Passes
    <2>3. From(tabs) /\ Neat(drafts)
        BY DEF From, Tied
    <2>4. QED
        BY <1>2, <1>3, <2>2, <2>3, GoodParts, CalmOpenTab
<1>4. CASE /\ mem' = M /\ adrift' = (tabs # <<>>)
           /\ bound' = bound \/ (bound.at = "slot" /\ bound' = Detached(AsIs))
           /\ UNCHANGED <<strip, boundId, shown, typed>>
    <2>1. /\ tabs' = tabs /\ drafts' = drafts /\ boundId' = boundId /\ shown' = shown
          /\ typed' = typed /\ adrift' = (tabs # <<>>)
        BY <1>4 DEF strip
    <2>2. bound' = bound \/ bound'.at # "draft"
        BY <1>4 DEF Detached, AsIs, Lost
    <2>3. CASE tabs = <<>>
        BY <2>1, <2>3, CalmEmpty
    <2>4. CASE tabs # <<>>
        <3>1. ASSUME NEW t \in Tab, NEW X \in SUBSET Solid, Asked(t, X)
              PROVE  Says(mem', drafts', bound', shown', t, X)
            <4>1. IsDraft(t) /\ Says(mem, drafts, bound, shown, t, X)
                BY <2>1, <2>4, <3>1 DEF Asked
            <4>2. Says(mem', drafts, bound', shown, t, X)
                BY <2>2, <4>1, DraftSays
            <4>3. QED
                BY <2>1, <4>2
        <3>2. News
            BY <2>1, <2>4 DEF News
        <3>3. Scratch'
            BY <2>1, <2>2 DEF Scratch, Even
        <3>4. QED
            BY <3>1, <3>2, <3>3 DEF Calm, Eases
    <2>5. QED
        BY <2>3, <2>4
<1>5. CASE LoadAgain(AsIs) /\ UNCHANGED typed
    <2>1. typed' = typed
        BY <1>5
    <2>2. QED
        BY <1>5, <2>1, CalmAgain
<1>6. QED
    BY <1>1, <1>3, <1>4, <1>5 DEF Undoes

(* A collection leaves the session. *)
LEMMA CalmRemoveCollection ==
    ASSUME Good, Tied, Scratch, NEW c \in Colls, RemoveCollection(c)
    PROVE  Calm
<1>1. PICK M : Removes(M, c)
    BY RemoveCollectionRemoves
<1>2. Held(M) /\ Agrees(M, mem)
    BY <1>1 DEF Removes, Agrees
<1>3. QED
    BY <1>1, <1>2, CalmReconcile DEF Removes

(* Another workspace is shown, or one is deleted.                           *)
LEMMA CalmWorkspace ==
    ASSUME NEW cs, SwitchWorkspace(cs) \/ DeleteWorkspace(cs)
    PROVE  Calm
<1>1. CASE SwitchWorkspace(cs)
    BY <1>1, CalmEmpty DEF SwitchWorkspace, NoTabs
<1>2. CASE DeleteWorkspace(cs)
    <2>1. drafts' = drafts /\ bound' = Nowhere /\ tabs' = tabs /\ adrift' = (tabs # <<>>)
        BY <1>2 DEF DeleteWorkspace, ClearEditor, strip
    <2>2. adrift' = TRUE \/ tabs' = <<>>
        BY <2>1
    <2>3. QED
        BY <2>1, <2>2, CalmLost
<1>3. QED
    BY <1>1, <1>2

(* A scratch request is saved into a collection.                            *)
LEMMA CalmSaveDraft ==
    ASSUME Good, Tied, Scratch, NEW c \in Colls, NEW id \in Ids, SaveDraft(c, id)
    PROVE  Calm
<1>1. CASE \E M, T, D : Drafted(M, T, D, c, id)
    <2>1. PICK M, T, D : Drafted(M, T, D, c, id)
        BY <1>1
    <2>2. /\ Held(M) /\ Strip(T) /\ Neat(D) /\ tabs # <<>> /\ active \in DOMAIN tabs
          /\ DOMAIN T = DOMAIN tabs /\ T[active] = TreeTab(c, id)
          /\ \A k \in DOMAIN tabs : k # active => T[k] = tabs[k]
          /\ Show(T, active, M, D) /\ Agrees(M, mem)
          /\ \A x \in DOMAIN mem : x \in DOMAIN M /\ DOMAIN mem[x].text \subseteq DOMAIN M[x].text
        BY <2>1 DEF Drafted, Grows
    <2>3. PICK w \in Synced : \A d \in Drafts : d # tabs[active].id => D[d] = w.d[d]
        BY <2>1 DEF Drafted
    <2>4. From(T)
        <3>1. ~IsLoaded(TreeTab(c, id))
            BY DEF IsLoaded, TreeTab
        <3>2. QED
            BY <2>2, <3>1 DEF From
    <2>5. ASSUME NEW t \in Tab, NEW X \in SUBSET Solid, Asked(t, X)
          PROVE  In(M, D, t, X)
        <3>1. Says(mem, drafts, bound, shown, t, X) /\ In(mem, drafts, t, X)
            BY <2>5 DEF Asked, Says
        <3>2. CASE ~IsDraft(t)
            <4>1. Located(M, t)
                BY <2>2, <3>1 DEF In, Located, Has
            <4>2. In(M, drafts, t, X)
                BY <2>2, <3>1, <4>1, AgreesIn
            <4>3. QED
                BY <3>2, <4>2 DEF In, Live
        <3>3. CASE IsDraft(t)
            <4>1. PICK k \in DOMAIN T : T[k].col = t.col /\ T[k].id = t.id
                BY <2>2, <2>5, ShowStays DEF Asked, HasEntry
            <4>2. k # active
                BY <2>2, <3>3, <4>1, WorkbenchAssumption DEF TreeTab, IsDraft
            <4>3. tabs[k].col = NoColl /\ tabs[k].id = t.id /\ k \in DOMAIN tabs
                BY <2>2, <3>3, <4>1, <4>2 DEF IsDraft
            <4>4. IsDraft(tabs[active]) => t.id # tabs[active].id
                BY <2>2, <4>2, <4>3, GoodParts, StripParts DEF NoneTwice, IsDraft
            <4>5. IsDraft(tabs[active])
                BY DEF SaveDraft
            <4>6. Held(mem) /\ drafts \in Desk /\ shown \in Text
                BY GoodParts
            <4>7. Says(w.m, w.d, w.b, shown, t, X)
                BY <3>1, <4>6, WriteSays DEF Synced
            <4>8. D[t.id] = w.d[t.id]
                BY <2>3, <3>3, <4>4, <4>5, TabKinds
            <4>9. QED
                BY <3>3, <4>7, <4>8 DEF Says, In, Located, Live
        <3>4. QED
            BY <3>2, <3>3
    <2>6. Passes(M, D)
        BY <2>5 DEF Passes
    <2>7. QED
        BY <2>2, <2>4, <2>6, CalmShow
<1>2. CASE \E w \in Synced : LoadAgain(w) /\ typed' = FALSE
    <2>1. PICK w \in Synced : LoadAgain(w) /\ typed' = FALSE
        BY <1>2
    <2>2. QED
        BY <2>1, CalmAgain
<1>3. QED
    BY <1>1, <1>2, SaveDraftDrafts

(* All loaded tabs are loaded by this step, and none is of a scratch        *)
(* request.                                                                 *)
Loading ==
    /\ adrift' = FALSE
    /\ \A k \in DOMAIN tabs' : ~IsDraft(tabs'[k]) /\ (IsLoaded(tabs'[k]) => Loads(tabs'[k]))

(* The program starts again. *)
LEMMA RestartLoads ==
    ASSUME Good, Restart
    PROVE  Loading
<1>1. PICK M, T, D : Restarted(M, T, D)
    BY RestartRestarts
<1>2. ASSUME NEW i \in DOMAIN T, Show(T, i, M, D)
      PROVE  Loading
    <2>1. LoadedOf(T) /\ adrift' = FALSE
        BY <1>1, <1>2, ShowTells DEF Restarted
    <2>2. \A k \in DOMAIN tabs' : HasEntry(T, tabs'[k])
        BY <1>1, <1>2, ShowStays DEF Restarted
    <2>3. \A k \in DOMAIN tabs' : ~IsDraft(tabs'[k])
        BY <1>1, <2>2 DEF Restarted, HasEntry, IsDraft
    <2>4. \A k \in DOMAIN tabs' : IsLoaded(tabs'[k]) => Loads(tabs'[k])
        BY <1>1, <2>1 DEF Restarted, LoadedOf, IsLoaded
    <2>5. QED
        BY <2>1, <2>3, <2>4 DEF Loading
<1>3. CASE NoTabs(M, D)
    <2>1. adrift' = FALSE /\ DOMAIN tabs' = {}
        BY <1>3 DEF NoTabs
    <2>2. QED
        BY <2>1 DEF Loading
<1>4. QED
    BY <1>1, <1>2, <1>3 DEF Restarted

(* The tabs that are kept by a step with a request in memory that loading   *)
(* leaves have one after it.                                                *)
Settles == \A t \in Tab : Asked(t, Solid) => In(mem', drafts', t, Solid)
Fair == (Settles /\ News) \/ Loading

(* A field is edited, or the body is typed: the scratch requests are as     *)
(* Scratch says, and the other requests as Clear does.                      *)
LEMMA EditSettles ==
    ASSUME Good, Scratch, NEW x \in Text, Fold[x] = x, Edit(x) \/ TypeBody(x)
    PROVE  Settles /\ News /\ Scratch'
<1>1. tabs' = tabs /\ boundId' = boundId /\ shown' = x
    BY DEF Edit, TypeBody, strip
<1>2. News
    BY <1>1 DEF News
<1>3. Held(mem) /\ drafts \in Desk
    BY GoodParts
<1>4. CASE Edit(x)
    <2>1. PICK w : w = WrittenTo(mem, drafts, bound, x)
        OBVIOUS
    <2>2. w \in SyncedTo(mem, drafts, bound, x, TRUE)
        BY <2>1 DEF SyncedTo
    <2>3. mem' = w.m /\ drafts' = w.d /\ bound' = w.b
        BY <1>4, <2>1 DEF Edit, Written
    <2>4. ASSUME NEW t \in Tab, Asked(t, Solid) PROVE In(mem', drafts', t, Solid)
        <3>1. Says(mem, drafts, bound, x, t, Solid)
            BY <2>4 DEF Asked, Says, Solid
        <3>2. Says(w.m, w.d, w.b, x, t, Solid)
            BY <1>3, <2>2, <3>1, WriteSays
        <3>3. QED
            BY <2>3, <3>2 DEF Says
    <2>5. ASSUME NEW t \in Tab PROVE Even(w.d, w.b, x, FALSE, t)
        <3>1. Even(drafts, bound, x, TRUE, t)
            BY DEF Even
        <3>2. QED
            BY <1>3, <2>2, <3>1, WriteEven
    <2>6. w.b.at = "draft" => boundId = NoNode
        BY <2>2, WriteDraft DEF Scratch
    <2>7. typed' = FALSE
        BY <1>4 DEF Edit
    <2>8. Scratch'
        BY <1>1, <2>3, <2>5, <2>6, <2>7 DEF Scratch
    <2>9. QED
        BY <1>2, <2>4, <2>8 DEF Settles
<1>5. CASE TypeBody(x)
    <2>1. mem' = mem /\ drafts' = drafts /\ bound' = bound /\ typed' = TRUE
        BY <1>5 DEF TypeBody, strip
    <2>2. Settles
        BY <2>1 DEF Settles, Asked, Says
    <2>3. Scratch'
        BY <1>1, <2>1 DEF Scratch, Even
    <2>4. QED
        BY <1>2, <2>2, <2>3
<1>6. QED
    BY <1>4, <1>5

(* An editor that is on its tab is as Scratch says.                         *)
LEMMA FollowsScratch ==
    ASSUME Good, ~adrift
    PROVE  Scratch
<1>1. CASE tabs = <<>>
    <2>1. bound = Nowhere /\ \A t : ~HasEntry(tabs, t)
        BY <1>1, GoodParts DEF Window, HasEntry
    <2>2. QED
        BY <2>1 DEF Scratch, Nowhere
<1>2. CASE tabs # <<>>
    <2>1. PICK a : a = tabs[active]
        OBVIOUS
    <2>2. Follows(mem, drafts, a, bound, boundId, shown, typed)
        BY <1>2, <2>1, GoodParts DEF Window
    <2>3. CASE IsDraft(a)
        <3>1. bound = OfDraft(a.id) /\ boundId = NoNode /\ (typed \/ shown = drafts[a.id])
            BY <2>2, <2>3 DEF Follows, Live
        <3>2. QED
            BY <3>1 DEF Scratch, Even, OfDraft
    <2>4. CASE ~IsDraft(a)
        <3>1. bound.at \in {"slot", "folder"}
            BY <2>2, <2>4, GoodParts, NodeProperties DEF Follows, Located
        <3>2. QED
            BY <3>1 DEF Scratch, Even
    <2>5. QED
        BY <2>3, <2>4
<1>3. QED
    BY <1>1, <1>2

(* Operations on the strip, and the saves from the editor.                  *)
LEMMA CalmTabs ==
    ASSUME Good, Tied, Scratch, Clear, OfTabs \/ FromEditor
    PROVE  Calm
<1>1. ASSUME NEW c \in Colls, NEW id \in Ids, SelectRequest(c, id) PROVE Calm
    BY <1>1, CalmSelectRequest
<1>2. ASSUME NEW d \in Drafts, NEW t \in Pasted \cup {Blank}, NewScratch(d, t) PROVE Calm
    BY <1>2, CalmNewScratch
<1>3. ASSUME NEW i \in DOMAIN tabs,
             \/ Activate(i) \/ Close(i) \/ CloseOthers(i) \/ CloseRight(i) \/ SaveTab(i)
             \/ \E j \in DOMAIN tabs : Drag(i, j)
      PROVE  Calm
    BY <1>3, CalmActivate, CalmClose, CalmCloseMany, CalmDrag, CalmSaveTab
<1>4. ASSUME NEW c \in Colls, SaveRequest(c) PROVE Calm
    BY <1>4, CalmSaveRequest
<1>5. QED
    BY <1>1, <1>2, <1>3, <1>4 DEF OfTabs, FromEditor

(* The operations on the tree, on collections and on workspaces.            *)
LEMMA CalmOperations ==
    ASSUME Good, Tied, Scratch, OfTree \/ OfCollections
    PROVE  Calm \/ Restart
<1>1. ASSUME NEW c \in Colls,
             SaveCollection(c) \/ RemoveCollection(c) \/ OpenCollection(c)
      PROVE  Calm
    BY <1>1, CalmSaveCollection, CalmRemoveCollection, CalmCollection
<1>2. ASSUME NEW c \in Colls, NEW id \in Ids, SaveDraft(c, id) PROVE Calm
    BY <1>2, CalmSaveDraft
<1>3. ASSUME NEW c \in Colls, NEW id \in Ids, NEW k, AddRequest(c, k, id) PROVE Calm
    BY <1>3, AddRequestChanges, CalmChange
<1>4. ASSUME NEW c \in Colls, NEW kind \in Kinds, NEW i, NEW j, Move(c, kind, i, j) PROVE Calm
    BY <1>4, MoveChanges, CalmChange
<1>5. ASSUME NEW cs \in Workspaces, SwitchWorkspace(cs) \/ DeleteWorkspace(cs) PROVE Calm
    BY <1>5, CalmWorkspace
<1>6. CASE OfTree
    BY <1>1, <1>2, <1>3, <1>4, <1>6, CalmDelete, CalmUndo DEF OfTree
<1>7. CASE OfCollections
    BY <1>1, <1>5, <1>7 DEF OfCollections
<1>8. QED
    BY <1>6, <1>7

(* A field is edited, or the body typed, to what the editor shows then.     *)
EditsShown == Edit(shown') \/ TypeBody(shown')

(* Every step is calm, or an edit, or a start.                              *)
LEMMA CalmStep ==
    ASSUME Good, Tied, Scratch, Clear, Next
    PROVE  Calm \/ Restart \/ (EditsShown /\ shown' \in Solid)
<1>1. ASSUME NEW t \in Texts, Edit(Fold[t]) \/ TypeBody(Fold[t])
      PROVE  EditsShown /\ shown' \in Solid
    <2>1. Fold[t] \in Solid
        BY FoldText DEF Text, Solid
    <2> DEFINE u == Fold[t]
    <2>2. u \in Solid /\ (Edit(u) \/ TypeBody(u))
        BY <1>1, <2>1
    <2> HIDE DEF u
    <2>3. shown' = u
        BY <2>2 DEF Edit, TypeBody
    <2>4. QED
        BY <2>2, <2>3 DEF EditsShown
<1>2. ASSUME NEW c \in Colls, SelectCollection(c) PROVE Calm
    BY <1>2, CalmCollection
<1>3. CASE AskQuit \/ Validate \/ Pause
    BY <1>3, CalmWriteBack DEF AskQuit, Validate
<1>4. CASE OfEditor
    BY <1>1, <1>4 DEF OfEditor
<1>5. QED
    BY <1>2, <1>3, <1>4, NextParts, CalmTabs, CalmOperations

(* Then the scratch requests are as Scratch says, and the other requests    *)
(* settle.                                                                  *)
LEMMA FairStep ==
    ASSUME Good, Good', Tied, Scratch, Clear, Next
    PROVE  Fair /\ Scratch'
<1>1. ASSUME ~adrift' PROVE Scratch'
    BY <1>1, FollowsScratch, PTL
<1>2. CASE Calm
    <2>1. Solid \in SUBSET Solid
        OBVIOUS
    <2>2. Settles
        BY <1>2, <2>1 DEF Calm, Eases, Settles, Says
    <2>3. QED
        BY <1>1, <1>2, <2>2 DEF Calm, Fair
<1>3. CASE Restart
    <2>1. Loading
        BY <1>3, RestartLoads
    <2>2. QED
        BY <1>1, <2>1 DEF Fair, Loading
<1>4. CASE EditsShown /\ shown' \in Solid
    <2>1. PICK x : x = shown'
        OBVIOUS
    <2>2. x \in Text /\ Fold[x] = x /\ (Edit(x) \/ TypeBody(x))
        BY <1>4, <2>1 DEF Solid, EditsShown
    <2>3. QED
        BY <2>2, EditSettles DEF Fair
<1>5. QED
    BY <1>2, <1>3, <1>4, CalmStep

(* The loaded tabs, with those that were loaded adrift.                     *)
Reloads == reloaded' = {r \in Request : HasTab(r)' /\ (r \in reloaded \/ adrift')}

(* A loaded tab that is none of them after a step was none before it.       *)
LEMMA ReloadedEntry ==
    ASSUME Good', Reloads, NEW k \in DOMAIN tabs', IsLoaded(tabs'[k]),
           Entry(tabs'[k]) \notin reloaded'
    PROVE  Entry(tabs'[k]) \notin reloaded /\ ~adrift' /\ tabs'[k] \in Tab
<1>1. PICK u : u = tabs'[k]
    OBVIOUS
<1>2. Strip(tabs')
    BY DEF Good, Window
<1>3. u \in Tab
    <2>1. \A T : Strip(T) => \A l \in DOMAIN T : T[l] \in Tab
        BY StripParts
    <2>2. QED
        BY <1>1, <1>2, <2>1
<1>4. Entry(u) \in Request
    BY <1>1, <1>3, TabKinds DEF IsLoaded, Entry, Request
<1>5. \E l \in DOMAIN tabs' :
        tabs'[l].col = Entry(u).col /\ tabs'[l].id = Entry(u).id /\ tabs'[l].snap # NoText
    BY <1>1 DEF IsLoaded, Entry
<1>6. PICK r : r = Entry(u)
    OBVIOUS
<1>7. HasTab(r)'
    BY <1>5, <1>6 DEF HasTab
<1>8. r \notin reloaded /\ ~adrift'
    BY <1>1, <1>4, <1>6, <1>7 DEF Reloads
<1>9. QED
    BY <1>1, <1>3, <1>6, <1>8

(* The loaded tabs stay as Clear says.                                      *)
LEMMA ClearStep ==
    ASSUME Good, Good', Tied, Clear, Fair, Reloads
    PROVE  Clear'
<1>1. ASSUME NEW k \in DOMAIN tabs', IsLoaded(tabs'[k]), Entry(tabs'[k]) \notin reloaded'
      PROVE  /\ ~adrift' /\ tabs'[k].snap \in Solid
             /\ In(mem', drafts', tabs'[k], Solid)
    <2>1. PICK u : u = tabs'[k]
        OBVIOUS
    <2>2. Entry(u) \notin reloaded /\ ~adrift' /\ u \in Tab /\ IsLoaded(u)
        BY <1>1, <2>1, ReloadedEntry
    <2>3. CASE Loads(u)
        BY <2>1, <2>2, <2>3 DEF Loads, In
    <2>4. CASE ~Loads(u)
        <3>1. Settles /\ \E j \in DOMAIN tabs : tabs[j] = u
            BY <2>1, <2>2, <2>4 DEF Fair, News, Loading
        <3>2. PICK j \in DOMAIN tabs : tabs[j] = u
            BY <3>1
        <3>3. ~adrift /\ u.snap \in Solid /\ Says(mem, drafts, bound, shown, u, Solid)
            BY <2>2, <3>2, ClearSays
        <3>4. Asked(u, Solid)
            BY <2>1, <2>2, <3>2, <3>3 DEF Asked, HasEntry, IsLoaded
        <3>5. QED
            BY <2>1, <2>2, <3>1, <3>3, <3>4 DEF Settles
    <2>5. QED
        BY <2>3, <2>4
<1>2. QED
    BY <1>1 DEF Clear

(* What makes tabs read as unsaved, in every state. *)
Plain == Scratch /\ Clear

(* It is so at the start. *)
LEMMA PlainInit ==
    ASSUME Init
    PROVE  Plain
<1>1. tabs = <<>> /\ bound = Nowhere
    BY DEF Init
<1>2. \A t : ~HasEntry(tabs, t)
    BY <1>1 DEF HasEntry
<1>3. QED
    BY <1>1, <1>2 DEF Plain, Scratch, Clear, Nowhere

(* And after every step. *)
LEMMA PlainStep ==
    ASSUME Good, Good', Known, Plain, [Next]_vars
    PROVE  Plain'
<1>1. CASE Next
    <2>1. Reloads
        BY <1>1 DEF Next, Reloads
    <2>2. QED
        BY <1>1, <2>1, FairStep, ClearStep DEF Plain, Known
<1>2. CASE UNCHANGED vars
    <2>1. /\ mem' = mem /\ tabs' = tabs /\ drafts' = drafts /\ bound' = bound /\ boundId' = boundId
          /\ shown' = shown /\ typed' = typed /\ adrift' = adrift /\ reloaded' = reloaded
        BY <1>2 DEF vars, session, editor, strip
    <2>2. Scratch'
        BY <2>1 DEF Plain, Scratch
    <2>3. Clear'
        BY <2>1 DEF Plain, Clear
    <2>4. QED
        BY <2>2, <2>3 DEF Plain
<1>3. QED
    BY <1>1, <1>2

(* A tab that does not read as unsaved says what it was loaded with, or     *)
(* nothing, and so does what the editor would write to its request.         *)
LEMMA CleanSays ==
    ASSUME Good, Plain, NEW t \in Tab, HasEntry(tabs, t),
           ~Dirty(mem, drafts, t), ~Dirty(Flushed.m, Flushed.d, t)
    PROVE  /\ IsDraft(t) => Says(mem, drafts, bound, shown, t, {Blank})
           /\ (\E k \in DOMAIN tabs : tabs[k] = t) /\ IsLoaded(t) /\ Entry(t) \notin reloaded =>
                /\ ~adrift /\ t.snap \in Solid
                /\ Says(mem, drafts, bound, shown, t, {t.snap})
<1>1. Held(mem) /\ drafts \in Desk /\ shown \in Text
    BY GoodParts
<1>2. CASE IsDraft(t)
    <2>1. t.id \in Drafts /\ drafts[t.id] = Blank /\ Flushed.d[t.id] = Blank
        BY <1>2, TabKinds DEF Dirty
    <2>2. In(mem, drafts, t, {Blank})
        BY <1>2, <2>1 DEF In, Located, Live
    <2>3. ASSUME Hits(mem, bound, t) PROVE shown = Blank
        <3>1. bound.at = "draft" /\ bound.id = t.id
            BY <1>2, <2>3 DEF Hits
        <3>2. CASE typed
            <4>1. Flushed.d = [drafts EXCEPT ![t.id] = shown]
                BY <3>1, <3>2 DEF Flushed, Written, WrittenTo
            <4>2. QED
                BY <1>1, <2>1, <4>1 DEF Desk
        <3>3. CASE ~typed
            <4>1. Even(drafts, bound, shown, typed, t)
                BY DEF Plain, Scratch
            <4>2. QED
                BY <1>2, <2>1, <3>1, <3>3, <4>1 DEF Even
        <3>4. QED
            BY <3>2, <3>3
    <2>4. QED
        BY <1>2, <2>2, <2>3 DEF Says, IsLoaded
<1>3. ASSUME NEW k \in DOMAIN tabs, tabs[k] = t, IsLoaded(t), Entry(t) \notin reloaded
      PROVE  /\ ~adrift /\ t.snap \in Solid
             /\ Says(mem, drafts, bound, shown, t, {t.snap})
    <2>1. ~adrift /\ t.snap \in Solid /\ In(mem, drafts, t, Solid)
        BY <1>3 DEF Plain, Clear
    <2>2. ~IsDraft(t) /\ t.snap # NoText /\ Located(mem, t)
        BY <1>3, <2>1 DEF IsLoaded, In
    <2>3. mem[t.col].text[t.id] = t.snap
        BY <2>2 DEF Dirty
    <2>4. In(mem, drafts, t, {t.snap})
        BY <2>2, <2>3 DEF In, Live
    <2>5. ASSUME Hits(mem, bound, t) PROVE shown = t.snap
        <3>1. CASE typed
            <4>1. bound.at \in {"slot", "folder"} /\ bound.col = t.col /\ IdAt(mem, bound) = t.id
                BY <2>2, <2>5 DEF Hits
            <4>2. PICK M : M = Put(mem, t.col, t.id, shown)
                OBVIOUS
            <4>3. Flushed.m = M
                BY <3>1, <4>1, <4>2 DEF Flushed, Written, WrittenTo
            <4>4. Like(mem, M) /\ Texted(mem, M, t.col, t.id, shown)
                BY <1>1, <4>2, PutTree
            <4>5. Located(M, t) /\ M[t.col].text[t.id] = shown
                BY <2>2, <4>4, LikeLocated DEF Texted, Located, Has
            <4>6. QED
                BY <2>2, <4>3, <4>5 DEF Dirty
        <3>2. CASE ~typed
            <4>1. PICK a : a = tabs[active]
                OBVIOUS
            <4>2. tabs # <<>> /\ DOMAIN tabs # {}
                BY <1>3
            <4>3. a \in Tab /\ Follows(mem, drafts, a, bound, boundId, shown, typed)
                BY <2>1, <4>1, <4>2, GoodParts, StripParts DEF Window
            <4>4. a.col = t.col /\ a.id = t.id
                BY <1>1, <2>5, <4>3, FollowsHits
            <4>5. shown = Live(mem, drafts, a)
                BY <3>2, <4>3 DEF Follows
            <4>6. QED
                BY <2>2, <2>3, <4>4, <4>5 DEF Live, IsDraft
        <3>3. QED
            BY <3>1, <3>2
    <2>6. QED
        BY <2>1, <2>4, <2>5 DEF Says
<1>4. QED
    BY <1>2, <1>3 DEF IsLoaded

(* A tab whose request says that, and would say it once the editor is       *)
(* written back, does not read as unsaved.                                  *)
Cleans ==
    \A t \in Tab :
        Says(mem, drafts, bound, shown, t, {IF IsDraft(t) THEN Blank ELSE t.snap}) =>
            ~Dirty(Flushed.m, Flushed.d, t)

(* It is so in every state. *)
LEMMA SaysClean ==
    ASSUME Good
    PROVE  Cleans
<1>1. Held(mem) /\ drafts \in Desk /\ shown \in Text
    BY GoodParts
<1>2. PICK w : w = Flushed
    OBVIOUS
<1>3. w \in SyncedTo(mem, drafts, bound, shown, FALSE)
    BY <1>2 DEF Flushed, Written, AsIs, SyncedTo
<1>4. ASSUME NEW t \in Tab,
             Says(mem, drafts, bound, shown, t, {IF IsDraft(t) THEN Blank ELSE t.snap})
      PROVE  ~Dirty(w.m, w.d, t)
    <2>1. Says(w.m, w.d, w.b, shown, t, {IF IsDraft(t) THEN Blank ELSE t.snap})
        BY <1>1, <1>3, <1>4, WriteSays
    <2>2. QED
        BY <2>1 DEF Says, In, Live, Dirty
<1>5. QED
    BY <1>2, <1>4 DEF Cleans

(* Nor does one that this step has loaded.                                  *)
LEMMA LoadsClean ==
    ASSUME NEW u, ~IsDraft(u), Loads(u)
    PROVE  ~Dirty(Flushed.m, Flushed.d, u)'
BY DEF Loads, Dirty, Live, Flushed, AsIs, IsDraft

(* What OnlyEditsMakeDirty says of a step.                                  *)
OnlyEdits ==
    \A i \in DOMAIN tabs, j \in DOMAIN tabs' :
        /\ tabs[i].col = tabs'[j].col /\ tabs[i].id = tabs'[j].id
        /\ Located(mem, tabs[i])
        /\ ~Dirty(mem, drafts, tabs[i]) /\ ~Dirty(Flushed.m, Flushed.d, tabs[i])
        /\ Dirty(Flushed.m, Flushed.d, tabs[j])'
        => \/ Edit(shown') \/ TypeBody(shown')
           \/ [col |-> tabs[i].col, id |-> tabs[i].id] \in reloaded'

(* It is so of every step. *)
LEMMA OnlyEditsStep ==
    ASSUME Good, Good', Known, Plain, Next
    PROVE  OnlyEdits
<1>1. Tied /\ Scratch /\ Clear /\ Reloads
    BY DEF Known, Plain, Next, Reloads
<1>2. Cleans'
    BY SaysClean, PTL
<1>3. ASSUME NEW i \in DOMAIN tabs, NEW j \in DOMAIN tabs', NEW u, u = tabs'[j],
             tabs[i].col = u.col, tabs[i].id = u.id,
             ~Dirty(mem, drafts, tabs[i]), ~Dirty(Flushed.m, Flushed.d, tabs[i]),
             Dirty(Flushed.m, Flushed.d, u)', ~EditsShown, Entry(tabs[i]) \notin reloaded'
      PROVE  FALSE
    <2>1. PICK t : t = tabs[i]
        OBVIOUS
    <2>2. t \in Tab /\ NoneTwice(tabs)
        BY <2>1, GoodParts, StripParts
    <2>3. HasEntry(tabs, t) /\ HasEntry(tabs', t) /\ (IsDraft(t) <=> IsDraft(u))
        BY <1>3, <2>1 DEF HasEntry, IsDraft
    <2>4. Calm \/ Restart
        BY <1>1, <1>3, CalmStep
    <2>5. Restart => Loading
        BY RestartLoads
    <2>6. CASE IsDraft(t)
        <3>1. Calm
            BY <1>3, <2>3, <2>4, <2>5, <2>6 DEF Loading
        <3>2. {Blank} \in SUBSET Solid
            BY WorkbenchAssumption DEF Solid, Text
        <3>3. Says(mem, drafts, bound, shown, t, {Blank})
            BY <1>3, <2>1, <2>2, <2>3, <2>6, CleanSays
        <3>4. Asked(t, {Blank})
            BY <2>3, <2>6, <3>3 DEF Asked
        <3>5. Says(mem', drafts', bound', shown', t, {Blank})
            BY <2>2, <3>1, <3>2, <3>4 DEF Calm, Eases
        <3>6. ~Dirty(Flushed.m, Flushed.d, t)'
            BY <1>2, <2>2, <2>6, <3>5 DEF Cleans
        <3>7. QED
            BY <1>3, <2>1, <2>3, <2>6, <3>6 DEF Dirty
    <2>7. CASE ~IsDraft(t)
        <3>1. IsLoaded(u)
            BY <1>3, <2>3, <2>7 DEF Dirty, IsLoaded
        <3>2. Entry(u) \notin reloaded /\ ~adrift' /\ Entry(t) = Entry(u)
            BY <1>1, <1>3, <2>1, <3>1, ReloadedEntry DEF Entry
        <3>3. ~Loads(u)
            BY <1>3, <2>3, <2>7, LoadsClean
        <3>4. Calm
            BY <1>3, <2>4, <2>5, <3>1, <3>3 DEF Loading
        <3>5. PICK l \in DOMAIN tabs : tabs[l] = u
            BY <1>3, <3>1, <3>2, <3>3, <3>4 DEF Calm, News
        <3>6. u = t
            BY <1>3, <2>1, <2>2, <3>5 DEF NoneTwice
        <3>7. /\ ~adrift /\ t.snap \in Solid
              /\ Says(mem, drafts, bound, shown, t, {t.snap})
            BY <1>3, <2>1, <2>2, <2>3, <3>1, <3>2, <3>6, CleanSays
        <3>8. Asked(t, {t.snap}) /\ {t.snap} \in SUBSET Solid
            BY <2>3, <2>7, <3>2, <3>7 DEF Asked
        <3>9. Says(mem', drafts', bound', shown', t, {t.snap})
            BY <2>2, <3>4, <3>8 DEF Calm, Eases
        <3>10. ~Dirty(Flushed.m, Flushed.d, t)'
            BY <1>2, <2>2, <2>7, <3>9 DEF Cleans
        <3>11. QED
            BY <1>3, <3>6, <3>10
    <2>8. QED
        BY <2>6, <2>7
<1>4. QED
    BY <1>3 DEF OnlyEdits, EditsShown, Entry

(* What makes tabs read as unsaved is so in every state.                    *)
THEOREM AlwaysPlain == Spec => [](Good /\ Known /\ Plain)
<1>1. Init => Plain
    BY PlainInit
<1>2. Good /\ Good' /\ Known /\ Plain /\ [Next]_vars => Plain'
    BY PlainStep
<1>3. QED
    BY <1>1, <1>2, AlwaysKnown, PTL DEF Spec

(* Only an edit makes a tab ask (isTabDirty): showing, closing, dragging or *)
(* saving tabs does not, nor does a change of the tree, as long as the      *)
(* trees were not loaded again under the tab; what is written back is what  *)
(* the editor shows, and that is what its request says or an edit of it.    *)
THEOREM OnlyEditsDirty == Spec => OnlyEditsMakeDirty
<1>1. Good /\ Good' /\ Known /\ Plain /\ [Next]_vars => [OnlyEdits]_vars
    BY OnlyEditsStep
<1>2. [](Good /\ Known /\ Plain) /\ [][Next]_vars => [][OnlyEdits]_vars
    BY <1>1, PTL
<1>3. OnlyEditsMakeDirty <=> [][OnlyEdits]_vars
    BY DEF OnlyEditsMakeDirty, OnlyEdits
<1>4. QED
    BY <1>2, <1>3, AlwaysPlain, PTL DEF Spec
=============================================================================
