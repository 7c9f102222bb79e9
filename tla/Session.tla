------------------------------- MODULE Session -------------------------------
(***************************************************************************)
(* The session (internal/session): the workspaces of the config, the       *)
(* collections loaded for the active one, which of them is active, the     *)
(* environment chosen for each, and the undo of a delete.                  *)
(*                                                                         *)
(* The loaded collections are kept in lists and addressed by position;     *)
(* the config names them by directory.  Every change of a collection is    *)
(* saved at once, but for what the user types into a request, which stays  *)
(* in memory until a save of its collection; when a save fails, all        *)
(* collections of the workspace are loaded again.  A save is one step      *)
(* here, as Storage.tla shows it to be; one that could not put its tree    *)
(* back leaves a directory that does not load.                             *)
(*                                                                         *)
(* Data: a collection is the names of its environments, the items of its   *)
(* root and one text for everything else.  Positions count from 1, and 0   *)
(* is the code's -1.  The config in memory is written after each change;   *)
(* a write that fails is not modelled.                                     *)
(*                                                                         *)
(* Faulty variants, each a plausible slip in the code, are defined just    *)
(* before the definitions they vary, their names ending in Faulty; nothing *)
(* else refers to them.                                                    *)
(***************************************************************************)
EXTENDS SequencesExt, Lists

CONSTANTS
    Dirs, NoDir,    \* directories of collections; "" in the config
    Names,          \* names of workspaces
    Envs, NoEnv,    \* names of environments; "" for none
    Items,          \* requests and folders of a collection's root, by id
    Texts,          \* everything else a collection holds
    NoDeleted,      \* no delete can be undone
    Disks,          \* what the directories may hold at the first start
    MaxColls        \* BOUND: collections listed in a workspace

Collection == [envs : Seq(Envs), items : Seq(Items), text : Texts]

(* No item is in two places of what the directories hold. *)
Places(held) == UNION {{<<d, k>> : k \in DOMAIN held[d].items} : d \in Dirs}
ItemAt(held, p) == held[p[1]].items[p[2]]
EachOnce(held) ==
    \A p, q \in Places(held) : ItemAt(held, p) = ItemAt(held, q) => p = q

(* The ids of the items are random: a directory that was copied, ids and    *)
(* all, is left out.                                                        *)
ASSUME SessionAssumption ==
    /\ NoDir \notin Dirs /\ NoEnv \notin Envs
    /\ Names # {}
    /\ MaxColls \in Nat \ {0}
    /\ Disks \subseteq [Dirs -> Collection] /\ \A held \in Disks : EachOnce(held)

VARIABLES
    cfg,        \* the config: workspaces, active, col and env (by directory)
    dirs,       \* directories of the loaded collections
    cols,       \* the loaded collections
    activeCol,  \* position of the active collection, or 0
    activeEnv,  \* environment chosen for the collection at each position
    deleted,    \* lastDeleted, with the directory it was deleted from
    disk,       \* what each directory holds
    broken,     \* directories that do not load
    saveFailed, \* history: the last operation made a save that failed
    doubled     \* history: a workspace has listed a directory twice

loaded == <<dirs, cols, activeCol, activeEnv>>
vars == <<cfg, loaded, deleted, disk, broken, saveFailed, doubled>>

-----------------------------------------------------------------------------
List(c) == c.workspaces[c.active].list      \* of the active workspace
FirstIn(s, e) == SelectInSeq(s, LAMBDA x : x = e)
EnvNames == cols[activeCol].envs
ChooseEnv(d, e) == [cfg EXCEPT !.env[d] = e]

(* reload: everything that is loaded, again from the disk and the config. *)
Reload ==
    /\ dirs' = Pick(List(cfg'), {i \in DOMAIN List(cfg') : List(cfg')[i] \notin broken'})
    /\ cols' = [i \in DOMAIN dirs' |-> disk'[dirs'[i]]]
    /\ activeCol' = IF dirs' = <<>> THEN 0
                    ELSE IF Contains(dirs', cfg'.col) THEN FirstIn(dirs', cfg'.col) ELSE 1
    /\ activeEnv' = [i \in 1 .. MaxColls |->
                        IF i <= Len(dirs') THEN cfg'.env[dirs'[i]] ELSE NoEnv]

(* Faulty: after a failure the changed collections stay in memory. *)
PersistFaulty(i, changed, col, env) ==
    /\ cols' = changed /\ activeCol' = col /\ activeEnv' = env
    /\ \/ disk' = [disk EXCEPT ![dirs[i]] = changed[i]] /\ saveFailed' = FALSE
       \/ UNCHANGED disk /\ saveFailed' = TRUE
    /\ UNCHANGED <<dirs, broken>>

(* persistCollection: save the i-th of the changed collections, with col    *)
(* and env the position and the environments chosen before.                 *)
Persist(i, changed, col, env) ==
    \/ /\ disk' = [disk EXCEPT ![dirs[i]] = changed[i]]
       /\ cols' = changed /\ activeCol' = col /\ activeEnv' = env
       /\ saveFailed' = FALSE
       /\ UNCHANGED <<dirs, broken>>
    \/ /\ saveFailed' = TRUE
       /\ broken' \in {broken, broken \cup {dirs[i]}}
       /\ UNCHANGED disk
       /\ Reload

(* The same for a change that chooses no other collection or environment. *)
PersistOnly(i, changed) ==
    UNCHANGED cfg /\ Persist(i, changed, activeCol, activeEnv)

Saved == saveFailed' = FALSE /\ UNCHANGED <<disk, broken>>     \* nothing to save
Quiet == Saved /\ UNCHANGED <<deleted, doubled>>

-----------------------------------------------------------------------------
(* The first start, with the default config. *)
Init ==
    /\ \E n \in Names :
        cfg = [workspaces |-> <<[name |-> n, list |-> <<>>]>>, active |-> 1,
               col |-> NoDir, env |-> [d \in Dirs |-> NoEnv]]
    /\ dirs = <<>> /\ cols = <<>>
    /\ activeCol = 0
    /\ activeEnv = [i \in 1 .. MaxColls |-> NoEnv]
    /\ deleted = NoDeleted
    /\ disk \in Disks
    /\ broken \in SUBSET Dirs
    /\ saveFailed = FALSE
    /\ doubled = FALSE

(* New, on the config the last run left. *)
Restart ==
    /\ UNCHANGED cfg /\ Saved /\ Reload
    /\ deleted' = NoDeleted
    /\ UNCHANGED doubled

(* The user, or a checkout, repairs a directory. *)
Mend(d) ==
    /\ d \in broken
    /\ broken' = broken \ {d}
    /\ UNCHANGED <<cfg, loaded, deleted, disk, saveFailed, doubled>>

-----------------------------------------------------------------------------
(* Workspaces. *)
SetActive(w) ==
    /\ w \in DOMAIN cfg.workspaces /\ w # cfg.active
    /\ cfg' = [cfg EXCEPT !.active = w]
    /\ Quiet /\ Reload

NameTaken(n, except) ==
    \E w \in DOMAIN cfg.workspaces \ {except} : cfg.workspaces[w].name = n

AddWorkspace(n) ==
    /\ ~NameTaken(n, 0)
    /\ cfg' = [cfg EXCEPT !.workspaces = Append(@, [name |-> n, list |-> <<>>])]
    /\ Quiet /\ UNCHANGED loaded

RenameWorkspace(w, n) ==
    /\ w \in DOMAIN cfg.workspaces /\ ~NameTaken(n, w)
    /\ cfg' = [cfg EXCEPT !.workspaces[w].name = n]
    /\ Quiet /\ UNCHANGED loaded

DeleteWorkspace(w) ==
    /\ w \in DOMAIN cfg.workspaces /\ Len(cfg.workspaces) > 1
    /\ cfg' = [cfg EXCEPT
                !.workspaces = RemoveAt(@, w),
                !.active = IF @ > Len(cfg.workspaces) - 1 THEN @ - 1 ELSE @]
    /\ Quiet /\ Reload

-----------------------------------------------------------------------------
(* Collections of the active workspace. *)
OpenCollection(d) ==
    /\ Saved /\ UNCHANGED <<deleted, activeEnv>>
    /\ \/ /\ Contains(dirs, d)
          /\ activeCol' = FirstIn(dirs, d)
          /\ cfg' = [cfg EXCEPT !.col = d]
          /\ UNCHANGED <<dirs, cols, doubled>>
       \/ /\ ~Contains(dirs, d) /\ d \notin broken
          /\ Len(List(cfg)) < MaxColls
          /\ cfg' = [cfg EXCEPT !.workspaces[cfg.active].list = Append(@, d), !.col = d]
          /\ dirs' = Append(dirs, d) /\ cols' = Append(cols, disk[d])
          /\ activeCol' = Len(dirs')
          /\ doubled' = (doubled \/ Contains(List(cfg), d))

(* Faulty: an environment choice is dropped with another workspace on it.  *)
SharedFaulty(d) == FALSE

Shared(d) ==
    \E w \in DOMAIN cfg.workspaces \ {cfg.active} : Contains(cfg.workspaces[w].list, d)

(* The config without the i-th collection. *)
Unlisted(i) ==
    LET d == dirs[i] IN
        [cfg EXCEPT
            !.workspaces[cfg.active].list =
                IF Contains(@, d) THEN RemoveAt(@, FirstIn(@, d)) ELSE @,
            !.col = IF @ = d THEN NoDir ELSE @,
            !.env[d] = IF Shared(d) THEN @ ELSE NoEnv]

(* Faulty: the workspace is loaded again. *)
RemoveCollectionFaulty(i) ==
    /\ i \in DOMAIN dirs
    /\ cfg' = Unlisted(i)
    /\ Quiet /\ Reload

(* Faulty: the position of the active collection does not shift. *)
RemoveCollectionStuckFaulty(i) ==
    /\ i \in DOMAIN dirs
    /\ cfg' = Unlisted(i)
    /\ dirs' = RemoveAt(dirs, i) /\ cols' = RemoveAt(cols, i)
    /\ activeEnv' = [k \in 1 .. MaxColls |->
                        IF k \in i .. Len(dirs) - 1 THEN activeEnv[k + 1]
                        ELSE IF k = Len(dirs) THEN NoEnv ELSE activeEnv[k]]
    /\ Quiet /\ UNCHANGED activeCol

RemoveCollection(i) ==
    /\ i \in DOMAIN dirs
    /\ cfg' = Unlisted(i)
    /\ dirs' = RemoveAt(dirs, i) /\ cols' = RemoveAt(cols, i)
    /\ activeEnv' = [k \in 1 .. MaxColls |->
                        IF k \in i .. Len(dirs) - 1 THEN activeEnv[k + 1]
                        ELSE IF k = Len(dirs) THEN NoEnv ELSE activeEnv[k]]
    /\ activeCol' = IF activeCol = i THEN (IF dirs' = <<>> THEN 0 ELSE 1)
                    ELSE IF activeCol > i THEN activeCol - 1 ELSE activeCol
    /\ Quiet

(* Faulty: the active collection does not follow. *)
MoveCollectionFaulty(from, to) ==
    /\ from \in DOMAIN dirs /\ to \in DOMAIN dirs /\ from # to
    /\ Len(List(cfg)) = Len(dirs)
    /\ cfg' = [cfg EXCEPT !.workspaces[cfg.active].list = Moved(@, from, to)]
    /\ dirs' = Moved(dirs, from, to) /\ cols' = Moved(cols, from, to)
    /\ activeEnv' = [k \in 1 .. MaxColls |->
                        IF k <= Len(dirs) THEN Moved(SubSeq(activeEnv, 1, Len(dirs)), from, to)[k]
                        ELSE NoEnv]
    /\ Quiet /\ UNCHANGED activeCol

(* The environments go with their directories; of two positions with one   *)
(* directory, the order of a map's iteration picks.                        *)
MoveCollection(from, to) ==
    /\ from \in DOMAIN dirs /\ to \in DOMAIN dirs /\ from # to
    /\ Len(List(cfg)) = Len(dirs)
    /\ cfg' = [cfg EXCEPT !.workspaces[cfg.active].list = Moved(@, from, to)]
    /\ dirs' = Moved(dirs, from, to) /\ cols' = Moved(cols, from, to)
    /\ activeCol' = IF activeCol = 0 THEN 0 ELSE FirstIn(dirs', dirs[activeCol])
    /\ \E was \in [Dirs -> DOMAIN dirs] :
        /\ \A i \in DOMAIN dirs : dirs[was[dirs[i]]] = dirs[i]
        /\ activeEnv' = [k \in 1 .. MaxColls |->
                            IF k <= Len(dirs) THEN activeEnv[was[dirs'[k]]] ELSE NoEnv]
    /\ Quiet

(* Not with -1: the callers pass the collection of a node of the tree. *)
SetActiveCollection(i) ==
    /\ i \in DOMAIN dirs
    /\ activeCol' = i
    /\ cfg' = [cfg EXCEPT !.col = dirs[i]]
    /\ Quiet /\ UNCHANGED <<dirs, cols, activeEnv>>

-----------------------------------------------------------------------------
(* Environments of the active collection. *)
SetActiveEnv(e) ==
    /\ activeCol # 0
    /\ activeEnv' = [activeEnv EXCEPT ![activeCol] = e]
    /\ cfg' = ChooseEnv(dirs[activeCol], e)
    /\ Quiet /\ UNCHANGED <<dirs, cols, activeCol>>

AddEnvironment(e) ==
    /\ activeCol # 0 /\ ~Contains(EnvNames, e)
    /\ PersistOnly(activeCol, [cols EXCEPT ![activeCol].envs = Append(@, e)])
    /\ UNCHANGED <<deleted, doubled>>

(* The environments change to names.  If it is the active one, e, that went *)
(* or changed its name, the one chosen instead is in the config before the  *)
(* collection is saved.                                                     *)
ChangeEnvs(names, e, instead) ==
    LET changed == [cols EXCEPT ![activeCol].envs = names] IN
    /\ \/ /\ activeEnv[activeCol] = e
          /\ cfg' = ChooseEnv(dirs[activeCol], instead)
          /\ Persist(activeCol, changed, activeCol,
                     [activeEnv EXCEPT ![activeCol] = instead])
       \/ activeEnv[activeCol] # e /\ PersistOnly(activeCol, changed)
    /\ UNCHANGED <<deleted, doubled>>

RenameEnvironment(e, new) ==
    /\ activeCol # 0 /\ Contains(EnvNames, e)
    /\ new = e \/ ~Contains(EnvNames, new)
    /\ ChangeEnvs(ReplaceAt(EnvNames, FirstIn(EnvNames, e), new), e, new)

DeleteEnvironment(e) ==
    /\ activeCol # 0 /\ Contains(EnvNames, e)
    /\ LET names == RemoveAt(EnvNames, FirstIn(EnvNames, e)) IN
        ChangeEnvs(names, e, IF names = <<>> THEN NoEnv ELSE Head(names))

-----------------------------------------------------------------------------
(* What a collection holds. *)

(* The user types into a request of a collection: nothing is saved. *)
Edit(i, t) ==
    /\ i \in DOMAIN cols /\ cols[i].text # t
    /\ cols' = [cols EXCEPT ![i].text = t]
    /\ Quiet /\ UNCHANGED <<cfg, dirs, activeCol, activeEnv>>

(* saveRequest: its collection becomes the active one and is saved. *)
SaveRequest(i) ==
    /\ i \in DOMAIN cols
    /\ cfg' = [cfg EXCEPT !.col = dirs[i]]
    /\ Persist(i, cols, i, activeEnv)
    /\ UNCHANGED <<deleted, doubled>>

(* UpdateCollection and UpdateFolder, the settings dialogs. *)
UpdateCollection(i, t) ==
    /\ i \in DOMAIN cols
    /\ PersistOnly(i, [cols EXCEPT ![i].text = t])
    /\ UNCHANGED <<deleted, doubled>>

Known ==
    (UNION {ToSet(disk[d].items) : d \in Dirs})
        \cup (UNION {ToSet(cols[i].items) : i \in DOMAIN cols})
        \cup (IF deleted = NoDeleted THEN {} ELSE {deleted.item})

(* AddRequest, AddFolder: an item with an id of its own. *)
AddItem(i, r) ==
    /\ i \in DOMAIN cols /\ r \notin Known
    /\ PersistOnly(i, [cols EXCEPT ![i].items = Append(@, r)])
    /\ UNCHANGED <<deleted, doubled>>

DeleteItem(i, k) ==
    /\ i \in DOMAIN cols /\ k \in DOMAIN cols[i].items
    /\ PersistOnly(i, [cols EXCEPT ![i].items = RemoveAt(@, k)])
    /\ deleted' = IF saveFailed' THEN NoDeleted
                  ELSE [item |-> cols[i].items[k], index |-> k, colIdx |-> i, home |-> dirs[i]]
    /\ UNCHANGED doubled

(* The index is clamped; a position that names no collection is an error   *)
(* that changes nothing.                                                   *)
RestoreLastDeleted ==
    /\ deleted # NoDeleted
    /\ LET i == deleted.colIdx
           place(s) == IF deleted.index > Len(s) + 1 THEN Len(s) + 1 ELSE deleted.index
       IN
        /\ i \in DOMAIN cols
        /\ PersistOnly(i, [cols EXCEPT ![i].items = InsertAt(@, place(@), deleted.item)])
    /\ deleted' = NoDeleted
    /\ UNCHANGED doubled

-----------------------------------------------------------------------------
OfWorkspaces ==
    \/ \E n \in Names : AddWorkspace(n)
    \/ \E w \in DOMAIN cfg.workspaces :
        \/ SetActive(w) \/ DeleteWorkspace(w)
        \/ \E n \in Names : RenameWorkspace(w, n)

OfCollections ==
    \/ \E d \in Dirs : OpenCollection(d)
    \/ \E i \in DOMAIN dirs :
        \/ RemoveCollection(i) \/ SetActiveCollection(i)
        \/ \E j \in DOMAIN dirs : MoveCollection(i, j)

OfEnvironments ==
    \/ \E e \in Envs \cup {NoEnv} : SetActiveEnv(e)
    \/ \E e \in Envs :
        \/ AddEnvironment(e) \/ DeleteEnvironment(e)
        \/ \E new \in Envs : RenameEnvironment(e, new)

OfContents ==
    \/ \E i \in DOMAIN cols :
        \/ \E t \in Texts : Edit(i, t) \/ UpdateCollection(i, t)
        \/ SaveRequest(i)
        \/ \E r \in Items : AddItem(i, r)
        \/ \E k \in DOMAIN cols[i].items : DeleteItem(i, k)
    \/ RestoreLastDeleted

Next ==
    \/ OfWorkspaces \/ OfCollections \/ OfEnvironments \/ OfContents
    \/ Restart
    \/ \E d \in Dirs : Mend(d)

Spec == Init /\ [][Next]_vars

-----------------------------------------------------------------------------
Listed(c) == UNION {ToSet(c.workspaces[w].list) : w \in DOMAIN c.workspaces}

(* The variables keep their types; a loaded collection is not one whose    *)
(* position has run past the list (activeCol, the environments by index).  *)
TypeOK ==
    /\ cfg.workspaces \in Seq([name : Names, list : Seq(Dirs)])
    /\ cfg.active \in DOMAIN cfg.workspaces
    /\ cfg.col \in Dirs \cup {NoDir}
    /\ cfg.env \in [Dirs -> Envs \cup {NoEnv}]
    /\ dirs \in Seq(Dirs) /\ cols \in Seq(Collection)
    /\ Len(cols) = Len(dirs) /\ Len(dirs) <= MaxColls
    /\ activeCol \in 0 .. Len(dirs)
    /\ activeEnv \in [1 .. MaxColls -> Envs \cup {NoEnv}]
    /\ \/ deleted = NoDeleted
       \/ deleted \in [item : Items, index : Nat \ {0}, colIdx : Nat \ {0}, home : Dirs]
    /\ disk \in [Dirs -> Collection] /\ broken \subseteq Dirs
    /\ saveFailed \in BOOLEAN /\ doubled \in BOOLEAN

(* s holds elements of t, in the order of t and none of them twice. *)
InOrderOf(s, t) ==
    /\ ToSet(s) \subseteq ToSet(t)
    /\ \A i, j \in DOMAIN s, k, l \in DOMAIN t :
        s[i] = t[k] /\ s[j] = t[l] => (i < j <=> k < l)

(* What is addressed by position is what the config names by directory: the *)
(* active collection is the one the config names, if it is loaded; the      *)
(* loaded collections are those of the workspace, in its order; and an      *)
(* environment is chosen for a collection only as the config has it.        *)
IndicesAgree ==
    /\ (dirs = <<>>) <=> (activeCol = 0)
    /\ Contains(dirs, cfg.col) => dirs[activeCol] = cfg.col
    /\ ~doubled =>
        /\ InOrderOf(dirs, List(cfg))
        /\ \A i \in 1 .. MaxColls :
            activeEnv[i] # NoEnv => i <= Len(dirs) /\ activeEnv[i] = cfg.env[dirs[i]]

(* The choice of an environment is the user's: the config's choice for a    *)
(* directory changes only through the active collection, while the active   *)
(* workspace lists it, or when no workspace lists it any more; and whatever *)
(* is added, moved, removed or loaded again around it, a loaded collection  *)
(* keeps the one chosen for it while the config has the same.  (A directory *)
(* listed twice loses its choice with the first of the two.)                *)
ChoiceKept ==
    ~doubled' =>
        /\ \A d \in Dirs : cfg.env[d] # cfg'.env[d] =>
            \/ activeCol # 0 /\ dirs[activeCol] = d /\ Contains(List(cfg'), d)
            \/ d \notin Listed(cfg')
        /\ \A i \in DOMAIN dirs : \A j \in DOMAIN dirs' :
            (dirs[i] = dirs'[j] /\ cfg.env[dirs[i]] = cfg'.env[dirs[i]]) =>
                activeEnv[i] \in {NoEnv, activeEnv'[j]}
EnvChoiceIsUsers == [][ChoiceKept]_vars

(* No item is in two places: an undo brings back what is gone, and only     *)
(* once, so chain steps that name a request by id keep one meaning.         *)
NoItemTwice ==
    ~doubled =>
        /\ EachOnce(disk)
        /\ deleted # NoDeleted => \A p \in Places(disk) : ItemAt(disk, p) # deleted.item

(* What needs a save to change (environments, items) is in memory as it is  *)
(* on disk, after a failed save and a change of workspace too: the tree     *)
(* mutators of items.go and the environments roll back.  An undo that stays *)
(* armed after a failed delete would have an item in two places.            *)
StructureOnDisk ==
    /\ ~doubled => \A i \in DOMAIN dirs :
        /\ cols[i].envs = disk[dirs[i]].envs
        /\ cols[i].items = disk[dirs[i]].items
    /\ NoItemTwice

(* The steps that load the workspace again. *)
Reloads ==
    \/ saveFailed' \/ Restart
    \/ \E w \in DOMAIN cfg.workspaces : SetActive(w) \/ DeleteWorkspace(w)

(* What the user typed into a collection and did not save is not lost to an *)
(* operation on another one: opening, moving, removing, choosing or saving. *)
(* (A failed save, and a change of workspace, do lose it.)                  *)
TextKept ==
    ~doubled' =>
        \A i \in DOMAIN dirs : \A j \in DOMAIN dirs' : dirs[i] = dirs'[j] =>
            LET t == cols'[j].text IN
                t = cols[i].text \/ Edit(i, t) \/ UpdateCollection(i, t) \/ Reloads
EditsOfOthersKept == [][TextKept]_vars

(* An undo that is saved puts the item back into the collection it was      *)
(* deleted from (items.go on RestoreLastDeleted and deletedNode).           *)
UndoGoesHome == [][
    RestoreLastDeleted /\ ~saveFailed' =>
        Contains(disk'[deleted.home].items, deleted.item)]_vars

(* No directory is loaded twice (session.go on OpenCollection: a second     *)
(* copy would race the same files).                                         *)
NeverLoadedTwice ==
    \A i \in DOMAIN dirs, j \in DOMAIN dirs : dirs[i] = dirs[j] => i = j
=============================================================================
