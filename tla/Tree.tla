-------------------------------- MODULE Tree --------------------------------
(***************************************************************************)
(* The tree of one collection (internal/session: items.go, tree.go and the *)
(* finders of session.go) and its files (internal/storage/store.go):       *)
(* adding, renaming, duplicating, moving and deleting folders and          *)
(* requests, each followed by a save that lays the tree out in files.      *)
(*                                                                         *)
(* The interface addresses a node by its position, as in "0/f1/r0", and    *)
(* chain steps a request by the names on its way, as in "Auth/Login".      *)
(* Both are found here by walking from the root.  A folder's id lives in   *)
(* memory only; loading mints new ones, which shows in undo alone: the     *)
(* folder it would restore into is not found again (Gone).                 *)
(*                                                                         *)
(* A name is a display name, Slug its file name without the suffix that    *)
(* tells files apart: a sequence, so that "login-2" can be a slug as well. *)
(* Positions count from 1.  A save is here one step (Storage.tla has it in *)
(* detail); that a failed one reloads the disk is Session.tla's.           *)
(***************************************************************************)
EXTENDS Naturals, Sequences, SequencesExt, FiniteSets, TLC

CONSTANTS
    Root,               \* the collection
    Folders, Requests,  \* ids of folders and of requests
    Names, NoName,      \* display names; the name of an id not in use
    Slug,               \* Slug[n]: the base of the file name
    Reserved,           \* names no item's file may have
    CopyOf,             \* CopyOf[n]: "n (copy)"
    Own,                \* the auth a node is given
    Inherit, NoAuth,
    None, NoUndo, Gone,
    Starts,             \* the trees there may be at the start
    MaxChanges          \* BOUND: changes

Items == Folders \cup Requests
Containers == Folders \cup {Root}
Kinds == {"folders", "requests"}

ASSUME TreeAssumption ==
    /\ Folders \cap Requests = {} /\ Root \notin Items
    /\ NoName \notin Names
    /\ DOMAIN Own = Items \cup {Root}
    /\ DOMAIN CopyOf \subseteq Names /\ DOMAIN Slug = Names
    /\ MaxChanges \in Nat

VARIABLES
    tree,       \* the session's copy: kids, name and ref (a chain step's path)
    files,      \* the files of the collection, by path
    undo,       \* lastDeleted
    result,     \* what the last operation returned, and where it should be
    changes     \* changes so far

vars == <<tree, files, undo, result, changes>>

-----------------------------------------------------------------------------
(* The tree. *)
NoKids == [folders |-> <<>>, requests |-> <<>>]
Children(K, c) == ToSet(K[c].folders) \cup ToSet(K[c].requests)
KindOf(x) == IF x \in Folders THEN "folders" ELSE "requests"

(* All below the container c, and c. *)
Below(K, c) ==
    LET within[n \in Nat] ==
            IF n = 0 THEN {c}
            ELSE LET w == within[n - 1] IN w \cup UNION {Children(K, d) : d \in w \cap Containers}
    IN  within[Cardinality(Folders) + 2]
Attached(K) == Below(K, Root) \ {Root}
ParentOf(K, x) == CHOOSE c \in Containers : x \in Children(K, c)

(* A node id: the positions of the folders on the way, and the leaf. *)
ContainerAt(K, at) ==
    FoldLeft(LAMBDA c, k : IF c = None \/ k \notin DOMAIN K[c].folders THEN None
                           ELSE K[c].folders[k],
             Root, at)
ItemAt(K, node) ==
    LET c == ContainerAt(K, node.at) IN
        IF c = None \/ node.pos \notin DOMAIN K[c][node.kind] THEN None
        ELSE K[c][node.kind][node.pos]
At(K, c) ==
    LET way[d \in Containers] ==
            IF d = Root THEN <<>>
            ELSE LET p == ParentOf(K, d) IN
                    Append(way[p], CHOOSE k \in DOMAIN K[p].folders : K[p].folders[k] = d)
    IN  way[c]
NodeOf(K, x) ==
    LET p == ParentOf(K, x)
        s == K[p][KindOf(x)]
    IN  [at |-> At(K, p), kind |-> KindOf(x), pos |-> CHOOSE k \in DOMAIN s : s[k] = x]

-----------------------------------------------------------------------------
(* Names. *)
NamePath(T, x) ==
    LET path[y \in Items \cup {Root}] ==
            IF y = Root THEN <<>> ELSE Append(path[ParentOf(T.kids, y)], T.name[y])
    IN  path[x]

(* findRequestInContainer: the first match, in every folder of the name. *)
Resolve(T, ref) ==
    LET from[n \in 0 .. Len(ref)] ==     \* containers that match n names, in order
            IF n = 0 THEN <<Root>>
            ELSE FoldLeft(LAMBDA s, c : s \o SelectSeq(T.kids[c].folders,
                                                LAMBDA f : T.name[f] = ref[n]),
                          <<>>, from[n - 1])
        found == FoldLeft(LAMBDA s, c : s \o SelectSeq(T.kids[c].requests,
                                            LAMBDA r : T.name[r] = ref[Len(ref)]),
                          <<>>, from[Len(ref) - 1])
    IN  IF ref = <<>> \/ found = <<>> THEN None ELSE found[1]

(* Faulty: a step to a request with the folder's path is rewritten too. *)
CascadeFaulty(T, old, new, ofFolder) ==
    [r \in Requests |->
        IF Len(old) <= Len(T.ref[r]) /\ SubSeq(T.ref[r], 1, Len(old)) = old
        THEN new \o SubSeq(T.ref[r], Len(old) + 1, Len(T.ref[r])) ELSE T.ref[r]]

(* cascadeChainRefs, over the requests in the tree: a step to what is below *)
(* a folder, or to exactly the request.                                     *)
Cascade(T, old, new, ofFolder) ==
    [r \in Requests |->
        LET p == T.ref[r] IN
        IF /\ r \in Attached(T.kids)
           /\ Len(old) <= Len(p) /\ SubSeq(p, 1, Len(old)) = old
           /\ (Len(p) # Len(old)) = ofFolder
        THEN new \o SubSeq(p, Len(old) + 1, Len(p)) ELSE p]

-----------------------------------------------------------------------------
(* Files. *)

(* uniqueName *)
Unique(base, used) ==
    IF base \notin used THEN base
    ELSE Append(base, CHOOSE i \in 2 .. Cardinality(used) + 2 :
                        /\ Append(base, i) \notin used
                        /\ \A j \in 2 .. i - 1 : Append(base, j) \in used)

(* saveItems: the names in a container, the requests' first. *)
FileNames(T, c) ==
    LET add(acc, x) ==
            LET n == Unique(Slug[T.name[x]], acc.used) IN
                [used |-> acc.used \cup {n}, of |-> (x :> n) @@ acc.of]
    IN  FoldLeft(add, [used |-> Reserved, of |-> <<>>],
                 T.kids[c].requests \o T.kids[c].folders).of
FilePaths(T) ==
    LET names == [c \in Below(T.kids, Root) \cap Containers |-> FileNames(T, c)]
        path[y \in Items \cup {Root}] ==
            IF y = Root THEN <<>>
            ELSE LET p == ParentOf(T.kids, y) IN Append(path[p], names[p][y])
    IN  [x \in Attached(T.kids) |-> path[x]]

(* Faulty: a folder's file is written without what was in it. *)
CarriedFaulty(old, p, kind) ==
    IF p \in DOMAIN old /\ old[p].kind = kind /\ kind = "requests" THEN old[p].extra ELSE None

(* What the program does not know of the file that was at p, a request's    *)
(* or a folder's: all of the Extra fields, the merge*Extras included.       *)
Carried(old, p, kind) ==
    IF p \in DOMAIN old /\ old[p].kind = kind THEN old[p].extra ELSE None

FileOf(T, x, extra) ==
    [id |-> x, name |-> T.name[x], kind |-> KindOf(x), seq |-> NodeOf(T.kids, x).pos,
     ref |-> IF x \in Requests THEN T.ref[x] ELSE <<>>, extra |-> extra]

(* Faulty: what was there before stays. *)
SweptFaulty(all, kept) == all

(* sweepDir, of a container and below: what was not just written goes.      *)
Swept(all, kept) == [p \in kept |-> all[p]]

(* saveItems, over the files that were there before (old) *)
Saved(T, old) ==
    LET path == FilePaths(T)
        kept == {path[x] : x \in DOMAIN path}
        Item(p) == CHOOSE x \in DOMAIN path : path[x] = p
        new == [p \in kept |-> FileOf(T, Item(p), Carried(old, p, KindOf(Item(p))))]
    IN  Swept(new @@ old, kept)

(* fileToRequest, and what a folder's file says *)
FromFile(f) == [name |-> f.name, ref |-> f.ref]

(* loadItems, of the container whose directory is dir *)
Loaded(dir, kind) ==
    LET here == {p \in DOMAIN files :
                    /\ Len(p) = Len(dir) + 1 /\ SubSeq(p, 1, Len(dir)) = dir
                    /\ files[p].kind = kind}
        order == SetToSortSeq(here, LAMBDA p, q : files[p].seq < files[q].seq)
    IN  [k \in DOMAIN order |-> files[order[k]].id]
Load ==
    LET Dir(c) == IF c = Root THEN <<>> ELSE CHOOSE p \in DOMAIN files : files[p].id = c
        present == {files[p].id : p \in DOMAIN files}
        Item(x) == FromFile(CHOOSE f \in {files[p] : p \in DOMAIN files} : f.id = x)
    IN  [kids |-> [c \in Containers |->
                    IF c = Root \/ c \in present
                    THEN [folders |-> Loaded(Dir(c), "folders"),
                          requests |-> Loaded(Dir(c), "requests")]
                    ELSE NoKids],
         name |-> [x \in Items |-> IF x \in present THEN Item(x).name ELSE NoName],
         ref |-> [r \in Requests |-> IF r \in present THEN Item(r).ref ELSE <<>>]]

-----------------------------------------------------------------------------
(* What the session does with the tree T once it is changed. *)
Returned(T, x, parent, next) ==
    [item |-> x, node |-> NodeOf(T.kids, x), parent |-> parent, next |-> next]
SaveTo(T, x, parent, next) ==
    /\ tree' = T
    /\ files' = Saved(T, files)
    /\ result' = Returned(T, x, parent, next)

(* persistCollection whose save fails: the folders have new ids.  (The      *)
(* folder a deleted item would go back into is not found again.)            *)
Reload ==
    /\ tree' = Load /\ result' = None
    /\ UNCHANGED files
GoneFolder(u) == IF u = NoUndo \/ u.parent = Root THEN u ELSE [u EXCEPT !.parent = Gone]
SaveFails == Reload /\ undo' = GoneFolder(undo)

Fresh(K) ==
    Items \ (Attached(K) \cup (IF undo = NoUndo THEN {} ELSE DOMAIN undo.sub.name))

Put(K, c, x, k) == [K EXCEPT ![c][KindOf(x)] = InsertAt(@, k, x)]
Detach(K, node) ==
    LET c == ContainerAt(K, node.at) IN [K EXCEPT ![c][node.kind] = RemoveAt(@, node.pos)]
Follower(s, k) == IF k \in DOMAIN s THEN s[k] ELSE None

Init ==
    /\ tree \in Starts
    /\ LET plain == Saved(tree, <<>>) IN      \* another tool has been at each file
        files = [p \in DOMAIN plain |-> [plain[p] EXCEPT !.extra = plain[p].id]]
    /\ undo = NoUndo /\ result = None /\ changes = 0

Subtree(x) == IF x \in Folders THEN Below(tree.kids, x) ELSE {x}

(* AddFolder, and AddRequest or AddRequestValue *)
AddItem(c, x, n) ==
    LET T == [tree EXCEPT !.kids = Put(@, c, x, Len(@[c][KindOf(x)]) + 1), !.name[x] = n] IN
    /\ c \in Below(tree.kids, Root) /\ x \in Fresh(tree.kids)
    /\ \/ SaveTo(T, x, c, None) /\ UNCHANGED undo
       \/ SaveFails

(* RenameItem *)
Rename(x, n) ==
    LET old == NamePath(tree, x)
        named == [tree EXCEPT !.name[x] = n]
        T == [named EXCEPT !.ref =
                Cascade(named, old, [old EXCEPT ![Len(old)] = n], x \in Folders)]
    IN
    /\ x \in Attached(tree.kids)
    /\ \/ SaveTo(T, x, ParentOf(tree.kids, x), None) /\ UNCHANGED undo
       \/ SaveFails

(* DuplicateItem: copies, with an id of its own for each, go behind.        *)
Duplicate(x, copy) ==
    LET K == tree.kids
        sub == Subtree(x)
        node == NodeOf(K, x)
        c == ParentOf(K, x)
        Orig(y) == CHOOSE z \in sub : copy[z] = y
        copies == {copy[y] : y \in sub}
        T == [kids |-> [d \in Containers |->
                IF d \in copies
                THEN [kind \in Kinds |-> [k \in DOMAIN K[Orig(d)][kind] |->
                                            copy[K[Orig(d)][kind][k]]]]
                ELSE Put(K, c, copy[x], node.pos + 1)[d]],
              name |-> [y \in Items |->
                IF y = copy[x] THEN CopyOf[tree.name[x]]
                ELSE IF y \in copies THEN tree.name[Orig(y)] ELSE tree.name[y]],
              ref |-> [r \in Requests |->
                IF r \in copies THEN tree.ref[Orig(r)] ELSE tree.ref[r]]]
    IN
    /\ DOMAIN copy = sub /\ tree.name[x] \in DOMAIN CopyOf
    /\ \/ SaveTo(T, copy[x], c, Follower(K[c][node.kind], node.pos + 1)) /\ UNCHANGED undo
       \/ SaveFails

(* deletedNode: x, all below it, and where it was *)
Deleted(x) ==
    LET K == tree.kids
        sub == Subtree(x)
    IN  [item |-> x, parent |-> ParentOf(K, x), pos |-> NodeOf(K, x).pos,
         sub |-> [kids |-> [c \in sub \cap Folders |-> K[c]],
                  name |-> [y \in sub |-> tree.name[y]],
                  ref |-> [r \in sub \cap Requests |-> tree.ref[r]]]]

(* Faulty: an undo stays armed when the save fails. *)
DeleteFaulty(x) ==
    LET K == tree.kids
        sub == Subtree(x)
        node == NodeOf(K, x)
        T == [kids |-> [c \in Containers |-> IF c \in sub THEN NoKids ELSE Detach(K, node)[c]],
              name |-> [y \in Items |-> IF y \in sub THEN NoName ELSE tree.name[y]],
              ref |-> [r \in Requests |-> IF r \in sub THEN <<>> ELSE tree.ref[r]]]
    IN
    /\ x \in Attached(K)
    /\ \/ /\ tree' = T /\ files' = Saved(T, files) /\ result' = None
          /\ undo' = Deleted(x)
       \/ Reload /\ undo' = Deleted(x)

(* DeleteItem *)
Delete(x) ==
    LET K == tree.kids
        sub == Subtree(x)
        node == NodeOf(K, x)
        T == [kids |-> [c \in Containers |-> IF c \in sub THEN NoKids ELSE Detach(K, node)[c]],
              name |-> [y \in Items |-> IF y \in sub THEN NoName ELSE tree.name[y]],
              ref |-> [r \in Requests |-> IF r \in sub THEN <<>> ELSE tree.ref[r]]]
    IN
    /\ x \in Attached(K)
    /\ \/ /\ tree' = T /\ files' = Saved(T, files) /\ result' = None
          /\ undo' = Deleted(x)
       \/ Reload /\ undo' = NoUndo

(* RestoreLastDeleted; with its folder gone, nothing changes. *)
Undo ==
    LET c == undo.parent
        k == IF undo.pos > Len(tree.kids[c][KindOf(undo.item)]) THEN
                Len(tree.kids[c][KindOf(undo.item)]) + 1 ELSE undo.pos
        T == [kids |-> undo.sub.kids @@ Put(tree.kids, c, undo.item, k),
              name |-> undo.sub.name @@ tree.name,
              ref |-> undo.sub.ref @@ tree.ref]
    IN
    /\ undo # NoUndo /\ c \in Below(tree.kids, Root)
    /\ undo' = NoUndo
    /\ \/ SaveTo(T, undo.item, c, Follower(tree.kids[c][KindOf(undo.item)], k))
       \/ Reload

(* planNodeDrop: where x goes when it is dropped on the upper or the lower  *)
(* half of the row of y.  A folder before y goes before its row; all else   *)
(* that is dropped on a folder or the collection goes to its end, and a     *)
(* folder dropped on a request to the end of the folder that one is in.     *)
DropPlan(K, x, y, upper) ==
    LET end(c) == [into |-> c, at |-> Len(K[c][KindOf(x)]) + 1] IN
    CASE y = Root -> IF upper /\ x \in Folders THEN [into |-> Root, at |-> 1] ELSE end(Root)
      [] y \in Folders /\ ~(upper /\ x \in Folders) -> end(y)
      [] y \in Requests /\ x \in Folders -> end(ParentOf(K, y))
      [] OTHER -> [into |-> ParentOf(K, y),
                   at |-> NodeOf(K, y).pos + (IF upper THEN 0 ELSE 1)]

(* Faulty: the position is not adjusted to the removal. *)
MoveFaulty(x, d, k, next) ==
    LET K == tree.kids
        K1 == Detach(K, NodeOf(K, x))
        len == Len(K1[d][KindOf(x)])
        T == [tree EXCEPT !.kids = Put(K1, d, x, IF k > len THEN len + 1 ELSE k)]
    IN  SaveTo(T, x, d, next) /\ UNCHANGED undo

(* MoveNode: to the position k of the folder d, as it was before the move;  *)
(* next is the row it is to go before.                                      *)
Move(x, d, k, next) ==
    LET K == tree.kids
        node == NodeOf(K, x)
        K1 == Detach(K, node)
        aim == IF ParentOf(K, x) = d /\ node.pos < k THEN k - 1 ELSE k
        len == Len(K1[d][KindOf(x)])
        moved == [tree EXCEPT !.kids = Put(K1, d, x, IF aim > len THEN len + 1 ELSE aim)]
        old == NamePath(tree, x)
        new == NamePath(moved, x)
        T == IF old = new THEN moved
             ELSE [moved EXCEPT !.ref = Cascade(moved, old, new, x \in Folders)]
    IN  \/ SaveTo(T, x, d, next) /\ UNCHANGED undo
        \/ SaveFails

(* computeDrop and applyDrop: the row x is dropped on the row y.            *)
Drag(x, y, upper) ==
    LET K == tree.kids
        plan == DropPlan(K, x, y, upper)
        row == SelectSeq(K[plan.into][KindOf(x)], LAMBDA z : z # x)
        next == CASE y = Root \/ KindOf(x) # KindOf(y) -> None
                  [] upper -> y
                  [] y \in Folders -> None
                  [] OTHER -> Follower(row, SelectInSeq(row, LAMBDA z : z = y) + 1)
    IN
    /\ x \in Attached(K) /\ y \in Below(K, Root) \ Below(K, x)
    /\ Move(x, plan.into, plan.at, next)

(* AllRequestPaths, and RequestIDForPath of each *)
Paths(T) == {NamePath(T, q) : q \in Attached(T.kids) \cap Requests}

(* A row of the Chain tab: the step of r gets the path, in memory.  (It is  *)
(* pinned to the id of the request there as well, as in Chain.tla; a step   *)
(* typed or imported without one goes by its path alone.)                   *)
EditChain(r, path) ==
    /\ r \in Attached(tree.kids)
    /\ tree' = [tree EXCEPT !.ref[r] = path]
    /\ result' = None
    /\ UNCHANGED <<files, undo>>

Next ==
    /\ changes < MaxChanges /\ changes' = changes + 1
    /\ \/ \E c \in Containers, x \in Items, n \in Names : AddItem(c, x, n)
       \/ \E x \in Items, n \in Names : Rename(x, n)
       \/ \E x \in Attached(tree.kids) :
            LET sub == Subtree(x)
                free == Fresh(tree.kids)
            IN  \E copy \in [sub -> free] :
                    /\ \A y \in sub : KindOf(copy[y]) = KindOf(y)
                    /\ \A y, z \in sub : copy[y] = copy[z] => y = z
                    /\ Duplicate(x, copy)
       \/ \E x \in Items : Delete(x)
       \/ Undo
       \/ \E x \in Items, y \in Items \cup {Root}, upper \in BOOLEAN : Drag(x, y, upper)
       \/ \E r \in Requests, path \in Paths(tree) : EditChain(r, path)

Spec == Init /\ [][Next]_vars

-----------------------------------------------------------------------------
(* Auth. *)

(* auth.Resolve, with the ancestors from the innermost out *)
Effective(own, ancestors) ==
    LET given == SelectSeq(<<own>> \o ancestors, LAMBDA a : a # Inherit) IN
        IF given = <<>> THEN NoAuth ELSE given[1]

(* Tree.AncestorAuths: up from the node id of a request that is sent. *)
SentWith(K, r) ==
    LET at == NodeOf(K, r).at
        up == [i \in 1 .. Len(at) + 1 |-> Own[ContainerAt(K, SubSeq(at, 1, Len(at) + 1 - i))]]
    IN  Effective(Own[r], up)

(* Faulty: the ancestors are scanned from the collection in. *)
SnapshotWithFaulty(K, r) ==
    LET down[x \in Items \cup {Root}] ==
            IF x = Root THEN <<Own[Root]>> ELSE Append(down[ParentOf(K, x)], Own[x])
    IN  Effective(Own[r], down[ParentOf(K, r)])

(* SnapshotChainFinder: down from the collection, for the steps of chains. *)
SnapshotWith(K, r) ==
    LET down[x \in Items \cup {Root}] ==
            IF x = Root THEN <<Own[Root]>> ELSE Append(down[ParentOf(K, x)], Own[x])
    IN  Effective(Own[r], Reverse(down[ParentOf(K, r)]))

-----------------------------------------------------------------------------
(* Every item in use is at one place in the tree, below the root, and no    *)
(* other is; an undo holds what is not in the tree.                         *)
TypeOK ==
    LET K == tree.kids IN
    /\ DOMAIN K = Containers
    /\ \A c, d \in Containers, kind \in Kinds :
        /\ IsInjective(K[c][kind])
        /\ c # d => ToSet(K[c][kind]) \cap ToSet(K[d][kind]) = {}
    /\ \A x \in Items : x \in Attached(K) <=> tree.name[x] # NoName
    /\ undo # NoUndo => DOMAIN undo.sub.name \cap Attached(K) = {}

(* What is in memory is what a load of the files gives: each item in its    *)
(* folder, in its order, under its name, and nothing else; whatever slugs   *)
(* collide.                                                                 *)
LoadsAsSaved == Load.kids = tree.kids /\ Load.name = tree.name

(* The node id an operation returns is that of the item, which is in the    *)
(* folder it was sent to, before the item it was to go before.              *)
LandsWhereSent ==
    result # None =>
        LET K == tree.kids
            s == K[result.parent][result.node.kind]
        IN
        /\ ItemAt(K, result.node) = result.item
        /\ ContainerAt(K, result.node.at) = result.parent
        /\ result.next # None => Follower(s, result.node.pos + 1) = result.next

(* No two items of a folder have one name and kind. *)
Clear(T) ==
    \A c \in Below(T.kids, Root) \cap Containers, kind \in Kinds :
        \A i, j \in DOMAIN T.kids[c][kind] :
            T.name[T.kids[c][kind][i]] = T.name[T.kids[c][kind][j]] => i = j

(* A chain step by path goes to the same request after a rename or a move   *)
(* of any folder or request, while names are clear.                         *)
RefsFollow ==
    [][ /\ files' # files
        /\ tree'.kids # tree.kids \/ tree'.name # tree.name
        /\ Clear(tree) /\ Clear(tree')
        => \A r \in Requests \cap Attached(tree.kids) \cap Attached(tree'.kids) :
            LET q == Resolve(tree, tree.ref[r]) IN
                q # None /\ q \in Attached(tree'.kids) => Resolve(tree', tree'.ref[r]) = q ]_vars

(* A chain step is sent with the auth its request is sent with by itself.   *)
StepsInheritAlike ==
    \A r \in Requests \cap Attached(tree.kids) :
        SnapshotWith(tree.kids, r) = SentWith(tree.kids, r)

(* No sibling that is saved before x is written under a file name x could   *)
(* have: x has its slug to itself, or first.                                *)
First(T, x) ==
    LET c == ParentOf(T.kids, x)
        row == T.kids[c].requests \o T.kids[c].folders
        i == CHOOSE k \in DOMAIN row : row[k] = x
    IN  \A k \in 1 .. i - 1 : ~IsPrefix(Slug[T.name[row[k]]], Slug[T.name[x]])
Way(T, x) ==
    LET way[y \in Items \cup {Root}] ==
            IF y = Root THEN <<>>
            ELSE Append(way[ParentOf(T.kids, y)], <<y, Slug[T.name[y]]>>)
    IN  way[x]
Extra(F, x) == F[CHOOSE p \in DOMAIN F : F[p].id = x].extra

(* What other tools wrote into a request's or a folder's file stays with    *)
(* it, whatever is done to its neighbours, while it and the folders on the  *)
(* way stay where they are, under their names, and are first of their slug. *)
ExtrasStay ==
    [][ \A x \in Attached(tree.kids) \cap Attached(tree'.kids) :
            /\ Way(tree, x) = Way(tree', x)
            /\ \A k \in DOMAIN Way(tree, x) :
                First(tree, Way(tree, x)[k][1]) /\ First(tree', Way(tree, x)[k][1])
            => Extra(files', x) = Extra(files, x) ]_vars
=============================================================================
