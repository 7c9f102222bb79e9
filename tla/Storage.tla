------------------------------- MODULE Storage -------------------------------
(***************************************************************************)
(* storage.Save and storage.Load (internal/storage/store.go, secrets.go)   *)
(* on the directory of one collection, with the session that calls them    *)
(* (persistCollection and reload in internal/session/session.go).          *)
(*                                                                         *)
(* A save is a sequence of file-system calls.  Each of them may fail, and  *)
(* the program may die before, after and in the middle of each of them.    *)
(* Next to the directory `dir' it uses two siblings, <dir>.helena-save     *)
(* (`tmp') and <dir>.helena-old (`old'), and the file of secrets under the *)
(* user's config directory (`store').                                      *)
(*                                                                         *)
(* Data: a collection is the sequence of its secret-bearing items in the   *)
(* order eachSecret visits them, each with a name and one credential.  The *)
(* position in that order is the key of the credential in `store'.         *)
(***************************************************************************)
EXTENDS Naturals

CONSTANTS
    Names,      \* names of items
    Creds,      \* credential values
    NoCred,     \* a blank credential field
    MaxItems,   \* BOUND: items in a collection
    Absent,     \* nothing at a path
    Bare,       \* a directory without opencollection.yml
    Partial,    \* a directory that is only partly copied, written or removed
    NoColl      \* the session holds no collection

Entry == [name : Names, cred : Creds \cup {NoCred}]

(* Collections, and also the trees of files they are saved as: Load reads  *)
(* any of them, with blank credentials or, from before secrets had a store *)
(* of their own, with credentials in the tree.                             *)
Collection == UNION {[1 .. n -> Entry] : n \in 0 .. MaxItems}

Secrets == UNION {[K -> Creds] : K \in SUBSET (1 .. MaxItems)}

EmptyColl == [i \in 1 .. 0 |-> [name |-> NoColl, cred |-> NoCred]]
NoSecrets == [i \in {} |-> NoCred]
NoCall == [tree |-> Absent, secrets |-> NoSecrets]

ASSUME StorageAssumption ==
    /\ MaxItems \in Nat
    /\ NoCred \notin Creds
    /\ {Absent, Bare, Partial, NoColl} \cap Collection = {}
    /\ Absent # Bare /\ Absent # Partial /\ Bare # Partial

VARIABLES
    dir,        \* the collection's directory
    tmp,        \* <dir>.helena-save
    old,        \* <dir>.helena-old
    store,      \* the secrets file of this directory
    mem,        \* the collection the session holds, or NoColl
    pc,         \* the next file-system call of Save, "idle" or "down"
    arg,        \* the collection being saved
    creating,   \* the save was called for a new collection, not by a mutator
    existed,    \* Save's dirExisted
    before,     \* history: dir and store when the save began
    saved       \* history: the last saved collection, while nothing
                \* after that save wrote or tried to write

diskVars == <<dir, tmp, old, store>>
callVars == <<arg, creating, existed, before>>
vars == <<dir, tmp, old, store, mem, pc, arg, creating, existed, before, saved>>

-----------------------------------------------------------------------------
(* splitSecrets: the copy of c with every credential field blanked, and    *)
(* the credentials by their positional key.                                *)
Blanked(c) == [i \in DOMAIN c |-> [name |-> c[i].name, cred |-> NoCred]]
SecretsOf(c) == [i \in {k \in DOMAIN c : c[k].cred # NoCred} |-> c[i].cred]

(* applySecrets: fill the blank fields whose key the store has. *)
ApplySecrets(t, s) ==
    [i \in DOMAIN t |->
        IF t[i].cred = NoCred /\ i \in DOMAIN s
        THEN [name |-> t[i].name, cred |-> s[i]]
        ELSE t[i]]

(* Load: fails unless the directory has an opencollection.yml; never looks *)
(* at the siblings.                                                        *)
Loadable == dir \in Collection
LoadDisk == IF Loadable THEN ApplySecrets(dir, store) ELSE NoColl

(* What readSecrets makes of a file that os.WriteFile truncated and then   *)
(* wrote only in part: the keys written so far, none if it does not parse. *)
TornSecrets(s) ==
    {[i \in {j \in DOMAIN s : j <= k} |-> s[i]] : k \in 0 .. MaxItems}

(* What an os.RemoveAll that fails or is interrupted can leave of x. *)
Removing(x) == IF x = Absent THEN {Absent} ELSE {x, Partial}

(* What an os.RemoveAll whose error is ignored can leave of x. *)
Removed(x) == Removing(x) \cup {Absent}

(* What a failed or interrupted writeSecrets can leave of the store: it    *)
(* removes the file when there is nothing to keep, and rewrites it in      *)
(* place otherwise.                                                        *)
SpoiledStore(s) == {store} \cup (IF s = NoSecrets THEN {} ELSE TornSecrets(s))

-----------------------------------------------------------------------------
Init ==
    /\ dir \in Collection \cup {Absent}
    /\ tmp = Absent /\ old = Absent
    /\ store = NoSecrets
    /\ mem = LoadDisk
    /\ pc = "idle"
    /\ arg = EmptyColl /\ creating = FALSE /\ existed = FALSE
    /\ before = NoCall /\ saved = NoColl

(* The session's mutators: any change of the collection in memory. *)
Edit(c) ==
    /\ pc = "idle" /\ mem # NoColl /\ c # mem
    /\ mem' = c
    /\ UNCHANGED <<diskVars, callVars, pc, saved>>

(* Open: reload at start-up, or OpenCollection. *)
Open ==
    /\ pc = "idle" /\ mem = NoColl /\ Loadable
    /\ mem' = LoadDisk
    /\ UNCHANGED <<diskVars, callVars, pc, saved>>

BeginSave(c, new) ==
    /\ pc = "idle"
    /\ pc' = "writeSecrets"
    /\ arg' = c /\ creating' = new
    /\ before' = [tree |-> dir', secrets |-> store]
    /\ saved' = NoColl
    /\ UNCHANGED <<tmp, old, store, mem, existed>>

(* persistCollection calls Save with the collection in memory. *)
Persist == mem # NoColl /\ UNCHANGED dir /\ BeginSave(mem, FALSE)

(* actionNewCollection saves an empty collection, chooseImportDestination  *)
(* an imported one: both pick a path that does not exist and make the      *)
(* directory.  The drivers in features/ and integration/ save to a path    *)
(* that does not exist.                                                    *)
NewCollection(c) ==
    /\ mem = NoColl /\ dir = Absent
    /\ dir' \in {Bare, Absent}
    /\ BeginSave(c, TRUE)

Goto(label) == pc' = label /\ UNCHANGED <<mem, callVars, saved>>

(* Faulty variants of some actions, each a plausible slip in the code, are *)
(* defined just before them, their names ending in Faulty; nothing uses    *)
(* them but the runs that check that a property notices.                   *)

(* Faulty: with nothing to keep it returns and leaves the old file. *)
WriteSecretsFaulty ==
    /\ pc = "writeSecrets"
    /\ \/ store' = (IF SecretsOf(arg) = NoSecrets THEN store ELSE SecretsOf(arg))
          /\ Goto("clearTmp")
       \/ store' \in SpoiledStore(SecretsOf(arg)) /\ Goto("failed")
    /\ UNCHANGED <<dir, tmp, old>>

(* writeSecrets (and the MkdirAll of the parent before it). *)
WriteSecrets ==
    /\ pc = "writeSecrets"
    /\ \/ store' = SecretsOf(arg) /\ Goto("clearTmp")
       \/ store' \in SpoiledStore(SecretsOf(arg)) /\ Goto("failed")
    /\ UNCHANGED <<dir, tmp, old>>

(* os.RemoveAll(tmp), its error ignored. *)
ClearTmp ==
    /\ pc = "clearTmp"
    /\ tmp' \in Removed(tmp)
    /\ Goto("stage")
    /\ UNCHANGED <<dir, old, store>>

(* os.Stat(dir), and copyTree(dir, tmp) or os.MkdirAll(tmp): from here to  *)
(* the end of saveInPlace tmp is not a whole tree.                         *)
Stage ==
    /\ pc = "stage"
    /\ existed' = (dir # Absent)
    /\ \/ tmp' = Partial /\ pc' = "saveInPlace"
       \/ tmp' \in {tmp, Partial} /\ existed' /\ pc' = "discardTmp"
       \/ tmp' \in {tmp, Partial} /\ ~existed' /\ pc' = "failed"
    /\ UNCHANGED <<dir, old, store, mem, arg, creating, before, saved>>

(* Faulty: an error is dropped and the swap goes on. *)
SaveInPlaceFaulty ==
    /\ pc = "saveInPlace"
    /\ \/ tmp' = Blanked(arg)
       \/ UNCHANGED tmp
    /\ Goto("clearOld")
    /\ UNCHANGED <<dir, old, store>>

(* Faulty: saves the collection in memory, not its sanitized copy. *)
SaveInPlaceUnsplitFaulty ==
    /\ pc = "saveInPlace"
    /\ \/ tmp' = arg /\ Goto("clearOld")
       \/ UNCHANGED tmp /\ Goto("discardTmp")
    /\ UNCHANGED <<dir, old, store>>

(* saveInPlace writes the sanitized copy into tmp. *)
SaveInPlace ==
    /\ pc = "saveInPlace"
    /\ \/ tmp' = Blanked(arg) /\ Goto("clearOld")
       \/ UNCHANGED tmp /\ Goto("discardTmp")
    /\ UNCHANGED <<dir, old, store>>

(* os.RemoveAll(tmp) on an error path, its error ignored. *)
DiscardTmp ==
    /\ pc = "discardTmp"
    /\ tmp' \in Removed(tmp)
    /\ Goto("failed")
    /\ UNCHANGED <<dir, old, store>>

(* os.RemoveAll(old), its error ignored. *)
ClearOld ==
    /\ pc = "clearOld"
    /\ old' \in Removed(old)
    /\ Goto(IF existed THEN "moveAside" ELSE "moveIn")
    /\ UNCHANGED <<dir, tmp, store>>

(* Faulty: makes way by removing the live tree. *)
MoveAsideFaulty ==
    /\ pc = "moveAside"
    /\ \/ dir' = Absent /\ Goto("moveIn")
       \/ UNCHANGED dir /\ Goto("discardTmp")
    /\ UNCHANGED <<tmp, old, store>>

(* os.Rename(dir, old): Go refuses to rename onto a directory. *)
MoveAside ==
    /\ pc = "moveAside"
    /\ \/ /\ old = Absent
          /\ old' = dir /\ dir' = Absent
          /\ Goto("moveIn")
       \/ UNCHANGED <<old, dir>> /\ Goto("discardTmp")
    /\ UNCHANGED <<tmp, store>>

(* os.Rename(tmp, dir). *)
MoveIn ==
    /\ pc = "moveIn"
    /\ \/ /\ dir = Absent
          /\ dir' = tmp /\ tmp' = Absent
          /\ Goto("dropOld")
       \/ /\ UNCHANGED <<dir, tmp>>
          /\ Goto(IF existed THEN "restore" ELSE "discardTmp")
    /\ UNCHANGED <<old, store>>

(* Faulty: tries the second rename again, and reports the first error. *)
RestoreFaulty ==
    /\ pc = "restore"
    /\ \/ dir = Absent /\ dir' = tmp /\ tmp' = Absent
       \/ UNCHANGED <<dir, tmp>>
    /\ Goto("discardTmp")
    /\ UNCHANGED <<old, store>>

(* os.Rename(old, dir) after the second rename failed, its error ignored. *)
Restore ==
    /\ pc = "restore"
    /\ \/ dir = Absent /\ dir' = old /\ old' = Absent
       \/ UNCHANGED <<dir, old>>
    /\ Goto("discardTmp")
    /\ UNCHANGED <<tmp, store>>

(* The last os.RemoveAll(old), its error ignored: the save has succeeded. *)
DropOld ==
    /\ pc = "dropOld"
    /\ old' \in Removed(old)
    /\ pc' = "ok" /\ saved' = arg
    /\ UNCHANGED <<dir, tmp, store, mem, callVars>>

EndCall ==
    /\ pc' = "idle"
    /\ arg' = EmptyColl /\ creating' = FALSE /\ existed' = FALSE
    /\ before' = NoCall

(* Save returns nil: the memory is what was saved.  A new collection is    *)
(* opened, that is loaded.                                                 *)
ReturnOk ==
    /\ pc = "ok"
    /\ mem' = IF creating THEN LoadDisk ELSE mem
    /\ EndCall
    /\ UNCHANGED <<diskVars, saved>>

(* Faulty: reports the error without a reload. *)
ReturnErrorFaulty ==
    /\ pc = "failed"
    /\ mem' = IF creating THEN NoColl ELSE mem
    /\ EndCall
    /\ UNCHANGED <<diskVars, saved>>

(* Save returns an error: persistCollection reloads, and a collection that *)
(* does not load is dropped; a new one is not opened.                      *)
ReturnError ==
    /\ pc = "failed"
    /\ mem' = IF creating THEN NoColl ELSE LoadDisk
    /\ EndCall
    /\ UNCHANGED <<diskVars, saved>>

(* The program dies, between two calls or in the middle of one.  Renames   *)
(* and the removal of an empty store are atomic.                           *)
Crash ==
    /\ pc # "down"
    /\ store' \in IF pc = "writeSecrets" THEN SpoiledStore(SecretsOf(arg)) ELSE {store}
    /\ tmp' \in IF pc \in {"clearTmp", "discardTmp"} THEN Removing(tmp)
               ELSE IF pc = "stage" THEN {tmp, Partial} ELSE {tmp}
    /\ old' \in IF pc \in {"clearOld", "dropOld"} THEN Removing(old) ELSE {old}
    /\ dir' = dir
    /\ pc' = "down" /\ mem' = NoColl
    /\ arg' = EmptyColl /\ creating' = FALSE /\ existed' = FALSE
    /\ before' = NoCall
    /\ saved' = saved

Restart ==
    /\ pc = "down"
    /\ pc' = "idle"
    /\ UNCHANGED <<diskVars, mem, callVars, saved>>

Save ==
    \/ WriteSecrets \/ ClearTmp \/ Stage \/ SaveInPlace \/ DiscardTmp
    \/ ClearOld \/ MoveAside \/ MoveIn \/ Restore \/ DropOld

Next ==
    \/ \E c \in Collection : Edit(c) \/ NewCollection(c)
    \/ Open \/ Persist
    \/ Save
    \/ ReturnOk \/ ReturnError
    \/ Crash \/ Restart

Spec == Init /\ [][Next]_vars

-----------------------------------------------------------------------------
Labels ==
    {"idle", "down", "writeSecrets", "clearTmp", "stage", "saveInPlace",
     "discardTmp", "clearOld", "moveAside", "moveIn", "restore", "dropOld",
     "ok", "failed"}

Places == Collection \cup {Absent, Bare, Partial}

(* Types of the variables.  A half-copied, half-written or half-removed    *)
(* tree is never at the path Load reads.                                   *)
TypeOK ==
    /\ dir \in Collection \cup {Absent, Bare}
    /\ tmp \in Places
    /\ old \in Places
    /\ store \in Secrets
    /\ mem \in Collection \cup {NoColl}
    /\ pc \in Labels
    /\ arg \in Collection
    /\ creating \in BOOLEAN
    /\ existed \in BOOLEAN
    /\ before \in [tree : Collection \cup {Absent, Bare}, secrets : Secrets]
    /\ saved \in Collection \cup {NoColl}

(* The collection that can be found again on disk: the tree at the path,   *)
(* or, when there is none, the tree that Save moved aside.                 *)
Recoverable ==
    IF dir \in Collection THEN dir
    ELSE IF dir = Absent /\ old \in Collection THEN old
    ELSE NoColl

(* "A failure mid-write never leaves dir half-updated, dir is left exactly *)
(* as it was": when Save returns an error the tree the path held before    *)
(* the call is there, or, if putting it back failed too, is still aside.   *)
FailedSaveKeepsTree ==
    pc = "failed" => \/ dir = before.tree
                     \/ dir = Absent /\ old = before.tree

(* Between saves, a collection the session holds is on disk as a whole     *)
(* tree: a save that leaves its directory missing also drops it from       *)
(* memory, so that no later save starts from a tree that is not there.     *)
OpenCollectionIsOnDisk ==
    pc = "idle" /\ mem # NoColl => dir \in Collection

(* What Save reported as saved is what Load returns, names and             *)
(* credentials, through failures of clean-up, crashes and restarts, until  *)
(* the next save of the collection begins.                                 *)
SavedIsLoaded == saved # NoColl => LoadDisk = saved

(* Once a collection's tree holds no credential, no later save, failed     *)
(* save, roll-back or crash puts a tree with credentials in its place.     *)
NoCleartext(t) == \A i \in DOMAIN t : t[i].cred = NoCred
StaysExternalized ==
    [][(Recoverable \in Collection /\ NoCleartext(Recoverable))
        => (Recoverable' \in Collection => NoCleartext(Recoverable'))]_vars

(* The files of a collection change as CollectionStore says: all at once,  *)
(* during a save that then succeeds or is cut off by a crash, to what is   *)
(* being saved.                                                            *)
Saving == pc \notin {"idle", "down"}
Committed == pc \in {"dropOld", "ok"}
Store == INSTANCE CollectionStore WITH
            Trees <- Collection, NoTree <- NoColl,
            tree <- Recoverable,
            pending <- IF Saving THEN Blanked(arg) ELSE NoColl,
            fresh <- creating,
            done <- Committed
AtomicTree == Store!Spec

-----------------------------------------------------------------------------
(* Why these hold: where the trees are at each file-system call of a save. *)
BeforeSwap == {"writeSecrets", "clearTmp", "stage", "saveInPlace", "clearOld", "moveAside"}
Staged == {"clearOld", "moveAside", "moveIn", "restore"}
SecretsWritten ==
    {"clearTmp", "stage", "saveInPlace", "clearOld", "moveAside", "moveIn",
     "restore", "discardTmp", "dropOld", "ok"}

Where ==
    /\ pc \in BeforeSwap => dir = before.tree
    /\ pc \in {"saveInPlace"} \cup Staged => existed = (before.tree # Absent)
    /\ pc \in Staged => tmp = Blanked(arg)
    /\ pc = "moveIn" => dir = Absent /\ (existed => old = before.tree)
    /\ pc = "restore" => dir = Absent /\ old = before.tree
    /\ FailedSaveKeepsTree
    /\ pc = "discardTmp" => \/ dir = before.tree
                            \/ dir = Absent /\ old = before.tree
    /\ Committed => dir = Blanked(arg)
    /\ pc \in SecretsWritten => store = SecretsOf(arg)

Calls ==
    /\ pc \in {"idle", "down"} => ~creating
    /\ pc = "down" => mem = NoColl
    /\ creating => before.tree \in {Absent, Bare}
    /\ Saving /\ ~creating => mem = arg /\ before.tree \in Collection
    /\ OpenCollectionIsOnDisk
    /\ saved # NoColl => /\ pc \in {"idle", "down", "ok"}
                         /\ dir = Blanked(saved)
                         /\ store = SecretsOf(saved)
                         /\ pc = "ok" => saved = arg

StorageInv == TypeOK /\ Where /\ Calls

-----------------------------------------------------------------------------
(* What the repository says of a save, and the code does not keep.         *)

(* session.go, persistCollection: "a failed save leaves disk exactly as it *)
(* was, and reload restores memory to that last-good state": while Save    *)
(* returns an error, and the tree is as it was, Load returns what it did.  *)
FailedSaveKeepsLastGood ==
    pc = "failed" /\ dir = before.tree /\ Loadable
        => LoadDisk = ApplySecrets(before.tree, before.secrets)

(* store.go, Save: "so dir is never left missing": no save, and no crash   *)
(* and restart, leaves a collection's tree only aside.                     *)
DirNeverLeftMissing ==
    pc = "idle" /\ old \in Collection => dir # Absent
=============================================================================
