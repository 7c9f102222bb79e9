---------------------------- MODULE StorageProofs ----------------------------
(***************************************************************************)
(* Proofs about Storage for any names, credentials and length of the       *)
(* collections, any sequence of calls, failures and crashes.               *)
(***************************************************************************)
EXTENDS Storage, TLAPS

(* The markers of a path without a whole tree are not collections. *)
LEMMA MarkersDiffer ==
    /\ Absent \notin Collection /\ Bare \notin Collection
    /\ Partial \notin Collection /\ NoColl \notin Collection
    /\ Absent # Bare /\ Absent # Partial /\ Bare # Partial
BY StorageAssumption

(* A collection is a function from its positions. *)
LEMMA CollectionIsFunction ==
    ASSUME NEW c \in Collection
    PROVE  /\ \E n \in 0 .. MaxItems : DOMAIN c = 1 .. n
           /\ c = [i \in DOMAIN c |-> c[i]]
           /\ \A i \in DOMAIN c : c[i] \in Entry
BY StorageAssumption DEF Collection

(* splitSecrets leaves a tree that can be saved and holds no credential. *)
LEMMA BlankedIsTree ==
    ASSUME NEW c \in Collection
    PROVE  Blanked(c) \in Collection /\ NoCleartext(Blanked(c))
<1>1. PICK n \in 0 .. MaxItems : DOMAIN c = 1 .. n
  BY CollectionIsFunction
<1>2. Blanked(c) \in [1 .. n -> Entry]
  BY <1>1, CollectionIsFunction DEF Blanked, Entry
<1>3. NoCleartext(Blanked(c))
  BY DEF Blanked, NoCleartext
<1> QED BY <1>2, <1>3 DEF Collection

(* splitSecrets extracts credentials by position. *)
LEMMA SecretsOfIsSecrets ==
    ASSUME NEW c \in Collection
    PROVE  SecretsOf(c) \in Secrets
<1> DEFINE K == {k \in DOMAIN c : c[k].cred # NoCred}
<1>1. K \in SUBSET (1 .. MaxItems)
  BY CollectionIsFunction, StorageAssumption
<1>2. SecretsOf(c) \in [K -> Creds]
  BY CollectionIsFunction DEF SecretsOf, Entry
<1> QED BY <1>1, <1>2 DEF Secrets

(* applySecrets returns a collection with the names of the tree. *)
LEMMA AppliedIsCollection ==
    ASSUME NEW t \in Collection, NEW s \in Secrets
    PROVE  ApplySecrets(t, s) \in Collection
<1>1. PICK n \in 0 .. MaxItems : DOMAIN t = 1 .. n
  BY CollectionIsFunction
<1>2. PICK K \in SUBSET (1 .. MaxItems) : s \in [K -> Creds]
  BY DEF Secrets
<1>3. ApplySecrets(t, s) \in [1 .. n -> Entry]
  BY <1>1, <1>2, CollectionIsFunction DEF ApplySecrets, Entry
<1> QED BY <1>3 DEF Collection

(* A torn store is still a map from positions to credentials. *)
LEMMA TornIsSecrets ==
    ASSUME NEW s \in Secrets
    PROVE  TornSecrets(s) \subseteq Secrets
<1> SUFFICES ASSUME NEW k \in 0 .. MaxItems
             PROVE  [i \in {j \in DOMAIN s : j <= k} |-> s[i]] \in Secrets
  BY DEF TornSecrets
<1>1. PICK K \in SUBSET (1 .. MaxItems) : s \in [K -> Creds]
  BY DEF Secrets
<1> DEFINE J == {j \in DOMAIN s : j <= k}
<1>2. J \in SUBSET (1 .. MaxItems)
  BY <1>1
<1>3. [i \in J |-> s[i]] \in [J -> Creds]
  BY <1>1
<1> QED BY <1>2, <1>3 DEF Secrets

LEMMA EmptyIsTyped == EmptyColl \in Collection /\ NoSecrets \in Secrets
<1>1. EmptyColl \in [1 .. 0 -> Entry]
  BY DEF EmptyColl
<1>2. NoSecrets \in [{} -> Creds]
  BY DEF NoSecrets
<1>3. EmptyColl \in Collection
  <2>1. 0 \in 0 .. MaxItems
    BY StorageAssumption
  <2> QED BY <1>1, <2>1 DEF Collection
<1>4. NoSecrets \in Secrets
  <2>1. {} \in SUBSET (1 .. MaxItems)
    OBVIOUS
  <2> QED BY <1>2, <2>1 DEF Secrets
<1> QED BY <1>3, <1>4

(* applySecrets undoes splitSecrets: what a save and the next load agree   *)
(* on is the collection, names and credentials.                            *)
LEMMA SplitRoundTrip ==
    ASSUME NEW c \in Collection
    PROVE  ApplySecrets(Blanked(c), SecretsOf(c)) = c
<1> DEFINE a == ApplySecrets(Blanked(c), SecretsOf(c))
<1>1. DOMAIN a = DOMAIN c
  BY DEF ApplySecrets, Blanked
<1>2. ASSUME NEW i \in DOMAIN c
      PROVE  a[i] = c[i]
  <2>1. c[i] \in Entry
    BY CollectionIsFunction
  <2>2. c[i] = [name |-> c[i].name, cred |-> c[i].cred]
    BY <2>1 DEF Entry
  <2>3. CASE c[i].cred = NoCred
    <3>1. i \notin DOMAIN SecretsOf(c)
      BY <2>3 DEF SecretsOf
    <3> QED BY <2>2, <2>3, <3>1 DEF ApplySecrets, Blanked
  <2>4. CASE c[i].cred # NoCred
    <3>1. i \in DOMAIN SecretsOf(c) /\ SecretsOf(c)[i] = c[i].cred
      BY <2>4 DEF SecretsOf
    <3> QED BY <2>2, <3>1 DEF ApplySecrets, Blanked
  <2> QED BY <2>3, <2>4
<1>3. a = [i \in DOMAIN a |-> a[i]]
  BY DEF ApplySecrets
<1> QED BY <1>1, <1>2, <1>3, CollectionIsFunction

-----------------------------------------------------------------------------
LEMMA LoadedIsTyped ==
    ASSUME TypeOK
    PROVE  LoadDisk \in Collection \cup {NoColl} /\ (LoadDisk # NoColl <=> Loadable)
BY AppliedIsCollection, MarkersDiffer DEF TypeOK, LoadDisk, Loadable

LEMMA SpoiledIsTyped ==
    ASSUME TypeOK
    PROVE  SpoiledStore(SecretsOf(arg)) \subseteq Secrets
<1>1. SecretsOf(arg) \in Secrets
  BY SecretsOfIsSecrets DEF TypeOK
<1> QED BY <1>1, TornIsSecrets DEF SpoiledStore, TypeOK

(* What happens to a path that is removed stays typed. *)
LEMMA RemovedIsTyped ==
    ASSUME NEW x \in Places
    PROVE  Removed(x) \subseteq Places /\ Removing(x) \subseteq Places
BY DEF Removed, Removing, Places

LEMMA InitEstablishesInv == Init => StorageInv
<1> SUFFICES ASSUME Init PROVE StorageInv
  OBVIOUS
<1>1. TypeOK
  <2>1. LoadDisk \in Collection \cup {NoColl}
    BY AppliedIsCollection, EmptyIsTyped DEF Init, LoadDisk, Loadable
  <2> QED BY <2>1, EmptyIsTyped DEF Init, TypeOK, Places, Labels, NoCall
<1>2. Where
  BY DEF Init, Where, BeforeSwap, Staged, SecretsWritten, Committed, FailedSaveKeepsTree
<1>3. Calls
  BY <1>1, LoadedIsTyped DEF Init, Calls, Saving, OpenCollectionIsOnDisk, Loadable
<1> QED BY <1>1, <1>2, <1>3 DEF StorageInv

(* One step of the program preserves the invariant. *)
LEMMA StepPreservesInv == StorageInv /\ [Next]_vars => StorageInv'
<1> SUFFICES ASSUME StorageInv, [Next]_vars PROVE StorageInv'
  OBVIOUS
<1> USE DEF StorageInv
<1> USE MarkersDiffer, EmptyIsTyped
<1>1. ASSUME NEW c \in Collection, Edit(c) PROVE StorageInv'
  <2>1. TypeOK'
    BY <1>1 DEF Edit, TypeOK, diskVars, callVars
  <2>2. Where'
    BY <1>1 DEF Edit, Where, diskVars, callVars, BeforeSwap, Staged, SecretsWritten, Committed, FailedSaveKeepsTree
  <2>3. Calls'
    BY <1>1 DEF Edit, Calls, diskVars, callVars, Saving, OpenCollectionIsOnDisk, TypeOK
  <2> QED BY <2>1, <2>2, <2>3
<1>2. CASE Open
  <2>1. TypeOK'
    BY <1>2, LoadedIsTyped
    DEF Open, Loadable, TypeOK, diskVars, callVars, Labels
  <2>2. Where'
    BY <1>2, LoadedIsTyped
    DEF Open, Loadable, Where, TypeOK, diskVars, callVars,
        BeforeSwap, Staged, SecretsWritten, Committed, FailedSaveKeepsTree
  <2>3. Calls'
    BY <1>2, LoadedIsTyped
    DEF Open, Loadable, Calls, Where, TypeOK, diskVars, callVars, Saving,
        OpenCollectionIsOnDisk, BeforeSwap, Staged, SecretsWritten, Committed, FailedSaveKeepsTree
  <2> QED BY <2>1, <2>2, <2>3
<1>3. CASE Persist
  <2>1. TypeOK'
    BY <1>3
    DEF Persist, BeginSave, TypeOK, diskVars, callVars, Labels
  <2>2. Where'
    BY <1>3
    DEF Persist, BeginSave, Where, TypeOK, diskVars, callVars,
        BeforeSwap, Staged, SecretsWritten, Committed, FailedSaveKeepsTree
  <2>3. Calls'
    BY <1>3
    DEF Persist, BeginSave, Calls, Where, TypeOK, diskVars, callVars, Saving,
        OpenCollectionIsOnDisk, BeforeSwap, Staged, SecretsWritten, Committed, FailedSaveKeepsTree
  <2> QED BY <2>1, <2>2, <2>3
<1>4. CASE \E c \in Collection : NewCollection(c)
  <2>1. TypeOK'
    BY <1>4
    DEF NewCollection, BeginSave, TypeOK, diskVars, callVars, Labels
  <2>2. Where'
    BY <1>4
    DEF NewCollection, BeginSave, Where, TypeOK, diskVars, callVars,
        BeforeSwap, Staged, SecretsWritten, Committed, FailedSaveKeepsTree
  <2>3. Calls'
    BY <1>4
    DEF NewCollection, BeginSave, Calls, Where, TypeOK, diskVars, callVars, Saving,
        OpenCollectionIsOnDisk, BeforeSwap, Staged, SecretsWritten, Committed, FailedSaveKeepsTree
  <2> QED BY <2>1, <2>2, <2>3
<1>5. CASE WriteSecrets
  <2>1. TypeOK'
    BY <1>5, SecretsOfIsSecrets, SpoiledIsTyped
    DEF WriteSecrets, Goto, TypeOK, diskVars, callVars, Labels
  <2>2. Where'
    BY <1>5, SecretsOfIsSecrets, SpoiledIsTyped
    DEF WriteSecrets, Goto, Where, TypeOK, diskVars, callVars,
        BeforeSwap, Staged, SecretsWritten, Committed, FailedSaveKeepsTree
  <2>3. Calls'
    BY <1>5, SecretsOfIsSecrets, SpoiledIsTyped
    DEF WriteSecrets, Goto, Calls, Where, TypeOK, diskVars, callVars, Saving,
        OpenCollectionIsOnDisk, BeforeSwap, Staged, SecretsWritten, Committed, FailedSaveKeepsTree
  <2> QED BY <2>1, <2>2, <2>3
<1>6. CASE ClearTmp
  <2>1. TypeOK'
    BY <1>6, RemovedIsTyped
    DEF ClearTmp, Goto, TypeOK, diskVars, callVars, Labels
  <2>2. Where'
    BY <1>6, RemovedIsTyped
    DEF ClearTmp, Goto, Where, TypeOK, diskVars, callVars,
        BeforeSwap, Staged, SecretsWritten, Committed, FailedSaveKeepsTree
  <2>3. Calls'
    BY <1>6, RemovedIsTyped
    DEF ClearTmp, Goto, Calls, Where, TypeOK, diskVars, callVars, Saving,
        OpenCollectionIsOnDisk, BeforeSwap, Staged, SecretsWritten, Committed, FailedSaveKeepsTree
  <2> QED BY <2>1, <2>2, <2>3
<1>7. CASE Stage
  <2>1. TypeOK'
    BY <1>7
    DEF Stage, Places, TypeOK, diskVars, callVars, Labels
  <2>2. Where'
    BY <1>7
    DEF Stage, Places, Where, TypeOK, diskVars, callVars,
        BeforeSwap, Staged, SecretsWritten, Committed, FailedSaveKeepsTree
  <2>3. Calls'
    BY <1>7
    DEF Stage, Places, Calls, Where, TypeOK, diskVars, callVars, Saving,
        OpenCollectionIsOnDisk, BeforeSwap, Staged, SecretsWritten, Committed, FailedSaveKeepsTree
  <2> QED BY <2>1, <2>2, <2>3
<1>8. CASE SaveInPlace
  <2>1. TypeOK'
    BY <1>8, BlankedIsTree
    DEF SaveInPlace, Goto, Places, TypeOK, diskVars, callVars, Labels
  <2>2. Where'
    BY <1>8, BlankedIsTree
    DEF SaveInPlace, Goto, Places, Where, TypeOK, diskVars, callVars,
        BeforeSwap, Staged, SecretsWritten, Committed, FailedSaveKeepsTree
  <2>3. Calls'
    BY <1>8, BlankedIsTree
    DEF SaveInPlace, Goto, Places, Calls, Where, TypeOK, diskVars, callVars, Saving,
        OpenCollectionIsOnDisk, BeforeSwap, Staged, SecretsWritten, Committed, FailedSaveKeepsTree
  <2> QED BY <2>1, <2>2, <2>3
<1>9. CASE DiscardTmp
  <2>1. TypeOK'
    BY <1>9, RemovedIsTyped
    DEF DiscardTmp, Goto, TypeOK, diskVars, callVars, Labels
  <2>2. Where'
    BY <1>9, RemovedIsTyped
    DEF DiscardTmp, Goto, Where, TypeOK, diskVars, callVars,
        BeforeSwap, Staged, SecretsWritten, Committed, FailedSaveKeepsTree
  <2>3. Calls'
    BY <1>9, RemovedIsTyped
    DEF DiscardTmp, Goto, Calls, Where, TypeOK, diskVars, callVars, Saving,
        OpenCollectionIsOnDisk, BeforeSwap, Staged, SecretsWritten, Committed, FailedSaveKeepsTree
  <2> QED BY <2>1, <2>2, <2>3
<1>10. CASE ClearOld
  <2>1. TypeOK'
    BY <1>10, RemovedIsTyped
    DEF ClearOld, Goto, TypeOK, diskVars, callVars, Labels
  <2>2. Where'
    BY <1>10, RemovedIsTyped
    DEF ClearOld, Goto, Where, TypeOK, diskVars, callVars,
        BeforeSwap, Staged, SecretsWritten, Committed, FailedSaveKeepsTree
  <2>3. Calls'
    BY <1>10, RemovedIsTyped
    DEF ClearOld, Goto, Calls, Where, TypeOK, diskVars, callVars, Saving,
        OpenCollectionIsOnDisk, BeforeSwap, Staged, SecretsWritten, Committed, FailedSaveKeepsTree
  <2> QED BY <2>1, <2>2, <2>3
<1>11. CASE MoveAside
  <2>1. TypeOK'
    BY <1>11
    DEF MoveAside, Goto, Places, TypeOK, diskVars, callVars, Labels
  <2>2. Where'
    BY <1>11
    DEF MoveAside, Goto, Places, Where, TypeOK, diskVars, callVars,
        BeforeSwap, Staged, SecretsWritten, Committed, FailedSaveKeepsTree
  <2>3. Calls'
    BY <1>11
    DEF MoveAside, Goto, Places, Calls, Where, TypeOK, diskVars, callVars, Saving,
        OpenCollectionIsOnDisk, BeforeSwap, Staged, SecretsWritten, Committed, FailedSaveKeepsTree
  <2> QED BY <2>1, <2>2, <2>3
<1>12. CASE MoveIn
  <2>1. TypeOK'
    BY <1>12, BlankedIsTree
    DEF MoveIn, Goto, Places, TypeOK, diskVars, callVars, Labels, Where, Staged
  <2>2. Where'
    BY <1>12, BlankedIsTree
    DEF MoveIn, Goto, Places, Where, TypeOK, diskVars, callVars,
        BeforeSwap, Staged, SecretsWritten, Committed, FailedSaveKeepsTree
  <2>3. Calls'
    BY <1>12, BlankedIsTree
    DEF MoveIn, Goto, Places, Calls, Where, TypeOK, diskVars, callVars, Saving,
        OpenCollectionIsOnDisk, BeforeSwap, Staged, SecretsWritten, Committed, FailedSaveKeepsTree
  <2> QED BY <2>1, <2>2, <2>3
<1>13. CASE Restore
  <2>1. TypeOK'
    BY <1>13
    DEF Restore, Goto, Places, TypeOK, diskVars, callVars, Labels, Where, Staged
  <2>2. Where'
    BY <1>13
    DEF Restore, Goto, Places, Where, TypeOK, diskVars, callVars,
        BeforeSwap, Staged, SecretsWritten, Committed, FailedSaveKeepsTree
  <2>3. Calls'
    BY <1>13
    DEF Restore, Goto, Places, Calls, Where, TypeOK, diskVars, callVars, Saving,
        OpenCollectionIsOnDisk, BeforeSwap, Staged, SecretsWritten, Committed, FailedSaveKeepsTree
  <2> QED BY <2>1, <2>2, <2>3
<1>14. CASE DropOld
  <2>1. TypeOK'
    BY <1>14, RemovedIsTyped
    DEF DropOld, TypeOK, diskVars, callVars, Labels
  <2>2. Where'
    BY <1>14, RemovedIsTyped
    DEF DropOld, Where, TypeOK, diskVars, callVars,
        BeforeSwap, Staged, SecretsWritten, Committed, FailedSaveKeepsTree
  <2>3. Calls'
    BY <1>14, RemovedIsTyped
    DEF DropOld, Calls, Where, TypeOK, diskVars, callVars, Saving,
        OpenCollectionIsOnDisk, BeforeSwap, Staged, SecretsWritten, Committed, FailedSaveKeepsTree
  <2> QED BY <2>1, <2>2, <2>3
<1>15. CASE ReturnOk
  <2>1. TypeOK'
    BY <1>15, LoadedIsTyped, BlankedIsTree
    DEF ReturnOk, EndCall, NoCall, Loadable, TypeOK, diskVars, callVars, Labels
  <2>2. Where'
    BY <1>15, LoadedIsTyped, BlankedIsTree
    DEF ReturnOk, EndCall, NoCall, Loadable, Where, TypeOK, diskVars, callVars,
        BeforeSwap, Staged, SecretsWritten, Committed, FailedSaveKeepsTree
  <2>3. Calls'
    BY <1>15, LoadedIsTyped, BlankedIsTree
    DEF ReturnOk, EndCall, NoCall, Loadable, Calls, Where, TypeOK, diskVars, callVars, Saving,
        OpenCollectionIsOnDisk, BeforeSwap, Staged, SecretsWritten, Committed, FailedSaveKeepsTree
  <2> QED BY <2>1, <2>2, <2>3
<1>16. CASE ReturnError
  <2>1. TypeOK'
    BY <1>16, LoadedIsTyped
    DEF ReturnError, EndCall, NoCall, Loadable, TypeOK, diskVars, callVars, Labels
  <2>2. Where'
    BY <1>16, LoadedIsTyped
    DEF ReturnError, EndCall, NoCall, Loadable, Where, TypeOK, diskVars, callVars,
        BeforeSwap, Staged, SecretsWritten, Committed, FailedSaveKeepsTree
  <2>3. Calls'
    BY <1>16, LoadedIsTyped
    DEF ReturnError, EndCall, NoCall, Loadable, Calls, Where, TypeOK, diskVars, callVars, Saving,
        OpenCollectionIsOnDisk, BeforeSwap, Staged, SecretsWritten, Committed, FailedSaveKeepsTree
  <2> QED BY <2>1, <2>2, <2>3
<1>17. CASE Crash
  <2>1. TypeOK'
    BY <1>17, SpoiledIsTyped, RemovedIsTyped
    DEF Crash, NoCall, Places, TypeOK, diskVars, callVars, Labels
  <2>2. Where'
    BY <1>17, SpoiledIsTyped, RemovedIsTyped
    DEF Crash, NoCall, Places, Where, TypeOK, diskVars, callVars,
        BeforeSwap, Staged, SecretsWritten, Committed, FailedSaveKeepsTree
  <2>3. Calls'
    BY <1>17, SpoiledIsTyped, RemovedIsTyped
    DEF Crash, NoCall, Places, Calls, Where, TypeOK, diskVars, callVars, Saving,
        OpenCollectionIsOnDisk, BeforeSwap, Staged, SecretsWritten, Committed, FailedSaveKeepsTree
  <2> QED BY <2>1, <2>2, <2>3
<1>18. CASE Restart
  <2>1. TypeOK'
    BY <1>18
    DEF Restart, TypeOK, diskVars, callVars, Labels
  <2>2. Where'
    BY <1>18
    DEF Restart, Where, TypeOK, diskVars, callVars,
        BeforeSwap, Staged, SecretsWritten, Committed, FailedSaveKeepsTree
  <2>3. Calls'
    BY <1>18
    DEF Restart, Calls, Where, TypeOK, diskVars, callVars, Saving,
        OpenCollectionIsOnDisk, BeforeSwap, Staged, SecretsWritten, Committed, FailedSaveKeepsTree
  <2> QED BY <2>1, <2>2, <2>3
<1>19. CASE UNCHANGED vars
  BY <1>19
  DEF vars, Where, Calls, TypeOK, Saving, OpenCollectionIsOnDisk,
      BeforeSwap, Staged, SecretsWritten, Committed, FailedSaveKeepsTree
<1> QED
  BY <1>1, <1>2, <1>3, <1>4, <1>5, <1>6, <1>7, <1>8, <1>9, <1>10, <1>11, <1>12,
     <1>13, <1>14, <1>15, <1>16, <1>17, <1>18, <1>19 DEF Next, Save

(* The strengthened invariant: where the trees are at each call. *)
THEOREM Invariance == Spec => []StorageInv
<1>1. Init => StorageInv
  BY InitEstablishesInv
<1>2. StorageInv /\ [Next]_vars => StorageInv'
  BY StepPreservesInv
<1> QED BY <1>1, <1>2, PTL DEF Spec

(* Every variable keeps its type; a partial tree is never at the path. *)
THEOREM TypeCorrect == Spec => []TypeOK
<1>1. StorageInv => TypeOK
  BY DEF StorageInv
<1> QED BY <1>1, Invariance, PTL

(* A save that returns an error has left the tree it found, at the path    *)
(* or, if even putting it back failed, aside.                              *)
THEOREM FailedSaveIsHarmless == Spec => []FailedSaveKeepsTree
<1>1. StorageInv => FailedSaveKeepsTree
  BY DEF StorageInv, Where
<1> QED BY <1>1, Invariance, PTL

(* Between saves a collection in memory is a whole tree on disk. *)
THEOREM NoPhantomCollection == Spec => []OpenCollectionIsOnDisk
<1>1. StorageInv => OpenCollectionIsOnDisk
  BY DEF StorageInv, Calls
<1> QED BY <1>1, Invariance, PTL

(* What a save reported as stored is what every later load returns. *)
THEOREM SavedSurvives == Spec => []SavedIsLoaded
<1>1. StorageInv => SavedIsLoaded
  <2> SUFFICES ASSUME StorageInv, saved # NoColl PROVE LoadDisk = saved
    BY DEF SavedIsLoaded
  <2>1. saved \in Collection /\ dir = Blanked(saved) /\ store = SecretsOf(saved)
    BY DEF StorageInv, TypeOK, Calls
  <2>2. Loadable
    BY <2>1, BlankedIsTree DEF Loadable
  <2> QED BY <2>1, <2>2, SplitRoundTrip DEF LoadDisk
<1> QED BY <1>1, Invariance, PTL

-----------------------------------------------------------------------------
(* The only step that puts another tree in the place of the recoverable    *)
(* one is the second rename; it can otherwise only be lost from sight, in  *)
(* a call for a new collection.                                            *)
LEMMA RecoverableStep ==
    ASSUME StorageInv, [Next]_vars
    PROVE  \/ Recoverable' = Recoverable
           \/ MoveIn /\ dir' = tmp /\ Recoverable' = Blanked(arg)
           \/ /\ Recoverable' = NoColl
              /\ \/ \E c \in Collection : NewCollection(c)
                 \/ ClearOld /\ creating
                 \/ Crash /\ creating /\ pc = "clearOld"
<1> USE MarkersDiffer DEF Recoverable, diskVars, StorageInv
<1>1. CASE (\E c \in Collection : Edit(c)) \/ Open \/ Persist \/ Restart
  BY <1>1 DEF Edit, Open, Persist, Restart, BeginSave
<1>2. CASE \E c \in Collection : NewCollection(c)
  BY <1>2 DEF NewCollection, BeginSave
<1>3. CASE WriteSecrets \/ ClearTmp \/ Stage \/ SaveInPlace \/ DiscardTmp
  BY <1>3 DEF WriteSecrets, ClearTmp, Stage, SaveInPlace, DiscardTmp
<1>4. CASE ClearOld
  <2>1. ~creating => dir \in Collection
    BY <1>4 DEF ClearOld, Where, Calls, Saving, BeforeSwap
  <2>2. old' \in {old, Partial, Absent} /\ dir' = dir
    BY <1>4 DEF ClearOld, Removed, Removing
  <2> QED BY <1>4, <2>1, <2>2
<1>5. CASE MoveAside
  BY <1>5 DEF MoveAside, TypeOK
<1>6. CASE MoveIn
  <2>1. tmp = Blanked(arg) /\ tmp \in Collection
    BY <1>6, BlankedIsTree DEF MoveIn, Where, Staged, TypeOK
  <2> QED BY <1>6, <2>1 DEF MoveIn
<1>7. CASE Restore
  BY <1>7 DEF Restore, Where, TypeOK
<1>8. CASE DropOld
  <2>1. dir \in Collection
    BY <1>8, BlankedIsTree DEF DropOld, Where, Committed, TypeOK
  <2> QED BY <1>8, <2>1 DEF DropOld
<1>9. CASE ReturnOk \/ ReturnError
  BY <1>9 DEF ReturnOk, ReturnError
<1>10. CASE Crash
  <2>1. dir' = dir
    BY <1>10 DEF Crash
  <2>2. pc \notin {"clearOld", "dropOld"} => old' = old
    BY <1>10 DEF Crash
  <2>3. old' \in {old, Partial}
    BY <1>10 DEF Crash, Removing
  <2>4. pc = "dropOld" => dir \in Collection
    BY BlankedIsTree DEF Where, Committed, TypeOK
  <2>5. pc = "clearOld" /\ ~creating => dir \in Collection
    BY DEF Where, Calls, Saving, BeforeSwap
  <2> QED BY <1>10, <2>1, <2>2, <2>3, <2>4, <2>5
<1>11. CASE UNCHANGED vars
  BY <1>11 DEF vars
<1> QED
  BY <1>1, <1>2, <1>3, <1>4, <1>5, <1>6, <1>7, <1>8, <1>9, <1>10, <1>11 DEF Next, Save

(* No credential comes back into a tree that has been rid of them. *)
THEOREM CleartextStaysOut == Spec => StaysExternalized
<1>1. StorageInv /\ [Next]_vars
        => [(Recoverable \in Collection /\ NoCleartext(Recoverable))
             => (Recoverable' \in Collection => NoCleartext(Recoverable'))]_vars
  <2> SUFFICES ASSUME StorageInv, [Next]_vars,
                      Recoverable \in Collection, NoCleartext(Recoverable),
                      Recoverable' \in Collection
               PROVE  NoCleartext(Recoverable')
    OBVIOUS
  <2>1. arg \in Collection
    BY DEF StorageInv, TypeOK
  <2>2. Recoverable' = Recoverable \/ Recoverable' = Blanked(arg)
    BY RecoverableStep, MarkersDiffer
  <2> QED BY <2>1, <2>2, BlankedIsTree
<1> QED BY <1>1, Invariance, PTL DEF Spec, StaysExternalized

-----------------------------------------------------------------------------
(* The initial states of Storage are initial states of the store. *)
LEMMA InitRefines == Init => Store!Init
BY EmptyIsTyped, MarkersDiffer
DEF Init, Store!Init, Recoverable, Saving, Committed

(* Every step of Storage is a step of the store, or none. *)
LEMMA StepRefines == StorageInv /\ [Next]_vars => [Store!Next]_Store!vars
<1> SUFFICES ASSUME StorageInv, [Next]_vars PROVE [Store!Next]_Store!vars
  OBVIOUS
<1> DEFINE Pending == IF Saving THEN Blanked(arg) ELSE NoColl
<1>1. arg \in Collection /\ Blanked(arg) \in Collection /\ Blanked(arg) # NoColl
  BY BlankedIsTree, MarkersDiffer DEF StorageInv, TypeOK
<1>2. CASE \/ \E c \in Collection : Edit(c)
           \/ Open \/ Restart \/ WriteSecrets \/ ClearTmp \/ Stage
           \/ SaveInPlace \/ DiscardTmp \/ MoveAside \/ Restore \/ DropOld
           \/ (ClearOld /\ Recoverable' = Recoverable)
           \/ (MoveIn /\ dir' # tmp)
           \/ UNCHANGED vars
  <2>1. Recoverable' = Recoverable
    BY <1>2, RecoverableStep
    DEF Edit, Open, Restart, WriteSecrets, ClearTmp, Stage, SaveInPlace,
        DiscardTmp, MoveAside, Restore, DropOld, MoveIn, vars, ClearOld,
        NewCollection, BeginSave, Crash, Goto
  <2>2. Pending' = Pending /\ creating' = creating /\ Committed' = Committed
    BY <1>2
    DEF Edit, Open, Restart, WriteSecrets, ClearTmp, Stage, SaveInPlace,
        DiscardTmp, MoveAside, Restore, DropOld, MoveIn, vars, ClearOld,
        Goto, callVars, Saving, Committed
  <2> QED BY <2>1, <2>2 DEF Store!vars
<1>3. CASE Persist
  <2>1. Recoverable' = Recoverable /\ creating' = creating
    BY <1>3 DEF Persist, BeginSave, Recoverable, StorageInv, Calls, TypeOK
  <2>2. Pending = NoColl /\ Pending' = Blanked(mem) /\ Committed' = Committed
    BY <1>3 DEF Persist, BeginSave, Saving, Committed
  <2>3. Blanked(mem) \in Collection
    BY <1>3, BlankedIsTree DEF Persist, StorageInv, TypeOK
  <2>4. Store!Begin(Blanked(mem))
    BY <2>1, <2>2 DEF Store!Begin
  <2> QED BY <2>3, <2>4 DEF Store!Next
<1>4. CASE \E c \in Collection : NewCollection(c)
  <2> PICK c \in Collection : NewCollection(c)
    BY <1>4
  <2>1. Recoverable' \in {Recoverable, NoColl} /\ creating'
    BY <1>4, RecoverableStep DEF NewCollection, BeginSave, MoveIn
  <2>2. Pending = NoColl /\ Pending' = Blanked(c) /\ Committed' = Committed
    BY DEF NewCollection, BeginSave, Saving, Committed
  <2>3. Blanked(c) \in Collection
    BY BlankedIsTree
  <2>4. Store!BeginNew(Blanked(c))
    BY <2>1, <2>2 DEF Store!BeginNew
  <2> QED BY <2>3, <2>4 DEF Store!Next
<1>5. CASE ClearOld /\ Recoverable' # Recoverable
  <2>1. Recoverable' = NoColl /\ creating
    BY <1>5, RecoverableStep DEF ClearOld, MoveIn, NewCollection, BeginSave, Crash
  <2>2. Pending' = Pending /\ creating' = creating /\ ~Committed /\ Committed' = Committed
    BY <1>5 DEF ClearOld, Goto, callVars, Saving, Committed
  <2>3. Store!Abandon
    BY <2>1, <2>2 DEF Store!Abandon
  <2> QED BY <2>3 DEF Store!Next
<1>6. CASE MoveIn /\ dir' = tmp
  <2>1. tmp = Blanked(arg) /\ dir = Absent
    BY <1>6 DEF MoveIn, StorageInv, Where, Staged
  <2>2. Recoverable' = Blanked(arg)
    BY <1>1, <1>6, <2>1 DEF Recoverable
  <2>3. pc' = "dropOld"
    BY <1>1, <1>6, <2>1, MarkersDiffer DEF MoveIn, Goto
  <2>4. Pending = Blanked(arg) /\ Pending' = Blanked(arg) /\ ~Committed /\ Committed'
    BY <1>6, <2>3 DEF MoveIn, Goto, callVars, Saving, Committed
  <2>5. creating' = creating
    BY <1>6 DEF MoveIn, Goto, callVars
  <2>6. Store!Commit
    BY <1>1, <2>2, <2>4, <2>5 DEF Store!Commit
  <2> QED BY <2>6 DEF Store!Next
<1>7. CASE ReturnOk
  <2>1. Recoverable' = Recoverable
    BY <1>7 DEF ReturnOk, Recoverable, diskVars
  <2>2. Committed /\ Pending' = NoColl /\ creating' = FALSE /\ Committed' = FALSE
    BY <1>7 DEF ReturnOk, EndCall, Saving, Committed
  <2>3. Store!ReturnOk
    BY <2>1, <2>2 DEF Store!ReturnOk, Store!EndCall
  <2> QED BY <2>3 DEF Store!Next
<1>8. CASE ReturnError
  <2>1. Recoverable' = Recoverable
    BY <1>8 DEF ReturnError, Recoverable, diskVars
  <2>2. ~Committed /\ Pending' = NoColl /\ creating' = FALSE /\ Committed' = FALSE
    BY <1>8 DEF ReturnError, EndCall, Saving, Committed
  <2>3. Pending # NoColl
    BY <1>1, <1>8 DEF ReturnError, Saving
  <2>4. Store!ReturnError
    BY <2>1, <2>2, <2>3 DEF Store!ReturnError, Store!EndCall
  <2> QED BY <2>4 DEF Store!Next
<1>9. CASE Crash
  <2>1. Pending' = NoColl /\ creating' = FALSE /\ Committed' = FALSE
    BY <1>9 DEF Crash, Saving, Committed
  <2>2. \/ Recoverable' = Recoverable
        \/ creating /\ ~Committed /\ Recoverable' = NoColl
    BY <1>9, RecoverableStep
    DEF Crash, MoveIn, Goto, NewCollection, BeginSave, ClearOld, Committed
  <2>3. Store!Die
    BY <2>1, <2>2 DEF Store!Die, Store!EndCall
  <2> QED BY <2>3 DEF Store!Next
<1> QED
  BY <1>2, <1>3, <1>4, <1>5, <1>6, <1>7, <1>8, <1>9 DEF Next, Save

(* The files of a collection change as CollectionStore says. *)
THEOREM SaveIsAtomic == Spec => AtomicTree
<1>1. Init => Store!Init
  BY InitRefines
<1>2. StorageInv /\ [Next]_vars => [Store!Next]_Store!vars
  BY StepRefines
<1> QED BY <1>1, <1>2, Invariance, PTL DEF Spec, AtomicTree, Store!Spec
=============================================================================
