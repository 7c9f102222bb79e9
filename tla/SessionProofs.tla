---------------------------- MODULE SessionProofs ----------------------------
(***************************************************************************)
(* Proofs about Session: whatever is opened, moved, removed, deleted and    *)
(* undone, with saves that fail and loads that leave collections out, the   *)
(* positions of the loaded collections mean what the config says, and what  *)
(* is in memory agrees with the disk; for any number of workspaces,         *)
(* collections, environments and items.                                     *)
(***************************************************************************)
EXTENDS Session, ListLemmas

-----------------------------------------------------------------------------
(* The inductive invariant.                                                 *)
ConfigFields == {"workspaces", "active", "col", "env"}
Workspace == [name : Names, list : Seq(Dirs)]

(* The config.                                                              *)
ConfigGood(c) ==
    /\ DOMAIN c = ConfigFields
    /\ c.workspaces \in Seq(Workspace) /\ c.active \in DOMAIN c.workspaces
    /\ c.col \in Dirs \cup {NoDir} /\ c.env \in [Dirs -> Envs \cup {NoEnv}]
    /\ \A w \in DOMAIN c.workspaces : Len(c.workspaces[w].list) <= MaxColls

(* What is loaded, against the config.                                      *)
LoadedGood(c, ds, cs, ac, ae) ==
    /\ ds \in Seq(Dirs) /\ cs \in Seq(Collection)
    /\ Len(cs) = Len(ds) /\ Len(ds) <= Len(List(c))
    /\ ac \in 0 .. Len(ds) /\ (ds = <<>> <=> ac = 0)
    /\ Contains(ds, c.col) => ds[ac] = c.col
    /\ ae \in [1 .. MaxColls -> Envs \cup {NoEnv}]

DeletedGood(del) ==
    \/ del = NoDeleted
    \/ del \in [item : Items, index : Nat \ {0}, colIdx : Nat \ {0}, home : Dirs]

Typed ==
    /\ ConfigGood(cfg) /\ LoadedGood(cfg, dirs, cols, activeCol, activeEnv)
    /\ DeletedGood(deleted) /\ disk \in [Dirs -> Collection] /\ broken \subseteq Dirs
    /\ saveFailed \in BOOLEAN /\ doubled \in BOOLEAN

(* As long as no workspace has listed a directory twice: what is loaded is  *)
(* part of the list; the environments are those of the config; environments *)
(* and items are as on the disk; and no item is in two places.              *)
Distinct(s) == \A i, j \in DOMAIN s : s[i] = s[j] => i = j
Listing(c, ds) ==
    InOrderOf(ds, List(c)) /\ \A w \in DOMAIN c.workspaces : Distinct(c.workspaces[w].list)
Chosen(c, ds, ae) ==
    \A i \in 1 .. MaxColls : ae[i] # NoEnv => i <= Len(ds) /\ ae[i] = c.env[ds[i]]
InSync(ds, cs, held) ==
    \A i \in DOMAIN ds : cs[i].envs = held[ds[i]].envs /\ cs[i].items = held[ds[i]].items
Gone(held, del) == del # NoDeleted => \A p \in Places(held) : ItemAt(held, p) # del.item
Once ==
    ~doubled =>
        /\ Listing(cfg, dirs) /\ Chosen(cfg, dirs, activeEnv) /\ InSync(dirs, cols, disk)
        /\ EachOnce(disk) /\ Gone(disk, deleted)

Good == Typed /\ Once

-----------------------------------------------------------------------------
(* Lists.                                                                   *)

(* The first position of an element that a list contains.                   *)
LEMMA FirstInProperties ==
    ASSUME NEW S, NEW s \in Seq(S), NEW e, Contains(s, e)
    PROVE  FirstIn(s, e) \in 1 .. Len(s) /\ s[FirstIn(s, e)] = e
<1> DEFINE I == {i \in 1 .. Len(s) : s[i] = e}
<1>1. I # {}
    BY DEF Contains
<1>2. I \in SUBSET Nat
    BY LenProperties
<1>3. \E x \in I : \A y \in I : x <= y
    BY <1>1, <1>2, LeastNat
<1>4. FirstIn(s, e) = Min(I)
    BY <1>1 DEF FirstIn, SelectInSeq
<1>5. Min(I) \in I
    BY <1>3 DEF Min
<1>6. QED
    BY <1>4, <1>5

(* A part of a list without anything twice is without that, too.            *)
LEMMA PartIsDistinct ==
    ASSUME NEW s \in Seq(Dirs), NEW t \in Seq(Dirs), InOrderOf(s, t)
    PROVE  Distinct(s)
<1>1. SUFFICES ASSUME NEW i \in DOMAIN s, NEW j \in DOMAIN s, s[i] = s[j] PROVE i = j
    BY DEF Distinct
<1>2. s[i] \in ToSet(t)
    BY DEF InOrderOf, ToSet
<1>3. PICK k \in DOMAIN t : s[i] = t[k]
    BY <1>2 DEF ToSet
<1>4. (i < j <=> k < k) /\ (j < i <=> k < k)
    BY <1>1, <1>3 DEF InOrderOf
<1>5. i \in Int /\ j \in Int /\ k \in Int
    BY LenProperties
<1>6. k < k <=> FALSE
    OBVIOUS
<1>7. QED
    BY <1>4, <1>5, <1>6

(* What is picked of a list without anything twice is in its order.         *)
LEMMA PickInOrder ==
    ASSUME NEW s \in Seq(Dirs), Distinct(s), NEW at \in SUBSET DOMAIN s
    PROVE  InOrderOf(Pick(s, at), s)
<1> DEFINE b == Pick(s, at)
<1>1. Len(s) \in Nat /\ DOMAIN s = 1 .. Len(s)
    BY LenProperties
<1>2. at \in SUBSET (1 .. Len(s)) /\ at \in SUBSET Int
    BY <1>1
<1>3. b \in Seq(Dirs) /\ \E p : Along(b, s, p, at)
    BY <1>2, PickProperties
<1> HIDE DEF b
<1>4. PICK p : Along(b, s, p, at)
    BY <1>3
<1>5. DOMAIN b = 1 .. Len(b) /\ Len(b) \in Nat
    BY <1>3, LenProperties
<1>6. Way(Len(b), p, at) /\ \A k \in 1 .. Len(b) : b[k] = s[p[k]]
    BY <1>4 DEF Along
<1>7. \A k \in DOMAIN b : p[k] \in DOMAIN s /\ b[k] = s[p[k]]
    BY <1>5, <1>6 DEF Way
<1>8. \A k, l \in DOMAIN b : (p[k] < p[l] => k < l)
    <2>1. Ordered(Len(b), p)
        BY <1>2, <1>5, <1>6, WayBack
    <2>2. QED
        BY <2>1, <1>5 DEF Ordered
<1>9. \A k, l \in DOMAIN b : k < l => p[k] < p[l]
    BY <1>5, <1>6 DEF Way
<1>10. ToSet(b) \subseteq ToSet(s)
    BY <1>7 DEF ToSet
<1>11. ASSUME NEW i \in DOMAIN b, NEW j \in DOMAIN b, NEW k \in DOMAIN s, NEW l \in DOMAIN s,
              b[i] = s[k], b[j] = s[l]
       PROVE  i < j <=> k < l
    <2>1. p[i] = k /\ p[j] = l
        BY <1>7, <1>11 DEF Distinct
    <2>2. QED
        BY <2>1, <1>8, <1>9
<1>12. QED
    BY <1>10, <1>11 DEF InOrderOf, b

-----------------------------------------------------------------------------
(* The config.                                                              *)

(* The list of the active workspace.                                        *)
LEMMA ListGood ==
    ASSUME NEW c, ConfigGood(c)
    PROVE  /\ List(c) \in Seq(Dirs) /\ Len(List(c)) \in Nat /\ Len(List(c)) <= MaxColls
           /\ DOMAIN List(c) = 1 .. Len(List(c))
<1>1. c.workspaces[c.active] \in Workspace
    <2>1. c.workspaces \in Seq(Workspace) /\ c.active \in DOMAIN c.workspaces
        BY DEF ConfigGood
    <2>2. QED
        BY <2>1, LenProperties, ElementOfSeq
<1>2. List(c) \in Seq(Dirs)
    BY <1>1 DEF List, Workspace
<1>3. Len(List(c)) <= MaxColls
    BY DEF ConfigGood, List
<1>4. QED
    BY <1>2, <1>3, LenProperties

(* The workspaces, when one of them has another list.                       *)
LEMMA SetList ==
    ASSUME NEW ws \in Seq(Workspace), NEW a \in DOMAIN ws, NEW l \in Seq(Dirs)
    PROVE  /\ [ws EXCEPT ![a].list = l] \in Seq(Workspace)
           /\ DOMAIN [ws EXCEPT ![a].list = l] = DOMAIN ws
           /\ [ws EXCEPT ![a].list = l][a].list = l
           /\ \A w \in DOMAIN ws : w # a => [ws EXCEPT ![a].list = l][w] = ws[w]
<1> DEFINE e == [ws[a] EXCEPT !.list = l]
<1>1. DOMAIN ws = 1 .. Len(ws) /\ ws[a] \in Workspace
    BY LenProperties, ElementOfSeq
<1>2. e \in Workspace /\ e.list = l
    BY <1>1 DEF Workspace
<1>3. [ws EXCEPT ![a].list = l] = [ws EXCEPT ![a] = e]
    OBVIOUS
<1> HIDE DEF e
<1>4. /\ [ws EXCEPT ![a] = e] \in Seq(Workspace)
      /\ \A w \in 1 .. Len(ws) : [ws EXCEPT ![a] = e][w] = IF w = a THEN e ELSE ws[w]
    BY <1>1, <1>2, ExceptSeq
<1>5. DOMAIN [ws EXCEPT ![a] = e] = DOMAIN ws
    OBVIOUS
<1>6. QED
    BY <1>1, <1>2, <1>3, <1>4, <1>5

-----------------------------------------------------------------------------
(* A load.                                                                  *)
LEMMA ReloadLoads ==
    ASSUME ConfigGood(cfg'), disk' \in [Dirs -> Collection], Reload
    PROVE  /\ LoadedGood(cfg', dirs', cols', activeCol', activeEnv')
           /\ Chosen(cfg', dirs', activeEnv') /\ InSync(dirs', cols', disk')
           /\ (\A w \in DOMAIN cfg'.workspaces : Distinct(cfg'.workspaces[w].list))
                => Listing(cfg', dirs')
           /\ \A i \in 1 .. MaxColls : i <= Len(dirs') => activeEnv'[i] = cfg'.env[dirs'[i]]
<1> DEFINE L == List(cfg')
           at == {i \in DOMAIN L : L[i] \notin broken'}
<1>1. L \in Seq(Dirs) /\ Len(L) \in Nat /\ Len(L) <= MaxColls /\ DOMAIN L = 1 .. Len(L)
    BY ListGood
<1>2. dirs' = Pick(L, at)
    BY DEF Reload
<1>3. at \in SUBSET (1 .. Len(L)) /\ at \in SUBSET DOMAIN L
    BY <1>1
<1> HIDE DEF at
<1>4. dirs' \in Seq(Dirs) /\ Len(dirs') <= Len(L)
    BY <1>1, <1>2, <1>3, PickProperties, PickShorter
<1>5. Len(dirs') \in Nat /\ DOMAIN dirs' = 1 .. Len(dirs')
    BY <1>4, LenProperties
<1>6. \A i \in DOMAIN dirs' : dirs'[i] \in Dirs
    BY <1>4, <1>5, ElementOfSeq
<1>7. cols' \in Seq(Collection) /\ Len(cols') = Len(dirs')
    <2>1. cols' \in [1 .. Len(dirs') -> Collection]
        BY <1>5, <1>6 DEF Reload
    <2>2. QED
        BY <2>1, <1>5, FunctionIsSeq
<1>8. dirs' = <<>> <=> Len(dirs') = 0
    BY <1>4, EmptySeq, LenProperties
<1>9. activeCol' \in 0 .. Len(dirs') /\ (dirs' = <<>> <=> activeCol' = 0)
      /\ (Contains(dirs', cfg'.col) => dirs'[activeCol'] = cfg'.col)
    <2>1. activeCol' = IF dirs' = <<>> THEN 0
                       ELSE IF Contains(dirs', cfg'.col) THEN FirstIn(dirs', cfg'.col) ELSE 1
        BY DEF Reload
    <2>2. CASE dirs' = <<>>
        BY <2>1, <2>2, <1>5, <1>8 DEF Contains
    <2>3. CASE dirs' # <<>> /\ Contains(dirs', cfg'.col)
        <3>1. activeCol' \in 1 .. Len(dirs') /\ dirs'[activeCol'] = cfg'.col
            BY <2>1, <2>3, <1>4, FirstInProperties
        <3>2. QED
            BY <3>1, <2>3, <1>5
    <2>4. CASE dirs' # <<>> /\ ~Contains(dirs', cfg'.col)
        BY <2>1, <2>4, <1>5, <1>8
    <2>5. QED
        BY <2>2, <2>3, <2>4
<1>10. activeEnv' = [i \in 1 .. MaxColls |->
                        IF i <= Len(dirs') THEN cfg'.env[dirs'[i]] ELSE NoEnv]
    BY DEF Reload
<1>11. cfg'.env \in [Dirs -> Envs \cup {NoEnv}] /\ MaxColls \in Nat
    BY SessionAssumption DEF ConfigGood
<1>12. \A i \in 1 .. MaxColls : i <= Len(dirs') => dirs'[i] \in Dirs
    BY <1>5, <1>6, <1>11
<1>13. activeEnv' \in [1 .. MaxColls -> Envs \cup {NoEnv}]
    BY <1>10, <1>11, <1>12
<1>14. LoadedGood(cfg', dirs', cols', activeCol', activeEnv')
    BY <1>4, <1>7, <1>9, <1>13 DEF LoadedGood
<1>15. Chosen(cfg', dirs', activeEnv')
    BY <1>10 DEF Chosen
<1>16. InSync(dirs', cols', disk')
    BY DEF Reload, InSync
<1>17. ASSUME \A w \in DOMAIN cfg'.workspaces : Distinct(cfg'.workspaces[w].list)
       PROVE  Listing(cfg', dirs')
    <2>1. Distinct(L)
        BY <1>17 DEF List, ConfigGood
    <2>2. QED
        BY <1>1, <1>2, <1>3, <1>17, <2>1, PickInOrder DEF Listing
<1>18. QED
    BY <1>10, <1>14, <1>15, <1>16, <1>17

-----------------------------------------------------------------------------
(* What the steps have in common.                                           *)

(* Another collection is named the active one.                              *)
LEMMA NameCol ==
    ASSUME NEW c, ConfigGood(c), NEW d \in Dirs \cup {NoDir}
    PROVE  LET e == [c EXCEPT !.col = d] IN
           /\ ConfigGood(e) /\ e.col = d
           /\ e.workspaces = c.workspaces /\ e.active = c.active /\ e.env = c.env
<1> DEFINE e == [c EXCEPT !.col = d]
<1>1. /\ DOMAIN e = ConfigFields /\ e.col = d
      /\ e.workspaces = c.workspaces /\ e.active = c.active /\ e.env = c.env
    BY DEF ConfigGood, ConfigFields
<1> HIDE DEF e
<1>2. ConfigGood(e)
    BY <1>1 DEF ConfigGood
<1>3. QED
    BY <1>1, <1>2 DEF e

(* Another environment is chosen for a directory.                           *)
LEMMA NameEnv ==
    ASSUME NEW c, ConfigGood(c), NEW d \in Dirs, NEW n \in Envs \cup {NoEnv}
    PROVE  LET e == [c EXCEPT !.env[d] = n] IN
           /\ ConfigGood(e) /\ e.col = c.col
           /\ e.workspaces = c.workspaces /\ e.active = c.active
           /\ e.env = [c.env EXCEPT ![d] = n]
<1> DEFINE e == [c EXCEPT !.env[d] = n]
<1>1. /\ DOMAIN e = ConfigFields /\ e.col = c.col
      /\ e.workspaces = c.workspaces /\ e.active = c.active
      /\ e.env = [c.env EXCEPT ![d] = n]
    BY DEF ConfigGood, ConfigFields
<1> HIDE DEF e
<1>2. e.env \in [Dirs -> Envs \cup {NoEnv}]
    BY <1>1 DEF ConfigGood
<1>3. ConfigGood(e)
    BY <1>1, <1>2 DEF ConfigGood
<1>4. QED
    BY <1>1, <1>3 DEF e

(* What is loaded, as lists.                                                *)
LEMMA Positions ==
    ASSUME Typed
    PROVE  /\ Len(dirs) \in Nat /\ Len(dirs) <= MaxColls /\ MaxColls \in Nat
           /\ DOMAIN dirs = 1 .. Len(dirs) /\ DOMAIN cols = 1 .. Len(dirs)
           /\ \A i \in DOMAIN dirs : dirs[i] \in Dirs
           /\ \A i \in DOMAIN dirs : cols[i] \in Collection
<1>1. dirs \in Seq(Dirs) /\ cols \in Seq(Collection) /\ Len(cols) = Len(dirs)
      /\ Len(dirs) <= Len(List(cfg))
    BY DEF Typed, LoadedGood
<1>2. Len(dirs) \in Nat /\ DOMAIN dirs = 1 .. Len(dirs) /\ DOMAIN cols = 1 .. Len(dirs)
    BY <1>1, LenProperties
<1>3. Len(List(cfg)) \in Nat /\ Len(List(cfg)) <= MaxColls
    BY ListGood DEF Typed
<1>4. /\ \A i \in DOMAIN dirs : dirs[i] \in Dirs
      /\ \A i \in DOMAIN dirs : cols[i] \in Collection
    BY <1>1, <1>2, ElementOfSeq
<1>5. MaxColls \in Nat
    BY SessionAssumption
<1>6. QED
    BY <1>1, <1>2, <1>3, <1>4, <1>5

(* The position of the active collection, when there is one.                *)
LEMMA ActiveIsLoaded ==
    ASSUME Typed, activeCol # 0
    PROVE  activeCol \in DOMAIN dirs
BY Positions DEF Typed, LoadedGood

(* No directory is loaded twice.                                            *)
LEMMA LoadedOnce ==
    ASSUME Good, ~doubled
    PROVE  Distinct(dirs) /\ Distinct(List(cfg)) /\ Listing(cfg, dirs)
<1>1. Listing(cfg, dirs)
    BY DEF Good, Once
<1>2. List(cfg) \in Seq(Dirs) /\ dirs \in Seq(Dirs)
    BY ListGood DEF Good, Typed, LoadedGood
<1>3. Distinct(dirs)
    BY <1>1, <1>2, PartIsDistinct DEF Listing
<1>4. Distinct(List(cfg))
    BY <1>1 DEF Listing, List, Good, Typed, ConfigGood
<1>5. QED
    BY <1>1, <1>3, <1>4

(* The invariant, from its parts in the next state.                         *)
LEMMA GoodNext ==
    ASSUME ConfigGood(cfg'), LoadedGood(cfg', dirs', cols', activeCol', activeEnv'),
           DeletedGood(deleted'), disk' \in [Dirs -> Collection], broken' \subseteq Dirs,
           saveFailed' \in BOOLEAN, doubled' \in BOOLEAN,
           ~doubled' =>
               /\ Listing(cfg', dirs') /\ Chosen(cfg', dirs', activeEnv')
               /\ InSync(dirs', cols', disk') /\ EachOnce(disk') /\ Gone(disk', deleted')
    PROVE  Good'
BY DEF Good, Typed, Once

(* A step that saves nothing and loads everything again.                    *)
LEMMA ReloadStep ==
    ASSUME Good, ConfigGood(cfg'), Reload, Saved, UNCHANGED doubled,
           deleted' = deleted \/ deleted' = NoDeleted,
           ~doubled =>
               \A w \in DOMAIN cfg'.workspaces : Distinct(cfg'.workspaces[w].list)
    PROVE  Good'
<1>1. disk' \in [Dirs -> Collection] /\ broken' \subseteq Dirs /\ saveFailed' \in BOOLEAN
      /\ doubled' \in BOOLEAN /\ disk' = disk /\ DeletedGood(deleted')
    BY DEF Good, Typed, Saved, DeletedGood
<1>2. /\ LoadedGood(cfg', dirs', cols', activeCol', activeEnv')
      /\ Chosen(cfg', dirs', activeEnv') /\ InSync(dirs', cols', disk')
      /\ ~doubled => Listing(cfg', dirs')
    BY <1>1, ReloadLoads
<1>3. ~doubled => EachOnce(disk') /\ Gone(disk', deleted')
    BY <1>1 DEF Good, Once, Gone
<1>4. QED
    BY <1>1, <1>2, <1>3, GoodNext

(* A save of the i-th of the changed collections: what has to be shown of   *)
(* the change.                                                              *)
SameStructure(c, d) == c.envs = d.envs /\ c.items = d.items
(* A save keeps the invariant when the collections it writes are good and   *)
(* the items are still each in one place, whether it succeeds or reloads    *)
(* after a failure.                                                         *)
LEMMA PersistStep ==
    ASSUME Good, NEW i \in DOMAIN dirs, NEW changed, NEW col, NEW env,
           ConfigGood(cfg'), cfg'.workspaces = cfg.workspaces, cfg'.active = cfg.active,
           LoadedGood(cfg', dirs, changed, col, env),
           Persist(i, changed, col, env),
           DeletedGood(deleted'), UNCHANGED doubled,
           ~doubled =>
               /\ Chosen(cfg', dirs, env)
               /\ \A k \in DOMAIN dirs : k # i => SameStructure(changed[k], cols[k]),
           ~doubled /\ disk' = [disk EXCEPT ![dirs[i]] = changed[i]] /\ ~saveFailed' =>
               EachOnce(disk') /\ Gone(disk', deleted'),
           ~doubled /\ disk' = disk /\ saveFailed' => Gone(disk, deleted')
    PROVE  Good'
<1>1. /\ disk \in [Dirs -> Collection] /\ broken \subseteq Dirs /\ doubled' \in BOOLEAN
      /\ doubled' = doubled /\ DOMAIN dirs = 1 .. Len(dirs) /\ dirs[i] \in Dirs
    BY Positions DEF Good, Typed
<1>2. List(cfg') = List(cfg)
    BY DEF List
<1>3. CASE /\ disk' = [disk EXCEPT ![dirs[i]] = changed[i]]
           /\ cols' = changed /\ activeCol' = col /\ activeEnv' = env
           /\ saveFailed' = FALSE
           /\ UNCHANGED <<dirs, broken>>
    <2>1. changed[i] \in Collection
        BY <1>1, ElementOfSeq DEF LoadedGood
    <2>2. disk' \in [Dirs -> Collection]
        BY <1>1, <1>3, <2>1
    <2>3. LoadedGood(cfg', dirs', cols', activeCol', activeEnv')
        BY <1>3
    <2>4. ASSUME ~doubled PROVE InSync(dirs', cols', disk')
        <3>1. Distinct(dirs) /\ InSync(dirs, cols, disk)
            BY <2>4, LoadedOnce DEF Good, Once
        <3>2. SUFFICES ASSUME NEW k \in DOMAIN dirs
                       PROVE  SameStructure(changed[k], disk'[dirs[k]])
            BY <1>3 DEF InSync, SameStructure
        <3>3. CASE k = i
            BY <1>1, <1>3, <3>3 DEF SameStructure
        <3>4. CASE k # i
            <4>1. dirs[k] # dirs[i]
                BY <3>1, <3>4 DEF Distinct
            <4>2. disk'[dirs[k]] = disk[dirs[k]]
                BY <4>1, <1>1, <1>3
            <4>3. QED
                BY <2>4, <3>1, <3>4, <4>2 DEF SameStructure, InSync
        <3>5. QED
            BY <3>3, <3>4
    <2>5. ~doubled => Listing(cfg', dirs') /\ Chosen(cfg', dirs', activeEnv')
        BY <1>2, <1>3, LoadedOnce DEF Listing
    <2>6. ~doubled => EachOnce(disk') /\ Gone(disk', deleted')
        BY <1>3
    <2>7. broken' \subseteq Dirs /\ saveFailed' \in BOOLEAN
        BY <1>1, <1>3
    <2>8. QED
        BY <1>1, <2>2, <2>3, <2>4, <2>5, <2>6, <2>7, GoodNext
<1>4. CASE /\ saveFailed' = TRUE
           /\ broken' \in {broken, broken \cup {dirs[i]}}
           /\ UNCHANGED disk
           /\ Reload
    <2>1. disk' \in [Dirs -> Collection] /\ broken' \subseteq Dirs /\ saveFailed' \in BOOLEAN
        BY <1>1, <1>4
    <2>2. ~doubled =>
              \A w \in DOMAIN cfg'.workspaces : Distinct(cfg'.workspaces[w].list)
        BY LoadedOnce DEF Listing
    <2>3. /\ LoadedGood(cfg', dirs', cols', activeCol', activeEnv')
          /\ Chosen(cfg', dirs', activeEnv') /\ InSync(dirs', cols', disk')
          /\ ~doubled => Listing(cfg', dirs')
        BY <1>4, <2>1, <2>2, ReloadLoads
    <2>4. ~doubled => EachOnce(disk') /\ Gone(disk', deleted')
        BY <1>4 DEF Good, Once
    <2>5. QED
        BY <1>1, <2>1, <2>3, <2>4, GoodNext
<1>5. QED
    BY <1>3, <1>4 DEF Persist

-----------------------------------------------------------------------------
(* The first start.                                                         *)
LEMMA InitGood ==
    ASSUME Init PROVE Good
<1>1. PICK n \in Names :
        cfg = [workspaces |-> <<[name |-> n, list |-> <<>>]>>, active |-> 1,
               col |-> NoDir, env |-> [d \in Dirs |-> NoEnv]]
    BY DEF Init
<1> DEFINE ws == <<[name |-> n, list |-> <<>>]>>
<1>2. [name |-> n, list |-> <<>>] \in Workspace
    BY DEF Workspace
<1>3. ws \in Seq(Workspace) /\ DOMAIN ws = {1} /\ ws[1].list = <<>>
    BY <1>2
<1>4. MaxColls \in Nat
    BY SessionAssumption
<1>5. /\ DOMAIN cfg = ConfigFields /\ cfg.workspaces = ws /\ cfg.active = 1
      /\ cfg.col = NoDir /\ cfg.env = [d \in Dirs |-> NoEnv]
    BY <1>1 DEF ConfigFields
<1> HIDE DEF ws
<1>6. Len(<<>>) = 0
    OBVIOUS
<1>7. ConfigGood(cfg)
    BY <1>3, <1>4, <1>5, <1>6 DEF ConfigGood
<1>8. List(cfg) = <<>>
    BY <1>3, <1>5 DEF List
<1>9. LoadedGood(cfg, dirs, cols, activeCol, activeEnv)
    <2>1. /\ dirs = <<>> /\ cols = <<>> /\ activeCol = 0
          /\ activeEnv = [i \in 1 .. MaxColls |-> NoEnv]
        BY DEF Init
    <2>2. dirs \in Seq(Dirs) /\ cols \in Seq(Collection) /\ ~Contains(dirs, cfg.col)
        BY <2>1 DEF Contains
    <2>3. activeEnv \in [1 .. MaxColls -> Envs \cup {NoEnv}]
        BY <2>1
    <2>4. QED
        BY <1>6, <1>8, <2>1, <2>2, <2>3 DEF LoadedGood
<1>10. disk \in Disks /\ Disks \subseteq [Dirs -> Collection] /\ EachOnce(disk)
    BY SessionAssumption DEF Init
<1>11. Typed
    BY <1>7, <1>9, <1>10 DEF Init, Typed, DeletedGood
<1>12. Listing(cfg, dirs)
    BY <1>3, <1>5, <1>8 DEF Listing, InOrderOf, Distinct, ToSet, Init
<1>13. Chosen(cfg, dirs, activeEnv) /\ InSync(dirs, cols, disk)
    BY DEF Chosen, InSync, Init
<1>14. Gone(disk, deleted)
    BY DEF Gone, Init
<1>15. QED
    BY <1>10, <1>11, <1>12, <1>13, <1>14 DEF Good, Once

(* A restart reads everything back from the config and the disk.            *)
LEMMA RestartGood ==
    ASSUME Good, Restart PROVE Good'
<1>1. ConfigGood(cfg')
    BY DEF Good, Typed, Restart
<1>2. ~doubled => \A w \in DOMAIN cfg'.workspaces : Distinct(cfg'.workspaces[w].list)
    BY LoadedOnce DEF Listing, Restart
<1>3. QED
    BY <1>1, <1>2, ReloadStep DEF Restart

(* A mended directory shows after the next reload only.                     *)
LEMMA MendGood ==
    ASSUME Good, NEW d \in Dirs, Mend(d) PROVE Good'
<1>1. broken' \subseteq Dirs
    BY DEF Mend, Good, Typed
<1>2. QED
    BY <1>1 DEF Mend, Good, Typed, Once, loaded

(* Another workspace is read as at a start.                                 *)
LEMMA SetActiveGood ==
    ASSUME Good, NEW w \in DOMAIN cfg.workspaces, SetActive(w) PROVE Good'
<1>1. ConfigGood(cfg)
    BY DEF Good, Typed
<1>2. /\ DOMAIN cfg' = ConfigFields /\ cfg'.active = w
      /\ cfg'.workspaces = cfg.workspaces /\ cfg'.col = cfg.col /\ cfg'.env = cfg.env
    BY <1>1 DEF SetActive, ConfigGood, ConfigFields
<1>3. ConfigGood(cfg')
    BY <1>1, <1>2 DEF ConfigGood
<1>4. ~doubled => \A v \in DOMAIN cfg'.workspaces : Distinct(cfg'.workspaces[v].list)
    BY <1>2, LoadedOnce DEF Listing
<1>5. QED
    BY <1>3, <1>4, ReloadStep DEF SetActive, Quiet

(* The workspace that becomes active is one that is left.                   *)
LEMMA DeleteWorkspaceGood ==
    ASSUME Good, NEW w \in DOMAIN cfg.workspaces, DeleteWorkspace(w) PROVE Good'
<1> DEFINE ws == cfg.workspaces
           a == IF cfg.active > Len(ws) - 1 THEN cfg.active - 1 ELSE cfg.active
<1>1. ConfigGood(cfg) /\ ws \in Seq(Workspace) /\ cfg.active \in DOMAIN ws
    BY DEF Good, Typed, ConfigGood
<1>2. Len(ws) \in Nat /\ DOMAIN ws = 1 .. Len(ws) /\ Len(ws) > 1
      /\ w \in 1 .. Len(ws)
    BY <1>1, LenProperties DEF DeleteWorkspace
<1>3. /\ DOMAIN cfg' = ConfigFields /\ cfg'.active = a
      /\ cfg'.workspaces = RemoveAt(ws, w) /\ cfg'.col = cfg.col /\ cfg'.env = cfg.env
    BY <1>1 DEF DeleteWorkspace, ConfigGood, ConfigFields
<1> HIDE DEF ws, a
<1>4. /\ RemoveAt(ws, w) \in Seq(Workspace) /\ Len(RemoveAt(ws, w)) = Len(ws) - 1
      /\ \A k \in 1 .. Len(ws) - 1 : RemoveAt(ws, w)[k] = IF k < w THEN ws[k] ELSE ws[k + 1]
    BY <1>1, <1>2, RemoveAtProperties
<1>5. DOMAIN RemoveAt(ws, w) = 1 .. Len(ws) - 1
    BY <1>2, <1>4, LenProperties
<1>6. ASSUME NEW k \in DOMAIN RemoveAt(ws, w)
      PROVE  \E l \in DOMAIN ws : RemoveAt(ws, w)[k] = ws[l]
    BY <1>2, <1>4, <1>5
<1>7. a \in DOMAIN RemoveAt(ws, w)
    BY <1>1, <1>2, <1>5 DEF a, ws
<1>8. ConfigGood(cfg')
    BY <1>1, <1>3, <1>4, <1>6, <1>7 DEF ConfigGood, ws
<1>9. ~doubled => \A v \in DOMAIN cfg'.workspaces : Distinct(cfg'.workspaces[v].list)
    BY <1>3, <1>6, LoadedOnce DEF Listing, ws
<1>10. QED
    BY <1>8, <1>9, ReloadStep DEF DeleteWorkspace, Quiet

(* A list with one more at its end.                                         *)
LEMMA Appended ==
    ASSUME NEW S, NEW s \in Seq(S), NEW e \in S
    PROVE  /\ Append(s, e) \in Seq(S) /\ Len(Append(s, e)) = Len(s) + 1
           /\ DOMAIN Append(s, e) = 1 .. Len(s) + 1
           /\ \A k \in 1 .. Len(s) : Append(s, e)[k] = s[k]
           /\ Append(s, e)[Len(s) + 1] = e
<1>1. Append(s, e) \in Seq(S) /\ Len(Append(s, e)) = Len(s) + 1
    BY AppendProperties
<1>2. DOMAIN Append(s, e) = 1 .. Len(s) + 1
    BY <1>1, LenProperties
<1>3. QED
    BY <1>1, <1>2, AppendProperties

(* A workspace is added behind the others, and its list is empty.           *)
LEMMA AddWorkspaceGood ==
    ASSUME Good, NEW n \in Names, AddWorkspace(n) PROVE Good'
<1> DEFINE ws == cfg.workspaces
           e == [name |-> n, list |-> <<>>]
<1>1. ConfigGood(cfg) /\ ws \in Seq(Workspace) /\ cfg.active \in DOMAIN ws
    BY DEF Good, Typed, ConfigGood
<1>2. Len(ws) \in Nat /\ DOMAIN ws = 1 .. Len(ws)
    BY <1>1, LenProperties
<1>3. /\ DOMAIN cfg' = ConfigFields /\ cfg'.active = cfg.active
      /\ cfg'.workspaces = Append(ws, e) /\ cfg'.col = cfg.col /\ cfg'.env = cfg.env
    BY <1>1 DEF AddWorkspace, ConfigGood, ConfigFields
<1>4. e \in Workspace /\ e.list = <<>>
    BY DEF Workspace
<1> HIDE DEF ws, e
<1>5. /\ Append(ws, e) \in Seq(Workspace) /\ DOMAIN Append(ws, e) = 1 .. Len(ws) + 1
      /\ \A k \in 1 .. Len(ws) : Append(ws, e)[k] = ws[k]
      /\ Append(ws, e)[Len(ws) + 1] = e
    BY <1>1, <1>4, Appended
<1>6. ASSUME NEW v \in DOMAIN Append(ws, e)
      PROVE  (v \in DOMAIN ws /\ Append(ws, e)[v] = ws[v]) \/ Append(ws, e)[v] = e
    BY <1>2, <1>5
<1>7. Len(<<>>) <= MaxColls
    BY SessionAssumption
<1>8. cfg.active \in DOMAIN Append(ws, e) /\ Append(ws, e)[cfg.active] = ws[cfg.active]
    BY <1>1, <1>2, <1>5
<1>9. ConfigGood(cfg')
    BY <1>1, <1>3, <1>4, <1>5, <1>6, <1>7, <1>8 DEF ConfigGood, ws
<1>10. List(cfg') = List(cfg)
    BY <1>3, <1>8 DEF List, ws
<1>11. LoadedGood(cfg', dirs', cols', activeCol', activeEnv')
    BY <1>3, <1>10 DEF AddWorkspace, loaded, LoadedGood, Good, Typed
<1>12. Distinct(<<>>)
    BY DEF Distinct
<1>13. ASSUME ~doubled
       PROVE  /\ Listing(cfg', dirs') /\ Chosen(cfg', dirs', activeEnv')
              /\ InSync(dirs', cols', disk') /\ EachOnce(disk') /\ Gone(disk', deleted')
    <2>1. \A v \in DOMAIN cfg'.workspaces : Distinct(cfg'.workspaces[v].list)
        BY <1>3, <1>4, <1>6, <1>12, <1>13, LoadedOnce DEF Listing, ws
    <2>2. Listing(cfg', dirs')
        BY <1>10, <1>13, <2>1, LoadedOnce DEF Listing, AddWorkspace, loaded
    <2>3. QED
        BY <1>3, <1>13, <2>2 DEF Good, Once, Chosen, AddWorkspace, loaded, Quiet, Saved
<1>14. QED
    BY <1>9, <1>11, <1>13, GoodNext DEF Good, Typed, AddWorkspace, Quiet, Saved

(* A name changes, and no list does.                                        *)
LEMMA RenameWorkspaceGood ==
    ASSUME Good, NEW w \in DOMAIN cfg.workspaces, NEW n \in Names, RenameWorkspace(w, n)
    PROVE  Good'
<1> DEFINE ws == cfg.workspaces
           e == [ws[w] EXCEPT !.name = n]
<1>1. ConfigGood(cfg) /\ ws \in Seq(Workspace) /\ cfg.active \in DOMAIN ws
    BY DEF Good, Typed, ConfigGood
<1>2. Len(ws) \in Nat /\ DOMAIN ws = 1 .. Len(ws) /\ w \in DOMAIN ws
    BY <1>1, LenProperties
<1>3. /\ DOMAIN cfg' = ConfigFields /\ cfg'.active = cfg.active
      /\ cfg'.workspaces = [ws EXCEPT ![w].name = n] /\ cfg'.col = cfg.col
      /\ cfg'.env = cfg.env
    BY <1>1 DEF RenameWorkspace, ConfigGood, ConfigFields
<1>4. [ws EXCEPT ![w].name = n] = [ws EXCEPT ![w] = e]
    OBVIOUS
<1>5. ws[w] \in Workspace
    BY <1>1, <1>2, ElementOfSeq
<1>6. e \in Workspace /\ e.list = ws[w].list
    BY <1>5 DEF Workspace
<1>7. DOMAIN [ws EXCEPT ![w] = e] = DOMAIN ws
    OBVIOUS
<1> HIDE DEF ws, e
<1>8. /\ [ws EXCEPT ![w] = e] \in Seq(Workspace)
      /\ \A v \in 1 .. Len(ws) : [ws EXCEPT ![w] = e][v] = IF v = w THEN e ELSE ws[v]
    BY <1>1, <1>2, <1>6, ExceptSeq
<1>9. \A v \in DOMAIN ws : [ws EXCEPT ![w] = e][v].list = ws[v].list
    BY <1>2, <1>6, <1>8
<1>10. ConfigGood(cfg')
    BY <1>1, <1>3, <1>4, <1>7, <1>8, <1>9 DEF ConfigGood, ws
<1>11. List(cfg') = List(cfg)
    BY <1>1, <1>3, <1>4, <1>9 DEF List, ws
<1>12. LoadedGood(cfg', dirs', cols', activeCol', activeEnv')
    BY <1>3, <1>11 DEF RenameWorkspace, loaded, LoadedGood, Good, Typed
<1>13. ASSUME ~doubled
       PROVE  /\ Listing(cfg', dirs') /\ Chosen(cfg', dirs', activeEnv')
              /\ InSync(dirs', cols', disk') /\ EachOnce(disk') /\ Gone(disk', deleted')
    <2>1. \A v \in DOMAIN cfg'.workspaces : Distinct(cfg'.workspaces[v].list)
        BY <1>3, <1>4, <1>7, <1>9, <1>13, LoadedOnce DEF Listing, ws
    <2>2. Listing(cfg', dirs')
        BY <1>11, <1>13, <2>1, LoadedOnce DEF Listing, RenameWorkspace, loaded
    <2>3. QED
        BY <1>3, <1>13, <2>2 DEF Good, Once, Chosen, RenameWorkspace, loaded, Quiet, Saved
<1>14. QED
    BY <1>10, <1>12, <1>13, GoodNext DEF Good, Typed, RenameWorkspace, Quiet, Saved

(* A list whose element at one position is another.                         *)
LEMMA ReplacedIn ==
    ASSUME NEW S, NEW s \in Seq(S), NEW i \in DOMAIN s, NEW e \in S
    PROVE  /\ [s EXCEPT ![i] = e] \in Seq(S) /\ Len([s EXCEPT ![i] = e]) = Len(s)
           /\ \A k \in DOMAIN s : [s EXCEPT ![i] = e][k] = IF k = i THEN e ELSE s[k]
<1>1. DOMAIN s = 1 .. Len(s)
    BY LenProperties
<1>2. QED
    BY <1>1, ExceptSeq

(* The active collection is saved by its directory.                         *)
LEMMA SetActiveCollectionGood ==
    ASSUME Good, NEW i \in DOMAIN dirs, SetActiveCollection(i) PROVE Good'
<1>1. dirs[i] \in Dirs /\ i \in 1 .. Len(dirs) /\ Len(dirs) \in Nat
    BY Positions DEF Good
<1>2. /\ ConfigGood(cfg') /\ cfg'.col = dirs[i] /\ cfg'.workspaces = cfg.workspaces
      /\ cfg'.active = cfg.active /\ cfg'.env = cfg.env
    BY <1>1, NameCol DEF Good, Typed, SetActiveCollection
<1>3. List(cfg') = List(cfg)
    BY <1>2 DEF List
<1>4. dirs # <<>>
    BY <1>1
<1>5. LoadedGood(cfg', dirs', cols', activeCol', activeEnv')
    BY <1>1, <1>2, <1>3, <1>4 DEF SetActiveCollection, LoadedGood, Good, Typed
<1>6. ASSUME ~doubled
      PROVE  /\ Listing(cfg', dirs') /\ Chosen(cfg', dirs', activeEnv')
             /\ InSync(dirs', cols', disk') /\ EachOnce(disk') /\ Gone(disk', deleted')
    <2>1. Listing(cfg', dirs')
        BY <1>2, <1>3, <1>6, LoadedOnce DEF Listing, SetActiveCollection
    <2>2. QED
        BY <1>2, <1>6, <2>1 DEF Good, Once, Chosen, SetActiveCollection, Quiet, Saved
<1>7. QED
    BY <1>2, <1>5, <1>6, GoodNext DEF Good, Typed, SetActiveCollection, Quiet, Saved

(* The environment chosen for the collection at a position, and for its     *)
(* directory.                                                               *)
LEMMA ChosenAt ==
    ASSUME Good, NEW i \in DOMAIN dirs, NEW n \in Envs \cup {NoEnv},
           cfg' = ChooseEnv(dirs[i], n)
    PROVE  /\ ConfigGood(cfg') /\ cfg'.workspaces = cfg.workspaces
           /\ cfg'.active = cfg.active /\ cfg'.col = cfg.col /\ List(cfg') = List(cfg)
           /\ [activeEnv EXCEPT ![i] = n] \in [1 .. MaxColls -> Envs \cup {NoEnv}]
           /\ ~doubled => Chosen(cfg', dirs, [activeEnv EXCEPT ![i] = n])
<1>1. /\ dirs[i] \in Dirs /\ i \in 1 .. MaxColls /\ DOMAIN dirs = 1 .. Len(dirs)
      /\ activeEnv \in [1 .. MaxColls -> Envs \cup {NoEnv}] /\ Len(dirs) \in Nat
      /\ \A k \in DOMAIN dirs : dirs[k] \in Dirs
    BY Positions DEF Good, Typed, LoadedGood
<1>2. /\ ConfigGood(cfg') /\ cfg'.workspaces = cfg.workspaces
      /\ cfg'.active = cfg.active /\ cfg'.col = cfg.col
      /\ cfg'.env = [cfg.env EXCEPT ![dirs[i]] = n]
    <2>1. cfg' = [cfg EXCEPT !.env[dirs[i]] = n] /\ ConfigGood(cfg)
        BY DEF Good, Typed, ChooseEnv
    <2>2. QED
        BY <1>1, <2>1, NameEnv
<1>3. cfg.env \in [Dirs -> Envs \cup {NoEnv}]
    BY DEF Good, Typed, ConfigGood
<1>4. ASSUME ~doubled, NEW k \in 1 .. MaxColls, [activeEnv EXCEPT ![i] = n][k] # NoEnv
      PROVE  k <= Len(dirs) /\ [activeEnv EXCEPT ![i] = n][k] = cfg'.env[dirs[k]]
    <2>1. CASE k = i
        BY <2>1, <1>1, <1>2, <1>3
    <2>2. CASE k # i
        <3>1. k <= Len(dirs) /\ [activeEnv EXCEPT ![i] = n][k] = cfg.env[dirs[k]]
            BY <1>1, <1>4, <2>2 DEF Good, Once, Chosen
        <3>2. k \in DOMAIN dirs
            BY <1>1, <3>1
        <3>3. dirs[k] # dirs[i]
            BY <1>4, <2>2, <3>2, LoadedOnce DEF Distinct
        <3>4. QED
            BY <1>1, <1>2, <1>3, <3>1, <3>2, <3>3
    <2>3. QED
        BY <2>1, <2>2
<1>5. QED
    BY <1>1, <1>2, <1>4 DEF Chosen, List

(* The choice and its copy in the config change together.                   *)
LEMMA SetActiveEnvGood ==
    ASSUME Good, NEW n \in Envs \cup {NoEnv}, SetActiveEnv(n) PROVE Good'
<1>1. activeCol \in DOMAIN dirs
    BY ActiveIsLoaded DEF Good, SetActiveEnv
<1>2. /\ ConfigGood(cfg') /\ cfg'.workspaces = cfg.workspaces
      /\ cfg'.active = cfg.active /\ cfg'.col = cfg.col /\ List(cfg') = List(cfg)
      /\ activeEnv' \in [1 .. MaxColls -> Envs \cup {NoEnv}]
      /\ ~doubled => Chosen(cfg', dirs, activeEnv')
    BY <1>1, ChosenAt DEF SetActiveEnv
<1>3. LoadedGood(cfg', dirs', cols', activeCol', activeEnv')
    BY <1>2 DEF SetActiveEnv, LoadedGood, Good, Typed
<1>4. ASSUME ~doubled
      PROVE  /\ Listing(cfg', dirs') /\ Chosen(cfg', dirs', activeEnv')
             /\ InSync(dirs', cols', disk') /\ EachOnce(disk') /\ Gone(disk', deleted')
    <2>1. Listing(cfg', dirs')
        BY <1>2, <1>4, LoadedOnce DEF Listing, SetActiveEnv
    <2>2. QED
        BY <1>2, <1>4, <2>1 DEF Good, Once, SetActiveEnv, Quiet, Saved
<1>5. QED
    BY <1>2, <1>3, <1>4, GoodNext DEF Good, Typed, SetActiveEnv, Quiet, Saved

(* A collection with another text.                                          *)
LEMMA Retexted ==
    ASSUME NEW c \in Collection, NEW t \in Texts
    PROVE  /\ [c EXCEPT !.text = t] \in Collection /\ SameStructure([c EXCEPT !.text = t], c)
           /\ [c EXCEPT !.text = t].text = t
BY DEF Collection, SameStructure

(* The loaded collections when one of them changes.                         *)
LEMMA ColsChanged ==
    ASSUME Good, NEW i \in DOMAIN dirs, NEW e \in Collection
    PROVE  /\ [cols EXCEPT ![i] = e] \in Seq(Collection)
           /\ Len([cols EXCEPT ![i] = e]) = Len(dirs)
           /\ \A k \in DOMAIN dirs : [cols EXCEPT ![i] = e][k] = IF k = i THEN e ELSE cols[k]
<1>1. cols \in Seq(Collection) /\ Len(cols) = Len(dirs) /\ DOMAIN cols = DOMAIN dirs
    BY Positions DEF Good, Typed, LoadedGood
<1>2. QED
    BY <1>1, ReplacedIn

(* An edit changes a text in memory, which nothing saved depends on.        *)
LEMMA EditGood ==
    ASSUME Good, NEW i \in DOMAIN cols, NEW t \in Texts, Edit(i, t) PROVE Good'
<1> DEFINE e == [cols[i] EXCEPT !.text = t]
<1>1. i \in DOMAIN dirs /\ cols[i] \in Collection
    BY Positions DEF Good
<1>2. e \in Collection /\ SameStructure(e, cols[i])
    BY <1>1, Retexted
<1>3. cols' = [cols EXCEPT ![i] = e]
    BY DEF Edit
<1> HIDE DEF e
<1>4. /\ cols' \in Seq(Collection) /\ Len(cols') = Len(dirs)
      /\ \A k \in DOMAIN dirs : cols'[k] = IF k = i THEN e ELSE cols[k]
    BY <1>1, <1>2, <1>3, ColsChanged
<1>5. LoadedGood(cfg', dirs', cols', activeCol', activeEnv')
    BY <1>4 DEF Edit, LoadedGood, Good, Typed
<1>6. ASSUME ~doubled PROVE InSync(dirs', cols', disk')
    BY <1>2, <1>4, <1>6 DEF Good, Once, InSync, SameStructure, Edit, Quiet, Saved
<1>7. QED
    BY <1>5, <1>6, GoodNext DEF Good, Typed, Once, Edit, Quiet, Saved

-----------------------------------------------------------------------------
(* The saves that change no item.                                           *)

(* Directories that hold the same items.                                    *)
LEMMA ItemsKept ==
    ASSUME NEW held, NEW other, NEW del, \A d \in Dirs : other[d].items = held[d].items
    PROVE  /\ EachOnce(held) => EachOnce(other)
           /\ Gone(held, del) => Gone(other, del)
<1>1. Places(other) = Places(held)
    BY DEF Places
<1>2. ASSUME NEW p \in Places(held) PROVE ItemAt(other, p) = ItemAt(held, p)
    <2>1. p[1] \in Dirs
        BY DEF Places
    <2>2. QED
        BY <2>1 DEF ItemAt
<1>3. QED
    BY <1>1, <1>2 DEF EachOnce, Gone

(* A save that leaves the items as they are needs no more than types.       *)
LEMMA SaveKeepsItems ==
    ASSUME Good, NEW i \in DOMAIN dirs, NEW e \in Collection, e.items = cols[i].items,
           NEW col, NEW env,
           ConfigGood(cfg'), cfg'.workspaces = cfg.workspaces, cfg'.active = cfg.active,
           LoadedGood(cfg', dirs, cols, col, env),
           ~doubled => Chosen(cfg', dirs, env),
           Persist(i, [cols EXCEPT ![i] = e], col, env), UNCHANGED <<deleted, doubled>>
    PROVE  Good'
<1> DEFINE changed == [cols EXCEPT ![i] = e]
<1>1. /\ changed \in Seq(Collection) /\ Len(changed) = Len(dirs)
      /\ \A k \in DOMAIN dirs : changed[k] = IF k = i THEN e ELSE cols[k]
    BY ColsChanged
<1>2. Persist(i, changed, col, env)
    OBVIOUS
<1> HIDE DEF changed
<1>3. LoadedGood(cfg', dirs, changed, col, env)
    BY <1>1 DEF LoadedGood
<1>4. DeletedGood(deleted')
    BY DEF Good, Typed
<1>5. ASSUME ~doubled, NEW k \in DOMAIN dirs, k # i PROVE SameStructure(changed[k], cols[k])
    BY <1>1, <1>5 DEF SameStructure
<1>6. ASSUME ~doubled, disk' = [disk EXCEPT ![dirs[i]] = changed[i]]
      PROVE  EachOnce(disk') /\ Gone(disk', deleted')
    <2>1. disk \in [Dirs -> Collection] /\ dirs[i] \in Dirs
        BY Positions DEF Good, Typed
    <2>2. e.items = disk[dirs[i]].items /\ changed[i] = e
        BY <1>1, <1>6 DEF Good, Once, InSync
    <2>3. \A d \in Dirs : disk'[d].items = disk[d].items
        BY <1>6, <2>1, <2>2
    <2>4. EachOnce(disk) /\ Gone(disk, deleted) /\ deleted' = deleted
        BY <1>6 DEF Good, Once
    <2>5. QED
        BY <2>3, <2>4, ItemsKept
<1>7. ASSUME ~doubled PROVE Gone(disk, deleted')
    BY <1>7 DEF Good, Once
<1>8. QED
    BY <1>2, <1>3, <1>4, <1>5, <1>6, <1>7, PersistStep

(* A save of the collection as it is.                                       *)
LEMMA SaveRequestGood ==
    ASSUME Good, NEW i \in DOMAIN cols, SaveRequest(i) PROVE Good'
<1>1. /\ i \in DOMAIN dirs /\ dirs[i] \in Dirs /\ i \in 1 .. Len(dirs) /\ Len(dirs) \in Nat
      /\ cols[i] \in Collection
    BY Positions DEF Good
<1>2. /\ ConfigGood(cfg') /\ cfg'.col = dirs[i] /\ cfg'.workspaces = cfg.workspaces
      /\ cfg'.active = cfg.active /\ cfg'.env = cfg.env
    BY <1>1, NameCol DEF Good, Typed, SaveRequest
<1>3. List(cfg') = List(cfg) /\ dirs # <<>>
    BY <1>1, <1>2 DEF List
<1>4. LoadedGood(cfg', dirs, cols, i, activeEnv)
    BY <1>1, <1>2, <1>3 DEF LoadedGood, Good, Typed
<1>5. ~doubled => Chosen(cfg', dirs, activeEnv)
    BY <1>2 DEF Good, Once, Chosen
<1>6. cols = [cols EXCEPT ![i] = cols[i]]
    BY <1>1 DEF Good, Typed, LoadedGood
<1>7. Persist(i, [cols EXCEPT ![i] = cols[i]], i, activeEnv) /\ UNCHANGED <<deleted, doubled>>
    BY <1>6 DEF SaveRequest
<1>8. QED
    BY <1>1, <1>2, <1>4, <1>5, <1>7, SaveKeepsItems

(* A save with another text.                                                *)
LEMMA UpdateCollectionGood ==
    ASSUME Good, NEW i \in DOMAIN cols, NEW t \in Texts, UpdateCollection(i, t) PROVE Good'
<1> DEFINE e == [cols[i] EXCEPT !.text = t]
<1>1. i \in DOMAIN dirs /\ cols[i] \in Collection
    BY Positions DEF Good
<1>2. e \in Collection /\ e.items = cols[i].items
    BY <1>1, Retexted DEF SameStructure
<1>3. /\ Persist(i, [cols EXCEPT ![i] = e], activeCol, activeEnv)
      /\ cfg' = cfg /\ UNCHANGED <<deleted, doubled>>
    BY DEF UpdateCollection, PersistOnly
<1> HIDE DEF e
<1>4. /\ ConfigGood(cfg') /\ LoadedGood(cfg', dirs, cols, activeCol, activeEnv)
      /\ ~doubled => Chosen(cfg', dirs, activeEnv)
    BY <1>3 DEF Good, Typed, Once
<1>5. QED
    BY <1>1, <1>2, <1>3, <1>4, SaveKeepsItems

(* A collection with other environments.                                    *)
LEMMA WithEnvs ==
    ASSUME NEW c \in Collection, NEW names \in Seq(Envs)
    PROVE  /\ [c EXCEPT !.envs = names] \in Collection
           /\ [c EXCEPT !.envs = names].items = c.items
           /\ [c EXCEPT !.envs = names].text = c.text
BY DEF Collection

(* A save with one more environment.                                        *)
LEMMA AddEnvironmentGood ==
    ASSUME Good, NEW n \in Envs, AddEnvironment(n) PROVE Good'
<1> DEFINE i == activeCol
           e == [cols[i] EXCEPT !.envs = Append(@, n)]
<1>1. i \in DOMAIN dirs /\ cols[i] \in Collection
    BY ActiveIsLoaded, Positions DEF Good, AddEnvironment
<1>2. Append(cols[i].envs, n) \in Seq(Envs)
    BY <1>1 DEF Collection
<1>3. e \in Collection /\ e.items = cols[i].items
    BY <1>1, <1>2, WithEnvs
<1>4. /\ Persist(i, [cols EXCEPT ![i] = e], activeCol, activeEnv)
      /\ cfg' = cfg /\ UNCHANGED <<deleted, doubled>>
    BY DEF AddEnvironment, PersistOnly
<1> HIDE DEF e
<1>5. /\ ConfigGood(cfg') /\ LoadedGood(cfg', dirs, cols, activeCol, activeEnv)
      /\ ~doubled => Chosen(cfg', dirs, activeEnv)
    BY <1>4 DEF Good, Typed, Once
<1>6. QED
    BY <1>1, <1>3, <1>4, <1>5, SaveKeepsItems

(* A save with other environments, after which the choice may be another.   *)
LEMMA ChangeEnvsGood ==
    ASSUME Good, activeCol # 0, NEW names \in Seq(Envs), NEW n \in Envs,
           NEW instead \in Envs \cup {NoEnv}, ChangeEnvs(names, n, instead)
    PROVE  Good'
<1> DEFINE i == activeCol
           e == [cols[i] EXCEPT !.envs = names]
           chosen == [activeEnv EXCEPT ![i] = instead]
<1>1. i \in DOMAIN dirs /\ cols[i] \in Collection
    BY ActiveIsLoaded, Positions DEF Good
<1>2. e \in Collection /\ e.items = cols[i].items
    BY <1>1, WithEnvs
<1>3. [cols EXCEPT ![activeCol].envs = names] = [cols EXCEPT ![i] = e]
    OBVIOUS
<1>4. UNCHANGED <<deleted, doubled>>
    BY DEF ChangeEnvs
<1>5. CASE /\ cfg' = ChooseEnv(dirs[activeCol], instead)
           /\ Persist(i, [cols EXCEPT ![i] = e], i, chosen)
    <2>1. /\ ConfigGood(cfg') /\ cfg'.workspaces = cfg.workspaces
          /\ cfg'.active = cfg.active /\ cfg'.col = cfg.col /\ List(cfg') = List(cfg)
          /\ chosen \in [1 .. MaxColls -> Envs \cup {NoEnv}]
          /\ ~doubled => Chosen(cfg', dirs, chosen)
        BY <1>1, <1>5, ChosenAt
    <2> HIDE DEF e, chosen
    <2>2. LoadedGood(cfg', dirs, cols, i, chosen)
        BY <2>1 DEF LoadedGood, Good, Typed
    <2>3. QED
        BY <1>1, <1>2, <1>4, <1>5, <2>1, <2>2, SaveKeepsItems
<1>6. CASE cfg' = cfg /\ Persist(i, [cols EXCEPT ![i] = e], i, activeEnv)
    <2> HIDE DEF e
    <2>1. /\ ConfigGood(cfg') /\ LoadedGood(cfg', dirs, cols, activeCol, activeEnv)
          /\ ~doubled => Chosen(cfg', dirs, activeEnv)
        BY <1>6 DEF Good, Typed, Once
    <2>2. QED
        BY <1>1, <1>2, <1>4, <1>6, <2>1, SaveKeepsItems
<1>7. QED
    BY <1>3, <1>5, <1>6 DEF ChangeEnvs, PersistOnly

(* The choice follows the new name.                                         *)
LEMMA RenameEnvironmentGood ==
    ASSUME Good, NEW n \in Envs, NEW new \in Envs, RenameEnvironment(n, new) PROVE Good'
<1>1. activeCol \in DOMAIN dirs /\ cols[activeCol] \in Collection
    BY ActiveIsLoaded, Positions DEF Good, RenameEnvironment
<1>2. EnvNames \in Seq(Envs) /\ Contains(EnvNames, n)
    BY <1>1 DEF Collection, EnvNames, RenameEnvironment
<1>3. FirstIn(EnvNames, n) \in 1 .. Len(EnvNames)
    BY <1>2, FirstInProperties
<1>4. ReplaceAt(EnvNames, FirstIn(EnvNames, n), new) \in Seq(Envs)
    BY <1>2, <1>3, ExceptSeq DEF ReplaceAt
<1>5. QED
    BY <1>4, ChangeEnvsGood DEF RenameEnvironment

(* The choice of what is deleted falls to the first that is left.           *)
LEMMA DeleteEnvironmentGood ==
    ASSUME Good, NEW n \in Envs, DeleteEnvironment(n) PROVE Good'
<1> DEFINE names == RemoveAt(EnvNames, FirstIn(EnvNames, n))
           instead == IF names = <<>> THEN NoEnv ELSE Head(names)
<1>1. activeCol \in DOMAIN dirs /\ cols[activeCol] \in Collection
    BY ActiveIsLoaded, Positions DEF Good, DeleteEnvironment
<1>2. EnvNames \in Seq(Envs) /\ Contains(EnvNames, n)
    BY <1>1 DEF Collection, EnvNames, DeleteEnvironment
<1>3. FirstIn(EnvNames, n) \in 1 .. Len(EnvNames)
    BY <1>2, FirstInProperties
<1>4. names \in Seq(Envs)
    BY <1>2, <1>3, RemoveAtProperties
<1>5. ChangeEnvs(names, n, instead) /\ activeCol # 0
    BY DEF DeleteEnvironment
<1> HIDE DEF names
<1>6. instead \in Envs \cup {NoEnv}
    BY <1>4
<1> HIDE DEF instead
<1>7. QED
    BY <1>4, <1>5, <1>6, ChangeEnvsGood

-----------------------------------------------------------------------------
(* The saves that change items.                                             *)

(* What the places of the directories hold, one by one.                     *)
LEMMA ItemsInPlaces ==
    ASSUME NEW held, EachOnce(held), NEW d \in Dirs, NEW c \in Dirs,
           NEW k \in DOMAIN held[d].items, NEW l \in DOMAIN held[c].items,
           held[d].items[k] = held[c].items[l]
    PROVE  d = c /\ k = l
<1>1. <<d, k>> \in Places(held) /\ <<c, l>> \in Places(held)
    BY DEF Places
<1>2. ItemAt(held, <<d, k>>) = held[d].items[k] /\ ItemAt(held, <<c, l>>) = held[c].items[l]
    BY DEF ItemAt
<1>3. <<d, k>> = <<c, l>>
    BY <1>1, <1>2 DEF EachOnce
<1>4. QED
    BY <1>3

(* A directory that gets other items: those it had, and one that was gone.  *)
LEMMA StillEachOnce ==
    ASSUME NEW held \in [Dirs -> Collection], EachOnce(held), NEW d \in Dirs, NEW e \in Collection,
           Distinct(e.items), NEW x,
           \A c \in Dirs : \A k \in DOMAIN held[c].items : held[c].items[k] # x,
           \A k \in DOMAIN e.items :
               e.items[k] = x \/ \E l \in DOMAIN held[d].items : e.items[k] = held[d].items[l]
    PROVE  EachOnce([held EXCEPT ![d] = e])
<1> DEFINE other == [held EXCEPT ![d] = e]
<1>1. other[d] = e /\ \A c \in Dirs : c # d => other[c] = held[c]
    OBVIOUS
<1> HIDE DEF other
<1>2. ASSUME NEW c \in Dirs, c # d, NEW k \in DOMAIN e.items, NEW m \in DOMAIN held[c].items
      PROVE  e.items[k] # held[c].items[m]
    <2>1. SUFFICES ASSUME e.items[k] = held[c].items[m] PROVE FALSE
        OBVIOUS
    <2>2. e.items[k] # x
        BY <2>1
    <2>3. PICK l \in DOMAIN held[d].items : e.items[k] = held[d].items[l]
        BY <2>2
    <2>4. held[d].items[l] = held[c].items[m]
        BY <2>1, <2>3
    <2>5. d = c
        BY <2>4, ItemsInPlaces
    <2>6. QED
        BY <1>2, <2>5
<1>3. ASSUME NEW a \in Dirs, NEW b \in Dirs,
             NEW k \in DOMAIN other[a].items, NEW l \in DOMAIN other[b].items,
             other[a].items[k] = other[b].items[l]
      PROVE  a = b /\ k = l
    <2>1. CASE a = d /\ b = d
        BY <1>1, <1>3, <2>1 DEF Distinct
    <2>2. CASE a = d /\ b # d
        <3>1. k \in DOMAIN e.items /\ l \in DOMAIN held[b].items
            BY <1>1, <2>2
        <3>2. e.items[k] = held[b].items[l]
            BY <1>1, <1>3, <2>2
        <3>3. QED
            BY <1>2, <2>2, <3>1, <3>2
    <2>3. CASE a # d /\ b = d
        <3>1. l \in DOMAIN e.items /\ k \in DOMAIN held[a].items
            BY <1>1, <2>3
        <3>2. e.items[l] = held[a].items[k]
            BY <1>1, <1>3, <2>3
        <3>3. QED
            BY <1>2, <2>3, <3>1, <3>2
    <2>4. CASE a # d /\ b # d
        BY <1>1, <1>3, <2>4, ItemsInPlaces
    <2>5. QED
        BY <2>1, <2>2, <2>3, <2>4
<1>4. ASSUME NEW p \in Places(other), NEW q \in Places(other), ItemAt(other, p) = ItemAt(other, q)
      PROVE  p = q
    <2>1. PICK a \in Dirs : p \in {<<a, k>> : k \in DOMAIN other[a].items}
        BY DEF Places
    <2>2. PICK k \in DOMAIN other[a].items : p = <<a, k>>
        BY <2>1
    <2>3. PICK b \in Dirs : q \in {<<b, l>> : l \in DOMAIN other[b].items}
        BY DEF Places
    <2>4. PICK l \in DOMAIN other[b].items : q = <<b, l>>
        BY <2>3
    <2>5. other[a].items[k] = other[b].items[l]
        BY <1>4, <2>2, <2>4 DEF ItemAt
    <2>6. a = b /\ k = l
        BY <1>3, <2>5
    <2>7. QED
        BY <2>2, <2>4, <2>6
<1>5. QED
    BY <1>4 DEF EachOnce, other

(* An item that no directory holds.                                         *)
LEMMA GoneFrom ==
    ASSUME NEW held, NEW del,
           \A c \in Dirs : \A k \in DOMAIN held[c].items : held[c].items[k] # del.item
    PROVE  Gone(held, del)
<1>1. ASSUME NEW p \in Places(held) PROVE ItemAt(held, p) # del.item
    <2>1. PICK c \in Dirs : p \in {<<c, k>> : k \in DOMAIN held[c].items}
        BY DEF Places
    <2>2. PICK k \in DOMAIN held[c].items : p = <<c, k>>
        BY <2>1
    <2>3. QED
        BY <2>2 DEF ItemAt
<1>2. QED
    BY <1>1 DEF Gone

(* And one that is gone is in none of them.                                 *)
LEMMA NoneHoldsIt ==
    ASSUME NEW held, NEW del, Gone(held, del), del # NoDeleted,
           NEW c \in Dirs, NEW k \in DOMAIN held[c].items
    PROVE  held[c].items[k] # del.item
<1>1. <<c, k>> \in Places(held)
    BY DEF Places
<1>2. ItemAt(held, <<c, k>>) = held[c].items[k]
    BY DEF ItemAt
<1>3. QED
    BY <1>1, <1>2 DEF Gone

(* A save of a collection with other items.                                 *)
LEMMA SaveItems ==
    ASSUME Good, NEW i \in DOMAIN dirs, NEW e \in Collection,
           PersistOnly(i, [cols EXCEPT ![i] = e]), DeletedGood(deleted'), UNCHANGED doubled,
           ~doubled /\ ~saveFailed' =>
               /\ EachOnce([disk EXCEPT ![dirs[i]] = e])
               /\ Gone([disk EXCEPT ![dirs[i]] = e], deleted'),
           ~doubled /\ saveFailed' => Gone(disk, deleted')
    PROVE  Good'
<1> DEFINE changed == [cols EXCEPT ![i] = e]
<1>1. /\ changed \in Seq(Collection) /\ Len(changed) = Len(dirs)
      /\ \A k \in DOMAIN dirs : changed[k] = IF k = i THEN e ELSE cols[k]
    BY ColsChanged
<1>2. cfg' = cfg /\ Persist(i, changed, activeCol, activeEnv)
    BY DEF PersistOnly
<1> HIDE DEF changed
<1>3. ConfigGood(cfg') /\ LoadedGood(cfg', dirs, changed, activeCol, activeEnv)
    BY <1>1, <1>2 DEF LoadedGood, Good, Typed
<1>4. ASSUME ~doubled
      PROVE  /\ Chosen(cfg', dirs, activeEnv)
             /\ \A k \in DOMAIN dirs : k # i => SameStructure(changed[k], cols[k])
    BY <1>1, <1>2, <1>4 DEF SameStructure, Good, Once
<1>5. changed[i] = e
    BY <1>1
<1>6. QED
    BY <1>2, <1>3, <1>4, <1>5, PersistStep

(* Lists without anything twice, and one element more or less.              *)
LEMMA AppendedDistinct ==
    ASSUME NEW S, NEW s \in Seq(S), NEW e \in S, Distinct(s), \A k \in DOMAIN s : s[k] # e
    PROVE  /\ Distinct(Append(s, e))
           /\ \A k \in DOMAIN Append(s, e) :
                Append(s, e)[k] = e \/ \E l \in DOMAIN s : Append(s, e)[k] = s[l]
<1> DEFINE t == Append(s, e)
<1>1. /\ DOMAIN t = 1 .. Len(s) + 1 /\ DOMAIN s = 1 .. Len(s) /\ Len(s) \in Nat
      /\ \A k \in 1 .. Len(s) : t[k] = s[k]
      /\ t[Len(s) + 1] = e
    BY Appended, LenProperties
<1> HIDE DEF t
<1>2. ASSUME NEW k \in DOMAIN t
      PROVE  (k \in DOMAIN s /\ t[k] = s[k]) \/ (k = Len(s) + 1 /\ t[k] = e)
    BY <1>1
<1>3. Distinct(t)
    BY <1>2 DEF Distinct
<1>4. QED
    BY <1>2, <1>3 DEF t

(* What is removed from a sequence without repeats is gone, and the rest    *)
(* has none.                                                                *)
LEMMA RemovedDistinct ==
    ASSUME NEW S, NEW s \in Seq(S), NEW i \in DOMAIN s, Distinct(s)
    PROVE  /\ Distinct(RemoveAt(s, i))
           /\ \A k \in DOMAIN RemoveAt(s, i) :
                /\ RemoveAt(s, i)[k] # s[i]
                /\ \E l \in DOMAIN s : RemoveAt(s, i)[k] = s[l]
<1> DEFINE t == RemoveAt(s, i)
<1>1. DOMAIN s = 1 .. Len(s) /\ Len(s) \in Nat
    BY LenProperties
<1>2. /\ t \in Seq(S) /\ Len(t) = Len(s) - 1
      /\ \A k \in 1 .. Len(s) - 1 : t[k] = IF k < i THEN s[k] ELSE s[k + 1]
    BY <1>1, RemoveAtProperties
<1> HIDE DEF t
<1>3. DOMAIN t = 1 .. Len(s) - 1
    BY <1>1, <1>2, LenProperties
<1>4. ASSUME NEW k \in DOMAIN t
      PROVE  LET l == IF k < i THEN k ELSE k + 1 IN l \in DOMAIN s /\ l # i /\ t[k] = s[l]
    BY <1>1, <1>2, <1>3
<1>5. ASSUME NEW k \in DOMAIN t, NEW l \in DOMAIN t, t[k] = t[l] PROVE k = l
    <2> DEFINE a == IF k < i THEN k ELSE k + 1
               b == IF l < i THEN l ELSE l + 1
    <2>1. a \in DOMAIN s /\ b \in DOMAIN s /\ t[k] = s[a] /\ t[l] = s[b]
        BY <1>4
    <2>2. a = b
        BY <1>5, <2>1 DEF Distinct
    <2>3. QED
        BY <2>2, <1>1, <1>3
<1>6. Distinct(t)
    BY <1>5 DEF Distinct
<1>7. ASSUME NEW k \in DOMAIN t PROVE t[k] # s[i] /\ \E l \in DOMAIN s : t[k] = s[l]
    BY <1>4 DEF Distinct
<1>8. QED
    BY <1>6, <1>7 DEF t

(* Nor does a sequence get a repeat by an insertion of what was not there.  *)
LEMMA InsertedDistinct ==
    ASSUME NEW S, NEW s \in Seq(S), NEW i \in 1 .. Len(s) + 1, NEW e \in S, Distinct(s),
           \A k \in DOMAIN s : s[k] # e
    PROVE  /\ Distinct(InsertAt(s, i, e))
           /\ \A k \in DOMAIN InsertAt(s, i, e) :
                InsertAt(s, i, e)[k] = e \/ \E l \in DOMAIN s : InsertAt(s, i, e)[k] = s[l]
<1> DEFINE t == InsertAt(s, i, e)
<1>1. DOMAIN s = 1 .. Len(s) /\ Len(s) \in Nat
    BY LenProperties
<1>2. /\ t \in Seq(S) /\ Len(t) = Len(s) + 1
      /\ \A k \in 1 .. Len(s) + 1 :
            t[k] = IF k < i THEN s[k] ELSE IF k = i THEN e ELSE s[k - 1]
    BY InsertAtProperties
<1> HIDE DEF t
<1>3. DOMAIN t = 1 .. Len(s) + 1
    BY <1>2, LenProperties
<1>4. ASSUME NEW k \in DOMAIN t, k # i
      PROVE  LET l == IF k < i THEN k ELSE k - 1 IN l \in DOMAIN s /\ t[k] = s[l]
    BY <1>1, <1>2, <1>3, <1>4
<1>5. t[i] = e
    BY <1>2
<1>6. ASSUME NEW k \in DOMAIN t, NEW l \in DOMAIN t, t[k] = t[l] PROVE k = l
    <2>1. CASE k = i \/ l = i
        BY <1>4, <1>5, <1>6, <2>1
    <2>2. CASE k # i /\ l # i
        <3> DEFINE a == IF k < i THEN k ELSE k - 1
                   b == IF l < i THEN l ELSE l - 1
        <3>1. a \in DOMAIN s /\ b \in DOMAIN s /\ t[k] = s[a] /\ t[l] = s[b]
            BY <1>4, <2>2
        <3>2. a = b
            BY <1>6, <3>1 DEF Distinct
        <3>3. QED
            BY <3>2, <2>2, <1>1, <1>3
    <2>3. QED
        BY <2>1, <2>2
<1>7. Distinct(t)
    BY <1>6 DEF Distinct
<1>8. ASSUME NEW k \in DOMAIN t PROVE t[k] = e \/ \E l \in DOMAIN s : t[k] = s[l]
    BY <1>4, <1>5
<1>9. QED
    BY <1>7, <1>8 DEF t

(* A collection with other items.                                           *)
LEMMA WithItems ==
    ASSUME NEW c \in Collection, NEW its \in Seq(Items)
    PROVE  [c EXCEPT !.items = its] \in Collection /\ [c EXCEPT !.items = its].items = its
BY DEF Collection

(* The items of a loaded collection.                                        *)
LEMMA ItemsOf ==
    ASSUME Good, NEW i \in DOMAIN dirs
    PROVE  /\ dirs[i] \in Dirs /\ cols[i] \in Collection /\ cols[i].items \in Seq(Items)
           /\ disk \in [Dirs -> Collection]
           /\ ~doubled => /\ cols[i].items = disk[dirs[i]].items
                          /\ Distinct(cols[i].items) /\ EachOnce(disk) /\ Gone(disk, deleted)
<1>1. dirs[i] \in Dirs /\ cols[i] \in Collection /\ disk \in [Dirs -> Collection]
    BY Positions DEF Good, Typed
<1>2. cols[i].items \in Seq(Items)
    BY <1>1 DEF Collection
<1>3. ASSUME ~doubled
      PROVE  /\ cols[i].items = disk[dirs[i]].items
             /\ EachOnce(disk) /\ Gone(disk, deleted)
    BY <1>3 DEF Good, Once, InSync
<1>4. ASSUME ~doubled, NEW k \in DOMAIN cols[i].items, NEW l \in DOMAIN cols[i].items,
             cols[i].items[k] = cols[i].items[l]
      PROVE  k = l
    BY <1>1, <1>3, <1>4, ItemsInPlaces
<1>5. ASSUME ~doubled PROVE Distinct(cols[i].items)
    BY <1>4, <1>5 DEF Distinct
<1>6. QED
    BY <1>1, <1>2, <1>3, <1>5

(* A new item is in no collection and waits for no undo.                    *)
LEMMA AddItemGood ==
    ASSUME Good, NEW i \in DOMAIN cols, NEW r \in Items, AddItem(i, r) PROVE Good'
<1> DEFINE its == Append(cols[i].items, r)
           e == [cols[i] EXCEPT !.items = its]
<1>1. i \in DOMAIN dirs
    BY Positions DEF Good
<1>2. /\ dirs[i] \in Dirs /\ cols[i] \in Collection /\ cols[i].items \in Seq(Items)
      /\ disk \in [Dirs -> Collection]
      /\ ~doubled => /\ cols[i].items = disk[dirs[i]].items
                     /\ Distinct(cols[i].items) /\ EachOnce(disk) /\ Gone(disk, deleted)
    BY <1>1, ItemsOf
<1>3. its \in Seq(Items)
    BY <1>2, Appended
<1>4. e \in Collection /\ e.items = its
    BY <1>2, <1>3, WithItems
<1>5. PersistOnly(i, [cols EXCEPT ![i] = e]) /\ deleted' = deleted /\ doubled' = doubled
    BY DEF AddItem
<1>6. ASSUME NEW c \in Dirs, NEW k \in DOMAIN disk[c].items PROVE disk[c].items[k] # r
    <2>1. disk[c].items[k] \in ToSet(disk[c].items)
        BY DEF ToSet
    <2>2. r \notin ToSet(disk[c].items)
        BY DEF AddItem, Known
    <2>3. QED
        BY <2>1, <2>2
<1>7. deleted # NoDeleted => deleted.item # r
    <2> DEFINE A == UNION {ToSet(disk[d].items) : d \in Dirs}
               B == UNION {ToSet(cols[j].items) : j \in DOMAIN cols}
               D == IF deleted = NoDeleted THEN {} ELSE {deleted.item}
    <2>0. r \notin Known
        BY DEF AddItem
    <2>1. Known = A \cup B \cup D
        BY DEF Known
    <2> HIDE DEF A, B
    <2>2. r \notin D
        BY <2>0, <2>1
    <2>3. QED
        BY <2>2
<1> DEFINE other == [disk EXCEPT ![dirs[i]] = e]
<1>8. other[dirs[i]] = e /\ \A c \in Dirs : c # dirs[i] => other[c] = disk[c]
    BY <1>2
<1> HIDE DEF e
<1>9. ASSUME ~doubled PROVE EachOnce(other) /\ Gone(other, deleted')
    <2>1. \A k \in DOMAIN cols[i].items : cols[i].items[k] # r
        BY <1>2, <1>6, <1>9
    <2>2. /\ Distinct(its)
          /\ \A k \in DOMAIN its :
                its[k] = r \/ \E l \in DOMAIN cols[i].items : its[k] = cols[i].items[l]
        BY <1>2, <1>9, <2>1, AppendedDistinct
    <2> HIDE DEF its
    <2>3. EachOnce(other)
        <3>1. /\ Distinct(e.items)
              /\ \A k \in DOMAIN e.items : e.items[k] = r
                    \/ \E l \in DOMAIN disk[dirs[i]].items : e.items[k] = disk[dirs[i]].items[l]
            BY <1>2, <1>4, <1>9, <2>2
        <3>2. QED
            BY <1>2, <1>4, <1>6, <1>9, <3>1, StillEachOnce
    <2> HIDE DEF other
    <2>4. CASE deleted = NoDeleted
        BY <2>3, <2>4, <1>5 DEF Gone
    <2>5. CASE deleted # NoDeleted
        <3>1. ASSUME NEW c \in Dirs, NEW k \in DOMAIN other[c].items
              PROVE  other[c].items[k] # deleted.item
            <4>1. \A a \in Dirs : \A l \in DOMAIN disk[a].items : disk[a].items[l] # deleted.item
                BY <1>2, <1>9, <2>5, NoneHoldsIt
            <4>2. CASE c = dirs[i]
                <5>1. its[k] = r \/ \E l \in DOMAIN cols[i].items : its[k] = cols[i].items[l]
                    BY <1>4, <1>8, <2>2, <4>2
                <5>2. QED
                    BY <1>2, <1>4, <1>7, <1>8, <1>9, <2>5, <4>1, <4>2, <5>1
            <4>3. CASE c # dirs[i]
                BY <1>8, <4>1, <4>3
            <4>4. QED
                BY <4>2, <4>3
        <3>2. Gone(other, deleted)
            BY <3>1, GoneFrom
        <3>3. QED
            BY <2>3, <3>2, <1>5
    <2>6. QED
        BY <2>3, <2>4, <2>5
<1>10. ~doubled => Gone(disk, deleted')
    BY <1>2, <1>5
<1>11. DeletedGood(deleted')
    BY <1>5 DEF Good, Typed
<1>12. QED
    BY <1>1, <1>4, <1>5, <1>9, <1>10, <1>11, SaveItems

(* The item deleted is the one an undo would bring back, and it is gone.    *)
LEMMA DeleteItemGood ==
    ASSUME Good, NEW i \in DOMAIN cols, NEW k \in DOMAIN cols[i].items, DeleteItem(i, k)
    PROVE  Good'
<1> DEFINE its == RemoveAt(cols[i].items, k)
           e == [cols[i] EXCEPT !.items = its]
           x == cols[i].items[k]
<1>1. i \in DOMAIN dirs /\ i \in Nat \ {0}
    BY Positions DEF Good
<1>2. /\ dirs[i] \in Dirs /\ cols[i] \in Collection /\ cols[i].items \in Seq(Items)
      /\ disk \in [Dirs -> Collection]
      /\ ~doubled => /\ cols[i].items = disk[dirs[i]].items
                     /\ Distinct(cols[i].items) /\ EachOnce(disk) /\ Gone(disk, deleted)
    BY <1>1, ItemsOf
<1>3. k \in 1 .. Len(cols[i].items) /\ Len(cols[i].items) \in Nat
    BY <1>2, LenProperties
<1>4. its \in Seq(Items) /\ x \in Items /\ k \in Nat \ {0}
    BY <1>2, <1>3, RemoveAtProperties, ElementOfSeq
<1>5. e \in Collection /\ e.items = its
    BY <1>2, <1>4, WithItems
<1>6. PersistOnly(i, [cols EXCEPT ![i] = e]) /\ UNCHANGED doubled
    BY DEF DeleteItem
<1>7. deleted' = IF saveFailed' THEN NoDeleted
                 ELSE [item |-> x, index |-> k, colIdx |-> i, home |-> dirs[i]]
    BY DEF DeleteItem
<1> DEFINE other == [disk EXCEPT ![dirs[i]] = e]
<1>8. other[dirs[i]] = e /\ \A c \in Dirs : c # dirs[i] => other[c] = disk[c]
    BY <1>2
<1> HIDE DEF e
<1>9. ASSUME ~doubled PROVE EachOnce(other) /\ (~saveFailed' => Gone(other, deleted'))
    <2>1. /\ Distinct(its)
          /\ \A m \in DOMAIN its :
                its[m] # x /\ \E l \in DOMAIN cols[i].items : its[m] = cols[i].items[l]
        BY <1>2, <1>9, RemovedDistinct
    <2> HIDE DEF its
    <2>2. PICK y : \A c \in Dirs : \A m \in DOMAIN disk[c].items : disk[c].items[m] # y
        <3>1. DEFINE Held == UNION {ToSet(disk[c].items) : c \in Dirs}
        <3>2. PICK y : y \notin Held
            <4>1. \E y : y \notin Held
                <5>1. SUFFICES ASSUME \A y : y \in Held PROVE FALSE
                    OBVIOUS
                <5>2. DEFINE R == {z \in Held : z \notin z}
                <5>3. R \in R <=> R \in Held /\ R \notin R
                    OBVIOUS
                <5>4. QED
                    BY <5>1, <5>3
            <4>2. QED
                BY <4>1
        <3>3. ASSUME NEW c \in Dirs, NEW m \in DOMAIN disk[c].items PROVE disk[c].items[m] # y
            <4>1. disk[c].items[m] \in ToSet(disk[c].items)
                BY DEF ToSet
            <4>2. QED
                BY <3>2, <4>1
        <3>4. QED
            BY <3>3
    <2>3. EachOnce(other)
        <3>1. /\ Distinct(e.items)
              /\ \A m \in DOMAIN e.items : e.items[m] = y
                    \/ \E l \in DOMAIN disk[dirs[i]].items : e.items[m] = disk[dirs[i]].items[l]
            BY <1>2, <1>5, <1>9, <2>1
        <3>2. QED
            BY <1>2, <1>5, <1>9, <2>2, <3>1, StillEachOnce
    <2>4. ASSUME ~saveFailed', NEW c \in Dirs, NEW m \in DOMAIN other[c].items
          PROVE  other[c].items[m] # x
        <3>1. CASE c = dirs[i]
            BY <1>5, <1>8, <2>1, <3>1
        <3>2. CASE c # dirs[i]
            <4>1. x = disk[dirs[i]].items[k] /\ k \in DOMAIN disk[dirs[i]].items
                BY <1>2, <1>9
            <4>2. m \in DOMAIN disk[c].items /\ other[c].items[m] = disk[c].items[m]
                BY <1>8, <3>2
            <4>3. disk[c].items[m] # disk[dirs[i]].items[k]
                BY <1>2, <1>9, <3>2, <4>1, <4>2, ItemsInPlaces
            <4>4. QED
                BY <4>1, <4>2, <4>3
        <3>3. QED
            BY <3>1, <3>2
    <2>5. ~saveFailed' => deleted'.item = x
        BY <1>7
    <2> HIDE DEF other, x
    <2>6. ASSUME ~saveFailed' PROVE Gone(other, deleted')
        BY <2>4, <2>5, <2>6, GoneFrom
    <2>7. QED
        BY <2>3, <2>6
<1>10. saveFailed' => Gone(disk, deleted')
    BY <1>7 DEF Gone
<1>11. DeletedGood(deleted')
    BY <1>1, <1>2, <1>4, <1>7 DEF DeletedGood
<1>12. QED
    BY <1>1, <1>5, <1>6, <1>9, <1>10, <1>11, SaveItems

(* An undo inserts what is in no collection, and can be done once.          *)
LEMMA RestoreGood ==
    ASSUME Good, RestoreLastDeleted PROVE Good'
<1> DEFINE i == deleted.colIdx
           r == deleted.item
           s == cols[i].items
           at == IF deleted.index > Len(s) + 1 THEN Len(s) + 1 ELSE deleted.index
           its == InsertAt(s, at, r)
           e == [cols[i] EXCEPT !.items = its]
<1>1. /\ i \in DOMAIN dirs /\ r \in Items /\ deleted.index \in Nat \ {0}
      /\ deleted # NoDeleted
    BY Positions DEF Good, Typed, DeletedGood, RestoreLastDeleted
<1>2. /\ dirs[i] \in Dirs /\ cols[i] \in Collection /\ s \in Seq(Items)
      /\ disk \in [Dirs -> Collection]
      /\ ~doubled => /\ s = disk[dirs[i]].items
                     /\ Distinct(s) /\ EachOnce(disk) /\ Gone(disk, deleted)
    BY <1>1, ItemsOf
<1>3. at \in 1 .. Len(s) + 1
    BY <1>1, <1>2, LenProperties
<1>4. /\ PersistOnly(i, [cols EXCEPT ![i].items = InsertAt(@, at, r)])
      /\ deleted' = NoDeleted /\ UNCHANGED doubled
    BY <1>1, Positions DEF RestoreLastDeleted, Good
<1>5. [cols EXCEPT ![i].items = InsertAt(@, at, r)] = [cols EXCEPT ![i] = e]
    OBVIOUS
<1> HIDE DEF at
<1>6. its \in Seq(Items)
    BY <1>1, <1>2, <1>3, InsertAtProperties
<1>7. e \in Collection /\ e.items = its
    BY <1>2, <1>6, WithItems
<1> HIDE DEF e
<1>8. ASSUME ~doubled PROVE EachOnce([disk EXCEPT ![dirs[i]] = e])
    <2>1. \A c \in Dirs : \A m \in DOMAIN disk[c].items : disk[c].items[m] # r
        BY <1>1, <1>2, <1>8, NoneHoldsIt
    <2>2. /\ Distinct(its)
          /\ \A m \in DOMAIN its : its[m] = r \/ \E l \in DOMAIN s : its[m] = s[l]
        BY <1>1, <1>2, <1>3, <1>8, <2>1, InsertedDistinct
    <2> HIDE DEF its
    <2>3. /\ Distinct(e.items)
          /\ \A m \in DOMAIN e.items : e.items[m] = r
                \/ \E l \in DOMAIN disk[dirs[i]].items : e.items[m] = disk[dirs[i]].items[l]
        BY <1>2, <1>7, <1>8, <2>2
    <2>4. QED
        BY <1>2, <1>7, <1>8, <2>1, <2>3, StillEachOnce
<1>9. \A held : Gone(held, deleted')
    BY <1>4 DEF Gone
<1>10. DeletedGood(deleted')
    BY <1>4 DEF DeletedGood
<1>11. QED
    BY <1>1, <1>4, <1>5, <1>7, <1>8, <1>9, <1>10, SaveItems

-----------------------------------------------------------------------------
(* The lists of the collections.                                            *)

(* A config in which the active workspace has another list.                 *)
LEMMA WithList ==
    ASSUME NEW c, ConfigGood(c), NEW l \in Seq(Dirs), Len(l) <= MaxColls,
           NEW e, DOMAIN e = ConfigFields, e.active = c.active,
           e.workspaces = [c.workspaces EXCEPT ![c.active].list = l],
           e.col \in Dirs \cup {NoDir}, e.env \in [Dirs -> Envs \cup {NoEnv}]
    PROVE  /\ ConfigGood(e) /\ List(e) = l
           /\ /\ \A w \in DOMAIN c.workspaces : Distinct(c.workspaces[w].list)
              /\ Distinct(l)
              => \A w \in DOMAIN e.workspaces : Distinct(e.workspaces[w].list)
<1> DEFINE ws == c.workspaces
           a == c.active
<1>1. ws \in Seq(Workspace) /\ a \in DOMAIN ws
    BY DEF ConfigGood
<1> HIDE DEF ws, a
<1>2. /\ [ws EXCEPT ![a].list = l] \in Seq(Workspace)
      /\ DOMAIN [ws EXCEPT ![a].list = l] = DOMAIN ws
      /\ [ws EXCEPT ![a].list = l][a].list = l
      /\ \A w \in DOMAIN ws : w # a => [ws EXCEPT ![a].list = l][w] = ws[w]
    BY <1>1, SetList
<1>3. e.workspaces = [ws EXCEPT ![a].list = l] /\ e.active = a
    BY DEF ws, a
<1>4. \A w \in DOMAIN ws : Len(ws[w].list) <= MaxColls
    BY DEF ConfigGood, ws
<1>5. \A w \in DOMAIN ws : Len([ws EXCEPT ![a].list = l][w].list) <= MaxColls
    BY <1>2, <1>4
<1>6. ConfigGood(e)
    BY <1>1, <1>2, <1>3, <1>5 DEF ConfigGood
<1>7. List(e) = l
    BY <1>2, <1>3 DEF List
<1>8. ASSUME Distinct(l), \A w \in DOMAIN ws : Distinct(ws[w].list)
      PROVE  \A w \in DOMAIN e.workspaces : Distinct(e.workspaces[w].list)
    BY <1>2, <1>3, <1>8
<1>9. QED
    BY <1>6, <1>7, <1>8 DEF ws

(* The same element at the end of a list and of a part of it.               *)
LEMMA AppendInOrder ==
    ASSUME NEW s \in Seq(Dirs), NEW t \in Seq(Dirs), InOrderOf(s, t),
           NEW d \in Dirs, ~Contains(t, d)
    PROVE  InOrderOf(Append(s, d), Append(t, d))
<1> DEFINE u == Append(s, d)
           v == Append(t, d)
<1>1. /\ DOMAIN u = 1 .. Len(s) + 1 /\ DOMAIN s = 1 .. Len(s) /\ Len(s) \in Nat
      /\ \A k \in 1 .. Len(s) : u[k] = s[k]
      /\ u[Len(s) + 1] = d
    BY Appended, LenProperties
<1>2. /\ DOMAIN v = 1 .. Len(t) + 1 /\ DOMAIN t = 1 .. Len(t) /\ Len(t) \in Nat
      /\ \A k \in 1 .. Len(t) : v[k] = t[k]
      /\ v[Len(t) + 1] = d
    BY Appended, LenProperties
<1>3. \A k \in DOMAIN t : t[k] # d
    BY <1>2 DEF Contains
<1>4. \A i \in DOMAIN s : \E k \in DOMAIN t : s[i] = t[k]
    BY DEF InOrderOf, ToSet
<1> HIDE DEF u, v
<1>5. ASSUME NEW i \in DOMAIN u PROVE \E k \in DOMAIN v : u[i] = v[k]
    BY <1>1, <1>2, <1>4
<1>6. ToSet(u) \subseteq ToSet(v)
    BY <1>5 DEF ToSet
<1>7. ASSUME NEW i \in DOMAIN u, NEW k \in DOMAIN v, u[i] = v[k]
      PROVE  \/ i \in DOMAIN s /\ k \in DOMAIN t /\ s[i] = t[k]
             \/ i = Len(s) + 1 /\ k = Len(t) + 1
    BY <1>1, <1>2, <1>3, <1>4, <1>7
<1>8. ASSUME NEW i \in DOMAIN u, NEW j \in DOMAIN u, NEW k \in DOMAIN v, NEW l \in DOMAIN v,
             u[i] = v[k], u[j] = v[l]
      PROVE  i < j <=> k < l
    <2>1. \/ i \in DOMAIN s /\ k \in DOMAIN t /\ s[i] = t[k]
          \/ i = Len(s) + 1 /\ k = Len(t) + 1
        BY <1>7, <1>8
    <2>2. \/ j \in DOMAIN s /\ l \in DOMAIN t /\ s[j] = t[l]
          \/ j = Len(s) + 1 /\ l = Len(t) + 1
        BY <1>7, <1>8
    <2>3. CASE i \in DOMAIN s /\ k \in DOMAIN t /\ s[i] = t[k]
               /\ j \in DOMAIN s /\ l \in DOMAIN t /\ s[j] = t[l]
        BY <2>3 DEF InOrderOf
    <2>4. QED
        BY <1>1, <1>2, <2>1, <2>2, <2>3
<1>9. QED
    BY <1>6, <1>8 DEF InOrderOf, u, v

(* A list without anything twice is in its own order.                       *)
LEMMA SelfInOrder ==
    ASSUME NEW s \in Seq(Dirs), Distinct(s) PROVE InOrderOf(s, s)
BY DEF InOrderOf, Distinct

(* A directory opened is appended to the list and to what is loaded, or     *)
(* only made active when it is loaded already.                              *)
LEMMA OpenCollectionGood ==
    ASSUME Good, NEW d \in Dirs, OpenCollection(d) PROVE Good'
<1>1. /\ ConfigGood(cfg) /\ LoadedGood(cfg, dirs, cols, activeCol, activeEnv)
      /\ disk \in [Dirs -> Collection] /\ broken \subseteq Dirs /\ doubled \in BOOLEAN
      /\ DeletedGood(deleted)
      /\ disk' = disk /\ broken' = broken /\ saveFailed' = FALSE /\ deleted' = deleted
      /\ activeEnv' = activeEnv
    BY DEF Good, Typed, OpenCollection, Saved
<1>2. CASE /\ Contains(dirs, d)
           /\ activeCol' = FirstIn(dirs, d)
           /\ cfg' = [cfg EXCEPT !.col = d]
           /\ UNCHANGED <<dirs, cols, doubled>>
    <2>1. /\ ConfigGood(cfg') /\ cfg'.col = d /\ cfg'.workspaces = cfg.workspaces
          /\ cfg'.active = cfg.active /\ cfg'.env = cfg.env
        BY <1>1, <1>2, NameCol
    <2>2. List(cfg') = List(cfg)
        BY <2>1 DEF List
    <2>3. activeCol' \in 1 .. Len(dirs) /\ dirs[activeCol'] = d
        BY <1>1, <1>2, FirstInProperties DEF LoadedGood
    <2>4. dirs # <<>> /\ activeCol' \in 0 .. Len(dirs) /\ activeCol' # 0
        BY <1>1, <2>3 DEF LoadedGood
    <2>5. LoadedGood(cfg', dirs', cols', activeCol', activeEnv')
        BY <1>1, <1>2, <2>1, <2>2, <2>3, <2>4 DEF LoadedGood
    <2>6. ASSUME ~doubled
          PROVE  /\ Listing(cfg', dirs') /\ Chosen(cfg', dirs', activeEnv')
                 /\ InSync(dirs', cols', disk') /\ EachOnce(disk') /\ Gone(disk', deleted')
        <3>1. Listing(cfg', dirs')
            BY <1>2, <2>1, <2>2, <2>6, LoadedOnce DEF Listing
        <3>2. QED
            BY <1>1, <1>2, <2>1, <2>6, <3>1 DEF Good, Once, Chosen
    <2>7. QED
        BY <1>1, <1>2, <2>1, <2>5, <2>6, GoodNext
<1>3. CASE /\ ~Contains(dirs, d) /\ d \notin broken
           /\ Len(List(cfg)) < MaxColls
           /\ cfg' = [cfg EXCEPT !.workspaces[cfg.active].list = Append(@, d), !.col = d]
           /\ dirs' = Append(dirs, d) /\ cols' = Append(cols, disk[d])
           /\ activeCol' = Len(dirs')
           /\ doubled' = (doubled \/ Contains(List(cfg), d))
    <2> DEFINE L == List(cfg)
               l == Append(L, d)
    <2>1. L \in Seq(Dirs) /\ Len(L) \in Nat /\ DOMAIN L = 1 .. Len(L) /\ MaxColls \in Nat
        BY <1>1, ListGood, SessionAssumption
    <2>2. l \in Seq(Dirs) /\ Len(l) = Len(L) + 1
        BY <2>1, Appended
    <2>3. Len(l) <= MaxColls
        BY <1>3, <2>1, <2>2
    <2>4. /\ DOMAIN cfg' = ConfigFields /\ cfg'.active = cfg.active /\ cfg'.col = d
          /\ cfg'.workspaces = [cfg.workspaces EXCEPT ![cfg.active].list = l]
          /\ cfg'.env = cfg.env
        BY <1>1, <1>3 DEF ConfigGood, ConfigFields, List
    <2>5. cfg'.col \in Dirs \cup {NoDir} /\ cfg'.env \in [Dirs -> Envs \cup {NoEnv}]
        BY <1>1, <2>4 DEF ConfigGood
    <2> HIDE DEF L, l
    <2>6. /\ ConfigGood(cfg') /\ List(cfg') = l
          /\ /\ \A w \in DOMAIN cfg.workspaces : Distinct(cfg.workspaces[w].list)
             /\ Distinct(l)
             => \A w \in DOMAIN cfg'.workspaces : Distinct(cfg'.workspaces[w].list)
        BY <1>1, <2>2, <2>3, <2>4, <2>5, WithList
    <2>7. /\ dirs \in Seq(Dirs) /\ cols \in Seq(Collection) /\ Len(cols) = Len(dirs)
          /\ Len(dirs) <= Len(L) /\ Len(dirs) \in Nat /\ disk[d] \in Collection
          /\ DOMAIN dirs = 1 .. Len(dirs)
        BY <1>1, LenProperties DEF LoadedGood, L
    <2>8. /\ dirs' \in Seq(Dirs) /\ Len(dirs') = Len(dirs) + 1
          /\ DOMAIN dirs' = 1 .. Len(dirs) + 1
          /\ \A k \in 1 .. Len(dirs) : dirs'[k] = dirs[k]
          /\ dirs'[Len(dirs) + 1] = d
        BY <1>3, <2>7, Appended
    <2>9. /\ cols' \in Seq(Collection) /\ Len(cols') = Len(dirs) + 1
          /\ \A k \in 1 .. Len(dirs) : cols'[k] = cols[k]
          /\ cols'[Len(dirs) + 1] = disk[d]
        BY <1>3, <2>7, Appended
    <2>10. dirs' # <<>>
        BY <2>7, <2>8
    <2>11. activeCol' = Len(dirs) + 1 /\ activeCol' \in 0 .. Len(dirs') /\ activeCol' # 0
        BY <1>3, <2>7, <2>8
    <2>12. Len(dirs') <= Len(l)
        BY <2>1, <2>2, <2>7, <2>8
    <2>13. LoadedGood(cfg', dirs', cols', activeCol', activeEnv')
        BY <1>1, <2>4, <2>6, <2>8, <2>9, <2>10, <2>11, <2>12 DEF LoadedGood
    <2>14. ASSUME ~doubled'
           PROVE  /\ Listing(cfg', dirs') /\ Chosen(cfg', dirs', activeEnv')
                  /\ InSync(dirs', cols', disk') /\ EachOnce(disk') /\ Gone(disk', deleted')
        <3>1. ~doubled /\ ~Contains(L, d)
            BY <1>3, <2>14 DEF L
        <3>2. Distinct(dirs) /\ Distinct(L) /\ Listing(cfg, dirs)
            BY <3>1, LoadedOnce DEF L
        <3>3. \A k \in DOMAIN L : L[k] # d
            BY <2>1, <3>1 DEF Contains
        <3>4. Distinct(l)
            BY <2>1, <3>2, <3>3, AppendedDistinct DEF l
        <3>5. InOrderOf(dirs', l)
            BY <1>3, <2>1, <2>7, <3>1, <3>2, AppendInOrder DEF Listing, L, l
        <3>6. Listing(cfg', dirs')
            BY <2>6, <3>2, <3>4, <3>5 DEF Listing
        <3>7. Chosen(cfg, dirs, activeEnv) /\ InSync(dirs, cols, disk)
              /\ EachOnce(disk) /\ Gone(disk, deleted)
            BY <3>1 DEF Good, Once
        <3>8. ASSUME NEW k \in 1 .. MaxColls, activeEnv'[k] # NoEnv
              PROVE  k <= Len(dirs') /\ activeEnv'[k] = cfg'.env[dirs'[k]]
            <4>1. k <= Len(dirs) /\ activeEnv[k] = cfg.env[dirs[k]]
                BY <1>1, <3>7, <3>8 DEF Chosen
            <4>2. k \in 1 .. Len(dirs)
                BY <4>1, <2>7
            <4>3. QED
                BY <1>1, <2>4, <2>7, <2>8, <4>1, <4>2
        <3>9. Chosen(cfg', dirs', activeEnv')
            BY <3>8 DEF Chosen
        <3>10. ASSUME NEW k \in DOMAIN dirs'
               PROVE  SameStructure(cols'[k], disk'[dirs'[k]])
            <4>1. CASE k \in 1 .. Len(dirs)
                BY <1>1, <2>7, <2>8, <2>9, <3>7, <4>1 DEF InSync, SameStructure
            <4>2. CASE k = Len(dirs) + 1
                BY <1>1, <2>8, <2>9, <4>2 DEF SameStructure
            <4>3. QED
                BY <2>7, <2>8, <4>1, <4>2
        <3>11. InSync(dirs', cols', disk')
            BY <3>10 DEF InSync, SameStructure
        <3>12. QED
            BY <1>1, <3>6, <3>7, <3>9, <3>11
    <2>15. doubled' \in BOOLEAN
        BY <1>3
    <2>16. QED
        BY <1>1, <2>6, <2>13, <2>14, <2>15, GoodNext
<1>4. QED
    BY <1>2, <1>3 DEF OpenCollection

(* The list goes without an element, and so does the part of it.            *)
LEMMA RemoveInOrder ==
    ASSUME NEW s \in Seq(Dirs), NEW t \in Seq(Dirs), InOrderOf(s, t), Distinct(s),
           NEW i \in DOMAIN s, NEW m \in DOMAIN t, s[i] = t[m]
    PROVE  InOrderOf(RemoveAt(s, i), RemoveAt(t, m))
<1> DEFINE u == RemoveAt(s, i)
           v == RemoveAt(t, m)
           up(k) == IF k < i THEN k ELSE k + 1
           vp(k) == IF k < m THEN k ELSE k + 1
<1>1. DOMAIN s = 1 .. Len(s) /\ Len(s) \in Nat /\ DOMAIN t = 1 .. Len(t) /\ Len(t) \in Nat
    BY LenProperties
<1>2. /\ u \in Seq(Dirs) /\ Len(u) = Len(s) - 1
      /\ \A k \in 1 .. Len(s) - 1 : u[k] = IF k < i THEN s[k] ELSE s[k + 1]
    BY <1>1, RemoveAtProperties
<1>3. /\ v \in Seq(Dirs) /\ Len(v) = Len(t) - 1
      /\ \A k \in 1 .. Len(t) - 1 : v[k] = IF k < m THEN t[k] ELSE t[k + 1]
    BY <1>1, RemoveAtProperties
<1> HIDE DEF u, v
<1>4. DOMAIN u = 1 .. Len(s) - 1 /\ DOMAIN v = 1 .. Len(t) - 1
    BY <1>1, <1>2, <1>3, LenProperties
<1>5. \A k \in DOMAIN u : up(k) \in DOMAIN s /\ up(k) # i /\ u[k] = s[up(k)]
    BY <1>1, <1>2, <1>4
<1>6. \A k \in DOMAIN v : vp(k) \in DOMAIN t /\ vp(k) # m /\ v[k] = t[vp(k)]
    BY <1>1, <1>3, <1>4
<1>7. \A k, l \in DOMAIN u : k < l <=> up(k) < up(l)
    BY <1>1, <1>4
<1>8. \A k, l \in DOMAIN v : k < l <=> vp(k) < vp(l)
    BY <1>1, <1>4
<1>9. \A k \in DOMAIN t : k # m => \E l \in DOMAIN v : v[l] = t[k]
    <2>1. SUFFICES ASSUME NEW k \in DOMAIN t, k # m PROVE \E l \in DOMAIN v : v[l] = t[k]
        OBVIOUS
    <2>2. CASE k < m
        BY <2>2, <1>1, <1>3, <1>4
    <2>3. CASE k > m
        <3>1. k - 1 \in DOMAIN v /\ ~(k - 1 < m) /\ (k - 1) + 1 = k
            BY <2>3, <1>1, <1>4
        <3>2. v[k - 1] = t[k]
            BY <3>1, <1>3, <1>4
        <3>3. QED
            BY <3>1, <3>2
    <2>4. QED
        BY <2>1, <2>2, <2>3, <1>1
<1> HIDE DEF up, vp
<1>10. ASSUME NEW k \in DOMAIN u PROVE \E l \in DOMAIN v : u[k] = v[l]
    <2>1. up(k) \in DOMAIN s /\ up(k) # i /\ u[k] = s[up(k)]
        BY <1>5
    <2>2. PICK l \in DOMAIN t : s[up(k)] = t[l]
        BY <2>1 DEF InOrderOf, ToSet
    <2>3. l # m
        BY <2>1, <2>2 DEF Distinct
    <2>4. QED
        BY <2>1, <2>2, <2>3, <1>9
<1>11. ToSet(u) \subseteq ToSet(v)
    BY <1>10 DEF ToSet
<1>12. ASSUME NEW a \in DOMAIN u, NEW b \in DOMAIN u, NEW k \in DOMAIN v, NEW l \in DOMAIN v,
              u[a] = v[k], u[b] = v[l]
       PROVE  a < b <=> k < l
    <2>1. s[up(a)] = t[vp(k)] /\ s[up(b)] = t[vp(l)]
        BY <1>5, <1>6, <1>12
    <2>2. up(a) < up(b) <=> vp(k) < vp(l)
        BY <1>5, <1>6, <2>1 DEF InOrderOf
    <2>3. QED
        BY <1>7, <1>8, <2>2
<1>13. QED
    BY <1>11, <1>12 DEF InOrderOf, u, v

(* The list, what is loaded and the environments by position lose the same  *)
(* directory; the positions behind it follow.                               *)
LEMMA RemoveCollectionGood ==
    ASSUME Good, NEW i \in DOMAIN dirs, RemoveCollection(i) PROVE Good'
<1> DEFINE d == dirs[i]
           L == List(cfg)
           l == IF Contains(L, d) THEN RemoveAt(L, FirstIn(L, d)) ELSE L
           n == Len(dirs)
<1>1. /\ ConfigGood(cfg) /\ LoadedGood(cfg, dirs, cols, activeCol, activeEnv)
      /\ disk \in [Dirs -> Collection] /\ broken \subseteq Dirs /\ doubled \in BOOLEAN
      /\ DeletedGood(deleted)
      /\ disk' = disk /\ broken' = broken /\ saveFailed' = FALSE /\ deleted' = deleted
      /\ doubled' = doubled
    BY DEF Good, Typed, RemoveCollection, Quiet, Saved
<1>2. /\ DOMAIN cfg' = ConfigFields /\ cfg'.active = cfg.active
      /\ cfg'.workspaces = [cfg.workspaces EXCEPT ![cfg.active].list = l]
      /\ cfg'.col = IF cfg.col = d THEN NoDir ELSE cfg.col
      /\ cfg'.env = [cfg.env EXCEPT ![d] = IF Shared(d) THEN cfg.env[d] ELSE NoEnv]
    BY <1>1 DEF RemoveCollection, Unlisted, ConfigGood, ConfigFields, List
<1>3. /\ n \in Nat /\ DOMAIN dirs = 1 .. n /\ d \in Dirs /\ i \in 1 .. n
      /\ \A k \in DOMAIN dirs : dirs[k] \in Dirs
      /\ MaxColls \in Nat /\ n <= MaxColls
    BY Positions DEF Good
<1>4. L \in Seq(Dirs) /\ Len(L) \in Nat /\ DOMAIN L = 1 .. Len(L) /\ Len(L) <= MaxColls
    BY <1>1, ListGood
<1>5. cfg'.col \in Dirs \cup {NoDir}
    BY <1>1, <1>2 DEF ConfigGood
<1>6. cfg'.env \in [Dirs -> Envs \cup {NoEnv}] /\ \A c \in Dirs : c # d => cfg'.env[c] = cfg.env[c]
    BY <1>1, <1>2, <1>3 DEF ConfigGood
<1>7. /\ dirs \in Seq(Dirs) /\ cols \in Seq(Collection) /\ Len(cols) = n /\ n <= Len(L)
      /\ DOMAIN cols = 1 .. n
    BY <1>1, LenProperties DEF LoadedGood
<1>8. /\ dirs' \in Seq(Dirs) /\ Len(dirs') = n - 1
      /\ \A k \in 1 .. n - 1 : dirs'[k] = IF k < i THEN dirs[k] ELSE dirs[k + 1]
    <2>1. dirs' = RemoveAt(dirs, i)
        BY DEF RemoveCollection
    <2>2. dirs \in Seq(Dirs) /\ i \in 1 .. Len(dirs)
        BY <1>3, <1>7
    <2>3. QED
        BY <2>1, <2>2, RemoveAtProperties
<1>9. /\ cols' \in Seq(Collection) /\ Len(cols') = n - 1
      /\ \A k \in 1 .. n - 1 : cols'[k] = IF k < i THEN cols[k] ELSE cols[k + 1]
    <2>1. cols' = RemoveAt(cols, i)
        BY DEF RemoveCollection
    <2>2. cols \in Seq(Collection) /\ i \in 1 .. Len(cols) /\ Len(cols) = n
        BY <1>3, <1>7
    <2> HIDE DEF n
    <2>3. QED
        BY <2>1, <2>2, RemoveAtProperties
<1>10. /\ activeEnv' = [k \in 1 .. MaxColls |->
                          IF k \in i .. n - 1 THEN activeEnv[k + 1]
                          ELSE IF k = n THEN NoEnv ELSE activeEnv[k]]
       /\ activeCol' = IF activeCol = i THEN (IF dirs' = <<>> THEN 0 ELSE 1)
                       ELSE IF activeCol > i THEN activeCol - 1 ELSE activeCol
    BY DEF RemoveCollection
<1>11. DOMAIN dirs' = 1 .. n - 1 /\ (dirs' = <<>> <=> n = 1)
    <2>1. DOMAIN dirs' = 1 .. n - 1
        BY <1>3, <1>8, LenProperties
    <2>2. dirs' = <<>> <=> Len(dirs') = 0
        BY <1>8, EmptySeq, LenProperties
    <2>3. QED
        BY <1>3, <1>8, <2>1, <2>2
<1>12. l \in Seq(Dirs) /\ Len(l) <= Len(L) /\ Len(l) \in Nat /\ n - 1 <= Len(l)
    <2>1. CASE Contains(L, d)
        <3>1. FirstIn(L, d) \in 1 .. Len(L)
            BY <1>4, <2>1, FirstInProperties
        <3>2. RemoveAt(L, FirstIn(L, d)) \in Seq(Dirs)
              /\ Len(RemoveAt(L, FirstIn(L, d))) = Len(L) - 1
            BY <1>4, <3>1, RemoveAtProperties
        <3> HIDE DEF L
        <3>3. l \in Seq(Dirs) /\ Len(l) = Len(L) - 1
            BY <2>1, <3>2
        <3> HIDE DEF l
        <3>4. Len(L) >= 1
            BY <1>4, <3>1
        <3>5. QED
            BY <1>3, <1>4, <1>7, <3>3, <3>4
    <2>2. CASE ~Contains(L, d)
        BY <1>3, <1>4, <1>7, <2>2
    <2>3. QED
        BY <2>1, <2>2
<1> HIDE DEF l, L, n, d
<1>13. Len(l) <= MaxColls
    BY <1>3, <1>4, <1>12
<1>14. /\ ConfigGood(cfg') /\ List(cfg') = l
       /\ /\ \A w \in DOMAIN cfg.workspaces : Distinct(cfg.workspaces[w].list)
          /\ Distinct(l)
          => \A w \in DOMAIN cfg'.workspaces : Distinct(cfg'.workspaces[w].list)
    BY <1>1, <1>2, <1>5, <1>6, <1>12, <1>13, WithList
<1>15. activeCol \in 1 .. n
    <2>1. activeCol \in 0 .. n /\ (dirs = <<>> <=> activeCol = 0)
        BY <1>1 DEF LoadedGood, n
    <2>2. dirs # <<>>
        BY <1>3
    <2>3. QED
        BY <2>1, <2>2, <1>3
<1>16. activeCol' \in 0 .. n - 1 /\ (dirs' = <<>> <=> activeCol' = 0)
    BY <1>3, <1>10, <1>11, <1>15
<1>17. Contains(dirs', cfg'.col) => dirs'[activeCol'] = cfg'.col
    <2>1. SUFFICES ASSUME Contains(dirs', cfg'.col) PROVE dirs'[activeCol'] = cfg'.col
        OBVIOUS
    <2>2. PICK k \in 1 .. n - 1 : dirs'[k] = cfg'.col
        BY <2>1, <1>8 DEF Contains
    <2>3. PICK m \in 1 .. n : dirs'[k] = dirs[m]
        BY <1>3, <1>8
    <2>4. cfg'.col \in Dirs
        BY <1>3, <2>2, <2>3
    <2>5. cfg'.col = cfg.col /\ cfg.col # d
        BY <2>4, <1>2, SessionAssumption
    <2>6. Contains(dirs, cfg.col)
        BY <2>2, <2>3, <2>5 DEF Contains, n
    <2>7. dirs[activeCol] = cfg.col
        BY <1>1, <2>6 DEF LoadedGood
    <2>8. activeCol # i
        BY <2>5, <2>7 DEF d
    <2>9. activeCol' \in 1 .. n - 1 /\ dirs'[activeCol'] = dirs[activeCol]
        <3>1. CASE activeCol < i
            BY <3>1, <1>3, <1>8, <1>10, <1>15
        <3>2. CASE activeCol > i
            <4>1. activeCol' = activeCol - 1 /\ activeCol' \in 1 .. n - 1
                  /\ ~(activeCol' < i) /\ activeCol' + 1 = activeCol
                BY <3>2, <1>3, <1>10, <1>15
            <4>2. QED
                BY <4>1, <1>8
        <3>3. QED
            BY <3>1, <3>2, <2>8, <1>3, <1>15
    <2>10. QED
        BY <2>5, <2>7, <2>9
<1>18. activeEnv' \in [1 .. MaxColls -> Envs \cup {NoEnv}]
    <2>1. activeEnv \in [1 .. MaxColls -> Envs \cup {NoEnv}]
        BY <1>1 DEF LoadedGood
    <2>2. QED
        BY <2>1, <1>3, <1>10
<1>19. LoadedGood(cfg', dirs', cols', activeCol', activeEnv')
    BY <1>8, <1>9, <1>12, <1>14, <1>16, <1>17, <1>18 DEF LoadedGood
<1>20. ASSUME ~doubled'
       PROVE  /\ Listing(cfg', dirs') /\ Chosen(cfg', dirs', activeEnv')
              /\ InSync(dirs', cols', disk') /\ EachOnce(disk') /\ Gone(disk', deleted')
    <2>1. ~doubled
        BY <1>1, <1>20
    <2>2. Distinct(dirs) /\ Distinct(L) /\ Listing(cfg, dirs) /\ InOrderOf(dirs, L)
        BY <2>1, LoadedOnce DEF L, Listing
    <2>3. Chosen(cfg, dirs, activeEnv) /\ InSync(dirs, cols, disk)
          /\ EachOnce(disk) /\ Gone(disk, deleted)
        BY <2>1 DEF Good, Once
    <2>4. Contains(L, d)
        <3>1. PICK k \in DOMAIN L : dirs[i] = L[k]
            BY <2>2 DEF InOrderOf, ToSet
        <3>2. QED
            BY <3>1, <1>4 DEF Contains, d
    <2>5. FirstIn(L, d) \in DOMAIN L /\ L[FirstIn(L, d)] = d
        BY <1>4, <2>4, FirstInProperties
    <2>6. l = RemoveAt(L, FirstIn(L, d))
        BY <2>4 DEF l
    <2>7. Distinct(l)
        BY <1>4, <2>2, <2>5, <2>6, RemovedDistinct
    <2>8. InOrderOf(dirs', l)
        <3>1. dirs' = RemoveAt(dirs, i)
            BY DEF RemoveCollection
        <3>2. dirs[i] = L[FirstIn(L, d)]
            BY <2>5 DEF d
        <3>3. QED
            BY <1>4, <1>7, <2>2, <2>5, <2>6, <3>1, <3>2, RemoveInOrder
    <2>9. Listing(cfg', dirs')
        BY <1>14, <2>2, <2>7, <2>8 DEF Listing
    <2>10. \A k \in DOMAIN dirs : k # i => dirs[k] # d
        BY <2>2 DEF Distinct, d
    <2>11. ASSUME NEW k \in 1 .. MaxColls, activeEnv'[k] # NoEnv
           PROVE  k <= Len(dirs') /\ activeEnv'[k] = cfg'.env[dirs'[k]]
        <3>1. activeEnv'[k] = IF k \in i .. n - 1 THEN activeEnv[k + 1]
                              ELSE IF k = n THEN NoEnv ELSE activeEnv[k]
            BY <1>10
        <3>2. CASE k \in i .. n - 1
            <4>1. k + 1 \in 1 .. MaxColls /\ k + 1 \in DOMAIN dirs /\ k + 1 # i
                  /\ k \in 1 .. n - 1 /\ ~(k < i)
                BY <3>2, <1>3
            <4>2. activeEnv[k + 1] = cfg.env[dirs[k + 1]]
                BY <2>3, <2>11, <3>1, <3>2, <4>1 DEF Chosen
            <4>3. dirs'[k] = dirs[k + 1] /\ dirs[k + 1] # d /\ dirs[k + 1] \in Dirs
                BY <1>3, <1>8, <2>10, <4>1
            <4>4. QED
                BY <1>6, <1>8, <3>1, <3>2, <4>1, <4>2, <4>3
        <3>3. CASE k \notin i .. n - 1
            <4>1. k # n /\ activeEnv'[k] = activeEnv[k]
                BY <2>11, <3>1, <3>3
            <4>2. k <= n /\ activeEnv[k] = cfg.env[dirs[k]]
                BY <2>3, <2>11, <4>1 DEF Chosen, n
            <4>3. k < i /\ k \in 1 .. n - 1 /\ k \in DOMAIN dirs /\ k # i
                BY <1>3, <3>3, <4>1, <4>2
            <4>4. dirs'[k] = dirs[k] /\ dirs[k] # d /\ dirs[k] \in Dirs
                BY <1>3, <1>8, <2>10, <4>3
            <4>5. QED
                BY <1>6, <1>8, <4>1, <4>2, <4>3, <4>4
        <3>4. QED
            BY <3>2, <3>3
    <2>12. Chosen(cfg', dirs', activeEnv')
        BY <2>11 DEF Chosen
    <2>13. ASSUME NEW k \in DOMAIN dirs' PROVE SameStructure(cols'[k], disk'[dirs'[k]])
        <3> DEFINE m == IF k < i THEN k ELSE k + 1
        <3>1. m \in DOMAIN dirs /\ dirs'[k] = dirs[m] /\ cols'[k] = cols[m]
            BY <1>3, <1>8, <1>9, <1>11
        <3> HIDE DEF m
        <3>2. QED
            BY <1>1, <2>3, <3>1 DEF InSync, SameStructure
    <2>14. InSync(dirs', cols', disk')
        BY <2>13 DEF InSync, SameStructure
    <2>15. QED
        BY <1>1, <2>3, <2>9, <2>12, <2>14
<1>21. doubled' \in BOOLEAN
    BY <1>1
<1>22. QED
    BY <1>1, <1>14, <1>19, <1>20, <1>21, GoodNext

(* As many elements as the list has, none of them twice and in its order:   *)
(* it is the list.                                                          *)
LEMMA WholeInOrder ==
    ASSUME NEW s \in Seq(Dirs), NEW t \in Seq(Dirs), Len(s) = Len(t), InOrderOf(s, t)
    PROVE  s = t
<1> DEFINE p == [i \in DOMAIN s |-> CHOOSE k \in DOMAIN t : s[i] = t[k]]
           n == Len(s)
<1>1. n \in Nat /\ DOMAIN s = 1 .. n /\ DOMAIN t = 1 .. n
    BY LenProperties
<1>2. \A i \in DOMAIN s : \E k \in DOMAIN t : s[i] = t[k]
    BY DEF InOrderOf, ToSet
<1>3. \A i \in DOMAIN s : p[i] \in DOMAIN t /\ s[i] = t[p[i]]
    BY <1>2
<1> HIDE DEF p, n
<1>4. \A i, j \in 1 .. n : i < j => p[i] < p[j]
    BY <1>1, <1>3 DEF InOrderOf
<1>5. \A i \in 1 .. n : p[i] \in 1 .. n
    BY <1>1, <1>3
<1>6. \A i \in 1 .. n : ~(p[i] < i)
    <2> DEFINE T == {i \in 1 .. n : p[i] < i}
    <2>1. SUFFICES ASSUME T # {} PROVE FALSE
        OBVIOUS
    <2>2. T \in SUBSET Nat
        BY <1>1
    <2>3. PICK i \in T : \A j \in T : i <= j
        BY <2>1, <2>2, LeastNat
    <2>4. i \in 1 .. n /\ p[i] < i /\ p[i] \in 1 .. n
        BY <1>5
    <2>5. i - 1 \in 1 .. n /\ i - 1 \notin T
        BY <1>1, <2>3, <2>4
    <2>6. ~(p[i - 1] < i - 1) /\ p[i - 1] < p[i] /\ p[i - 1] \in 1 .. n
        BY <1>1, <1>4, <1>5, <2>4, <2>5
    <2>7. QED
        BY <1>1, <2>4, <2>6
<1>7. \A i \in 1 .. n : ~(p[i] > i)
    <2> DEFINE T == {j \in 0 .. n - 1 : p[n - j] > n - j}
    <2>1. SUFFICES ASSUME NEW i \in 1 .. n, p[i] > i PROVE FALSE
        OBVIOUS
    <2>2. n - i \in T
        <3>1. n - i \in 0 .. n - 1 /\ n - (n - i) = i
            BY <1>1, <2>1
        <3>2. p[n - (n - i)] > n - (n - i)
            BY <2>1, <3>1
        <3>3. QED
            BY <3>1, <3>2
    <2>3. T \in SUBSET Nat /\ T # {}
        <3>1. T \subseteq 0 .. n - 1 /\ 0 .. n - 1 \subseteq Nat
            BY <1>1
        <3>2. QED
            BY <2>2, <3>1
    <2>4. PICK j \in T : \A k \in T : j <= k
        BY <2>3, LeastNat
    <2>5. n - j \in 1 .. n /\ p[n - j] > n - j /\ p[n - j] \in 1 .. n
        BY <1>1, <1>5
    <2>6. j - 1 \in 0 .. n - 1 /\ j - 1 \notin T /\ n - (j - 1) = n - j + 1
        <3>1. j \in 0 .. n - 1 /\ n - j # n
            BY <1>1, <2>5
        <3>2. j - 1 \in 0 .. n - 1 /\ n - (j - 1) = n - j + 1
            BY <1>1, <3>1
        <3>3. ~(j <= j - 1)
            BY <3>1
        <3>4. QED
            BY <2>4, <3>2, <3>3
    <2>7. n - j + 1 \in 1 .. n /\ ~(p[n - j + 1] > n - j + 1)
        BY <1>1, <2>5, <2>6
    <2>8. p[n - j] < p[n - j + 1] /\ p[n - j + 1] \in 1 .. n
        BY <1>1, <1>4, <1>5, <2>5, <2>7
    <2>9. QED
        BY <1>1, <2>5, <2>7, <2>8
<1>8. \A i \in 1 .. n : p[i] = i
    BY <1>1, <1>5, <1>6, <1>7
<1>9. \A i \in 1 .. Len(s) : s[i] = t[i]
    BY <1>1, <1>3, <1>8 DEF n
<1>10. QED
    BY <1>9, SeqEqual

(* A move repeats nothing.                                                  *)
LEMMA MovedDistinct ==
    ASSUME NEW s \in Seq(Dirs), Distinct(s), NEW from \in DOMAIN s, NEW to \in DOMAIN s
    PROVE  Distinct(Moved(s, from, to))
<1> DEFINE m == Moved(s, from, to)
<1>1. Len(s) \in Nat /\ DOMAIN s = 1 .. Len(s)
    BY LenProperties
<1>2. /\ m \in Seq(Dirs) /\ Len(m) = Len(s)
      /\ \A k \in 1 .. Len(s) : m[k] = s[Source(k, from, to)]
    BY <1>1, MovedProperties DEF Rearranged
<1> HIDE DEF m
<1>3. DOMAIN m = 1 .. Len(s)
    BY <1>2, LenProperties
<1>4. /\ \A k \in 1 .. Len(s) : Source(k, from, to) \in 1 .. Len(s)
      /\ \A k, l \in 1 .. Len(s) : Source(k, from, to) = Source(l, from, to) => k = l
    <2>1. PICK n \in Nat : n = Len(s)
        BY <1>1
    <2>2. from \in 1 .. n /\ to \in 1 .. n
        BY <1>1, <2>1
    <2>3. Within(n, from, to) /\ OneToOne(n, from, to)
        BY <2>2, SourceProperties
    <2>4. QED
        BY <2>1, <2>3 DEF Within, OneToOne
<1>5. Distinct(m)
    BY <1>1, <1>2, <1>3, <1>4 DEF Distinct
<1>6. QED
    BY <1>5 DEF m

(* The move is made in the list and in what is loaded, which are the same   *)
(* then: a part of the list that is as long as the list.                    *)
LEMMA MoveCollectionGood ==
    ASSUME Good, NEW from \in DOMAIN dirs, NEW to \in DOMAIN dirs, MoveCollection(from, to)
    PROVE  Good'
<1> DEFINE L == List(cfg)
           l == Moved(L, from, to)
<1>1. /\ ConfigGood(cfg) /\ LoadedGood(cfg, dirs, cols, activeCol, activeEnv)
      /\ disk \in [Dirs -> Collection] /\ broken \subseteq Dirs /\ doubled \in BOOLEAN
      /\ DeletedGood(deleted)
      /\ disk' = disk /\ broken' = broken /\ saveFailed' = FALSE /\ deleted' = deleted
      /\ doubled' = doubled
    BY DEF Good, Typed, MoveCollection, Quiet, Saved
<1>0. PICK n \in Nat : n = Len(dirs)
    BY Positions DEF Good
<1>2. /\ n = Len(dirs) /\ DOMAIN dirs = 1 .. n /\ from \in 1 .. n /\ to \in 1 .. n
      /\ \A k \in DOMAIN dirs : dirs[k] \in Dirs
      /\ MaxColls \in Nat /\ n <= MaxColls
    BY <1>0, Positions DEF Good
<1>3. L \in Seq(Dirs) /\ DOMAIN L = 1 .. n /\ Len(L) = n /\ Len(L) <= MaxColls
    BY <1>1, <1>2, ListGood DEF MoveCollection
<1>4. /\ dirs \in Seq(Dirs) /\ cols \in Seq(Collection) /\ Len(cols) = n
      /\ activeEnv \in [1 .. MaxColls -> Envs \cup {NoEnv}]
      /\ activeCol \in 0 .. n /\ (dirs = <<>> <=> activeCol = 0)
      /\ (Contains(dirs, cfg.col) => dirs[activeCol] = cfg.col)
    BY <1>1, <1>2 DEF LoadedGood
<1>5. activeCol \in 1 .. n /\ activeCol # 0
    <2>1. dirs # <<>>
        BY <1>2
    <2>2. QED
        BY <2>1, <1>2, <1>4
<1>6. /\ dirs' = Moved(dirs, from, to) /\ cols' = Moved(cols, from, to)
      /\ activeCol' = FirstIn(dirs', dirs[activeCol])
    BY <1>5 DEF MoveCollection
<1>7. PICK was \in [Dirs -> DOMAIN dirs] :
        /\ \A i \in DOMAIN dirs : dirs[was[dirs[i]]] = dirs[i]
        /\ activeEnv' = [k \in 1 .. MaxColls |->
                            IF k <= Len(dirs) THEN activeEnv[was[dirs'[k]]] ELSE NoEnv]
    BY DEF MoveCollection
<1>8. /\ DOMAIN cfg' = ConfigFields /\ cfg'.active = cfg.active
      /\ cfg'.workspaces = [cfg.workspaces EXCEPT ![cfg.active].list = l]
      /\ cfg'.col = cfg.col /\ cfg'.env = cfg.env
    BY <1>1 DEF MoveCollection, ConfigGood, ConfigFields, List
<1>9. cfg'.col \in Dirs \cup {NoDir} /\ cfg'.env \in [Dirs -> Envs \cup {NoEnv}]
    BY <1>1, <1>8 DEF ConfigGood
<1> DEFINE src(k) == Source(k, from, to)
<1>10. /\ \A k \in 1 .. n : src(k) \in 1 .. n
       /\ \A k \in 1 .. n : \E m \in 1 .. n : src(m) = k
    <2>1. Within(n, from, to) /\ Onto(n, from, to)
        BY <1>2, SourceProperties
    <2>2. QED
        BY <2>1 DEF Within, Onto
<1>11. dirs' \in Seq(Dirs) /\ Len(dirs') = n /\ \A k \in 1 .. n : dirs'[k] = dirs[src(k)]
    <2> DEFINE m == Moved(dirs, from, to)
    <2>1. from \in 1 .. Len(dirs) /\ to \in 1 .. Len(dirs)
        BY <1>2, <1>4
    <2>2. m \in Seq(Dirs) /\ Rearranged(m, dirs, from, to)
        BY <1>4, <2>1, MovedProperties
    <2> HIDE DEF m
    <2>3. dirs' = m
        BY <1>6 DEF m
    <2>4. QED
        BY <1>2, <1>4, <2>2, <2>3 DEF Rearranged
<1>12. cols' \in Seq(Collection) /\ Len(cols') = n /\ \A k \in 1 .. n : cols'[k] = cols[src(k)]
    <2> DEFINE m == Moved(cols, from, to)
    <2>1. from \in 1 .. Len(cols) /\ to \in 1 .. Len(cols)
        BY <1>2, <1>4
    <2>2. m \in Seq(Collection) /\ Rearranged(m, cols, from, to)
        BY <1>4, <2>1, MovedProperties
    <2> HIDE DEF m
    <2>3. cols' = m
        BY <1>6 DEF m
    <2>4. QED
        BY <1>2, <1>4, <2>2, <2>3 DEF Rearranged
<1>13. l \in Seq(Dirs) /\ Len(l) = n
    <2>1. from \in 1 .. Len(L) /\ to \in 1 .. Len(L)
        BY <1>2, <1>3
    <2>2. QED
        BY <1>2, <1>3, <2>1, MovedProperties DEF Rearranged
<1> HIDE DEF l, L, src
<1>14. DOMAIN dirs' = 1 .. n
    BY <1>11, LenProperties
<1>15. /\ ConfigGood(cfg') /\ List(cfg') = l
       /\ /\ \A w \in DOMAIN cfg.workspaces : Distinct(cfg.workspaces[w].list)
          /\ Distinct(l)
          => \A w \in DOMAIN cfg'.workspaces : Distinct(cfg'.workspaces[w].list)
    BY <1>1, <1>3, <1>8, <1>9, <1>13, WithList
<1>16. activeCol' \in 1 .. n /\ dirs'[activeCol'] = dirs[activeCol]
    <2>1. PICK m \in 1 .. n : src(m) = activeCol
        BY <1>5, <1>10
    <2>2. dirs'[m] = dirs[activeCol]
        BY <1>11, <2>1
    <2>3. Contains(dirs', dirs[activeCol])
        BY <1>11, <2>2 DEF Contains
    <2>4. QED
        BY <1>6, <1>11, <2>3, FirstInProperties
<1>17. Contains(dirs', cfg'.col) => dirs'[activeCol'] = cfg'.col
    <2>1. SUFFICES ASSUME Contains(dirs', cfg'.col) PROVE dirs'[activeCol'] = cfg'.col
        OBVIOUS
    <2>2. PICK k \in 1 .. n : dirs'[k] = cfg'.col
        BY <2>1, <1>11 DEF Contains
    <2>3. src(k) \in 1 .. n /\ dirs[src(k)] = cfg.col
        BY <2>2, <1>8, <1>10, <1>11
    <2>4. Contains(dirs, cfg.col)
        BY <1>2, <2>3 DEF Contains
    <2>5. QED
        BY <2>4, <1>4, <1>8, <1>16
<1>18. activeEnv' \in [1 .. MaxColls -> Envs \cup {NoEnv}]
    <2>1. ASSUME NEW k \in 1 .. MaxColls, k <= Len(dirs)
          PROVE  activeEnv[was[dirs'[k]]] \in Envs \cup {NoEnv}
        <3>1. k \in 1 .. n
            BY <2>1, <1>2
        <3>2. dirs'[k] \in Dirs
            BY <3>1, <1>2, <1>10, <1>11
        <3>3. was[dirs'[k]] \in 1 .. MaxColls
            BY <3>2, <1>2
        <3>4. QED
            BY <3>3, <1>4
    <2>2. QED
        BY <2>1, <1>7
<1>19. dirs' # <<>>
    <2>1. 1 \in DOMAIN dirs'
        BY <1>2, <1>14
    <2>2. QED
        BY <2>1
<1>20. activeCol' \in 0 .. Len(dirs') /\ activeCol' # 0
    <2>1. Len(dirs') = n /\ activeCol' \in 1 .. n
        BY <1>11, <1>16
    <2>2. QED
        BY <2>1
<1>21. n <= n
    BY <1>2
<1>22. LoadedGood(cfg', dirs', cols', activeCol', activeEnv')
    BY <1>11, <1>12, <1>13, <1>15, <1>17, <1>18, <1>19, <1>20, <1>21 DEF LoadedGood
<1>23. ASSUME ~doubled'
       PROVE  /\ Listing(cfg', dirs') /\ Chosen(cfg', dirs', activeEnv')
              /\ InSync(dirs', cols', disk') /\ EachOnce(disk') /\ Gone(disk', deleted')
    <2>1. ~doubled
        BY <1>1, <1>23
    <2>2. Distinct(dirs) /\ Distinct(L) /\ Listing(cfg, dirs) /\ InOrderOf(dirs, L)
        BY <2>1, LoadedOnce DEF L, Listing
    <2>3. Chosen(cfg, dirs, activeEnv) /\ InSync(dirs, cols, disk)
          /\ EachOnce(disk) /\ Gone(disk, deleted)
        BY <2>1 DEF Good, Once
    <2>4. dirs = L
        BY <1>2, <1>3, <1>4, <2>2, WholeInOrder
    <2>5. dirs' = l
        BY <1>6, <2>4 DEF l
    <2>6. Distinct(l)
        BY <1>2, <1>3, <2>2, MovedDistinct DEF l
    <2>7. Listing(cfg', dirs')
        BY <1>13, <1>15, <2>2, <2>5, <2>6, SelfInOrder DEF Listing
    <2>8. ASSUME NEW k \in 1 .. MaxColls, activeEnv'[k] # NoEnv
          PROVE  k <= Len(dirs') /\ activeEnv'[k] = cfg'.env[dirs'[k]]
        <3>1. k <= Len(dirs) /\ activeEnv'[k] = activeEnv[was[dirs'[k]]]
            BY <1>7, <2>8
        <3>2. k \in 1 .. n
            BY <3>1, <1>2
        <3>3. src(k) \in DOMAIN dirs /\ dirs'[k] = dirs[src(k)] /\ dirs'[k] \in Dirs
            BY <3>2, <1>2, <1>10, <1>11
        <3>4. dirs[was[dirs'[k]]] = dirs'[k] /\ was[dirs'[k]] \in 1 .. MaxColls
            BY <3>3, <1>2, <1>7
        <3>5. activeEnv[was[dirs'[k]]] = cfg.env[dirs[was[dirs'[k]]]]
            BY <2>3, <2>8, <3>1, <3>4 DEF Chosen
        <3>6. QED
            BY <1>2, <1>8, <1>11, <3>1, <3>4, <3>5
    <2>9. Chosen(cfg', dirs', activeEnv')
        BY <2>8 DEF Chosen
    <2>10. ASSUME NEW k \in DOMAIN dirs' PROVE SameStructure(cols'[k], disk'[dirs'[k]])
        <3>1. src(k) \in DOMAIN dirs /\ dirs'[k] = dirs[src(k)] /\ cols'[k] = cols[src(k)]
            BY <1>2, <1>10, <1>11, <1>12, <1>14
        <3>2. QED
            BY <1>1, <2>3, <3>1 DEF InSync, SameStructure
    <2>11. InSync(dirs', cols', disk')
        BY <2>10 DEF InSync, SameStructure
    <2>12. QED
        BY <1>1, <2>3, <2>7, <2>9, <2>11
<1>24. doubled' \in BOOLEAN
    BY <1>1
<1>25. QED
    BY <1>1, <1>15, <1>22, <1>23, <1>24, GoodNext

-----------------------------------------------------------------------------
(* What a step keeps.                                                       *)

(* The choice that changes is the active collection's, which is listed.     *)
ChoosesActive ==
    \/ cfg'.env = cfg.env
    \/ \E n \in Envs \cup {NoEnv} :
         activeCol # 0 /\ List(cfg') = List(cfg)
         /\ cfg'.env = [cfg.env EXCEPT ![dirs[activeCol]] = n]
(* Then what changed is the active collection's.                            *)
LEMMA ActiveChoice ==
    ASSUME Good, ~doubled, ChoosesActive, NEW d \in Dirs, cfg.env[d] # cfg'.env[d]
    PROVE  activeCol # 0 /\ dirs[activeCol] = d /\ Contains(List(cfg'), d)
<1>1. PICK n \in Envs \cup {NoEnv} :
        activeCol # 0 /\ List(cfg') = List(cfg)
        /\ cfg'.env = [cfg.env EXCEPT ![dirs[activeCol]] = n]
    BY DEF ChoosesActive
<1>2. activeCol \in DOMAIN dirs
    BY <1>1, ActiveIsLoaded DEF Good
<1>3. dirs[activeCol] = d
    BY <1>1 DEF Good, Typed, ConfigGood
<1>4. InOrderOf(dirs, List(cfg)) /\ DOMAIN List(cfg) = 1 .. Len(List(cfg))
    BY LoadedOnce, ListGood DEF Listing, Good, Typed
<1>5. PICK k \in DOMAIN List(cfg) : dirs[activeCol] = List(cfg)[k]
    BY <1>2, <1>4 DEF InOrderOf, ToSet
<1>6. Contains(List(cfg'), d)
    BY <1>1, <1>3, <1>4, <1>5 DEF Contains
<1>7. QED
    BY <1>1, <1>3, <1>6

(* A step that keeps the loaded collections in their places                 *)
(* keeps the choices and the texts, where it does at each position.         *)
LEMMA InPlace ==
    ASSUME Good, UNCHANGED dirs, ChoosesActive,
           ~doubled => \A k \in DOMAIN dirs : cfg.env[dirs[k]] = cfg'.env[dirs[k]] =>
                        activeEnv[k] \in {NoEnv, activeEnv'[k]},
           UNCHANGED doubled
    PROVE  /\ ChoiceKept
           /\ (\A k \in DOMAIN dirs : LET t == cols'[k].text IN
                t = cols[k].text \/ Edit(k, t) \/ UpdateCollection(k, t)) => TextKept
<1>1. ASSUME ~doubled, NEW i \in DOMAIN dirs, NEW j \in DOMAIN dirs', dirs[i] = dirs'[j]
      PROVE  i = j
    BY <1>1, LoadedOnce DEF Distinct
<1>2. ASSUME ~doubled, NEW d \in Dirs, cfg.env[d] # cfg'.env[d]
      PROVE  activeCol # 0 /\ dirs[activeCol] = d /\ Contains(List(cfg'), d)
    BY <1>2, ActiveChoice
<1>3. ChoiceKept
    BY <1>1, <1>2 DEF ChoiceKept
<1>4. ASSUME \A k \in DOMAIN dirs : LET t == cols'[k].text IN
                t = cols[k].text \/ Edit(k, t) \/ UpdateCollection(k, t)
      PROVE  TextKept
    BY <1>1, <1>4 DEF TextKept
<1>5. QED
    BY <1>3, <1>4

(* Nothing of it changes.                                                   *)
LEMMA StillKept ==
    ASSUME Good, UNCHANGED <<dirs, activeEnv, doubled>>, cfg'.env = cfg.env,
           \A k \in DOMAIN dirs : cols'[k].text = cols[k].text
    PROVE  ChoiceKept /\ TextKept
<1>1. ~doubled => \A k \in DOMAIN dirs : cfg.env[dirs[k]] = cfg'.env[dirs[k]] =>
                    activeEnv[k] \in {NoEnv, activeEnv'[k]}
    OBVIOUS
<1>2. ChoiceKept
    BY <1>1, InPlace DEF ChoosesActive
<1>3. \A k \in DOMAIN dirs : LET t == cols'[k].text IN
                t = cols[k].text \/ Edit(k, t) \/ UpdateCollection(k, t)
    OBVIOUS
<1>4. TextKept
    BY <1>1, <1>3, InPlace DEF ChoosesActive
<1>5. QED
    BY <1>2, <1>4

(* A load takes the choices from the config.                                *)
LEMMA ReloadKept ==
    ASSUME Good, Good', Reload, UNCHANGED doubled, ChoosesActive
    PROVE  ChoiceKept
<1>1. ConfigGood(cfg') /\ disk' \in [Dirs -> Collection]
    BY DEF Good, Typed
<1>2. \A i \in 1 .. MaxColls : i <= Len(dirs') => activeEnv'[i] = cfg'.env[dirs'[i]]
    BY <1>1, ReloadLoads
<1>3. Len(dirs') \in Nat /\ Len(dirs') <= MaxColls /\ DOMAIN dirs' = 1 .. Len(dirs')
    <2>1. dirs' \in Seq(Dirs) /\ Len(dirs') <= Len(List(cfg'))
        BY DEF Good, Typed, LoadedGood
    <2>2. Len(List(cfg')) \in Nat /\ Len(List(cfg')) <= MaxColls /\ MaxColls \in Nat
        BY <1>1, ListGood, SessionAssumption
    <2>3. Len(dirs') \in Nat /\ DOMAIN dirs' = 1 .. Len(dirs')
        BY <2>1, LenProperties
    <2>4. QED
        BY <2>1, <2>2, <2>3
<1>4. \A j \in DOMAIN dirs' : activeEnv'[j] = cfg'.env[dirs'[j]]
    BY <1>2, <1>3, SessionAssumption
<1>5. ASSUME ~doubled, NEW i \in DOMAIN dirs, NEW j \in DOMAIN dirs', dirs[i] = dirs'[j],
             cfg.env[dirs[i]] = cfg'.env[dirs[i]]
      PROVE  activeEnv[i] \in {NoEnv, activeEnv'[j]}
    <2>1. activeEnv[i] # NoEnv => activeEnv[i] = cfg.env[dirs[i]]
        <3>1. i \in 1 .. MaxColls
            BY Positions DEF Good
        <3>2. QED
            BY <3>1, <1>5 DEF Good, Once, Chosen
    <2>2. QED
        BY <1>4, <1>5, <2>1
<1>6. ASSUME ~doubled, NEW d \in Dirs, cfg.env[d] # cfg'.env[d]
      PROVE  activeCol # 0 /\ dirs[activeCol] = d /\ Contains(List(cfg'), d)
    BY <1>6, ActiveChoice
<1>7. QED
    BY <1>5, <1>6 DEF ChoiceKept

(* A save, kept or not.                                                     *)
LEMMA PersistKept ==
    ASSUME Good, Good', NEW i, NEW changed, NEW col, NEW env,
           Persist(i, changed, col, env), ChoosesActive, UNCHANGED doubled,
           ~doubled => \A k \in DOMAIN dirs : cfg.env[dirs[k]] = cfg'.env[dirs[k]] =>
                        activeEnv[k] \in {NoEnv, env[k]},
           \A k \in DOMAIN dirs :
                changed[k].text = cols[k].text \/ UpdateCollection(k, changed[k].text)
    PROVE  ChoiceKept /\ TextKept
<1>1. CASE /\ cols' = changed /\ activeEnv' = env /\ dirs' = dirs
    <2>1. ~doubled => \A k \in DOMAIN dirs : cfg.env[dirs[k]] = cfg'.env[dirs[k]] =>
                        activeEnv[k] \in {NoEnv, activeEnv'[k]}
        BY <1>1
    <2>2. ChoiceKept
        BY <1>1, <2>1, InPlace
    <2>3. \A k \in DOMAIN dirs : LET t == cols'[k].text IN
                t = cols[k].text \/ Edit(k, t) \/ UpdateCollection(k, t)
        BY <1>1
    <2>4. TextKept
        BY <1>1, <2>1, <2>3, InPlace
    <2>5. QED
        BY <2>2, <2>4
<1>2. CASE saveFailed' = TRUE /\ Reload
    <2>1. ChoiceKept
        BY <1>2, ReloadKept
    <2>2. TextKept
        BY <1>2 DEF TextKept, Reloads
    <2>3. QED
        BY <2>1, <2>2
<1>3. QED
    BY <1>1, <1>2 DEF Persist

(* One that chooses no other environment.                                   *)
LEMMA PersistOnlyKept ==
    ASSUME Good, Good', NEW i \in DOMAIN dirs, NEW e \in Collection,
           PersistOnly(i, [cols EXCEPT ![i] = e]), UNCHANGED doubled,
           e.text = cols[i].text \/ UpdateCollection(i, e.text)
    PROVE  ChoiceKept /\ TextKept
<1> DEFINE changed == [cols EXCEPT ![i] = e]
<1>1. \A k \in DOMAIN dirs : changed[k] = IF k = i THEN e ELSE cols[k]
    BY ColsChanged
<1>2. cfg' = cfg /\ Persist(i, changed, activeCol, activeEnv)
    BY DEF PersistOnly
<1> HIDE DEF changed
<1>3. \A k \in DOMAIN dirs :
            changed[k].text = cols[k].text \/ UpdateCollection(k, changed[k].text)
    BY <1>1
<1>4. ChoosesActive
    BY <1>2 DEF ChoosesActive
<1>5. QED
    BY <1>2, <1>3, <1>4, PersistKept

(* Steps of the workspaces.                                                 *)
LEMMA OfWorkspacesKept ==
    ASSUME Good, Good', OfWorkspaces PROVE ChoiceKept /\ TextKept
<1>1. ConfigGood(cfg) /\ DOMAIN cfg = ConfigFields
    BY DEF Good, Typed, ConfigGood
<1>2. ASSUME NEW n \in Names, AddWorkspace(n) PROVE ChoiceKept /\ TextKept
    <2>1. cfg'.env = cfg.env
        BY <1>1, <1>2 DEF AddWorkspace, ConfigFields
    <2>2. QED
        BY <1>2, <2>1, StillKept DEF AddWorkspace, loaded, Quiet
<1>3. ASSUME NEW w \in DOMAIN cfg.workspaces, NEW n \in Names, RenameWorkspace(w, n)
      PROVE  ChoiceKept /\ TextKept
    <2>1. cfg'.env = cfg.env
        BY <1>1, <1>3 DEF RenameWorkspace, ConfigFields
    <2>2. QED
        BY <1>3, <2>1, StillKept DEF RenameWorkspace, loaded, Quiet
<1>4. ASSUME NEW w \in DOMAIN cfg.workspaces, SetActive(w) PROVE ChoiceKept /\ TextKept
    <2>1. cfg'.env = cfg.env
        BY <1>1, <1>4 DEF SetActive, ConfigFields
    <2>2. ChoiceKept
        BY <1>4, <2>1, ReloadKept DEF SetActive, Quiet, ChoosesActive
    <2>3. QED
        BY <1>4, <2>2 DEF TextKept, Reloads
<1>5. ASSUME NEW w \in DOMAIN cfg.workspaces, DeleteWorkspace(w) PROVE ChoiceKept /\ TextKept
    <2>1. cfg'.env = cfg.env
        BY <1>1, <1>5 DEF DeleteWorkspace, ConfigFields
    <2>2. ChoiceKept
        BY <1>5, <2>1, ReloadKept DEF DeleteWorkspace, Quiet, ChoosesActive
    <2>3. QED
        BY <1>5, <2>2 DEF TextKept, Reloads
<1>6. QED
    BY <1>2, <1>3, <1>4, <1>5 DEF OfWorkspaces

(* Steps of the environments.                                               *)
LEMMA ChangeEnvsKept ==
    ASSUME Good, Good', activeCol # 0, NEW names \in Seq(Envs), NEW n \in Envs,
           NEW instead \in Envs \cup {NoEnv}, ChangeEnvs(names, n, instead)
    PROVE  ChoiceKept /\ TextKept
<1> DEFINE i == activeCol
           e == [cols[i] EXCEPT !.envs = names]
           chosen == [activeEnv EXCEPT ![i] = instead]
           changed == [cols EXCEPT ![i] = e]
<1>1. i \in DOMAIN dirs /\ cols[i] \in Collection /\ i \in 1 .. MaxColls
    BY ActiveIsLoaded, Positions DEF Good
<1>2. e \in Collection /\ e.text = cols[i].text
    BY <1>1, WithEnvs
<1>3. [cols EXCEPT ![activeCol].envs = names] = changed
    OBVIOUS
<1>4. UNCHANGED doubled
    BY DEF ChangeEnvs
<1>5. \A k \in DOMAIN dirs : changed[k] = IF k = i THEN e ELSE cols[k]
    BY <1>1, <1>2, ColsChanged
<1>6. \A k \in DOMAIN dirs : changed[k].text = cols[k].text
    BY <1>2, <1>5
<1> HIDE DEF changed, e
<1>7. CASE cfg' = ChooseEnv(dirs[activeCol], instead) /\ Persist(i, changed, i, chosen)
    <2>1. /\ dirs[i] \in Dirs /\ ConfigGood(cfg)
          /\ activeEnv \in [1 .. MaxColls -> Envs \cup {NoEnv}]
        BY <1>1, Positions DEF Good, Typed, LoadedGood
    <2>2. cfg'.env = [cfg.env EXCEPT ![dirs[i]] = instead] /\ List(cfg') = List(cfg)
        <3>1. cfg' = [cfg EXCEPT !.env[dirs[i]] = instead]
            BY <1>7 DEF ChooseEnv
        <3>2. QED
            BY <2>1, <3>1, NameEnv DEF List
    <2>3. ChoosesActive
        BY <2>2 DEF ChoosesActive
    <2>4. ASSUME ~doubled, NEW k \in DOMAIN dirs, cfg.env[dirs[k]] = cfg'.env[dirs[k]]
          PROVE  activeEnv[k] \in {NoEnv, chosen[k]}
        <3>1. CASE k = i
            <4>1. chosen[k] = instead /\ cfg'.env[dirs[k]] = instead
                BY <1>1, <2>1, <2>2, <3>1 DEF ConfigGood
            <4>2. activeEnv[k] # NoEnv => activeEnv[k] = cfg.env[dirs[k]]
                BY <1>1, <2>4, <3>1 DEF Good, Once, Chosen
            <4>3. QED
                BY <2>4, <4>1, <4>2
        <3>2. CASE k # i
            BY <2>1, <3>2
        <3>3. QED
            BY <3>1, <3>2
    <2> HIDE DEF chosen
    <2>5. QED
        BY <1>4, <1>6, <1>7, <2>3, <2>4, PersistKept
<1>8. CASE cfg' = cfg /\ Persist(i, changed, i, activeEnv)
    <2>1. ChoosesActive
        BY <1>8 DEF ChoosesActive
    <2>2. QED
        BY <1>4, <1>6, <1>8, <2>1, PersistKept
<1>9. QED
    BY <1>3, <1>7, <1>8 DEF ChangeEnvs, PersistOnly

(* Steps of the environments.                                               *)
LEMMA OfEnvironmentsKept ==
    ASSUME Good, Good', OfEnvironments PROVE ChoiceKept /\ TextKept
<1>1. ASSUME NEW n \in Envs \cup {NoEnv}, SetActiveEnv(n) PROVE ChoiceKept /\ TextKept
    <2> DEFINE i == activeCol
    <2>1. i \in DOMAIN dirs /\ i \in 1 .. MaxColls /\ dirs[i] \in Dirs /\ i # 0
        BY <1>1, ActiveIsLoaded, Positions DEF Good, SetActiveEnv
    <2>2. ConfigGood(cfg) /\ activeEnv \in [1 .. MaxColls -> Envs \cup {NoEnv}]
        BY DEF Good, Typed, LoadedGood
    <2>3. cfg'.env = [cfg.env EXCEPT ![dirs[i]] = n] /\ List(cfg') = List(cfg)
        <3>1. cfg' = [cfg EXCEPT !.env[dirs[i]] = n]
            BY <1>1 DEF SetActiveEnv, ChooseEnv
        <3>2. QED
            BY <2>1, <2>2, <3>1, NameEnv DEF List
    <2>4. ChoosesActive
        BY <2>1, <2>3 DEF ChoosesActive
    <2>5. activeEnv' = [activeEnv EXCEPT ![i] = n] /\ cols' = cols /\ dirs' = dirs
          /\ doubled' = doubled
        BY <1>1 DEF SetActiveEnv, Quiet
    <2>6. ASSUME ~doubled, NEW k \in DOMAIN dirs, cfg.env[dirs[k]] = cfg'.env[dirs[k]]
          PROVE  activeEnv[k] \in {NoEnv, activeEnv'[k]}
        <3>1. CASE k = i
            <4>1. activeEnv'[k] = n /\ cfg'.env[dirs[k]] = n
                BY <2>1, <2>2, <2>3, <2>5, <3>1 DEF ConfigGood
            <4>2. activeEnv[k] # NoEnv => activeEnv[k] = cfg.env[dirs[k]]
                BY <2>1, <2>6, <3>1 DEF Good, Once, Chosen
            <4>3. QED
                BY <2>6, <4>1, <4>2
        <3>2. CASE k # i
            BY <2>2, <2>5, <3>2
        <3>3. QED
            BY <3>1, <3>2
    <2>7. \A k \in DOMAIN dirs : LET t == cols'[k].text IN
                t = cols[k].text \/ Edit(k, t) \/ UpdateCollection(k, t)
        BY <2>5
    <2>8. QED
        BY <2>4, <2>5, <2>6, <2>7, InPlace
<1>2. ASSUME NEW n \in Envs, AddEnvironment(n) PROVE ChoiceKept /\ TextKept
    <2> DEFINE i == activeCol
               e == [cols[i] EXCEPT !.envs = Append(@, n)]
    <2>1. i \in DOMAIN dirs /\ cols[i] \in Collection
        BY <1>2, ActiveIsLoaded, Positions DEF Good, AddEnvironment
    <2>2. e \in Collection /\ e.text = cols[i].text
        <3>1. Append(cols[i].envs, n) \in Seq(Envs)
            BY <2>1 DEF Collection
        <3>2. QED
            BY <2>1, <3>1, WithEnvs
    <2>3. PersistOnly(i, [cols EXCEPT ![i] = e]) /\ UNCHANGED doubled
        BY <1>2 DEF AddEnvironment
    <2> HIDE DEF e
    <2>4. QED
        BY <2>1, <2>2, <2>3, PersistOnlyKept
<1>3. ASSUME NEW n \in Envs, NEW new \in Envs, RenameEnvironment(n, new)
      PROVE  ChoiceKept /\ TextKept
    <2>1. activeCol \in DOMAIN dirs /\ cols[activeCol] \in Collection
        BY <1>3, ActiveIsLoaded, Positions DEF Good, RenameEnvironment
    <2>2. EnvNames \in Seq(Envs) /\ Contains(EnvNames, n)
        BY <1>3, <2>1 DEF Collection, EnvNames, RenameEnvironment
    <2>3. FirstIn(EnvNames, n) \in 1 .. Len(EnvNames)
        BY <2>2, FirstInProperties
    <2>4. ReplaceAt(EnvNames, FirstIn(EnvNames, n), new) \in Seq(Envs)
        BY <2>2, <2>3, ExceptSeq DEF ReplaceAt
    <2>5. QED
        BY <1>3, <2>4, ChangeEnvsKept DEF RenameEnvironment
<1>4. ASSUME NEW n \in Envs, DeleteEnvironment(n) PROVE ChoiceKept /\ TextKept
    <2> DEFINE names == RemoveAt(EnvNames, FirstIn(EnvNames, n))
               instead == IF names = <<>> THEN NoEnv ELSE Head(names)
    <2>1. activeCol \in DOMAIN dirs /\ cols[activeCol] \in Collection
        BY <1>4, ActiveIsLoaded, Positions DEF Good, DeleteEnvironment
    <2>2. EnvNames \in Seq(Envs) /\ Contains(EnvNames, n)
        BY <1>4, <2>1 DEF Collection, EnvNames, DeleteEnvironment
    <2>3. FirstIn(EnvNames, n) \in 1 .. Len(EnvNames)
        BY <2>2, FirstInProperties
    <2>4. names \in Seq(Envs)
        BY <2>2, <2>3, RemoveAtProperties
    <2>5. ChangeEnvs(names, n, instead) /\ activeCol # 0
        BY <1>4 DEF DeleteEnvironment
    <2> HIDE DEF names
    <2>6. instead \in Envs \cup {NoEnv}
        BY <2>4
    <2> HIDE DEF instead
    <2>7. QED
        BY <2>4, <2>5, <2>6, ChangeEnvsKept
<1>5. QED
    BY <1>1, <1>2, <1>3, <1>4 DEF OfEnvironments

(* Steps of the contents.                                                   *)
LEMMA OfContentsKept ==
    ASSUME Good, Good', OfContents PROVE ChoiceKept /\ TextKept
<1>1. DOMAIN cols = DOMAIN dirs /\ \A k \in DOMAIN dirs : cols[k] \in Collection
    BY Positions DEF Good
<1>2. ASSUME NEW i \in DOMAIN cols, NEW t \in Texts, Edit(i, t) PROVE ChoiceKept /\ TextKept
    <2> DEFINE e == [cols[i] EXCEPT !.text = t]
    <2>1. e \in Collection /\ e.text = t
        BY <1>1, Retexted
    <2>2. /\ cols' = [cols EXCEPT ![i] = e] /\ doubled' = doubled /\ dirs' = dirs
          /\ activeEnv' = activeEnv /\ cfg' = cfg
        BY <1>2 DEF Edit, Quiet
    <2> HIDE DEF e
    <2>3. \A k \in DOMAIN dirs : cols'[k] = IF k = i THEN e ELSE cols[k]
        BY <1>1, <2>1, <2>2, ColsChanged
    <2>4. \A k \in DOMAIN dirs : LET x == cols'[k].text IN
                x = cols[k].text \/ Edit(k, x) \/ UpdateCollection(k, x)
        BY <1>2, <2>1, <2>3
    <2>5. ChoosesActive
        BY <2>2 DEF ChoosesActive
    <2>6. QED
        BY <2>2, <2>4, <2>5, InPlace
<1>3. ASSUME NEW i \in DOMAIN cols, NEW t \in Texts, UpdateCollection(i, t)
      PROVE  ChoiceKept /\ TextKept
    <2> DEFINE e == [cols[i] EXCEPT !.text = t]
    <2>1. e \in Collection /\ e.text = t
        BY <1>1, Retexted
    <2>2. PersistOnly(i, [cols EXCEPT ![i] = e]) /\ doubled' = doubled
        BY <1>3 DEF UpdateCollection
    <2> HIDE DEF e
    <2>3. QED
        BY <1>1, <1>3, <2>1, <2>2, PersistOnlyKept
<1>4. ASSUME NEW i \in DOMAIN cols, SaveRequest(i) PROVE ChoiceKept /\ TextKept
    <2>1. cfg'.env = cfg.env
        BY <1>4 DEF SaveRequest, Good, Typed, ConfigGood, ConfigFields
    <2>2. ChoosesActive
        BY <2>1 DEF ChoosesActive
    <2>3. Persist(i, cols, i, activeEnv) /\ doubled' = doubled
        BY <1>4 DEF SaveRequest
    <2>4. QED
        BY <2>2, <2>3, PersistKept
<1>5. ASSUME NEW i \in DOMAIN cols, NEW its \in Seq(Items),
             PersistOnly(i, [cols EXCEPT ![i] = [cols[i] EXCEPT !.items = its]]),
             UNCHANGED doubled
      PROVE  ChoiceKept /\ TextKept
    <2> DEFINE e == [cols[i] EXCEPT !.items = its]
    <2>1. e \in Collection /\ e.text = cols[i].text
        BY <1>1 DEF Collection
    <2>2. PersistOnly(i, [cols EXCEPT ![i] = e])
        BY <1>5
    <2> HIDE DEF e
    <2>3. QED
        BY <1>1, <1>5, <2>1, <2>2, PersistOnlyKept
<1>6. ASSUME NEW i \in DOMAIN cols, NEW r \in Items, AddItem(i, r)
      PROVE  ChoiceKept /\ TextKept
    <2>1. Append(cols[i].items, r) \in Seq(Items)
        BY <1>1 DEF Collection
    <2>2. /\ PersistOnly(i, [cols EXCEPT ![i] =
                                [cols[i] EXCEPT !.items = Append(cols[i].items, r)]])
          /\ UNCHANGED doubled
        BY <1>6 DEF AddItem
    <2>3. QED
        BY <1>5, <2>1, <2>2
<1>7. ASSUME NEW i \in DOMAIN cols, NEW k \in DOMAIN cols[i].items, DeleteItem(i, k)
      PROVE  ChoiceKept /\ TextKept
    <2>1. cols[i].items \in Seq(Items)
        BY <1>1 DEF Collection
    <2>2. k \in 1 .. Len(cols[i].items)
        BY <2>1, LenProperties
    <2>3. RemoveAt(cols[i].items, k) \in Seq(Items)
        BY <2>1, <2>2, RemoveAtProperties
    <2>4. /\ PersistOnly(i, [cols EXCEPT ![i] =
                                [cols[i] EXCEPT !.items = RemoveAt(cols[i].items, k)]])
          /\ UNCHANGED doubled
        BY <1>7 DEF DeleteItem
    <2>5. QED
        BY <1>5, <2>3, <2>4
<1>8. ASSUME RestoreLastDeleted PROVE ChoiceKept /\ TextKept
    <2> DEFINE i == deleted.colIdx
               r == deleted.item
               s == cols[i].items
               at == IF deleted.index > Len(s) + 1 THEN Len(s) + 1 ELSE deleted.index
    <2>1. i \in DOMAIN cols /\ r \in Items /\ deleted.index \in Nat \ {0}
        BY <1>8 DEF Good, Typed, DeletedGood, RestoreLastDeleted
    <2>2. s \in Seq(Items)
        BY <1>1, <2>1 DEF Collection
    <2>3. at \in 1 .. Len(s) + 1
        BY <2>1, <2>2, LenProperties
    <2>4. /\ PersistOnly(i, [cols EXCEPT ![i] = [cols[i] EXCEPT !.items = InsertAt(s, at, r)]])
          /\ UNCHANGED doubled
        BY <1>8 DEF RestoreLastDeleted
    <2> HIDE DEF at
    <2>5. InsertAt(s, at, r) \in Seq(Items)
        BY <2>1, <2>2, <2>3, InsertAtProperties
    <2>6. QED
        BY <1>5, <2>1, <2>4, <2>5
<1>9. QED
    BY <1>2, <1>3, <1>4, <1>6, <1>7, <1>8 DEF OfContents

(* Steps of the lists of the collections.                                   *)
LEMMA OfCollectionsKept ==
    ASSUME Good, Good', OfCollections PROVE ChoiceKept /\ TextKept
<1>1. /\ ConfigGood(cfg) /\ ConfigGood(cfg') /\ DOMAIN cfg = ConfigFields
      /\ cfg.env \in [Dirs -> Envs \cup {NoEnv}]
    BY DEF Good, Typed, ConfigGood
<1>2. /\ Len(dirs) \in Nat /\ DOMAIN dirs = 1 .. Len(dirs) /\ DOMAIN cols = DOMAIN dirs
      /\ dirs \in Seq(Dirs) /\ cols \in Seq(Collection) /\ Len(cols) = Len(dirs)
      /\ MaxColls \in Nat /\ Len(dirs) <= MaxColls
      /\ \A k \in DOMAIN dirs : dirs[k] \in Dirs
      /\ activeEnv \in [1 .. MaxColls -> Envs \cup {NoEnv}]
    BY Positions DEF Good, Typed, LoadedGood
<1>3. ASSUME NEW d \in Dirs, OpenCollection(d) PROVE ChoiceKept /\ TextKept
    <2>1. activeEnv' = activeEnv
        BY <1>3 DEF OpenCollection
    <2>2. cfg'.env = cfg.env
        BY <1>1, <1>3 DEF OpenCollection, ConfigFields
    <2>3. CASE UNCHANGED <<dirs, cols, doubled>>
        BY <2>1, <2>2, <2>3, StillKept
    <2>4. CASE /\ ~Contains(dirs, d)
               /\ dirs' = Append(dirs, d) /\ cols' = Append(cols, disk[d])
               /\ doubled' = (doubled \/ Contains(List(cfg), d))
        <3>1. disk[d] \in Collection
            BY DEF Good, Typed
        <3>2. /\ DOMAIN dirs' = 1 .. Len(dirs) + 1
              /\ \A k \in 1 .. Len(dirs) : dirs'[k] = dirs[k]
              /\ dirs'[Len(dirs) + 1] = d
            BY <1>2, <2>4, Appended
        <3>3. \A k \in 1 .. Len(dirs) : cols'[k] = cols[k]
            BY <1>2, <2>4, <3>1, Appended
        <3>4. \A k \in DOMAIN dirs : dirs[k] # d
            BY <1>2, <2>4 DEF Contains
        <3>5. ASSUME ~doubled', NEW i \in DOMAIN dirs, NEW j \in DOMAIN dirs', dirs[i] = dirs'[j]
              PROVE  i = j
            <4>1. ~doubled
                BY <2>4, <3>5
            <4>2. j # Len(dirs) + 1
                BY <3>2, <3>4, <3>5
            <4>3. j \in 1 .. Len(dirs)
                BY <1>2, <3>2, <4>2
            <4>4. QED
                BY <1>2, <3>2, <3>5, <4>1, <4>3, LoadedOnce DEF Distinct
        <3>6. ChoiceKept
            BY <2>1, <2>2, <3>5 DEF ChoiceKept
        <3>7. TextKept
            BY <1>2, <3>3, <3>5 DEF TextKept
        <3>8. QED
            BY <3>6, <3>7
    <2>5. QED
        BY <1>3, <2>3, <2>4 DEF OpenCollection
<1>4. ASSUME NEW i \in DOMAIN dirs, SetActiveCollection(i) PROVE ChoiceKept /\ TextKept
    <2>1. cfg'.env = cfg.env
        BY <1>1, <1>4 DEF SetActiveCollection, ConfigFields
    <2>2. QED
        BY <1>4, <2>1, StillKept DEF SetActiveCollection, Quiet
<1>5. ASSUME NEW from \in DOMAIN dirs, NEW to \in DOMAIN dirs, MoveCollection(from, to)
      PROVE  ChoiceKept /\ TextKept
    <2>1. cfg'.env = cfg.env
        BY <1>1, <1>5 DEF MoveCollection, ConfigFields
    <2>2. PICK n \in Nat : n = Len(dirs)
        BY <1>2
    <2>3. from \in 1 .. n /\ to \in 1 .. n /\ DOMAIN dirs = 1 .. n
        BY <1>2, <2>2
    <2>4. Within(n, from, to)
        BY <2>3, SourceProperties
    <2> DEFINE src(k) == Source(k, from, to)
    <2>5. DOMAIN dirs' = 1 .. n /\ \A k \in 1 .. n : dirs'[k] = dirs[src(k)]
        <3>1. dirs' \in Seq(Dirs) /\ Rearranged(dirs', dirs, from, to)
            BY <1>2, <1>5, <2>2, <2>3, MovedProperties DEF MoveCollection
        <3>2. QED
            BY <2>2, <3>1, LenProperties DEF Rearranged
    <2>6. \A k \in 1 .. n : cols'[k] = cols[src(k)]
        <3>1. Rearranged(cols', cols, from, to)
            BY <1>2, <1>5, <2>2, <2>3, MovedProperties DEF MoveCollection
        <3>2. QED
            BY <1>2, <2>2, <3>1 DEF Rearranged
    <2>7. \A k \in 1 .. n : src(k) \in 1 .. n
        BY <2>4 DEF Within
    <2> HIDE DEF src
    <2>8. PICK was \in [Dirs -> DOMAIN dirs] :
            /\ \A i \in DOMAIN dirs : dirs[was[dirs[i]]] = dirs[i]
            /\ activeEnv' = [k \in 1 .. MaxColls |->
                                IF k <= Len(dirs) THEN activeEnv[was[dirs'[k]]] ELSE NoEnv]
        BY <1>5 DEF MoveCollection
    <2>9. doubled' = doubled
        BY <1>5 DEF MoveCollection, Quiet
    <2>10. ASSUME ~doubled', NEW i \in DOMAIN dirs, NEW j \in DOMAIN dirs', dirs[i] = dirs'[j]
           PROVE  activeEnv'[j] = activeEnv[i] /\ cols'[j] = cols[i]
        <3>1. Distinct(dirs)
            BY <2>9, <2>10, LoadedOnce
        <3>2. src(j) = i
            BY <2>3, <2>5, <2>7, <2>10, <3>1 DEF Distinct
        <3>3. was[dirs[i]] = i
            <4>1. was[dirs[i]] \in DOMAIN dirs
                BY <1>2, <2>8
            <4>2. QED
                BY <2>8, <3>1, <4>1 DEF Distinct
        <3>4. j \in 1 .. MaxColls /\ j <= Len(dirs)
            BY <1>2, <2>2, <2>5
        <3>5. QED
            BY <2>5, <2>6, <2>8, <2>10, <3>2, <3>3, <3>4
    <2>11. ChoiceKept
        BY <2>1, <2>10 DEF ChoiceKept
    <2>12. TextKept
        BY <2>10 DEF TextKept
    <2>13. QED
        BY <2>11, <2>12
<1>6. ASSUME NEW i \in DOMAIN dirs, RemoveCollection(i) PROVE ChoiceKept /\ TextKept
    <2> DEFINE d == dirs[i]
               L == List(cfg)
               n == Len(dirs)
    <2>1. /\ List(cfg') = IF Contains(L, d) THEN RemoveAt(L, FirstIn(L, d)) ELSE L
          /\ cfg'.workspaces = [cfg.workspaces EXCEPT ![cfg.active].list = List(cfg')]
          /\ cfg'.env = [cfg.env EXCEPT ![d] = IF Shared(d) THEN cfg.env[d] ELSE NoEnv]
        <3> DEFINE l == IF Contains(L, d) THEN RemoveAt(L, FirstIn(L, d)) ELSE L
        <3>1. /\ cfg'.workspaces = [cfg.workspaces EXCEPT ![cfg.active].list = l]
              /\ cfg'.active = cfg.active
              /\ cfg'.env = [cfg.env EXCEPT ![d] = IF Shared(d) THEN cfg.env[d] ELSE NoEnv]
            BY <1>1, <1>6 DEF RemoveCollection, Unlisted, ConfigFields, List
        <3>2. cfg.active \in DOMAIN cfg.workspaces /\ cfg.workspaces \in Seq(Workspace)
            BY <1>1 DEF ConfigGood
        <3>3. L \in Seq(Dirs) /\ DOMAIN L = 1 .. Len(L)
            BY <1>1, ListGood
        <3>4. l \in Seq(Dirs)
            BY <3>3, FirstInProperties, RemoveAtProperties
        <3> HIDE DEF l
        <3>5. List(cfg') = l
            <4>1. [cfg.workspaces EXCEPT ![cfg.active].list = l][cfg.active].list = l
                BY <3>2, <3>4, SetList
            <4>2. cfg'.workspaces[cfg'.active].list = l
                BY <3>1, <4>1
            <4>3. QED
                BY <4>2 DEF List
        <3>6. QED
            BY <3>1, <3>5 DEF l
    <2>2. /\ i \in 1 .. n /\ dirs' = RemoveAt(dirs, i) /\ cols' = RemoveAt(cols, i)
          /\ doubled' = doubled
          /\ activeEnv' = [k \in 1 .. MaxColls |->
                             IF k \in i .. n - 1 THEN activeEnv[k + 1]
                             ELSE IF k = n THEN NoEnv ELSE activeEnv[k]]
        BY <1>2, <1>6 DEF RemoveCollection, Quiet
    <2>3. /\ dirs' \in Seq(Dirs) /\ Len(dirs') = n - 1
          /\ \A k \in 1 .. n - 1 : dirs'[k] = IF k < i THEN dirs[k] ELSE dirs[k + 1]
        <3>1. dirs \in Seq(Dirs) /\ i \in 1 .. Len(dirs) /\ dirs' = RemoveAt(dirs, i)
            BY <1>2, <2>2
        <3>2. QED
            BY <3>1, RemoveAtProperties
    <2>4. \A k \in 1 .. n - 1 : cols'[k] = IF k < i THEN cols[k] ELSE cols[k + 1]
        <3>1. /\ cols \in Seq(Collection) /\ i \in 1 .. Len(cols) /\ cols' = RemoveAt(cols, i)
              /\ Len(cols) = n
            BY <1>2, <2>2
        <3> HIDE DEF n
        <3>2. QED
            BY <3>1, RemoveAtProperties
    <2>5. DOMAIN dirs' = 1 .. n - 1
        BY <1>2, <2>3, LenProperties
    <2>6. ASSUME ~doubled', NEW a \in DOMAIN dirs, NEW j \in DOMAIN dirs', dirs[a] = dirs'[j]
          PROVE  activeEnv'[j] = activeEnv[a] /\ cols'[j] = cols[a]
        <3>1. Distinct(dirs)
            BY <2>2, <2>6, LoadedOnce
        <3>2. j \in 1 .. n - 1 /\ j \in 1 .. MaxColls /\ j # n /\ (j \in i .. n - 1 <=> ~(j < i))
            <4>1. j \in 1 .. n - 1
                BY <2>5, <2>6
            <4>2. n \in Nat /\ MaxColls \in Nat /\ n <= MaxColls /\ i \in 1 .. n
                BY <1>2, <2>2
            <4> HIDE DEF n
            <4>3. QED
                BY <4>1, <4>2
        <3>3. CASE j < i
            <4>1. j \in DOMAIN dirs /\ dirs'[j] = dirs[j]
                BY <1>2, <2>3, <3>2, <3>3
            <4>2. a = j
                BY <2>6, <3>1, <4>1 DEF Distinct
            <4>3. QED
                BY <2>2, <2>4, <3>2, <3>3, <4>2
        <3>4. CASE ~(j < i)
            <4>1. j + 1 \in DOMAIN dirs /\ dirs'[j] = dirs[j + 1]
                BY <1>2, <2>3, <3>2, <3>4
            <4>2. a = j + 1
                BY <2>6, <3>1, <4>1 DEF Distinct
            <4>3. QED
                BY <2>2, <2>4, <3>2, <3>4, <4>2
        <3>5. QED
            BY <3>3, <3>4
    <2>7. ASSUME ~doubled', NEW c \in Dirs, cfg.env[c] # cfg'.env[c] PROVE c \notin Listed(cfg')
        <3>1. c = d /\ ~Shared(d)
            BY <1>1, <1>2, <2>1, <2>7
        <3>2. Distinct(L) /\ L \in Seq(Dirs) /\ DOMAIN L = 1 .. Len(L)
            BY <1>1, <2>2, <2>7, LoadedOnce, ListGood
        <3> HIDE DEF L, d
        <3>3. d \notin ToSet(List(cfg'))
            <4>1. CASE Contains(L, d)
                <5>1. FirstIn(L, d) \in DOMAIN L /\ L[FirstIn(L, d)] = d
                    BY <3>2, <4>1, FirstInProperties
                <5>2. \A k \in DOMAIN List(cfg') : List(cfg')[k] # d
                    BY <2>1, <3>2, <4>1, <5>1, RemovedDistinct
                <5>3. QED
                    BY <5>2 DEF ToSet
            <4>2. CASE ~Contains(L, d)
                BY <2>1, <3>2, <4>2 DEF Contains, ToSet
            <4>3. QED
                BY <4>1, <4>2
        <3>4. ASSUME NEW w \in DOMAIN cfg'.workspaces PROVE d \notin ToSet(cfg'.workspaces[w].list)
            <4>1. /\ cfg.workspaces \in Seq(Workspace) /\ cfg.active \in DOMAIN cfg.workspaces
                  /\ List(cfg') \in Seq(Dirs)
                BY <1>1, ListGood DEF ConfigGood
            <4>2. /\ DOMAIN cfg'.workspaces = DOMAIN cfg.workspaces
                  /\ cfg'.workspaces[cfg.active].list = List(cfg')
                  /\ \A v \in DOMAIN cfg.workspaces :
                        v # cfg.active => cfg'.workspaces[v] = cfg.workspaces[v]
                BY <2>1, <4>1, SetList
            <4>3. CASE w = cfg.active
                BY <3>3, <4>2, <4>3
            <4>4. CASE w # cfg.active
                <5>1. ~Contains(cfg.workspaces[w].list, d)
                    BY <3>1, <4>2, <4>4 DEF Shared
                <5>2. cfg.workspaces[w].list \in Seq(Dirs)
                    <6>1. DOMAIN cfg.workspaces = 1 .. Len(cfg.workspaces)
                        BY <4>1, LenProperties
                    <6>2. cfg.workspaces[w] \in Workspace
                        BY <4>1, <4>2, <6>1, ElementOfSeq
                    <6>3. QED
                        BY <6>2 DEF Workspace
                <5>3. d \notin ToSet(cfg.workspaces[w].list)
                    BY <5>1, <5>2, LenProperties DEF Contains, ToSet
                <5>4. QED
                    BY <4>2, <4>4, <5>3
            <4>5. QED
                BY <4>3, <4>4
        <3>5. QED
            BY <3>1, <3>4 DEF Listed
    <2> HIDE DEF d, L, n
    <2>8. ChoiceKept
        BY <2>6, <2>7 DEF ChoiceKept
    <2>9. TextKept
        BY <2>6 DEF TextKept
    <2>10. QED
        BY <2>8, <2>9
<1>7. QED
    BY <1>3, <1>4, <1>5, <1>6 DEF OfCollections

(* Every step keeps both.                                                   *)
LEMMA StepKept ==
    ASSUME Good, Good', [Next]_vars PROVE ChoiceKept /\ TextKept
<1>1. CASE OfWorkspaces
    BY <1>1, OfWorkspacesKept
<1>2. CASE OfCollections
    BY <1>2, OfCollectionsKept
<1>3. CASE OfEnvironments
    BY <1>3, OfEnvironmentsKept
<1>4. CASE OfContents
    BY <1>4, OfContentsKept
<1>5. CASE Restart
    <2>1. ChoosesActive
        BY <1>5 DEF Restart, ChoosesActive
    <2>2. ChoiceKept
        BY <1>5, <2>1, ReloadKept DEF Restart
    <2>3. TextKept
        BY <1>5 DEF TextKept, Reloads
    <2>4. QED
        BY <2>2, <2>3
<1>6. ASSUME UNCHANGED <<cfg, dirs, cols, activeEnv, doubled>> PROVE ChoiceKept /\ TextKept
    BY <1>6, StillKept
<1>7. CASE \E d \in Dirs : Mend(d)
    BY <1>6, <1>7 DEF Mend, loaded
<1>8. CASE UNCHANGED vars
    BY <1>6, <1>8 DEF vars, loaded
<1>9. QED
    BY <1>1, <1>2, <1>3, <1>4, <1>5, <1>7, <1>8 DEF Next

-----------------------------------------------------------------------------
(* The theorems.                                                            *)

(* Every step keeps the invariant.                                          *)
LEMMA NextGood ==
    ASSUME Good, [Next]_vars PROVE Good'
<1>1. CASE OfWorkspaces
    BY <1>1, AddWorkspaceGood, SetActiveGood, DeleteWorkspaceGood, RenameWorkspaceGood
       DEF OfWorkspaces
<1>2. CASE OfCollections
    BY <1>2, OpenCollectionGood, RemoveCollectionGood, SetActiveCollectionGood,
       MoveCollectionGood DEF OfCollections
<1>3. CASE OfEnvironments
    BY <1>3, SetActiveEnvGood, AddEnvironmentGood, DeleteEnvironmentGood,
       RenameEnvironmentGood DEF OfEnvironments
<1>4. CASE OfContents
    BY <1>4, EditGood, UpdateCollectionGood, SaveRequestGood, AddItemGood, DeleteItemGood,
       RestoreGood DEF OfContents
<1>5. CASE Restart
    BY <1>5, RestartGood
<1>6. CASE \E d \in Dirs : Mend(d)
    BY <1>6, MendGood
<1>7. CASE UNCHANGED vars
    BY <1>7 DEF vars, loaded, Good, Typed, Once
<1>8. QED
    BY <1>1, <1>2, <1>3, <1>4, <1>5, <1>6, <1>7 DEF Next

(* Whatever is done in whatever order, what is loaded agrees with the       *)
(* config and with the disk (session.go, items.go).                         *)
THEOREM SessionGood == Spec => []Good
<1>1. Init => Good
    BY InitGood
<1>2. Good /\ [Next]_vars => Good'
    BY NextGood
<1>3. QED
    BY <1>1, <1>2, PTL DEF Spec

(* No position runs past the lists it is of.                                *)
THEOREM SessionTyped == Spec => []TypeOK
<1>1. Good => TypeOK
    <2>1. SUFFICES ASSUME Good PROVE TypeOK
        OBVIOUS
    <2>2. Len(dirs) <= MaxColls
        BY <2>1, Positions DEF Good
    <2>3. /\ cfg.workspaces \in Seq([name : Names, list : Seq(Dirs)])
          /\ cfg.active \in DOMAIN cfg.workspaces
          /\ cfg.col \in Dirs \cup {NoDir} /\ cfg.env \in [Dirs -> Envs \cup {NoEnv}]
        BY <2>1 DEF Good, Typed, ConfigGood, Workspace
    <2>4. /\ dirs \in Seq(Dirs) /\ cols \in Seq(Collection) /\ Len(cols) = Len(dirs)
          /\ activeCol \in 0 .. Len(dirs)
          /\ activeEnv \in [1 .. MaxColls -> Envs \cup {NoEnv}]
        BY <2>1 DEF Good, Typed, LoadedGood
    <2>5. QED
        BY <2>1, <2>2, <2>3, <2>4 DEF Good, Typed, TypeOK, DeletedGood
<1>2. QED
    BY <1>1, SessionGood, PTL

(* What is addressed by position is what the config names by directory.     *)
THEOREM PositionsAgree == Spec => []IndicesAgree
<1>1. Good => IndicesAgree
    BY DEF Good, Typed, Once, IndicesAgree, LoadedGood, Listing, Chosen
<1>2. QED
    BY <1>1, SessionGood, PTL

(* What is saved at once is in memory as on the disk, after failed saves    *)
(* too, and no undo brings back an item that is there.                      *)
THEOREM StructureKept == Spec => []StructureOnDisk
<1>1. Good => StructureOnDisk
    BY DEF Good, Once, StructureOnDisk, NoItemTwice, InSync, Gone
<1>2. QED
    BY <1>1, SessionGood, PTL


(* The choice of an environment is the user's: saved for its directory, it  *)
(* changes by a choice in that collection only, wherever the collection     *)
(* moves (session.go, workspace.go).                                        *)
THEOREM ChoicesKept == Spec => EnvChoiceIsUsers
<1>1. Good /\ Good' /\ [Next]_vars => ChoiceKept
    BY StepKept
<1>2. Good /\ [Next]_vars => Good'
    BY NextGood
<1>3. QED
    BY <1>1, <1>2, SessionGood, PTL DEF Spec, EnvChoiceIsUsers

(* What is typed in one collection outlives the operations on the others.   *)
THEOREM TextsKept == Spec => EditsOfOthersKept
<1>1. Good /\ Good' /\ [Next]_vars => TextKept
    BY StepKept
<1>2. Good /\ [Next]_vars => Good'
    BY NextGood
<1>3. QED
    BY <1>1, <1>2, SessionGood, PTL DEF Spec, EditsOfOthersKept
=============================================================================
