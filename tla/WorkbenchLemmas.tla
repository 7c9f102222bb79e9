---------------------------- MODULE WorkbenchLemmas ----------------------------
(***************************************************************************)
(* Facts about the operators of Workbench: what a change of a collection   *)
(* leaves of it, where a request is found, what is written through the     *)
(* editor's pointer, which tabs are left of a strip, and what the window   *)
(* is once a tab is shown, the strip drawn again, the tabs reconciled or   *)
(* the trees loaded again.                                                 *)
(***************************************************************************)
EXTENDS Workbench, ListLemmas

Text == Texts \cup {Blank}

-----------------------------------------------------------------------------
(* Collections.                                                             *)
GoodColl(c) == c \in Collection /\ EachOnce(c)

(* What a collection may hold: a text for each of some ids.                 *)
LEMMA ContentsAre ==
    ASSUME NEW f
    PROVE  f \in Contents <=> DOMAIN f \subseteq Ids /\ f \in [DOMAIN f -> Text]
<1>1. ASSUME f \in Contents PROVE DOMAIN f \subseteq Ids /\ f \in [DOMAIN f -> Text]
    <2>1. PICK ids \in SUBSET Ids : f \in [ids -> Text]
        BY <1>1 DEF Contents, Text
    <2>2. QED
        BY <2>1
<1>2. ASSUME DOMAIN f \subseteq Ids, f \in [DOMAIN f -> Text] PROVE f \in Contents
    BY <1>2 DEF Contents, Text
<1>3. QED
    BY <1>1, <1>2

(* The fields of a collection and their types.                              *)
LEMMA CollParts ==
    ASSUME NEW c, GoodColl(c)
    PROVE  /\ c.root \in Seq(Ids) /\ c.folders \in Seq(Ids)
           /\ DOMAIN c.text \subseteq Ids /\ c.text \in [DOMAIN c.text -> Text]
           /\ c = [root |-> c.root, folders |-> c.folders, text |-> c.text]
           /\ \A kind \in Kinds : c[kind] \in Seq(Ids)
           /\ DOMAIN c.root = 1 .. Len(c.root) /\ DOMAIN c.folders = 1 .. Len(c.folders)
           /\ Len(c.root) \in Nat /\ Len(c.folders) \in Nat
<1>1. c \in Collection
    BY DEF GoodColl
<1>2. c.root \in Seq(Ids) /\ c.folders \in Seq(Ids) /\ c.text \in Contents
    BY <1>1 DEF Collection
<1>3. c = [root |-> c.root, folders |-> c.folders, text |-> c.text]
    BY <1>1 DEF Collection
<1>4. \A kind \in Kinds : c[kind] \in Seq(Ids)
    BY <1>2 DEF Kinds
<1>5. QED
    BY <1>2, <1>3, <1>4, ContentsAre, LenProperties

(* The text of a request is written. *)
Rewritten(c, e, i, t) ==
    /\ e.root = c.root /\ e.folders = c.folders /\ DOMAIN e.text = DOMAIN c.text
    /\ \A x \in DOMAIN c.text : e.text[x] = IF x = i THEN t ELSE c.text[x]

(* One text of a collection is written, and all else stays.                 *)
LEMMA WriteColl ==
    ASSUME NEW c, GoodColl(c), NEW t \in Text, NEW i
    PROVE  /\ GoodColl([c EXCEPT !.text[i] = t])
           /\ Rewritten(c, [c EXCEPT !.text[i] = t], i, t)
<1> DEFINE f == [c.text EXCEPT ![i] = t]
           e == [c EXCEPT !.text[i] = t]
<1>1. e = [root |-> c.root, folders |-> c.folders, text |-> f]
    BY CollParts
<1>2. /\ DOMAIN f = DOMAIN c.text /\ f \in [DOMAIN f -> Text]
      /\ \A x \in DOMAIN c.text : f[x] = IF x = i THEN t ELSE c.text[x]
    BY CollParts
<1> HIDE DEF f, e
<1>3. e.root = c.root /\ e.folders = c.folders /\ e.text = f
    BY <1>1
<1>4. f \in Contents
    BY <1>2, ContentsAre, CollParts
<1>5. e \in Collection
    BY <1>1, <1>4, CollParts DEF Collection
<1>6. EachOnce(e)
    BY <1>2, <1>3 DEF GoodColl, EachOnce
<1>7. QED
    BY <1>2, <1>3, <1>5, <1>6 DEF GoodColl, Rewritten, e

(* A request's place. *)
LEMMA PositionProperties ==
    ASSUME NEW c, GoodColl(c), NEW id, Has(c, id)
    PROVE  /\ Position(c, id).kind \in Kinds
           /\ Position(c, id).pos \in DOMAIN c[Position(c, id).kind]
           /\ Position(c, id).pos \in Nat \ {0}
           /\ c[Position(c, id).kind][Position(c, id).pos] = id
           /\ Position(c, id) = [kind |-> Position(c, id).kind, pos |-> Position(c, id).pos]
<1>1. id \in ToSet(c.root) \cup ToSet(c.folders)
    BY DEF Has, GoodColl, EachOnce
<1>2. CASE Contains(c.root, id)
    <2>1. \E k \in DOMAIN c.root : c.root[k] = id
        BY <1>2, CollParts DEF Contains
    <2>2. Position(c, id).kind = "root" /\ Position(c, id).pos \in DOMAIN c.root
          /\ c.root[Position(c, id).pos] = id
          /\ Position(c, id) = [kind |-> Position(c, id).kind, pos |-> Position(c, id).pos]
        BY <1>2, <2>1 DEF Position
    <2>3. QED
        BY <2>2, CollParts DEF Kinds
<1>3. CASE ~Contains(c.root, id)
    <2>1. \E k \in DOMAIN c.folders : c.folders[k] = id
        BY <1>1, <1>3, CollParts DEF Contains, ToSet
    <2>2. Position(c, id).kind = "folders" /\ Position(c, id).pos \in DOMAIN c.folders
          /\ c.folders[Position(c, id).pos] = id
          /\ Position(c, id) = [kind |-> Position(c, id).kind, pos |-> Position(c, id).pos]
        BY <1>3, <2>1 DEF Position
    <2>3. QED
        BY <2>2, CollParts DEF Kinds
<1>4. QED
    BY <1>2, <1>3

(* The request at a position of a list is in the collection, and it is      *)
(* found there.                                                             *)
LEMMA AtPosition ==
    ASSUME NEW c, GoodColl(c), NEW kind \in Kinds, NEW k \in DOMAIN c[kind]
    PROVE  /\ c[kind][k] \in Ids /\ Has(c, c[kind][k])
           /\ Position(c, c[kind][k]) = [kind |-> kind, pos |-> k]
<1> DEFINE id == c[kind][k]
<1>0. k \in 1 .. Len(c[kind]) /\ c[kind] \in Seq(Ids)
    BY CollParts, LenProperties DEF Kinds
<1>1. id \in Ids
    BY <1>0, ElementOfSeq
<1>2. EachOnce(c)
    BY DEF GoodColl
<1>3. CASE kind = "root"
    <2>1. id \in ToSet(c.root) /\ Contains(c.root, id)
        BY <1>3, <1>0 DEF ToSet, Contains
    <2>2. \A j \in DOMAIN c.root : c.root[j] = id => j = k
        BY <1>2, <1>3 DEF EachOnce, IsInjective
    <2>3. (CHOOSE j \in DOMAIN c.root : c.root[j] = id) = k
        BY <2>2, <1>3
    <2>4. QED
        BY <1>1, <1>2, <1>3, <2>1, <2>3 DEF Has, EachOnce, Position
<1>4. CASE kind = "folders"
    <2>1. id \in ToSet(c.folders) /\ id \notin ToSet(c.root)
        BY <1>2, <1>4 DEF ToSet, EachOnce
    <2>2. ~Contains(c.root, id)
        BY <2>1, CollParts DEF Contains, ToSet
    <2>3. \A j \in DOMAIN c.folders : c.folders[j] = id => j = k
        BY <1>2, <1>4 DEF EachOnce, IsInjective
    <2>4. (CHOOSE j \in DOMAIN c.folders : c.folders[j] = id) = k
        BY <2>3, <1>4
    <2>5. QED
        BY <1>1, <1>2, <1>4, <2>1, <2>2, <2>4 DEF Has, EachOnce, Position
<1>5. QED
    BY <1>3, <1>4 DEF Kinds

(* One of its lists, and the texts, are set.                                *)
SetKind(c, kind, s, f) == [c EXCEPT ![kind] = s, !.text = f]

(* One list of a collection and its texts are replaced: the types.          *)
LEMMA KindSet ==
    ASSUME NEW c \in Collection, NEW kind \in Kinds, NEW s \in Seq(Ids), NEW f \in Contents
    PROVE  /\ SetKind(c, kind, s, f) \in Collection
           /\ SetKind(c, kind, s, f).root = IF kind = "root" THEN s ELSE c.root
           /\ SetKind(c, kind, s, f).folders = IF kind = "root" THEN c.folders ELSE s
           /\ SetKind(c, kind, s, f).text = f
<1>1. [c EXCEPT ![kind] = s, !.text = f] \in Collection
    BY DEF Collection, Kinds
<1>2. [c EXCEPT ![kind] = s, !.text = f].root = IF kind = "root" THEN s ELSE c.root
    BY DEF Collection, Kinds
<1>3. [c EXCEPT ![kind] = s, !.text = f].folders = IF kind = "root" THEN c.folders ELSE s
    BY DEF Collection, Kinds
<1>4. [c EXCEPT ![kind] = s, !.text = f].text = f
    BY DEF Collection, Kinds
<1>5. QED
    BY <1>1, <1>2, <1>3, <1>4 DEF SetKind

(* A collection with such a list, that has the same requests but for some.  *)
Fits(c, kind, s, f, gone, new) ==
    /\ s \in Seq(Ids) /\ IsInjective(s) /\ ToSet(s) = (ToSet(c[kind]) \ gone) \cup new
    /\ gone \subseteq ToSet(c[kind]) /\ new \cap DOMAIN c.text = {}
    /\ f \in Contents /\ DOMAIN f = (DOMAIN c.text \ gone) \cup new

(* And every request is still at one place, when the new list and the new   *)
(* texts fit.                                                               *)
LEMMA KindMade ==
    ASSUME NEW c, GoodColl(c), NEW kind \in Kinds, NEW s, NEW f, NEW gone, NEW new,
           Fits(c, kind, s, f, gone, new)
    PROVE  /\ GoodColl(SetKind(c, kind, s, f))
           /\ SetKind(c, kind, s, f).text = f
<1> DEFINE e == SetKind(c, kind, s, f)
<1>0. EachOnce(c) /\ c \in Collection
    BY DEF GoodColl
<1>1. /\ e \in Collection /\ e.text = f
      /\ e.root = IF kind = "root" THEN s ELSE c.root
      /\ e.folders = IF kind = "root" THEN c.folders ELSE s
    BY <1>0, KindSet DEF Fits
<1> HIDE DEF e
<1>2. CASE kind = "root"
    <2>1. EachOnce(e)
        BY <1>0, <1>1, <1>2 DEF EachOnce, Fits
    <2>2. QED
        BY <1>1, <2>1 DEF GoodColl, e
<1>3. CASE kind = "folders"
    <2>1. EachOnce(e)
        BY <1>0, <1>1, <1>3 DEF EachOnce, Fits
    <2>2. QED
        BY <1>1, <2>1 DEF GoodColl, e
<1>4. QED
    BY <1>2, <1>3 DEF Kinds

(* What the list of one kind is.                                            *)
LEMMA KindList ==
    ASSUME NEW c, GoodColl(c), NEW kind \in Kinds
    PROVE  /\ c[kind] \in Seq(Ids) /\ IsInjective(c[kind]) /\ ToSet(c[kind]) \subseteq DOMAIN c.text
           /\ DOMAIN c[kind] = 1 .. Len(c[kind]) /\ Len(c[kind]) \in Nat
<1>0. EachOnce(c)
    BY DEF GoodColl
<1>1. c[kind] \in Seq(Ids)
    BY CollParts
<1>2. IsInjective(c[kind]) /\ ToSet(c[kind]) \subseteq DOMAIN c.text
    BY <1>0 DEF EachOnce, Kinds
<1>3. QED
    BY <1>1, <1>2, LenProperties

(* A request is inserted.                                                   *)
Inserted(c, e, id, t) ==
    /\ DOMAIN e.text = DOMAIN c.text \cup {id} /\ e.text[id] = t
    /\ \A x \in DOMAIN c.text : e.text[x] = c.text[x]

(* A request is put into a list of a collection.                            *)
LEMMA InsertColl ==
    ASSUME NEW c, GoodColl(c), NEW kind \in Kinds, NEW k \in 1 .. Len(c[kind]) + 1,
           NEW id \in Ids, ~Has(c, id), NEW t \in Text
    PROVE  GoodColl(Insert(c, kind, k, id, t)) /\ Inserted(c, Insert(c, kind, k, id, t), id, t)
<1> DEFINE s == InsertAt(c[kind], k, id)
           f == [x \in DOMAIN c.text \cup {id} |-> IF x = id THEN t ELSE c.text[x]]
           e == Insert(c, kind, k, id, t)
<1>1. e = SetKind(c, kind, s, f)
    BY DEF Insert, SetKind
<1>2. c[kind] \in Seq(Ids) /\ IsInjective(c[kind]) /\ id \notin ToSet(c[kind])
    BY KindList DEF Has
<1>3. IsInjective(s) /\ ToSet(s) = ToSet(c[kind]) \cup {id} /\ s \in Seq(Ids)
    BY <1>2, InsertAtOnce, InsertAtProperties
<1>4. /\ f \in [DOMAIN f -> Text] /\ DOMAIN f = DOMAIN c.text \cup {id} /\ f[id] = t
      /\ \A x \in DOMAIN c.text : f[x] = c.text[x]
    BY CollParts DEF Has
<1> HIDE DEF s, f, e
<1>5. f \in Contents
    BY <1>4, CollParts, ContentsAre
<1>6. Fits(c, kind, s, f, {}, {id})
    BY <1>3, <1>4, <1>5 DEF Has, Fits
<1>7. GoodColl(SetKind(c, kind, s, f)) /\ SetKind(c, kind, s, f).text = f
    BY <1>6, KindMade
<1>8. Inserted(c, e, id, t)
    BY <1>1, <1>4, <1>7 DEF Inserted
<1>9. QED
    BY <1>1, <1>7, <1>8 DEF e

(* A request is taken out.                                                  *)
TakenOut(c, e, id) ==
    /\ DOMAIN e.text = DOMAIN c.text \ {id}
    /\ \A x \in DOMAIN e.text : e.text[x] = c.text[x]

(* A request is taken out of a list of a collection.                        *)
LEMMA TakeColl ==
    ASSUME NEW c, GoodColl(c), NEW kind \in Kinds, NEW k \in DOMAIN c[kind]
    PROVE  GoodColl(Taken(c, kind, k)) /\ TakenOut(c, Taken(c, kind, k), c[kind][k])
<1> DEFINE s == RemoveAt(c[kind], k)
           id == c[kind][k]
           f == [x \in DOMAIN c.text \ {id} |-> c.text[x]]
           e == Taken(c, kind, k)
<1>1. e = SetKind(c, kind, s, f)
    BY DEF Taken, SetKind
<1>2. c[kind] \in Seq(Ids) /\ IsInjective(c[kind]) /\ k \in 1 .. Len(c[kind])
      /\ id \in ToSet(c[kind])
    BY KindList DEF ToSet
<1>3. IsInjective(s) /\ ToSet(s) = ToSet(c[kind]) \ {id} /\ s \in Seq(Ids)
    BY <1>2, RemoveAtOnce, RemoveAtProperties
<1>4. /\ f \in [DOMAIN f -> Text] /\ DOMAIN f = DOMAIN c.text \ {id}
      /\ \A x \in DOMAIN f : f[x] = c.text[x]
    BY CollParts
<1> HIDE DEF s, f, e, id
<1>5. f \in Contents
    BY <1>4, CollParts, ContentsAre
<1>6. Fits(c, kind, s, f, {id}, {})
    BY <1>2, <1>3, <1>4, <1>5 DEF Fits
<1>7. GoodColl(SetKind(c, kind, s, f)) /\ SetKind(c, kind, s, f).text = f
    BY <1>6, KindMade
<1>8. TakenOut(c, e, id)
    BY <1>1, <1>4, <1>7 DEF TakenOut
<1>9. QED
    BY <1>1, <1>7, <1>8 DEF e, id

(* A request is moved among the others.                                     *)
LEMMA ShiftColl ==
    ASSUME NEW c, GoodColl(c), NEW kind \in Kinds, NEW from \in DOMAIN c[kind],
           NEW to \in DOMAIN c[kind]
    PROVE  GoodColl(Shift(c, kind, from, to)) /\ Shift(c, kind, from, to).text = c.text
<1> DEFINE s == Moved(c[kind], from, to)
           e == Shift(c, kind, from, to)
<1>0. c \in Collection /\ c.text \in Contents
    BY DEF GoodColl, Collection
<1>1. e = SetKind(c, kind, s, c.text)
    <2>1. e = [c EXCEPT ![kind] = s]
        BY DEF Shift
    <2>2. [c EXCEPT ![kind] = s].text = c.text
        BY <1>0 DEF Collection, Kinds
    <2>3. QED
        BY <2>1, <2>2, <1>0 DEF Collection, Kinds, SetKind
<1>2. /\ c[kind] \in Seq(Ids) /\ IsInjective(c[kind])
      /\ from \in 1 .. Len(c[kind]) /\ to \in 1 .. Len(c[kind])
    BY KindList
<1>3. IsInjective(s) /\ ToSet(s) = ToSet(c[kind]) /\ s \in Seq(Ids)
    BY <1>2, MovedOnce, MovedProperties
<1> HIDE DEF s, e
<1>4. Fits(c, kind, s, c.text, {}, {})
    BY <1>0, <1>3 DEF Fits
<1>5. /\ GoodColl(SetKind(c, kind, s, c.text))
      /\ SetKind(c, kind, s, c.text).text = c.text
    BY <1>4, KindMade
<1>6. QED
    BY <1>1, <1>5 DEF e

-----------------------------------------------------------------------------
(* Trees: collections by their directories.                                 *)
Held(M) ==
    /\ DOMAIN M \subseteq Colls /\ M \in [DOMAIN M -> Collection]
    /\ \A c \in DOMAIN M : GoodColl(M[c])

(* The same requests at the same places. *)
Like(M, N) ==
    /\ DOMAIN N = DOMAIN M
    /\ \A c \in DOMAIN M :
        /\ N[c].root = M[c].root /\ N[c].folders = M[c].folders
        /\ DOMAIN N[c].text = DOMAIN M[c].text

(* And the same texts, but that the request i of c says t. *)
Texted(M, N, c, i, t) ==
    \A x \in DOMAIN M : \A y \in DOMAIN M[x].text :
        N[x].text[y] = IF x = c /\ y = i THEN t ELSE M[x].text[y]

(* A text is written into a tree.                                           *)
LEMMA PutTree ==
    ASSUME NEW M, Held(M), NEW c, NEW i, NEW t \in Text
    PROVE  LET N == Put(M, c, i, t) IN Held(N) /\ Like(M, N) /\ Texted(M, N, c, i, t)
<1> DEFINE N == Put(M, c, i, t)
           e == [M[c] EXCEPT !.text[i] = t]
<1>1. N = [x \in DOMAIN M |-> IF x = c THEN e ELSE M[x]]
    BY DEF Put, Held
<1>2. c \in DOMAIN M => GoodColl(e) /\ Rewritten(M[c], e, i, t)
    BY WriteColl DEF Held
<1> HIDE DEF N, e
<1>3. DOMAIN N = DOMAIN M /\ N \in [DOMAIN N -> Collection]
    BY <1>1, <1>2 DEF Held, GoodColl
<1>4. \A x \in DOMAIN M : GoodColl(N[x])
    BY <1>1, <1>2 DEF Held
<1>5. Like(M, N)
    BY <1>1, <1>2 DEF Like, Rewritten
<1>6. Texted(M, N, c, i, t)
    BY <1>1, <1>2 DEF Texted, Rewritten
<1>7. QED
    BY <1>3, <1>4, <1>5, <1>6 DEF Held, N

(* One collection of a tree is another.                                     *)
Replaced(M, N, c, e) ==
    DOMAIN N = DOMAIN M /\ \A x \in DOMAIN M : N[x] = IF x = c THEN e ELSE M[x]

(* A collection of a tree is replaced.                                      *)
LEMMA ReplaceTree ==
    ASSUME NEW M, Held(M), NEW c, NEW e, GoodColl(e)
    PROVE  Held([M EXCEPT ![c] = e]) /\ Replaced(M, [M EXCEPT ![c] = e], c, e)
<1> DEFINE N == [M EXCEPT ![c] = e]
<1>1. N = [x \in DOMAIN M |-> IF x = c THEN e ELSE M[x]]
    BY DEF Held
<1> HIDE DEF N
<1>2. DOMAIN N = DOMAIN M /\ N \in [DOMAIN N -> Collection]
    BY <1>1 DEF Held, GoodColl
<1>3. \A x \in DOMAIN M : GoodColl(N[x])
    BY <1>1 DEF Held
<1>4. Replaced(M, N, c, e)
    BY <1>1 DEF Replaced
<1>5. QED
    BY <1>2, <1>3, <1>4 DEF Held, N

(* A tree of some collections.                                              *)
LEMMA MakeTree ==
    ASSUME NEW cs \in SUBSET Colls, NEW M, M = [c \in cs |-> M[c]], \A c \in cs : GoodColl(M[c])
    PROVE  Held(M) /\ DOMAIN M = cs
<1>1. DOMAIN M = cs
    OBVIOUS
<1>2. M \in [cs -> Collection]
    BY DEF GoodColl
<1>3. QED
    BY <1>1, <1>2 DEF Held

(* Trees with the same requests have them at the same places.               *)
LEMMA LikePlaces ==
    ASSUME NEW M, NEW N, Like(M, N), NEW c \in DOMAIN M, NEW id
    PROVE  /\ Has(N[c], id) <=> Has(M[c], id)
           /\ Position(N[c], id) = Position(M[c], id)
           /\ NodeAt(N, c, id) = NodeAt(M, c, id)
           /\ PlaceOf(N, c, id) = PlaceOf(M, c, id)
<1>1. /\ N[c].root = M[c].root /\ N[c].folders = M[c].folders
      /\ DOMAIN N[c].text = DOMAIN M[c].text
    BY DEF Like
<1>2. Has(N[c], id) <=> Has(M[c], id)
    BY <1>1 DEF Has
<1>3. Position(N[c], id) = Position(M[c], id)
    BY <1>1 DEF Position
<1>4. NodeAt(N, c, id) = NodeAt(M, c, id)
    BY <1>3 DEF NodeAt
<1>5. QED
    BY <1>2, <1>3, <1>4 DEF PlaceOf

(* So it is with what a tab shows.                                          *)
LEMMA LikeLocated ==
    ASSUME NEW M, NEW N, Like(M, N), NEW t
    PROVE  Located(N, t) <=> Located(M, t)
<1>1. CASE IsDraft(t)
    BY <1>1 DEF Located
<1>2. CASE ~IsDraft(t) /\ t.col \in DOMAIN M
    <2>1. Has(N[t.col], t.id) <=> Has(M[t.col], t.id)
        BY <1>2, LikePlaces
    <2>2. QED
        BY <1>2, <2>1 DEF Located, Like
<1>3. CASE ~IsDraft(t) /\ t.col \notin DOMAIN M
    BY <1>3 DEF Located, Like
<1>4. QED
    BY <1>1, <1>2, <1>3

(* A request's place in a tree: what is at the node is the request, and     *)
(* what the pointer leads to.                                               *)
LEMMA NodeProperties ==
    ASSUME NEW M, Held(M), NEW c \in DOMAIN M, NEW id, Has(M[c], id)
    PROVE  /\ NodeAt(M, c, id) \in Node /\ NodeAt(M, c, id).col = c
           /\ id \in Ids /\ c \in Colls
           /\ M[c][NodeAt(M, c, id).kind][NodeAt(M, c, id).pos] = id
           /\ PlaceOf(M, c, id).at \in {"slot", "folder"} /\ PlaceOf(M, c, id).col = c
           /\ IdAt(M, PlaceOf(M, c, id)) = id
<1> DEFINE p == Position(M[c], id)
           n == NodeAt(M, c, id)
<1>1. GoodColl(M[c]) /\ c \in Colls
    BY DEF Held
<1>2. /\ p.kind \in Kinds /\ p.pos \in DOMAIN M[c][p.kind] /\ p.pos \in Nat \ {0}
      /\ M[c][p.kind][p.pos] = id
    BY <1>1, PositionProperties
<1>3. n = [col |-> c, kind |-> p.kind, pos |-> p.pos]
    BY DEF NodeAt
<1> HIDE DEF p, n
<1>4. n.col = c /\ n.kind = p.kind /\ n.pos = p.pos
    BY <1>3
<1>5. n \in Node
    BY <1>1, <1>2, <1>3 DEF Node
<1>6. id \in Ids
    BY <1>1, CollParts DEF Has
<1>7. CASE n.kind = "root"
    <2>1. PlaceOf(M, c, id) = [at |-> "slot", col |-> c, pos |-> n.pos]
        BY <1>7 DEF PlaceOf, n
    <2>2. M[c].root[n.pos] = id
        BY <1>2, <1>4, <1>7
    <2>3. IdAt(M, PlaceOf(M, c, id)) = id
        BY <2>1, <2>2 DEF IdAt
    <2>4. QED
        BY <1>1, <1>2, <1>4, <1>5, <1>6, <2>1, <2>3 DEF n
<1>8. CASE n.kind # "root"
    <2>1. PlaceOf(M, c, id) = [at |-> "folder", col |-> c, id |-> id]
        BY <1>8 DEF PlaceOf, n
    <2>3. IdAt(M, PlaceOf(M, c, id)) = id
        BY <2>1 DEF IdAt
    <2>4. QED
        BY <1>1, <1>2, <1>4, <1>5, <1>6, <2>1, <2>3 DEF n
<1>9. QED
    BY <1>7, <1>8

-----------------------------------------------------------------------------
(* What the editor writes.                                                  *)
Desk == [Drafts -> Text]
Wrote(M, w) == Held(w.m) /\ Like(M, w.m) /\ w.d \in Desk

(* A tree is like itself.                                                   *)
LEMMA LikeItself ==
    ASSUME NEW M
    PROVE  Like(M, M)
BY DEF Like

(* Whatever the pointer, a write changes texts only.                        *)
LEMMA WrittenProperties ==
    ASSUME NEW M, Held(M), NEW D \in Desk, NEW b, NEW t \in Text
    PROVE  Wrote(M, WrittenTo(M, D, b, t))
<1> DEFINE w == WrittenTo(M, D, b, t)
<1>1. CASE b.at = "lost"
    <2>1. w.m = M /\ w.d = D
        BY <1>1 DEF WrittenTo
    <2>2. QED
        BY <2>1, LikeItself DEF Wrote
<1>2. CASE b.at = "draft"
    <2>1. w.m = M /\ w.d = [D EXCEPT ![b.id] = t]
        BY <1>2 DEF WrittenTo
    <2>2. [D EXCEPT ![b.id] = t] \in Desk
        BY DEF Desk
    <2>3. QED
        BY <2>1, <2>2, LikeItself DEF Wrote
<1>3. CASE b.at \in {"slot", "folder"}
    <2>1. w.m = Put(M, b.col, IdAt(M, b), t) /\ w.d = D
        BY <1>3 DEF WrittenTo
    <2>2. QED
        BY <2>1, PutTree DEF Wrote
<1>4. CASE b.at \notin {"lost", "draft", "slot", "folder"}
    <2>1. w.m = M /\ w.d = D
        BY <1>4 DEF WrittenTo
    <2>2. QED
        BY <2>1, LikeItself DEF Wrote
<1>5. QED
    BY <1>1, <1>2, <1>3, <1>4

(* And so does the copy of what the editor shows.                           *)
LEMMA SyncedProperties ==
    ASSUME NEW M, Held(M), NEW D \in Desk, NEW b, NEW t \in Text, NEW isBody,
           NEW w \in SyncedTo(M, D, b, t, isBody)
    PROVE  Wrote(M, w)
<1>1. w = WrittenTo(M, D, b, t) \/ w = [m |-> M, d |-> D, b |-> b]
    BY DEF SyncedTo
<1>2. CASE w = WrittenTo(M, D, b, t)
    BY <1>2, WrittenProperties
<1>3. CASE w = [m |-> M, d |-> D, b |-> b]
    <2>1. w.m = M /\ w.d = D
        BY <1>3
    <2>2. QED
        BY <2>1, LikeItself DEF Wrote
<1>4. QED
    BY <1>1, <1>2, <1>3

-----------------------------------------------------------------------------
(* Tabs.                                                                    *)
Clean == Text \cup {NoText}
Tab == [col : Colls, id : Ids, snap : Clean] \cup [col : {NoColl}, id : Drafts, snap : Clean]

(* What a tab is.                                                           *)
LEMMA TabKinds ==
    ASSUME NEW t \in Tab
    PROVE  /\ t.snap \in Clean /\ t = [col |-> t.col, id |-> t.id, snap |-> t.snap]
           /\ IsDraft(t) => t.id \in Drafts
           /\ ~IsDraft(t) => t.col \in Colls /\ t.id \in Ids
<1>1. NoColl \notin Colls
    BY WorkbenchAssumption
<1>2. CASE t \in [col : Colls, id : Ids, snap : Clean]
    BY <1>1, <1>2 DEF IsDraft
<1>3. CASE t \in [col : {NoColl}, id : Drafts, snap : Clean]
    BY <1>1, <1>3 DEF IsDraft
<1>4. QED
    BY <1>2, <1>3 DEF Tab

(* The editor is on the tab t: it shows what the request says, unless that  *)
(* is typed only, and writes to it.                                         *)
Follows(M, D, t, b, bid, sh, ty) ==
    /\ Located(M, t) /\ (ty \/ sh = Live(M, D, t))
    /\ IF IsDraft(t) THEN b = OfDraft(t.id) /\ bid = NoNode
       ELSE b = PlaceOf(M, t.col, t.id) /\ bid = NodeAt(M, t.col, t.id)

(* What is written from an editor that is on the tab gets there.            *)
LEMMA WriteFollows ==
    ASSUME NEW M, Held(M), NEW D \in Desk, NEW tb \in Tab, NEW b, NEW bid, NEW sh, NEW ty,
           Follows(M, D, tb, b, bid, sh, ty), NEW t \in Text, NEW typing,
           NEW w, w = WrittenTo(M, D, b, t)
    PROVE  Follows(w.m, w.d, tb, w.b, bid, t, typing) /\ w.b = b /\ Live(w.m, w.d, tb) = t
<1> DEFINE c == tb.col
           id == tb.id
<1>1. CASE IsDraft(tb)
    <2>1. b = OfDraft(id) /\ bid = NoNode /\ id \in Drafts
        BY <1>1, TabKinds DEF Follows
    <2>2. b.at = "draft" /\ b.id = id
        BY <2>1 DEF OfDraft
    <2>3. w.m = M /\ w.d = [D EXCEPT ![id] = t] /\ w.b = b
        BY <2>2 DEF WrittenTo
    <2>4. w.d[id] = t
        BY <2>1, <2>3 DEF Desk
    <2>5. QED
        BY <1>1, <2>1, <2>3, <2>4 DEF Follows, Located, Live
<1>2. CASE ~IsDraft(tb)
    <2>1. c \in DOMAIN M /\ Has(M[c], id) /\ b = PlaceOf(M, c, id) /\ bid = NodeAt(M, c, id)
        BY <1>2 DEF Follows, Located
    <2>2. b.at \in {"slot", "folder"} /\ b.col = c /\ IdAt(M, b) = id
        BY <2>1, NodeProperties
    <2>3. w.m = Put(M, c, id, t) /\ w.d = D /\ w.b = b
        BY <2>2 DEF WrittenTo
    <2>4. Like(M, w.m) /\ Texted(M, w.m, c, id, t)
        BY <2>3, PutTree
    <2>5. w.m[c].text[id] = t
        BY <2>1, <2>4 DEF Texted, Has
    <2>6. Located(w.m, tb) /\ PlaceOf(w.m, c, id) = b /\ NodeAt(w.m, c, id) = bid
        BY <2>1, <2>4, LikePlaces, LikeLocated DEF Follows
    <2>7. QED
        BY <1>2, <2>3, <2>5, <2>6 DEF Follows, Live
<1>3. QED
    BY <1>1, <1>2

(* And so does the copy of what it shows.                                   *)
LEMMA SyncFollows ==
    ASSUME NEW M, Held(M), NEW D \in Desk, NEW tb \in Tab, NEW b, NEW bid, NEW sh \in Text,
           NEW ty \in BOOLEAN, Follows(M, D, tb, b, bid, sh, ty),
           NEW w \in SyncedTo(M, D, b, sh, ty)
    PROVE  Follows(w.m, w.d, tb, w.b, bid, sh, FALSE)
<1>1. w = WrittenTo(M, D, b, sh) \/ (~ty /\ w = [m |-> M, d |-> D, b |-> b])
    BY DEF SyncedTo
<1>2. CASE w = WrittenTo(M, D, b, sh)
    BY <1>2, WriteFollows
<1>3. CASE ~ty /\ w = [m |-> M, d |-> D, b |-> b]
    <2>1. w.m = M /\ w.d = D /\ w.b = b
        BY <1>3
    <2>2. QED
        BY <1>3, <2>1 DEF Follows
<1>4. QED
    BY <1>1, <1>2, <1>3

-----------------------------------------------------------------------------
(* The strip.                                                               *)
NoneTwice(T) == \A i, j \in DOMAIN T : T[i].col = T[j].col /\ T[i].id = T[j].id => i = j
Strip(T) == T \in Seq(Tab) /\ Len(T) <= MaxTabs /\ NoneTwice(T)

(* What follows from it at once. *)
LEMMA StripParts ==
    ASSUME NEW T, Strip(T)
    PROVE  /\ T \in Seq(Tab) /\ Len(T) \in Nat /\ DOMAIN T = 1 .. Len(T) /\ NoneTwice(T)
           /\ \A k \in DOMAIN T : T[k] \in Tab
           /\ T = <<>> <=> Len(T) = 0
<1>1. T \in Seq(Tab)
    BY DEF Strip
<1>2. Len(T) \in Nat /\ DOMAIN T = 1 .. Len(T)
    BY <1>1, LenProperties
<1>3. \A k \in DOMAIN T : T[k] \in Tab
    BY <1>1, <1>2, ElementOfSeq
<1>4. T = <<>> <=> Len(T) = 0
    BY <1>1, EmptySeq
<1>5. QED
    BY <1>1, <1>2, <1>3, <1>4 DEF Strip

(* The tabs U are some of T, in whatever order. *)
Drawn(U, T, f) ==
    /\ Len(U) <= Len(T)
    /\ \A k \in 1 .. Len(U) :
        f[k] \in 1 .. Len(T) /\ U[k].col = T[f[k]].col /\ U[k].id = T[f[k]].id
    /\ \A k, l \in 1 .. Len(U) : f[k] = f[l] => k = l

(* A request that is twice in U was twice in T.                             *)
LEMMA DrawnOnce ==
    ASSUME NEW R, NEW S, NEW T \in Seq(R), NoneTwice(T), NEW U \in Seq(S), NEW f, Drawn(U, T, f)
    PROVE  NoneTwice(U)
<1>1. DOMAIN T = 1 .. Len(T) /\ DOMAIN U = 1 .. Len(U)
    BY LenProperties
<1>2. SUFFICES ASSUME NEW i \in DOMAIN U, NEW j \in DOMAIN U, U[i].col = U[j].col, U[i].id = U[j].id
               PROVE  i = j
    BY DEF NoneTwice
<1>3. /\ f[i] \in DOMAIN T /\ f[j] \in DOMAIN T
      /\ T[f[i]].col = T[f[j]].col /\ T[f[i]].id = T[f[j]].id
    BY <1>1, <1>2 DEF Drawn
<1>4. f[i] = f[j]
    BY <1>3 DEF NoneTwice
<1>5. QED
    BY <1>1, <1>4 DEF Drawn

(* Tabs drawn from a strip are a strip.                                     *)
LEMMA DrawnStrip ==
    ASSUME NEW T, Strip(T), NEW U \in Seq(Tab), NEW f, Drawn(U, T, f)
    PROVE  Strip(U)
<1>1. Len(U) <= MaxTabs
    <2>1. Len(U) \in Nat /\ Len(T) \in Nat /\ MaxTabs \in Nat
        BY LenProperties, StripParts, WorkbenchAssumption
    <2>2. QED
        BY <2>1 DEF Strip, Drawn
<1>2. NoneTwice(U)
    BY StripParts, DrawnOnce
<1>3. QED
    BY <1>1, <1>2 DEF Strip

(* The same tabs, but for the snapshots. *)
SameTabs(T, U) ==
    /\ U \in Seq(Tab) /\ Len(U) = Len(T)
    /\ \A k \in 1 .. Len(T) : U[k].col = T[k].col /\ U[k].id = T[k].id

(* A strip with other snapshots is a strip.                                 *)
LEMMA SameStrip ==
    ASSUME NEW T, Strip(T), NEW U, SameTabs(T, U)
    PROVE  Strip(U)
<1> DEFINE f == [k \in 1 .. Len(U) |-> k]
<1>1. Drawn(U, T, f)
    <2>1. Len(T) \in Nat /\ Len(U) = Len(T)
        BY StripParts DEF SameTabs
    <2>2. QED
        BY <2>1 DEF Drawn, SameTabs
<1>2. QED
    BY <1>1, DrawnStrip DEF SameTabs

(* The tabs at some positions.                                              *)
LEMMA PickStrip ==
    ASSUME NEW T, Strip(T), NEW at \in SUBSET DOMAIN T
    PROVE  /\ Strip(Pick(T, at))
           /\ \A k \in at : \E l \in DOMAIN Pick(T, at) : Pick(T, at)[l] = T[k]
           /\ \A l \in DOMAIN Pick(T, at) : \E k \in at : Pick(T, at)[l] = T[k]
<1> DEFINE U == Pick(T, at)
           p == TheWay(at)
<1>1. T \in Seq(Tab) /\ at \in SUBSET (1 .. Len(T)) /\ Len(T) \in Nat
    BY StripParts
<1>2. U \in Seq(Tab) /\ Along(U, T, p, at) /\ Len(U) <= Len(T)
    BY <1>1, PickProperties, PickShorter
<1> HIDE DEF U, p
<1>3. Len(U) \in Nat /\ DOMAIN U = 1 .. Len(U)
    BY <1>2, LenProperties
<1>4. Ordered(Len(U), p)
    <2>1. at \in SUBSET Int
        BY <1>1
    <2>2. Way(Len(U), p, at)
        BY <1>2 DEF Along
    <2>3. QED
        BY <1>3, <2>1, <2>2, WayBack
<1>5. Drawn(U, T, p)
    BY <1>1, <1>2, <1>3, <1>4 DEF Drawn, Along, Way, Ordered
<1>6. Strip(U)
    BY <1>2, <1>5, DrawnStrip
<1>7. \A k \in at : \E l \in DOMAIN U : U[l] = T[k]
    BY <1>2, <1>3 DEF Along, Way
<1>8. \A l \in DOMAIN U : \E k \in at : U[l] = T[k]
    BY <1>2, <1>3 DEF Along, Way
<1>9. QED
    BY <1>6, <1>7, <1>8 DEF U

(* A tab goes.                                                              *)
LEMMA RemoveStrip ==
    ASSUME NEW T, Strip(T), NEW i \in DOMAIN T
    PROVE  Strip(RemoveAt(T, i))
<1>1. T \in Seq(Tab) /\ i \in 1 .. Len(T) /\ Len(T) \in Nat
    BY StripParts
<1>2. PICK n \in Nat : n = Len(T)
    BY <1>1
<1> DEFINE U == RemoveAt(T, i)
           f == [k \in 1 .. n - 1 |-> IF k < i THEN k ELSE k + 1]
<1>3. /\ U \in Seq(Tab) /\ Len(U) = n - 1
      /\ \A k \in 1 .. n - 1 : U[k] = IF k < i THEN T[k] ELSE T[k + 1]
    BY <1>1, <1>2, RemoveAtProperties
<1>4. \A k \in 1 .. n - 1 : f[k] \in 1 .. n /\ U[k] = T[f[k]]
    BY <1>1, <1>2, <1>3
<1>5. \A k, l \in 1 .. n - 1 : f[k] = f[l] => k = l
    BY <1>1
<1> HIDE DEF f, U
<1>6. Drawn(U, T, f)
    BY <1>2, <1>3, <1>4, <1>5 DEF Drawn
<1>7. QED
    BY <1>3, <1>6, DrawnStrip DEF U

(* A tab is put elsewhere.                                                  *)
LEMMA MovedStrip ==
    ASSUME NEW T, Strip(T), NEW i \in DOMAIN T, NEW j \in DOMAIN T
    PROVE  /\ Strip(Moved(T, i, j))
           /\ \A k \in DOMAIN T : \E l \in DOMAIN Moved(T, i, j) : Moved(T, i, j)[l] = T[k]
<1>1. T \in Seq(Tab) /\ i \in 1 .. Len(T) /\ j \in 1 .. Len(T) /\ DOMAIN T = 1 .. Len(T)
    BY StripParts
<1>2. PICK n \in Nat : n = Len(T)
    BY StripParts
<1> DEFINE U == Moved(T, i, j)
           f == [k \in 1 .. n |-> Source(k, i, j)]
<1>3. U \in Seq(Tab) /\ Rearranged(U, T, i, j)
    BY <1>1, MovedProperties
<1>4. Within(n, i, j) /\ OneToOne(n, i, j) /\ Onto(n, i, j)
    BY <1>1, <1>2, SourceProperties
<1>5. \A k \in 1 .. n : f[k] = Source(k, i, j)
    OBVIOUS
<1> HIDE DEF f, U
<1>6. DOMAIN U = 1 .. n
    BY <1>2, <1>3, LenProperties DEF Rearranged
<1>7. Drawn(U, T, f)
    BY <1>2, <1>3, <1>4, <1>5 DEF Drawn, Rearranged, Within, OneToOne
<1>8. \A k \in DOMAIN T : \E l \in DOMAIN U : U[l] = T[k]
    BY <1>1, <1>2, <1>3, <1>4, <1>6 DEF Rearranged, Onto
<1>9. QED
    BY <1>3, <1>7, <1>8, DrawnStrip DEF U

(* A new tab at the end.                                                    *)
LEMMA AppendStrip ==
    ASSUME NEW T, Strip(T), NEW t \in Tab, Len(T) < MaxTabs,
           \A k \in DOMAIN T : ~(T[k].col = t.col /\ T[k].id = t.id)
    PROVE  /\ Strip(Append(T, t)) /\ Len(T) + 1 \in DOMAIN Append(T, t)
           /\ Append(T, t)[Len(T) + 1] = t
<1> DEFINE U == Append(T, t)
<1>1. T \in Seq(Tab) /\ Len(T) \in Nat /\ DOMAIN T = 1 .. Len(T)
    BY StripParts
<1>2. /\ U \in Seq(Tab) /\ Len(U) = Len(T) + 1
      /\ \A k \in 1 .. Len(T) : U[k] = T[k] /\ U[Len(T) + 1] = t
    BY <1>1
<1>3. U[Len(T) + 1] = t
    BY <1>1
<1> HIDE DEF U
<1>4. DOMAIN U = 1 .. Len(T) + 1
    BY <1>2, LenProperties
<1>5. NoneTwice(U)
    <2>1. SUFFICES ASSUME NEW i \in DOMAIN U, NEW j \in DOMAIN U,
                          U[i].col = U[j].col, U[i].id = U[j].id
                   PROVE  i = j
        BY DEF NoneTwice
    <2>2. CASE i \in 1 .. Len(T) /\ j \in 1 .. Len(T)
        BY <1>1, <1>2, <2>1, <2>2 DEF Strip, NoneTwice
    <2>3. CASE i \in 1 .. Len(T) /\ j = Len(T) + 1
        BY <1>1, <1>2, <1>3, <2>1, <2>3
    <2>4. CASE i = Len(T) + 1 /\ j \in 1 .. Len(T)
        BY <1>1, <1>2, <1>3, <2>1, <2>4
    <2>5. QED
        BY <1>1, <1>4, <2>2, <2>3, <2>4
<1>6. Len(U) <= MaxTabs
    BY <1>1, <1>2, WorkbenchAssumption
<1>7. QED
    BY <1>1, <1>2, <1>3, <1>4, <1>5, <1>6 DEF Strip, U

(* Where a tab is in the strip.                                             *)
LEMMA IndexProperties ==
    ASSUME NEW S, NEW T \in Seq(S), NEW col, NEW id
    PROVE  LET i == IndexOf(T, col, id) IN
           /\ i \in 0 .. Len(T)
           /\ i # 0 => T[i].col = col /\ T[i].id = id
           /\ i = 0 => \A k \in DOMAIN T : ~(T[k].col = col /\ T[k].id = id)
<1> DEFINE I == {k \in 1 .. Len(T) : T[k].col = col /\ T[k].id = id}
           i == IndexOf(T, col, id)
<1>1. I \in SUBSET Nat /\ DOMAIN T = 1 .. Len(T) /\ Len(T) \in Nat
    BY LenProperties
<1>2. i = IF I # {} THEN Min(I) ELSE 0
    BY DEF IndexOf, SelectInSeq
<1>3. I # {} => Min(I) \in I
    BY <1>1, LeastNat DEF Min
<1>4. CASE I # {}
    BY <1>1, <1>2, <1>3, <1>4
<1>5. CASE I = {}
    BY <1>1, <1>2, <1>5
<1>6. QED
    BY <1>4, <1>5

(* In a strip, it is there alone.                                           *)
LEMMA IndexOfTab ==
    ASSUME NEW T, Strip(T), NEW k \in DOMAIN T
    PROVE  IndexOf(T, T[k].col, T[k].id) = k
<1> DEFINE i == IndexOf(T, T[k].col, T[k].id)
<1>1. T \in Seq(Tab) /\ DOMAIN T = 1 .. Len(T) /\ NoneTwice(T)
    BY StripParts
<1>2. /\ i \in 0 .. Len(T) /\ (i # 0 => T[i].col = T[k].col /\ T[i].id = T[k].id)
      /\ (i = 0 => \A l \in DOMAIN T : ~(T[l].col = T[k].col /\ T[l].id = T[k].id))
    BY <1>1, IndexProperties
<1> HIDE DEF i
<1>3. i # 0
    BY <1>2
<1>4. i \in DOMAIN T
    BY <1>1, <1>2, <1>3
<1>5. i = k
    BY <1>1, <1>2, <1>3, <1>4 DEF NoneTwice
<1>6. QED
    BY <1>5 DEF i

(* The tab k of T, in a strip that has it, too.                             *)
LEMMA IndexInStrip ==
    ASSUME NEW U, Strip(U), NEW t, \E l \in DOMAIN U : U[l] = t
    PROVE  /\ IndexOf(U, t.col, t.id) \in DOMAIN U
           /\ U[IndexOf(U, t.col, t.id)] = t
BY IndexOfTab

-----------------------------------------------------------------------------
(* What is remembered of the strip.                                         *)
Remembered(P) == P \in Seq([col : Colls, id : Ids]) /\ Len(P) <= MaxTabs /\ NoneTwice(P)
Names(p, t) == p.col = t.col /\ p.id = t.id

(* The tabs that are not scratch, and the active one of T. *)
Finds(P, T, i) ==
    LET S == Pick(T, InTree(T)) IN
        /\ Len(P.tabs) = Len(S) /\ \A k \in DOMAIN S : Names(P.tabs[k], S[k])
        /\ IsDraft(T[i]) \/ Names(P.tabs[P.active], T[i])

(* What persistTabs writes into the config finds the tabs of the strip.     *)
LEMMA PersistProperties ==
    ASSUME NEW T, Strip(T), NEW i, Persist(T, i)
    PROVE  /\ Remembered(persisted'.tabs)
           /\ i \in DOMAIN T => Finds(persisted', T, i)
<1> DEFINE at == InTree(T)
           E == [k \in DOMAIN T |-> Entry(T[k])]
           p == TheWay(at)
           P == Pick(E, at)
           U == Pick(T, at)
           before == {k \in at : k < i}
           a == IF i \in at THEN Cardinality(before) + 1 ELSE 1
           Entries == [col : Colls, id : Ids]
<1>1. T \in Seq(Tab) /\ DOMAIN T = 1 .. Len(T) /\ \A k \in DOMAIN T : T[k] \in Tab
    BY StripParts
<1>2. PICK n \in Nat : n = Len(T)
    BY StripParts
<1>3. persisted' = [tabs |-> P, active |-> a]
    BY DEF Persist
<1>4. at \in SUBSET (1 .. n) /\ \A k \in at : ~IsDraft(T[k])
    BY <1>1, <1>2 DEF InTree
<1>5. PICK m \in Nat : m = Cardinality(at)
    BY <1>4, TheWayIs
<1>6. Way(m, p, at) /\ \A k \in 1 .. m : p[k] \in at
    BY <1>4, <1>5, TheWayIs DEF Way
<1>7. P = [k \in 1 .. m |-> E[p[k]]] /\ U = [k \in 1 .. m |-> T[p[k]]]
    BY <1>5 DEF Pick, TheWay
<1>8. \A k \in at : E[k] \in Entries /\ E[k].col = T[k].col /\ E[k].id = T[k].id /\ T[k] \in Tab
    <2>1. \A k \in at : E[k] = Entry(T[k])
        BY <1>1, <1>2, <1>4
    <2>2. \A k \in at : T[k].col \in Colls /\ T[k].id \in Ids /\ T[k] \in Tab
        BY <1>1, <1>2, <1>4, TabKinds
    <2> HIDE DEF E, at
    <2>3. ASSUME NEW k \in at
          PROVE  E[k] \in Entries /\ E[k].col = T[k].col /\ E[k].id = T[k].id /\ T[k] \in Tab
        <3>1. E[k] = [col |-> T[k].col, id |-> T[k].id]
            BY <2>1 DEF Entry
        <3>2. QED
            BY <2>2, <3>1
    <2>4. QED
        BY <2>3
<1> HIDE DEF at, E, p, P, U, Entries
<1>9. P \in Seq(Entries) /\ Len(P) = m /\ DOMAIN P = 1 .. m
    <2>1. \A k \in 1 .. m : E[p[k]] \in Entries
        BY <1>6, <1>8
    <2>2. P \in [1 .. m -> Entries]
        BY <1>7, <2>1
    <2>3. QED
        BY <2>2, FunctionIsSeq
<1>10. Strip(U)
    BY <1>1, <1>2, <1>4, PickStrip DEF U
<1>11. Len(U) = m /\ DOMAIN U = 1 .. m
    <2>1. U \in [1 .. m -> Tab]
        BY <1>6, <1>7, <1>8
    <2>2. QED
        BY <2>1, FunctionIsSeq
<1>12. \A k \in 1 .. m : Names(P[k], U[k])
    BY <1>6, <1>7, <1>8 DEF Names
<1>13. Remembered(P)
    <2> DEFINE f == [k \in 1 .. m |-> k]
    <2>1. Drawn(P, U, f)
        BY <1>9, <1>11, <1>12 DEF Drawn, Names
    <2> HIDE DEF f
    <2>2. NoneTwice(P)
        BY <1>9, <1>10, <2>1, StripParts, DrawnOnce
    <2>3. Len(P) <= MaxTabs
        BY <1>9, <1>10, <1>11 DEF Strip
    <2>4. QED
        BY <1>9, <2>2, <2>3 DEF Remembered, Entries
<1>14. ASSUME i \in DOMAIN T, ~IsDraft(T[i]) PROVE Names(P[a], T[i])
    <2>1. i \in at
        BY <1>14 DEF at, InTree
    <2>2. a = Cardinality(before) + 1 /\ a \in 1 .. m /\ p[a] = i
        <3>1. Cardinality(before) + 1 \in 1 .. m /\ p[Cardinality(before) + 1] = i
            BY <1>4, <1>5, <2>1, RankOnWay DEF p
        <3>2. QED
            BY <2>1, <3>1
    <2> HIDE DEF a
    <2>3. P[a] = E[i]
        BY <1>7, <2>2
    <2>4. QED
        BY <1>8, <2>1, <2>3 DEF Names
<1> HIDE DEF a
<1>15. persisted'.tabs = P /\ persisted'.active = a
    BY <1>3
<1>16. i \in DOMAIN T => Finds(persisted', T, i)
    BY <1>9, <1>11, <1>12, <1>14, <1>15 DEF Finds, U, at
<1>17. QED
    BY <1>13, <1>15, <1>16

-----------------------------------------------------------------------------
(* A tab is shown.                                                          *)

(* The tabs of U are of T, and those of T that the tree has are in U.       *)
Remains(T, U, M) ==
    /\ \A k \in DOMAIN U : \E j \in DOMAIN T : U[k] = T[j]
    /\ \A j \in DOMAIN T : Located(M, T[j]) => \E k \in DOMAIN U : U[k] = T[j]

(* Some tabs from i on go.                                                  *)
LEMMA CutProperties ==
    ASSUME NEW T, Strip(T), NEW i \in DOMAIN T, NEW k \in DOMAIN T, i <= k, NEW M,
           Located(M, T[k]), \A j \in DOMAIN T : i <= j /\ j < k => ~Located(M, T[j]),
           NEW U, U = SubSeq(T, 1, i - 1) \o SubSeq(T, k, Len(T))
    PROVE  Strip(U) /\ i \in DOMAIN U /\ U[i] = T[k] /\ Remains(T, U, M)
<1>1. PICK n \in Nat : n = Len(T)
    BY StripParts
<1>2. /\ T \in Seq(Tab) /\ DOMAIN T = 1 .. n /\ i \in 1 .. n /\ k \in 1 .. n
      /\ \A j \in 1 .. n : T[j] \in Tab
    BY <1>1, StripParts
<1> DEFINE a == i - 1
           b == k - 1
           m == n - b
<1>3. a \in Nat /\ a + 1 = i
    BY <1>2
<1>4. b \in Nat /\ b + 1 = k /\ a <= b /\ b < n
    BY <1>2
<1>5. m \in Nat /\ m + b = n /\ m > 0
    BY <1>4
<1>6. i - 1 = a /\ U = SubSeq(T, 1, a) \o SubSeq(T, b + 1, n)
    BY <1>1, <1>2, <1>4
<1> HIDE DEF a, b, m
<1> USE <1>3, <1>4, <1>5
<1> DEFINE A == SubSeq(T, 1, a)
           B == SubSeq(T, b + 1, n)
           f == [j \in 1 .. a + m |-> IF j <= a THEN j ELSE j - a + b]
<1>7. A \in Seq(Tab) /\ Len(A) = a /\ \A j \in 1 .. a : A[j] = T[j]
    <2>1. a <= n
        OBVIOUS
    <2>2. QED
        BY <1>1, <1>2, <2>1
<1>8. B \in Seq(Tab) /\ Len(B) = m /\ \A j \in 1 .. m : B[j] = T[j + b]
    BY <1>1, <1>2
<1> HIDE DEF A, B
<1>9. U = A \o B
    BY <1>6 DEF A, B
<1>10. /\ A \o B \in Seq(Tab) /\ Len(A \o B) = Len(A) + Len(B)
       /\ \A j \in 1 .. Len(A) + Len(B) :
            (A \o B)[j] = IF j <= Len(A) THEN A[j] ELSE B[j - Len(A)]
    <2>1. A \in Seq(Tab) /\ B \in Seq(Tab)
        BY <1>7, <1>8
    <2>2. QED
        BY <2>1, ConcatProperties
<1>11. U \in Seq(Tab) /\ Len(U) = a + m
    BY <1>7, <1>8, <1>9, <1>10
<1>12. \A j \in 1 .. a + m : U[j] = IF j <= a THEN A[j] ELSE B[j - a]
    BY <1>7, <1>8, <1>9, <1>10
<1>13. DOMAIN U = 1 .. a + m
    BY <1>11, LenProperties
<1>14. \A j \in 1 .. a + m : f[j] = IF j <= a THEN j ELSE j - a + b
    OBVIOUS
<1> HIDE DEF f
<1>15. \A j \in 1 .. a + m : f[j] \in 1 .. n
    BY <1>4, <1>5, <1>14
<1>16. ASSUME NEW j \in 1 .. a + m PROVE U[j] = T[f[j]]
    <2>1. CASE j <= a
        <3>1. j \in 1 .. a
            BY <2>1
        <3>2. QED
            BY <2>1, <3>1, <1>7, <1>12, <1>14
    <2>2. CASE ~(j <= a)
        <3>1. j - a \in 1 .. m /\ j - a + b = f[j]
            BY <2>2, <1>14
        <3>2. U[j] = B[j - a]
            BY <2>2, <1>12
        <3>3. QED
            BY <3>1, <3>2, <1>8
    <2>3. QED
        BY <2>1, <2>2
<1>17. ASSUME NEW j \in 1 .. a + m, NEW l \in 1 .. a + m, f[j] = f[l] PROVE j = l
    <2>1. /\ f[j] = IF j <= a THEN j ELSE j - a + b
          /\ f[l] = IF l <= a THEN l ELSE l - a + b
        BY <1>14
    <2>2. QED
        BY <2>1, <1>17
<1>18. Drawn(U, T, f)
    <2>1. a + m <= n
        BY <1>4, <1>5
    <2>2. QED
        <3>1. Len(U) <= Len(T)
            BY <2>1, <1>1, <1>11
        <3>2. \A j \in 1 .. Len(U) :
                 f[j] \in 1 .. Len(T) /\ U[j].col = T[f[j]].col /\ U[j].id = T[f[j]].id
            BY <1>1, <1>11, <1>15, <1>16
        <3>3. \A j, l \in 1 .. Len(U) : f[j] = f[l] => j = l
            BY <1>11, <1>17
        <3>4. QED
            BY <3>1, <3>2, <3>3 DEF Drawn
<1>19. Strip(U)
    BY <1>11, <1>18, DrawnStrip
<1>20. i \in DOMAIN U /\ U[i] = T[k]
    <2>1. i \in 1 .. a + m /\ f[i] = k
        BY <1>3, <1>4, <1>5, <1>14
    <2>2. QED
        BY <2>1, <1>13, <1>16
<1>21. \A j \in DOMAIN U : \E l \in DOMAIN T : U[j] = T[l]
    BY <1>2, <1>13, <1>15, <1>16
<1>22. ASSUME NEW j \in DOMAIN T, Located(M, T[j]) PROVE \E l \in DOMAIN U : U[l] = T[j]
    <2>1. j \in 1 .. n /\ (j < i \/ k <= j)
        <3>1. ~(i <= j /\ j < k)
            BY <1>22
        <3>2. QED
            BY <3>1, <1>2
    <2>2. CASE j < i
        <3>1. j \in 1 .. a + m /\ j <= a
            BY <2>1, <2>2, <1>2
        <3>3. f[j] = j
            BY <3>1, <1>14
        <3>2. QED
            BY <3>1, <3>3, <1>13, <1>16
    <2>3. CASE k <= j
        <3> DEFINE l == j - b + a
        <3>1. l \in 1 .. a + m /\ ~(l <= a) /\ l - a + b = j
            BY <2>1, <2>3
        <3> HIDE DEF l
        <3>2. f[l] = j
            BY <3>1, <1>14
        <3>3. QED
            BY <3>1, <3>2, <1>13, <1>16
    <2>4. QED
        BY <2>1, <2>2, <2>3
<1>23. QED
    BY <1>19, <1>20, <1>21, <1>22 DEF Remains

(* The tabs behind k go.                                                    *)
LEMMA FrontProperties ==
    ASSUME NEW T, Strip(T), NEW k \in 0 .. Len(T), NEW M,
           \A j \in DOMAIN T : k < j => ~Located(M, T[j]),
           NEW U, U = SubSeq(T, 1, k)
    PROVE  Strip(U) /\ DOMAIN U = 1 .. k /\ (k # 0 => U[k] = T[k]) /\ Remains(T, U, M)
<1>1. PICK n \in Nat : n = Len(T)
    BY StripParts
<1>2. T \in Seq(Tab) /\ DOMAIN T = 1 .. n /\ k \in 0 .. n
    BY <1>1, StripParts
<1>3. U \in Seq(Tab) /\ Len(U) = k /\ \A j \in 1 .. k : U[j] = T[j]
    BY <1>1, <1>2
<1>4. DOMAIN U = 1 .. k
    BY <1>3
<1> DEFINE f == [j \in 1 .. k |-> j]
<1>5. Drawn(U, T, f)
    BY <1>1, <1>2, <1>3 DEF Drawn
<1>6. Strip(U)
    BY <1>3, <1>5, DrawnStrip
<1>7. Remains(T, U, M)
    <2>1. ASSUME NEW j \in DOMAIN U
          PROVE  \E l \in DOMAIN T : U[j] = T[l]
        <3>1. j \in DOMAIN T
            BY <1>2, <1>4
        <3>2. QED
            BY <1>3, <1>4, <3>1
    <2>2. ASSUME NEW j \in DOMAIN T, Located(M, T[j])
          PROVE  \E l \in DOMAIN U : U[l] = T[j]
        <3>1. j \in 1 .. k
            BY <1>2, <2>2
        <3>2. QED
            BY <1>3, <1>4, <3>1
    <2>3. QED
        BY <2>1, <2>2 DEF Remains
<1>8. QED
    BY <1>2, <1>3, <1>4, <1>6, <1>7

(* activateTab finds a tab whose request the tree has, or none is left.     *)
LEMMA SettledProperties ==
    ASSUME NEW T, Strip(T), NEW i \in DOMAIN T, NEW M, NEW s, s = Settled(T, M, i)
    PROVE  /\ Strip(s.tabs) /\ Remains(T, s.tabs, M)
           /\ s.at # 0 => s.at \in DOMAIN s.tabs /\ Located(M, s.tabs[s.at])
           /\ s.at = 0 => s.tabs = <<>>
<1>1. PICK n \in Nat : n = Len(T)
    BY StripParts
<1>2. DOMAIN T = 1 .. n
    BY <1>1, StripParts
<1> DEFINE found == {k \in DOMAIN T : Located(M, T[k])}
           right == {k \in found : k >= i}
           left == {k \in found : k < i}
           r == CHOOSE k \in right : \A j \in right : k <= j
           l == IF left = {} THEN 0 ELSE CHOOSE k \in left : \A j \in left : k >= j
           cut == SubSeq(T, 1, i - 1) \o SubSeq(T, r, Len(T))
           front == SubSeq(T, 1, l)
<1>3. CASE right # {}
    <2>1. r \in right /\ \A j \in right : r <= j
        <3>1. right \in SUBSET Nat
            BY <1>2
        <3>2. QED
            BY <1>3, <3>1, LeastNat
    <2>2. s = [tabs |-> cut, at |-> i]
        BY <1>3 DEF Settled
    <2> HIDE DEF cut, r
    <2>3. s.tabs = cut /\ s.at = i
        BY <2>2
    <2>4. r \in DOMAIN T /\ i <= r /\ Located(M, T[r])
        BY <2>1, <1>2
    <2>5. ASSUME NEW j \in DOMAIN T, i <= j, j < r PROVE ~Located(M, T[j])
        <3>1. j \notin right
            BY <2>1, <2>4, <2>5, <1>2
        <3>2. QED
            BY <3>1, <2>5, <1>2
    <2>6. Strip(s.tabs) /\ i \in DOMAIN s.tabs /\ s.tabs[i] = T[r] /\ Remains(T, s.tabs, M)
        BY <2>3, <2>4, <2>5, CutProperties DEF cut
    <2>7. i # 0
        BY <1>2
    <2>8. QED
        BY <2>3, <2>4, <2>6, <2>7
<1>4. CASE right = {}
    <2>1. l \in 0 .. n /\ (l = 0 \/ l \in left) /\ \A j \in left : l >= j
        <3>1. left \in SUBSET (0 .. n)
            BY <1>2
        <3>2. CASE left = {}
            BY <3>2
        <3>3. CASE left # {}
            <4>1. \E k \in left : \A j \in left : k >= j
                BY <3>1, <3>3, GreatestNat
            <4>2. l \in left /\ \A j \in left : l >= j
                BY <4>1, <3>3
            <4>3. QED
                BY <4>2, <3>1
        <3>4. QED
            BY <3>2, <3>3
    <2>2. s = [tabs |-> front, at |-> l]
        BY <1>4 DEF Settled
    <2> HIDE DEF front, l
    <2>3. s.tabs = front /\ s.at = l
        BY <2>2
    <2>4. ASSUME NEW j \in DOMAIN T, l < j PROVE ~Located(M, T[j])
        <3>1. j \notin right
            BY <1>4
        <3>2. j \notin left
            BY <2>1, <2>4, <1>2
        <3>3. QED
            BY <3>1, <3>2, <1>2
    <2>5. /\ Strip(s.tabs) /\ DOMAIN s.tabs = 1 .. l /\ (l # 0 => s.tabs[l] = T[l])
          /\ Remains(T, s.tabs, M)
        <3>1. l \in 0 .. Len(T) /\ s.tabs = SubSeq(T, 1, l)
            BY <1>1, <2>1, <2>3 DEF front
        <3>2. QED
            BY <2>4, <3>1, FrontProperties
    <2>6. l # 0 => l \in DOMAIN s.tabs /\ Located(M, s.tabs[l])
        BY <2>1, <2>5, <1>2
    <2>7. l = 0 => s.tabs = <<>>
        BY <2>3, <2>5, StripParts
    <2>8. QED
        BY <2>3, <2>5, <2>6, <2>7
<1>5. QED
    BY <1>3, <1>4

(* The window: the strip, the drafts, what is remembered, and the editor.   *)
Window ==
    /\ Strip(tabs) /\ drafts \in Desk /\ shown \in Text /\ typed \in BOOLEAN /\ adrift \in BOOLEAN
    /\ Remembered(persisted.tabs)
    /\ tabs = <<>> => active = 0 /\ bound = Nowhere /\ ~adrift
    /\ tabs # <<>> => active \in DOMAIN tabs /\ Finds(persisted, tabs, active)
    /\ tabs # <<>> /\ ~adrift =>
            Follows(mem, drafts, tabs[active], bound, boundId, shown, typed)

(* A request's text, and what loading it makes of it, are texts.            *)
LEMMA TextProperties ==
    ASSUME NEW M, Held(M), NEW c \in DOMAIN M, NEW id, Has(M[c], id)
    PROVE  M[c].text[id] \in Text /\ Fold[M[c].text[id]] \in Text
<1>1. GoodColl(M[c])
    BY DEF Held
<1>2. M[c].text[id] \in Text
    BY <1>1, CollParts DEF Has
<1>3. Fold \in [Text -> Text]
    BY WorkbenchAssumption DEF Text
<1>4. QED
    BY <1>2, <1>3

(* A window without tabs.                                                   *)
LEMMA EmptyWindow ==
    ASSUME NEW M, Held(M), NEW D \in Desk, NoTabs(M, D), Remembered(persisted'.tabs)
    PROVE  Window' /\ Held(mem') /\ Like(M, mem')
<1>1. Strip(<<>>)
    BY WorkbenchAssumption DEF Strip, NoneTwice
<1>2. /\ tabs' = <<>> /\ active' = 0 /\ drafts' = D /\ mem' = M /\ adrift' = FALSE
      /\ bound' = Nowhere /\ shown' = Blank /\ typed' = FALSE
    BY DEF NoTabs, ClearEditor
<1>3. Window'
    BY <1>1, <1>2 DEF Window, Text
<1>4. QED
    BY <1>2, <1>3, LikeItself

(* The snapshot of the tab that is loaded.                                  *)
LEMMA SnapshotStrip ==
    ASSUME NEW T, Strip(T), NEW i \in DOMAIN T, NEW text \in Text,
           NEW U, U = [T EXCEPT ![i] = Snapshot(@, text)]
    PROVE  SameTabs(T, U) /\ DOMAIN U = DOMAIN T
<1>1. T \in Seq(Tab) /\ DOMAIN T = 1 .. Len(T) /\ Len(T) \in Nat
    BY StripParts
<1>2. T[i] \in Tab
    BY StripParts
<1> DEFINE t == Snapshot(T[i], text)
<1>3. t \in Tab /\ t.col = T[i].col /\ t.id = T[i].id
    <2>1. T[i] = [col |-> T[i].col, id |-> T[i].id, snap |-> T[i].snap]
        BY <1>2, TabKinds
    <2>2. t = T[i] \/ t = [col |-> T[i].col, id |-> T[i].id, snap |-> text]
        BY <2>1 DEF Snapshot
    <2>3. QED
        BY <1>2, <2>2 DEF Tab, Clean
<1> HIDE DEF t
<1>4. U = [k \in 1 .. Len(T) |-> IF k = i THEN t ELSE T[k]]
    BY <1>1 DEF t
<1>5. U \in [1 .. Len(T) -> Tab]
    BY <1>3, <1>4, <1>1, StripParts
<1>6. U \in Seq(Tab) /\ Len(U) = Len(T)
    BY <1>1, <1>5, FunctionIsSeq
<1>7. QED
    BY <1>1, <1>3, <1>4, <1>6 DEF SameTabs

(* After activateTab, the editor is on the active tab.                      *)
LEMMA ShowProperties ==
    ASSUME NEW M, Held(M), NEW D \in Desk, NEW T, Strip(T), NEW i \in DOMAIN T, Show(T, i, M, D)
    PROVE  Window' /\ Held(mem') /\ Like(M, mem')
<1>1. PICK s : s = Settled(T, M, i)
    OBVIOUS
<1>2. /\ Strip(s.tabs)
      /\ s.at # 0 => s.at \in DOMAIN s.tabs /\ Located(M, s.tabs[s.at])
    BY <1>1, SettledProperties
<1>3. CASE s.at = 0
    <2>1. NoTabs(M, D) /\ Persist(<<>>, 0)
        BY <1>1, <1>3 DEF Show
    <2>2. Strip(<<>>)
        BY WorkbenchAssumption DEF Strip, NoneTwice
    <2>3. Remembered(persisted'.tabs)
        BY <2>1, <2>2, PersistProperties
    <2>4. QED
        BY <2>1, <2>3, EmptyWindow
<1>4. CASE s.at # 0
    <2> DEFINE t == s.tabs[s.at]
    <2>1. t \in Tab /\ Located(M, t) /\ s.at \in DOMAIN s.tabs
        BY <1>2, <1>4, StripParts
    <2>2. /\ active' = s.at /\ drafts' = D /\ adrift' = FALSE /\ typed' = FALSE
          /\ Persist(tabs', active')
        BY <1>1, <1>4 DEF Show
    <2>3. ASSUME Strip(tabs'), DOMAIN tabs' = DOMAIN s.tabs, Held(mem'), shown' \in Text,
                 Follows(mem', D, tabs'[s.at], bound', boundId', shown', FALSE)
          PROVE  Window'
        <3>1. active' \in DOMAIN tabs' /\ tabs' # <<>>
            BY <2>1, <2>2, <2>3
        <3>2. Remembered(persisted'.tabs) /\ Finds(persisted', tabs', active')
            BY <2>2, <2>3, <3>1, PersistProperties
        <3>3. QED
            BY <2>2, <2>3, <3>1, <3>2 DEF Window
    <2>4. CASE IsDraft(t)
        <3>1. /\ bound' = OfDraft(t.id) /\ boundId' = NoNode /\ shown' = D[t.id]
              /\ tabs' = s.tabs /\ mem' = M
            BY <1>1, <1>4, <2>4 DEF Show
        <3>2. Follows(M, D, t, bound', boundId', shown', FALSE)
            BY <2>1, <2>4, <3>1 DEF Follows, Live
        <3>3. shown' \in Text
            BY <2>1, <2>4, <3>1, TabKinds DEF Desk
        <3> HIDE DEF t
        <3>4. tabs'[s.at] = t
            BY <3>1 DEF t
        <3>5. QED
            BY <1>2, <2>3, <3>1, <3>2, <3>3, <3>4, LikeItself
    <2>5. CASE ~IsDraft(t)
        <3> DEFINE c == t.col
                   id == t.id
                   U == [s.tabs EXCEPT ![s.at] = Snapshot(@, shown')]
        <3>1. /\ mem' = Put(M, c, id, Fold[M[c].text[id]])
              /\ bound' = PlaceOf(M, c, id) /\ boundId' = NodeAt(M, c, id)
              /\ shown' = mem'[c].text[id] /\ tabs' = U
            BY <1>1, <1>4, <2>5 DEF Show
        <3>2. c \in DOMAIN M /\ Has(M[c], id)
            BY <2>1, <2>5 DEF Located
        <3>3. Fold[M[c].text[id]] \in Text
            BY <3>2, TextProperties
        <3>4. Held(mem') /\ Like(M, mem')
            BY <3>1, <3>3, PutTree
        <3>5. /\ PlaceOf(mem', c, id) = bound' /\ NodeAt(mem', c, id) = boundId'
              /\ c \in DOMAIN mem' /\ Has(mem'[c], id)
            <4> HIDE DEF c, id
            <4>1. Like(M, mem') /\ c \in DOMAIN M
                BY <3>2, <3>4
            <4>2. Has(mem'[c], id) <=> Has(M[c], id)
                BY <4>1, LikePlaces
            <4>3. NodeAt(mem', c, id) = NodeAt(M, c, id) /\ PlaceOf(mem', c, id) = PlaceOf(M, c, id)
                BY <4>1, LikePlaces
            <4>4. c \in DOMAIN mem'
                BY <4>1 DEF Like
            <4>5. QED
                BY <4>2, <4>3, <4>4, <3>1, <3>2
        <3>6. shown' \in Text
            BY <3>1, <3>4, <3>5, TextProperties
        <3>7. SameTabs(s.tabs, tabs') /\ DOMAIN tabs' = DOMAIN s.tabs
            BY <1>2, <2>1, <3>1, <3>6, SnapshotStrip
        <3> HIDE DEF U
        <3>8. tabs'[s.at].col = c /\ tabs'[s.at].id = id
            BY <1>2, <2>1, <3>7, StripParts DEF SameTabs
        <3>9. Follows(mem', D, tabs'[s.at], bound', boundId', shown', FALSE)
            BY <2>5, <3>1, <3>5, <3>8 DEF Follows, Located, IsDraft, Live
        <3>10. Strip(tabs')
            BY <1>2, <3>7, SameStrip
        <3>11. QED
            BY <2>3, <3>4, <3>6, <3>7, <3>9, <3>10
    <2>6. QED
        BY <2>4, <2>5
<1>5. QED
    BY <1>3, <1>4

(* openOrActivate ends with the request's tab shown.                        *)
LEMMA OpenTabProperties ==
    ASSUME NEW M, Held(M), NEW D \in Desk, NEW T, Strip(T), NEW c \in Colls, NEW id \in Ids,
           OpenTab(T, M, D, c, id)
    PROVE  Window' /\ Held(mem') /\ Like(M, mem')
<1> DEFINE i == IndexOf(T, c, id)
<1>1. /\ T \in Seq(Tab) /\ DOMAIN T = 1 .. Len(T) /\ Len(T) \in Nat
      /\ i \in 0 .. Len(T) /\ (i = 0 => \A k \in DOMAIN T : ~(T[k].col = c /\ T[k].id = id))
    <2>1. T \in Seq(Tab) /\ DOMAIN T = 1 .. Len(T) /\ Len(T) \in Nat
        BY StripParts
    <2>2. QED
        BY <2>1, IndexProperties
<1>2. CASE i > 0
    <2>1. Show(T, i, M, D)
        BY <1>2 DEF OpenTab
    <2>2. i \in DOMAIN T
        BY <1>1, <1>2
    <2> HIDE DEF i
    <2>3. QED
        BY <2>1, <2>2, ShowProperties
<1>3. CASE ~(i > 0)
    <2> DEFINE t == TreeTab(c, id)
    <2>1. Len(T) < MaxTabs /\ Show(Append(T, t), Len(T) + 1, M, D)
        BY <1>3 DEF OpenTab
    <2>2. t \in Tab /\ t.col = c /\ t.id = id
        BY DEF TreeTab, Tab, Clean
    <2>3. i = 0
        BY <1>1, <1>3
    <2> HIDE DEF t, i
    <2>4. Strip(Append(T, t)) /\ Len(T) + 1 \in DOMAIN Append(T, t)
        BY <1>1, <2>1, <2>2, <2>3, AppendStrip
    <2>5. QED
        BY <2>1, <2>4, ShowProperties
<1>4. QED
    BY <1>2, <1>3

(* The tabs that reconcileTabs keeps.                                       *)
LEMMA KeptProperties ==
    ASSUME Strip(tabs), NEW M
    PROVE  /\ Strip(Kept(M))
           /\ \A k \in DOMAIN tabs : Located(M, tabs[k]) =>
                \E l \in DOMAIN Kept(M) : Kept(M)[l] = tabs[k]
<1> DEFINE at == {k \in DOMAIN tabs : Located(M, tabs[k])}
<1>1. at \in SUBSET DOMAIN tabs /\ \A k \in DOMAIN tabs : Located(M, tabs[k]) => k \in at
    OBVIOUS
<1>2. Kept(M) = Pick(tabs, at)
    BY DEF Kept
<1> HIDE DEF at
<1>3. QED
    BY <1>1, <1>2, PickStrip

(* The strip is drawn again, with the same active tab.                      *)
LEMMA RedrawProperties ==
    ASSUME Window, Held(mem), tabs # <<>>, NEW D \in Desk,
           IsDraft(tabs[active]) => D[tabs[active].id] = drafts[tabs[active].id],
           Strip(tabs'), active' \in DOMAIN tabs', tabs'[active'] = tabs[active],
           Redraw(D), Persist(tabs', active')
    PROVE  Window' /\ Held(mem') /\ Like(mem, mem')
<1> DEFINE t == tabs[active]
<1>1. PICK w \in SyncedTo(mem, D, bound, shown, typed) :
            mem' = w.m /\ drafts' = w.d /\ bound' = w.b
    BY DEF Redraw
<1>2. typed' = FALSE /\ boundId' = boundId /\ shown' = shown /\ adrift' = adrift
    BY DEF Redraw
<1>3. /\ shown \in Text /\ typed \in BOOLEAN /\ adrift \in BOOLEAN /\ t \in Tab
      /\ ~adrift => Follows(mem, drafts, t, bound, boundId, shown, typed)
    BY StripParts DEF Window
<1>4. Held(mem') /\ Like(mem, mem') /\ drafts' \in Desk
    BY <1>1, <1>3, SyncedProperties DEF Wrote
<1>5. ~adrift => Follows(mem, D, t, bound, boundId, shown, typed)
    BY <1>3 DEF Follows, Live
<1>6. ~adrift => Follows(mem', drafts', t, bound', boundId, shown, FALSE)
    BY <1>1, <1>3, <1>5, SyncFollows
<1>7. Remembered(persisted'.tabs) /\ Finds(persisted', tabs', active')
    BY PersistProperties
<1>8. tabs' # <<>>
    OBVIOUS
<1> HIDE DEF t
<1>9. Window'
    BY <1>2, <1>3, <1>4, <1>6, <1>7, <1>8 DEF Window, t
<1>10. QED
    BY <1>4, <1>9

(* Collections have the same texts, where both have the request. *)
Agrees(M, N) ==
    \A c \in DOMAIN M \cap DOMAIN N : \A id \in DOMAIN M[c].text \cap DOMAIN N[c].text :
        M[c].text[id] = N[c].text[id]

(* What the editor is on stays there when the tree changes around it.       *)
LEMMA StillFollows ==
    ASSUME NEW M, NEW N, Agrees(M, N), NEW D, NEW t, NEW b, NEW bid, NEW sh, NEW ty,
           Follows(N, D, t, b, bid, sh, ty), Located(M, t), ~IsDraft(t)
    PROVE  Follows(M, D, t, PlaceOf(M, t.col, t.id), NodeAt(M, t.col, t.id), sh, ty)
<1>1. /\ t.col \in DOMAIN M \cap DOMAIN N
      /\ t.id \in DOMAIN M[t.col].text \cap DOMAIN N[t.col].text
    BY DEF Follows, Located, Has
<1>2. M[t.col].text[t.id] = N[t.col].text[t.id]
    BY <1>1 DEF Agrees
<1>3. QED
    BY <1>2 DEF Follows, Live

(* After reconcileTabs, the editor is on the active tab.                    *)
LEMMA ReconcileProperties ==
    ASSUME Window, NEW M, Held(M), Agrees(M, mem), NEW cleared \in BOOLEAN, Reconcile(M, cleared),
           cleared /\ tabs # <<>> => adrift \/ ~Located(M, tabs[active])
    PROVE  Window' /\ Held(mem') /\ Like(M, mem')
<1> DEFINE t == tabs[active]
           kept == Kept(M)
           text == IF cleared THEN Blank ELSE shown
<1>1. /\ Strip(tabs) /\ drafts \in Desk /\ shown \in Text /\ typed \in BOOLEAN
      /\ adrift \in BOOLEAN /\ text \in Text
    BY DEF Window, Text
<1>2. CASE tabs = <<>>
    <2>1. /\ mem' = M
          /\ UNCHANGED <<tabs, active, drafts, bound, boundId, shown, typed, persisted, adrift>>
        BY <1>2 DEF Reconcile, Same, strip, editor
    <2>2. Window'
        BY <1>2, <2>1 DEF Window
    <2>3. QED
        BY <2>1, <2>2, LikeItself
<1>3. CASE tabs # <<>> /\ Located(M, t)
    <2>1. t \in Tab /\ active \in DOMAIN tabs
        BY <1>3, StripParts DEF Window
    <2>2. Strip(kept) /\ IndexOf(kept, t.col, t.id) \in DOMAIN kept
          /\ kept[IndexOf(kept, t.col, t.id)] = t
        BY <1>1, <1>3, <2>1, KeptProperties, IndexInStrip
    <2>3. /\ tabs' = kept /\ active' = IndexOf(kept, t.col, t.id)
          /\ boundId' = (IF IsDraft(t) THEN boundId ELSE NodeAt(M, t.col, t.id))
          /\ shown' = text /\ typed' = FALSE /\ adrift' = adrift /\ Persist(tabs', active')
        BY <1>3 DEF Reconcile
    <2>4. PICK w \in SyncedTo(M, drafts, BoundTo(M, t), text, typed /\ ~cleared) :
                mem' = w.m /\ drafts' = w.d /\ bound' = w.b
        BY <1>3 DEF Reconcile, Reconciled
    <2> HIDE DEF t, kept, text
    <2>5. Held(mem') /\ Like(M, mem') /\ drafts' \in Desk
        BY <1>1, <2>4, SyncedProperties DEF Wrote
    <2>6. ASSUME ~adrift
          PROVE  Follows(M, drafts, t, BoundTo(M, t), boundId', text, typed /\ ~cleared)
        <3>1. ~cleared /\ text = shown
            BY <1>3, <2>6 DEF t, text
        <3>2. Follows(mem, drafts, t, bound, boundId, shown, typed)
            BY <1>3, <2>6 DEF Window, t
        <3>3. CASE IsDraft(t)
            <4>1. BoundTo(M, t) = bound /\ boundId' = boundId
                BY <2>3, <3>3 DEF BoundTo
            <4>2. typed \/ shown = Live(M, drafts, t)
                BY <3>2, <3>3 DEF Follows, Live
            <4>3. (typed /\ ~cleared) \/ text = Live(M, drafts, t)
                BY <3>1, <4>2
            <4>4. QED
                BY <1>3, <3>2, <3>3, <4>1, <4>3 DEF Follows
        <3>4. CASE ~IsDraft(t)
            <4>1. BoundTo(M, t) = PlaceOf(M, t.col, t.id) /\ boundId' = NodeAt(M, t.col, t.id)
                BY <2>3, <3>4 DEF BoundTo
            <4>2. Follows(M, drafts, t, BoundTo(M, t), boundId', shown, typed)
                BY <1>3, <3>2, <3>4, <4>1, StillFollows
            <4>3. (typed /\ ~cleared) <=> typed
                BY <3>1
            <4>4. QED
                BY <3>1, <4>2, <4>3 DEF Follows
        <3>5. QED
            BY <3>3, <3>4
    <2>7. ~adrift => Follows(mem', drafts', t, bound', boundId', text, FALSE)
        BY <1>1, <2>1, <2>4, <2>6, SyncFollows
    <2>8. Remembered(persisted'.tabs) /\ Finds(persisted', tabs', active')
        BY <2>2, <2>3, PersistProperties
    <2>9. tabs' # <<>> /\ active' \in DOMAIN tabs' /\ tabs'[active'] = t
        BY <2>2, <2>3
    <2>10. Window'
        BY <1>1, <2>2, <2>3, <2>5, <2>7, <2>8, <2>9 DEF Window
    <2>11. QED
        BY <2>5, <2>10
<1>4. CASE tabs # <<>> /\ ~Located(M, t)
    <2>1. Strip(kept)
        BY <1>1, KeptProperties
    <2>2. CASE kept # <<>>
        <3>1. Show(kept, 1, M, drafts)
            BY <1>4, <2>2 DEF Reconcile
        <3>2. 1 \in DOMAIN kept
            BY <2>1, <2>2, StripParts
        <3>3. QED
            BY <1>1, <2>1, <3>1, <3>2, ShowProperties
    <2>3. CASE kept = <<>>
        <3>1. NoTabs(M, drafts) /\ Persist(<<>>, 0)
            BY <1>4, <2>3 DEF Reconcile
        <3>2. Remembered(persisted'.tabs)
            BY <2>1, <2>3, <3>1, PersistProperties
        <3>3. QED
            BY <1>1, <3>1, <3>2, EmptyWindow
    <2>4. QED
        BY <2>2, <2>3
<1>5. QED
    BY <1>2, <1>3, <1>4

(* After a reload, the editor is on the active tab no more.                 *)
LEMMA LoadAgainProperties ==
    ASSUME Window, Held(disk), DOMAIN mem \subseteq DOMAIN disk,
           NEW w, w.d \in Desk, tabs = <<>> => w.b = Nowhere, typed' \in BOOLEAN, LoadAgain(w)
    PROVE  /\ Window' /\ Held(mem') /\ DOMAIN mem' = DOMAIN mem
           /\ \A c \in DOMAIN mem : mem'[c] = disk[c]
<1>1. /\ mem' = [c \in DOMAIN mem |-> disk[c]] /\ drafts' = w.d /\ bound' = Detached(w)
      /\ adrift' = (tabs # <<>>)
      /\ tabs' = tabs /\ active' = active /\ boundId' = boundId /\ shown' = shown
      /\ persisted' = persisted
    BY DEF LoadAgain, Loaded
<1>2. Held(mem') /\ DOMAIN mem' = DOMAIN mem /\ \A c \in DOMAIN mem : mem'[c] = disk[c]
    <2>1. DOMAIN mem \in SUBSET Colls
        BY DEF Held
    <2>2. mem' = [c \in DOMAIN mem |-> mem'[c]] /\ \A c \in DOMAIN mem : mem'[c] = disk[c]
        BY <1>1
    <2>3. \A c \in DOMAIN mem : GoodColl(mem'[c])
        BY <2>2 DEF Held
    <2>4. QED
        BY <2>1, <2>2, <2>3, MakeTree
<1>3. tabs = <<>> => bound' = Nowhere
    BY <1>1 DEF Detached, Nowhere
<1>4. Window'
    BY <1>1, <1>3 DEF Window
<1>5. QED
    BY <1>2, <1>4

(* The names of the tabs are what is remembered of them.                    *)
LEMMA FindsSame ==
    ASSUME NEW T, Strip(T), NEW U, SameTabs(T, U), NEW i \in DOMAIN T, NEW P, Finds(P, T, i)
    PROVE  Finds(P, U, i)
<1> DEFINE at == InTree(T)
           p == TheWay(at)
<1>1. DOMAIN T = 1 .. Len(T) /\ Strip(U) /\ DOMAIN U = DOMAIN T
    <2>1. Strip(U) /\ Len(U) = Len(T)
        BY SameStrip DEF SameTabs
    <2>2. QED
        BY <2>1, StripParts
<1>2. \A k \in DOMAIN T :
        U[k].col = T[k].col /\ U[k].id = T[k].id /\ (IsDraft(U[k]) <=> IsDraft(T[k]))
    BY <1>1 DEF SameTabs, IsDraft
<1>3. InTree(U) = at
    BY <1>1, <1>2 DEF InTree
<1>4. PICK m \in Nat : m = Cardinality(at)
    <2>1. at \in SUBSET (1 .. Len(T)) /\ Len(T) \in Nat
        BY <1>1, StripParts DEF InTree
    <2>2. QED
        BY <2>1, TheWayIs
<1>5. \A k \in 1 .. m : p[k] \in DOMAIN T
    <2>1. at \in SUBSET (1 .. Len(T)) /\ Len(T) \in Nat
        BY <1>1, StripParts DEF InTree
    <2>2. Way(m, p, at)
        BY <1>4, <2>1, TheWayIs
    <2>3. QED
        BY <1>1, <2>1, <2>2 DEF Way
<1>6. /\ Pick(T, at) = [k \in 1 .. m |-> T[p[k]]]
      /\ Pick(U, at) = [k \in 1 .. m |-> U[p[k]]]
    BY <1>4 DEF Pick, TheWay
<1>7. /\ Len(P.tabs) = Len(Pick(T, at))
      /\ \A k \in DOMAIN Pick(T, at) : Names(P.tabs[k], Pick(T, at)[k])
    BY DEF Finds
<1>8. IsDraft(T[i]) \/ Names(P.tabs[P.active], T[i])
    BY DEF Finds
<1> HIDE DEF at, p
<1>9. Len(Pick(T, at)) = m /\ Len(Pick(U, at)) = m /\ DOMAIN Pick(T, at) = 1 .. m
      /\ DOMAIN Pick(U, at) = 1 .. m
    BY <1>6
<1>10. \A k \in 1 .. m : Names(P.tabs[k], Pick(U, at)[k])
    BY <1>2, <1>5, <1>6, <1>7, <1>9 DEF Names
<1>11. IsDraft(U[i]) \/ Names(P.tabs[P.active], U[i])
    BY <1>2, <1>8 DEF Names
<1>12. QED
    BY <1>3, <1>7, <1>9, <1>10, <1>11 DEF Finds

(* Being on a tab has nothing to do with its snapshot.                      *)
LEMMA FollowsSame ==
    ASSUME NEW M, NEW D, NEW t, NEW u, u.col = t.col, u.id = t.id, NEW b, NEW bid, NEW sh, NEW ty,
           Follows(M, D, t, b, bid, sh, ty)
    PROVE  Follows(M, D, u, b, bid, sh, ty)
BY DEF Follows, Located, IsDraft, Live

(* refreshCleanSnapshots leaves the tabs where they are.                    *)
LEMMA RefreshStrip ==
    ASSUME NEW T, Strip(T), NEW M, Held(M), NEW c, c # NoColl
    PROVE  SameTabs(T, Refresh(T, c, M)) /\ DOMAIN Refresh(T, c, M) = DOMAIN T
<1> DEFINE U == Refresh(T, c, M)
           touched(k) == T[k].col = c /\ T[k].snap # NoText /\ Located(M, T[k])
<1>1. T \in Seq(Tab) /\ DOMAIN T = 1 .. Len(T) /\ Len(T) \in Nat
    BY StripParts
<1>2. ASSUME NEW k \in DOMAIN T
      PROVE  U[k] \in Tab /\ U[k].col = T[k].col /\ U[k].id = T[k].id
    <2>1. T[k] \in Tab /\ T[k] = [col |-> T[k].col, id |-> T[k].id, snap |-> T[k].snap]
        BY StripParts, TabKinds
    <2>2. CASE ~touched(k)
        <3>1. U[k] = T[k]
            BY <2>2 DEF Refresh
        <3>2. QED
            BY <2>1, <3>1
    <2>3. CASE touched(k)
        <3>0. ~IsDraft(T[k])
            BY <2>3 DEF IsDraft
        <3>1. U[k] = [T[k] EXCEPT !.snap = M[c].text[T[k].id]]
            BY <2>3 DEF Refresh
        <3>2. c \in DOMAIN M /\ Has(M[c], T[k].id)
            BY <2>3, <3>0 DEF Located
        <3>3. M[c].text[T[k].id] \in Clean /\ T[k].col \in Colls /\ T[k].id \in Ids
            BY <2>1, <3>0, <3>2, TextProperties, TabKinds DEF Clean
        <3>4. U[k] = [col |-> T[k].col, id |-> T[k].id, snap |-> M[c].text[T[k].id]]
            BY <2>1, <3>1
        <3>5. QED
            BY <3>3, <3>4 DEF Tab
    <2>4. QED
        BY <2>2, <2>3
<1>3. U \in [1 .. Len(T) -> Tab]
    <2>1. DOMAIN U = 1 .. Len(T) /\ U = [k \in DOMAIN U |-> U[k]]
        BY <1>1 DEF Refresh
    <2> HIDE DEF U
    <2>2. QED
        BY <1>1, <1>2, <2>1
<1> HIDE DEF U
<1>4. U \in Seq(Tab) /\ Len(U) = Len(T) /\ DOMAIN U = 1 .. Len(T)
    BY <1>1, <1>3, FunctionIsSeq
<1>5. QED
    BY <1>1, <1>2, <1>4 DEF SameTabs, U

-----------------------------------------------------------------------------
(* Trees that lose, get or move a request.                                  *)

(* A request is inserted: the others stay as they are.                      *)
LEMMA AddTree ==
    ASSUME NEW M, Held(M), NEW c \in DOMAIN M, NEW kind \in Kinds,
           NEW k \in 1 .. Len(M[c][kind]) + 1, NEW id \in Ids, ~Has(M[c], id), NEW t \in Text,
           NEW N, N = [M EXCEPT ![c] = Insert(M[c], kind, k, id, t)]
    PROVE  /\ Held(N) /\ DOMAIN N = DOMAIN M /\ Agrees(N, M) /\ Has(N[c], id)
           /\ DOMAIN N[c].text = DOMAIN M[c].text \cup {id}
           /\ \A x \in DOMAIN M : x # c => N[x] = M[x]
<1> DEFINE e == Insert(M[c], kind, k, id, t)
<1>1. GoodColl(M[c])
    BY DEF Held
<1>2. GoodColl(e) /\ Inserted(M[c], e, id, t)
    BY <1>1, InsertColl
<1> HIDE DEF e
<1>3. Held(N) /\ Replaced(M, N, c, e)
    BY <1>2, ReplaceTree DEF e
<1>4. N[c] = e /\ DOMAIN N = DOMAIN M /\ \A x \in DOMAIN M : x # c => N[x] = M[x]
    BY <1>3 DEF Replaced
<1>5. Agrees(N, M)
    BY <1>2, <1>4 DEF Agrees, Inserted
<1>6. QED
    BY <1>2, <1>3, <1>4, <1>5 DEF Inserted, Has

(* A request is taken out.                                                  *)
LEMMA TakeTree ==
    ASSUME NEW M, Held(M), NEW c \in DOMAIN M, NEW kind \in Kinds, NEW k \in DOMAIN M[c][kind],
           NEW N, N = [M EXCEPT ![c] = Taken(M[c], kind, k)]
    PROVE  /\ Held(N) /\ DOMAIN N = DOMAIN M /\ Agrees(N, M) /\ ~Has(N[c], M[c][kind][k])
           /\ \A x \in DOMAIN M : x # c => N[x] = M[x]
<1> DEFINE e == Taken(M[c], kind, k)
           id == M[c][kind][k]
<1>1. GoodColl(M[c])
    BY DEF Held
<1>2. GoodColl(e) /\ TakenOut(M[c], e, id)
    BY <1>1, TakeColl
<1> HIDE DEF e, id
<1>3. Held(N) /\ Replaced(M, N, c, e)
    BY <1>2, ReplaceTree DEF e
<1>4. N[c] = e /\ DOMAIN N = DOMAIN M /\ \A x \in DOMAIN M : x # c => N[x] = M[x]
    BY <1>3 DEF Replaced
<1>5. Agrees(N, M)
    BY <1>2, <1>4 DEF Agrees, TakenOut
<1>6. ~Has(N[c], id)
    BY <1>2, <1>4 DEF TakenOut, Has
<1>7. QED
    BY <1>3, <1>4, <1>5, <1>6 DEF id

(* A request is moved.                                                      *)
LEMMA ShiftTree ==
    ASSUME NEW M, Held(M), NEW c \in DOMAIN M, NEW kind \in Kinds,
           NEW from \in DOMAIN M[c][kind], NEW to \in DOMAIN M[c][kind],
           NEW N, N = [M EXCEPT ![c] = Shift(M[c], kind, from, to)]
    PROVE  /\ Held(N) /\ DOMAIN N = DOMAIN M /\ Agrees(N, M)
           /\ \A x \in DOMAIN M : N[x].text = M[x].text
<1> DEFINE e == Shift(M[c], kind, from, to)
<1>1. GoodColl(M[c])
    BY DEF Held
<1>2. GoodColl(e) /\ e.text = M[c].text
    BY <1>1, ShiftColl
<1> HIDE DEF e
<1>3. Held(N) /\ Replaced(M, N, c, e)
    BY <1>2, ReplaceTree DEF e
<1>4. DOMAIN N = DOMAIN M /\ \A x \in DOMAIN M : N[x].text = M[x].text
    BY <1>2, <1>3 DEF Replaced
<1>5. QED
    BY <1>3, <1>4 DEF Agrees

(* A tab becomes that of another request, which has none.                   *)
LEMMA RetabStrip ==
    ASSUME NEW T, Strip(T), NEW i \in DOMAIN T, NEW t \in Tab,
           \A k \in DOMAIN T : ~(T[k].col = t.col /\ T[k].id = t.id),
           NEW U, U = [T EXCEPT ![i] = t]
    PROVE  Strip(U) /\ DOMAIN U = DOMAIN T
<1>1. T \in Seq(Tab) /\ DOMAIN T = 1 .. Len(T) /\ Len(T) \in Nat
    BY StripParts
<1>2. U = [k \in 1 .. Len(T) |-> IF k = i THEN t ELSE T[k]]
    BY <1>1
<1>3. U \in [1 .. Len(T) -> Tab]
    BY <1>1, <1>2, StripParts
<1>4. U \in Seq(Tab) /\ Len(U) = Len(T) /\ DOMAIN U = DOMAIN T
    BY <1>1, <1>3, FunctionIsSeq
<1>5. \A k \in DOMAIN T : U[k] = IF k = i THEN t ELSE T[k]
    BY <1>1, <1>2
<1>6. NoneTwice(U)
    BY <1>4, <1>5, StripParts DEF NoneTwice
<1>7. QED
    BY <1>4, <1>6 DEF Strip

-----------------------------------------------------------------------------
(* What an edit that is not on disk is told by: the active tab has its      *)
(* clean snapshot, and the editor writes to its collection.                 *)

(* Scratch requests that say what loading would make of them.               *)
Neat(D) == D \in Desk /\ \A d \in Drafts : Fold[D[d]] = D[d]

(* The editor, with its pointer b and its node id bid, is on t's side: a    *)
(* scratch tab has no pointer into a tree, a request's tab was loaded and   *)
(* the node id names its collection.                                        *)
Anchored(t, b, bid) ==
    IF IsDraft(t) THEN b.at \notin {"slot", "folder"}
    ELSE t.snap # NoText /\ (b # Nowhere => bid # NoNode /\ bid.col = t.col)

Tied ==
    /\ typed => tabs # <<>>
    /\ tabs # <<>> => Anchored(tabs[active], bound, boundId)
    /\ Fold[shown] = shown /\ Neat(drafts)

(* u is the tab t, which may have got its snapshot from the trees M.        *)
Turns(t, u, M) ==
    \/ u = t
    \/ /\ u.col = t.col /\ u.id = t.id /\ t.snap = NoText
       /\ ~IsDraft(t) /\ Located(M, t) /\ u.snap = Fold[M[t.col].text[t.id]]
Snapped(T, U, M) == \A k \in DOMAIN U : \E j \in DOMAIN T : Turns(T[j], U[k], M)

(* What loading makes of a text is a text, and loading it again leaves it.  *)
LEMMA FoldText ==
    ASSUME NEW t \in Text
    PROVE  Fold[t] \in Text /\ Fold[Fold[t]] = Fold[t]
<1>1. Fold \in [Text -> Text] /\ \A x \in Text : Fold[Fold[x]] = Fold[x]
    BY WorkbenchAssumption DEF Text
<1>2. QED
    BY <1>1

(* A window without tabs is tied.                                           *)
LEMMA EmptyTies ==
    ASSUME NEW M, NEW D, Neat(D), NoTabs(M, D)
    PROVE  Tied' /\ tabs' = <<>>
<1>1. /\ tabs' = <<>> /\ drafts' = D /\ shown' = Blank /\ typed' = FALSE
    BY DEF NoTabs, ClearEditor
<1>2. Fold[Blank] = Blank
    BY WorkbenchAssumption
<1>3. Neat(drafts')
    BY <1>1
<1>4. QED
    BY <1>1, <1>2, <1>3 DEF Tied, Neat

(* activateTab ties the editor to the tab it shows, and no tab gets a       *)
(* snapshot but from the tree, when it had none.                            *)
LEMMA ShowTies ==
    ASSUME NEW M, Held(M), NEW D, Neat(D), NEW T, Strip(T), NEW i \in DOMAIN T, Show(T, i, M, D)
    PROVE  Tied' /\ Snapped(T, tabs', M)
<1>1. PICK s : s = Settled(T, M, i)
    OBVIOUS
<1>2. /\ Strip(s.tabs) /\ \A k \in DOMAIN s.tabs : \E j \in DOMAIN T : s.tabs[k] = T[j]
      /\ s.at # 0 => s.at \in DOMAIN s.tabs /\ Located(M, s.tabs[s.at])
    BY <1>1, SettledProperties DEF Remains
<1>3. CASE s.at = 0
    <2>1. NoTabs(M, D)
        BY <1>1, <1>3 DEF Show
    <2>2. QED
        BY <2>1, EmptyTies DEF Snapped
<1>4. CASE s.at # 0
    <2> DEFINE t == s.tabs[s.at]
    <2>1. t \in Tab /\ Located(M, t) /\ s.at \in DOMAIN s.tabs
        BY <1>2, <1>4, StripParts
    <2>2. active' = s.at /\ drafts' = D /\ typed' = FALSE
        BY <1>1, <1>4 DEF Show
    <2>3. ASSUME tabs' # <<>>, Anchored(tabs'[s.at], bound', boundId'), Fold[shown'] = shown'
          PROVE  Tied'
        BY <2>2, <2>3 DEF Tied, Neat
    <2>4. CASE IsDraft(t)
        <3>1. /\ bound' = OfDraft(t.id) /\ shown' = D[t.id] /\ tabs' = s.tabs
            BY <1>1, <1>4, <2>4 DEF Show
        <3>2. Fold[shown'] = shown'
            BY <2>1, <2>4, <3>1, TabKinds DEF Neat
        <3>3. bound'.at \notin {"slot", "folder"}
            BY <3>1 DEF OfDraft
        <3>4. tabs'[s.at] = t /\ tabs' # <<>>
            BY <2>1, <3>1
        <3> HIDE DEF t
        <3>5. Tied'
            BY <2>3, <2>4, <3>2, <3>3, <3>4 DEF Anchored
        <3>6. QED
            BY <1>2, <3>1, <3>5 DEF Snapped, Turns
    <2>5. CASE ~IsDraft(t)
        <3> DEFINE c == t.col
                   id == t.id
        <3>1. /\ mem' = Put(M, c, id, Fold[M[c].text[id]])
              /\ bound' = PlaceOf(M, c, id) /\ boundId' = NodeAt(M, c, id)
              /\ shown' = mem'[c].text[id]
              /\ tabs' = [s.tabs EXCEPT ![s.at] = Snapshot(t, shown')]
            BY <1>1, <1>4, <2>5 DEF Show
        <3>2. c \in DOMAIN M /\ Has(M[c], id)
            BY <2>1, <2>5 DEF Located
        <3>3. M[c].text[id] \in Text
            BY <3>2, TextProperties
        <3> DEFINE x == Fold[M[c].text[id]]
        <3>4. x \in Text /\ Fold[x] = x
            BY <3>3, FoldText
        <3> HIDE DEF x, t, c, id
        <3>5. Texted(M, mem', c, id, x)
            BY <3>1, <3>4, PutTree DEF x
        <3>6. shown' = x
            BY <3>1, <3>2, <3>5 DEF Texted, Has
        <3>7. boundId' # NoNode /\ boundId'.col = c
            BY <3>1, <3>2, NodeProperties, WorkbenchAssumption
        <3> DEFINE u == Snapshot(t, x)
        <3>8. u.col = c /\ u.id = id /\ u.snap # NoText
            <4>1. t = [col |-> c, id |-> id, snap |-> t.snap]
                BY <2>1, TabKinds DEF c, id
            <4>2. x # NoText
                BY <3>4, WorkbenchAssumption DEF Text
            <4>3. (u = t /\ t.snap # NoText) \/ u = [col |-> c, id |-> id, snap |-> x]
                BY <4>1 DEF Snapshot
            <4>4. QED
                BY <4>1, <4>2, <4>3
        <3>9. t.snap = NoText => u.snap = x
            <4>1. t = [col |-> c, id |-> id, snap |-> t.snap]
                BY <2>1, TabKinds DEF c, id
            <4>2. QED
                BY <4>1 DEF Snapshot
        <3>10. t.snap # NoText => u = t
            BY DEF Snapshot
        <3>11. Turns(t, u, M)
            BY <2>1, <2>5, <3>8, <3>9, <3>10 DEF Turns, x, c, id
        <3>12. /\ DOMAIN tabs' = DOMAIN s.tabs /\ tabs'[s.at] = u
               /\ \A k \in DOMAIN s.tabs : k # s.at => tabs'[k] = s.tabs[k]
            BY <1>2, <2>1, <3>1, <3>6, StripParts
        <3> HIDE DEF u
        <3>13. Snapped(T, tabs', M)
            <4>1. ASSUME NEW k \in DOMAIN tabs' PROVE \E j \in DOMAIN T : Turns(T[j], tabs'[k], M)
                <5>1. PICK j \in DOMAIN T : s.tabs[k] = T[j]
                    BY <1>2, <3>12, <4>1
                <5>2. CASE k = s.at
                    BY <3>11, <3>12, <5>1, <5>2 DEF t
                <5>3. CASE k # s.at
                    BY <3>12, <4>1, <5>1, <5>3 DEF Turns
                <5>4. QED
                    BY <5>2, <5>3
            <4>2. QED
                BY <4>1 DEF Snapped
        <3>14. ~IsDraft(u)
            BY <2>5, <3>8 DEF IsDraft, c
        <3>15. tabs' # <<>>
            BY <2>1, <3>12
        <3>16. Anchored(tabs'[s.at], bound', boundId')
            BY <3>7, <3>8, <3>12, <3>14 DEF Anchored
        <3>17. QED
            BY <2>3, <3>4, <3>6, <3>13, <3>15, <3>16
    <2>6. QED
        BY <2>4, <2>5
<1>5. QED
    BY <1>3, <1>4

(* The tab u was not loaded before, and has its snapshot from the trees N.  *)
Fresh(u, N) ==
    ~HasTab(Entry(u)) /\ Located(N, u) /\ u.snap = Fold[N[u.col].text[u.id]]
FreshSnaps(N) ==
    \A k \in DOMAIN tabs' : ~IsDraft(tabs'[k]) /\ tabs'[k].snap # NoText =>
        (\E j \in DOMAIN tabs : tabs[j] = tabs'[k]) \/ Fresh(tabs'[k], N)

(* The tabs T are open. *)
Open(T) == \A k \in DOMAIN T : \E j \in DOMAIN tabs : T[k] = tabs[j]

(* A tab that has its snapshot now was not loaded before.                   *)
LEMMA TurnsFresh ==
    ASSUME Strip(tabs), NEW l \in DOMAIN tabs, NEW u, NEW N, Turns(tabs[l], u, N)
    PROVE  (\E j \in DOMAIN tabs : tabs[j] = u) \/ Fresh(u, N)
<1>1. CASE u = tabs[l]
    BY <1>1
<1>2. CASE u # tabs[l]
    <2>1. /\ u.col = tabs[l].col /\ u.id = tabs[l].id /\ tabs[l].snap = NoText
          /\ Located(N, tabs[l]) /\ u.snap = Fold[N[u.col].text[u.id]]
        BY <1>2 DEF Turns
    <2>2. \A m \in DOMAIN tabs : tabs[m].col = u.col /\ tabs[m].id = u.id => m = l
        BY <2>1 DEF Strip, NoneTwice
    <2>3. ~HasTab(Entry(u))
        BY <2>1, <2>2 DEF HasTab, Entry
    <2>4. Located(N, u)
        BY <2>1 DEF Located, IsDraft
    <2>5. QED
        BY <2>1, <2>3, <2>4 DEF Fresh
<1>3. QED
    BY <1>1, <1>2

(* So it is for all tabs.                                                   *)
LEMMA SnappedFresh ==
    ASSUME Strip(tabs), NEW T, Open(T), NEW N, Snapped(T, tabs', N)
    PROVE  FreshSnaps(N)
<1>1. ASSUME NEW k \in DOMAIN tabs'
      PROVE  (\E j \in DOMAIN tabs : tabs[j] = tabs'[k]) \/ Fresh(tabs'[k], N)
    <2>1. PICK j \in DOMAIN T : Turns(T[j], tabs'[k], N)
        BY <1>1 DEF Snapped
    <2>2. PICK l \in DOMAIN tabs : T[j] = tabs[l]
        BY DEF Open
    <2>3. QED
        BY <2>1, <2>2, TurnsFresh
<1>2. QED
    BY <1>1 DEF FreshSnaps

(* So it is when a request is opened.                                       *)
LEMMA OpenTabTies ==
    ASSUME NEW M, Held(M), NEW D, Neat(D), Strip(tabs), NEW T, Strip(T), Open(T),
           NEW c \in Colls, NEW id \in Ids, OpenTab(T, M, D, c, id),
           \A k \in DOMAIN tabs : tabs[k].col = c /\ tabs[k].id = id =>
                \E j \in DOMAIN T : T[j] = tabs[k]
    PROVE  Tied' /\ FreshSnaps(M)
<1> DEFINE i == IndexOf(T, c, id)
<1>1. /\ T \in Seq(Tab) /\ DOMAIN T = 1 .. Len(T) /\ Len(T) \in Nat
      /\ i \in 0 .. Len(T) /\ (i = 0 => \A k \in DOMAIN T : ~(T[k].col = c /\ T[k].id = id))
    <2>1. T \in Seq(Tab) /\ DOMAIN T = 1 .. Len(T) /\ Len(T) \in Nat
        BY StripParts
    <2>2. QED
        BY <2>1, IndexProperties
<1>2. CASE i > 0
    <2>1. Show(T, i, M, D)
        BY <1>2 DEF OpenTab
    <2>2. i \in DOMAIN T
        BY <1>1, <1>2
    <2> HIDE DEF i
    <2>3. Tied' /\ Snapped(T, tabs', M)
        BY <2>1, <2>2, ShowTies
    <2>4. QED
        BY <2>3, SnappedFresh
<1>3. CASE ~(i > 0)
    <2> DEFINE t == TreeTab(c, id)
               U == Append(T, t)
    <2>1. Len(T) < MaxTabs /\ Show(U, Len(T) + 1, M, D)
        BY <1>3 DEF OpenTab
    <2>2. t \in Tab /\ t.col = c /\ t.id = id
        BY DEF TreeTab, Tab, Clean
    <2>3. \A k \in DOMAIN T : ~(T[k].col = c /\ T[k].id = id)
        BY <1>1, <1>3
    <2>4. ~HasTab([col |-> c, id |-> id])
        BY <2>3 DEF HasTab
    <2>5. t.snap = NoText
        BY DEF TreeTab
    <2>6. DOMAIN U = 1 .. Len(T) + 1 /\ U[Len(T) + 1] = t /\ \A j \in 1 .. Len(T) : U[j] = T[j]
        BY <1>1
    <2> HIDE DEF t, i
    <2>7. Strip(U) /\ Len(T) + 1 \in DOMAIN U
        BY <1>1, <2>1, <2>2, <2>3, AppendStrip
    <2> HIDE DEF U
    <2>8. Tied' /\ Snapped(U, tabs', M)
        BY <2>1, <2>7, ShowTies
    <2>9. ASSUME NEW k \in DOMAIN tabs', ~IsDraft(tabs'[k]), tabs'[k].snap # NoText
          PROVE  (\E j \in DOMAIN tabs : tabs[j] = tabs'[k]) \/ Fresh(tabs'[k], M)
        <3>1. PICK u : u = tabs'[k]
            OBVIOUS
        <3>2. PICK j \in DOMAIN U : Turns(U[j], u, M)
            BY <2>8, <2>9, <3>1 DEF Snapped
        <3>3. CASE j = Len(T) + 1
            <4>1. Turns(t, u, M)
                BY <2>6, <3>2, <3>3
            <4>2. /\ u.col = c /\ u.id = id /\ Located(M, t) /\ ~IsDraft(t)
                  /\ u.snap = Fold[M[c].text[id]]
                BY <4>1, <2>2, <2>5, <2>9, <3>1 DEF Turns
            <4>3. Located(M, u)
                BY <4>2, <2>2 DEF Located, IsDraft
            <4>4. Entry(u) = [col |-> c, id |-> id]
                BY <4>2 DEF Entry
            <4>5. QED
                BY <2>4, <3>1, <4>2, <4>3, <4>4 DEF Fresh
        <3>4. CASE j # Len(T) + 1
            <4>1. j \in DOMAIN T /\ Turns(T[j], u, M)
                BY <1>1, <2>6, <3>2, <3>4
            <4>2. PICK l \in DOMAIN tabs : T[j] = tabs[l]
                BY <4>1 DEF Open
            <4>3. QED
                BY <3>1, <4>1, <4>2, TurnsFresh
        <3>5. QED
            BY <3>3, <3>4
    <2>10. QED
        BY <2>8, <2>9 DEF FreshSnaps
<1>4. QED
    BY <1>2, <1>3

(* What a write leaves of the pointer: a request no tree holds stays one,   *)
(* and every other pointer stays as it is.                                  *)
LEMMA WrittenTies ==
    ASSUME NEW M, NEW D, Neat(D), NEW tb, NEW b, NEW bid, Anchored(tb, b, bid),
           NEW t \in Text, Fold[t] = t, NEW w, w = WrittenTo(M, D, b, t)
    PROVE  Anchored(tb, w.b, bid) /\ Neat(w.d)
<1>1. (b.at = "lost" /\ w.b = Lost(t)) \/ w.b = b
    BY DEF WrittenTo
<1>2. w.d = D \/ w.d = [D EXCEPT ![b.id] = t]
    BY DEF WrittenTo
<1>3. Neat(w.d)
    BY <1>2 DEF Neat, Desk
<1>4. CASE b.at = "lost" /\ w.b = Lost(t)
    <2>1. b # Nowhere
        BY <1>4 DEF Nowhere
    <2>2. w.b.at = "lost"
        BY <1>4 DEF Lost
    <2>3. QED
        BY <1>3, <2>1, <2>2 DEF Anchored
<1>5. CASE w.b = b
    BY <1>3, <1>5
<1>6. QED
    BY <1>1, <1>4, <1>5

(* So it is for what was typed, whether it is copied or not.                *)
LEMMA SyncedTies ==
    ASSUME NEW M, NEW D, Neat(D), NEW tb, NEW b, NEW bid, Anchored(tb, b, bid),
           NEW t \in Text, Fold[t] = t, NEW isBody, NEW w \in SyncedTo(M, D, b, t, isBody)
    PROVE  Anchored(tb, w.b, bid) /\ Neat(w.d)
<1>1. w = WrittenTo(M, D, b, t) \/ w = [m |-> M, d |-> D, b |-> b]
    BY DEF SyncedTo
<1>2. CASE w = WrittenTo(M, D, b, t)
    BY <1>2, WrittenTies
<1>3. CASE w = [m |-> M, d |-> D, b |-> b]
    BY <1>3
<1>4. QED
    BY <1>1, <1>2, <1>3

(* The strip is drawn again, and the active tab is the same.                *)
LEMMA RedrawTies ==
    ASSUME Window, Tied, tabs # <<>>, NEW D, Neat(D), tabs' # <<>>,
           tabs'[active'] = tabs[active], Redraw(D)
    PROVE  Tied'
<1>1. PICK w \in SyncedTo(mem, D, bound, shown, typed) : drafts' = w.d /\ bound' = w.b
    BY DEF Redraw
<1>2. typed' = FALSE /\ boundId' = boundId /\ shown' = shown
    BY DEF Redraw
<1>3. shown \in Text /\ Fold[shown] = shown /\ Anchored(tabs[active], bound, boundId)
    BY DEF Window, Tied
<1>4. Anchored(tabs[active], w.b, boundId) /\ Neat(w.d)
    BY <1>1, <1>3, SyncedTies
<1>5. Anchored(tabs'[active'], bound', boundId') /\ Neat(drafts')
    BY <1>1, <1>2, <1>4
<1>6. QED
    BY <1>2, <1>3, <1>5 DEF Tied, Neat

(* The tabs that reconcileTabs keeps are open ones.                         *)
LEMMA KeptOpen ==
    ASSUME Strip(tabs), NEW M
    PROVE  Open(Kept(M))
<1> DEFINE at == {k \in DOMAIN tabs : Located(M, tabs[k])}
           P == Pick(tabs, at)
<1>1. at \in SUBSET DOMAIN tabs /\ Kept(M) = P
    BY DEF Kept
<1> HIDE DEF at
<1>2. \A l \in DOMAIN P : \E k \in at : P[l] = tabs[k]
    BY <1>1, PickStrip
<1> HIDE DEF P
<1>3. QED
    BY <1>1, <1>2 DEF Open

(* After reconcileTabs.                                                     *)
LEMMA ReconcileTies ==
    ASSUME Window, Tied, NEW M, Held(M), NEW cleared \in BOOLEAN, Reconcile(M, cleared)
    PROVE  Tied' /\ FreshSnaps(M)
<1> DEFINE t == tabs[active]
           kept == Kept(M)
           text == IF cleared THEN Blank ELSE shown
<1>1. /\ Strip(tabs) /\ text \in Text /\ Fold[text] = text /\ Neat(drafts)
    BY WorkbenchAssumption DEF Window, Text, Tied
<1>2. Strip(kept) /\ Open(kept)
    BY <1>1, KeptProperties, KeptOpen
<1>3. CASE tabs = <<>>
    <2>1. UNCHANGED <<tabs, active, drafts, bound, boundId, shown, typed>>
        BY <1>3 DEF Reconcile, Same, strip, editor
    <2>2. QED
        BY <1>3, <2>1 DEF Tied, Neat, FreshSnaps
<1>4. CASE tabs # <<>> /\ Located(M, t)
    <2>1. t \in Tab /\ active \in DOMAIN tabs /\ Anchored(t, bound, boundId)
        BY <1>4, StripParts DEF Window, Tied
    <2>2. IndexOf(kept, t.col, t.id) \in DOMAIN kept /\ kept[IndexOf(kept, t.col, t.id)] = t
        BY <1>1, <1>4, <2>1, KeptProperties, IndexInStrip
    <2>3. /\ tabs' = kept /\ active' = IndexOf(kept, t.col, t.id)
          /\ boundId' = (IF IsDraft(t) THEN boundId ELSE NodeAt(M, t.col, t.id))
          /\ shown' = text /\ typed' = FALSE
        BY <1>4 DEF Reconcile
    <2>4. PICK w \in SyncedTo(M, drafts, BoundTo(M, t), text, typed /\ ~cleared) :
                drafts' = w.d /\ bound' = w.b
        BY <1>4 DEF Reconcile, Reconciled
    <2> HIDE DEF t, kept, text
    <2>5. Anchored(t, BoundTo(M, t), boundId')
        <3>1. CASE IsDraft(t)
            BY <2>1, <2>3, <3>1 DEF BoundTo
        <3>2. CASE ~IsDraft(t)
            <4>1. t.col \in DOMAIN M /\ Has(M[t.col], t.id) /\ boundId' = NodeAt(M, t.col, t.id)
                BY <1>4, <2>3, <3>2 DEF Located
            <4>2. boundId' # NoNode /\ boundId'.col = t.col
                BY <4>1, NodeProperties, WorkbenchAssumption
            <4>3. QED
                BY <2>1, <3>2, <4>2 DEF Anchored
        <3>3. QED
            BY <3>1, <3>2
    <2>6. Anchored(t, w.b, boundId') /\ Neat(w.d)
        BY <1>1, <2>4, <2>5, SyncedTies
    <2>7. tabs' # <<>> /\ tabs'[active'] = t
        BY <2>2, <2>3
    <2>8. Anchored(tabs'[active'], bound', boundId') /\ Neat(drafts')
        BY <2>4, <2>6, <2>7
    <2>9. Tied'
        BY <1>1, <2>3, <2>8 DEF Tied, Neat
    <2>10. FreshSnaps(M)
        BY <1>2, <2>3 DEF FreshSnaps, Open
    <2>11. QED
        BY <2>9, <2>10
<1>5. CASE tabs # <<>> /\ ~Located(M, t)
    <2>1. CASE kept # <<>>
        <3>1. Show(kept, 1, M, drafts)
            BY <1>5, <2>1 DEF Reconcile
        <3>2. 1 \in DOMAIN kept
            BY <1>2, <2>1, StripParts
        <3> HIDE DEF kept
        <3>3. Tied' /\ Snapped(kept, tabs', M)
            BY <1>1, <1>2, <3>1, <3>2, ShowTies
        <3>4. QED
            BY <1>1, <1>2, <3>3, SnappedFresh
    <2>2. CASE kept = <<>>
        <3>1. NoTabs(M, drafts)
            BY <1>5, <2>2 DEF Reconcile
        <3>2. QED
            BY <1>1, <3>1, EmptyTies DEF FreshSnaps
    <2>3. QED
        BY <2>1, <2>2
<1>6. QED
    BY <1>3, <1>4, <1>5

(* The loaded trees are dropped under the editor.                           *)
LEMMA LoadAgainTies ==
    ASSUME Tied, NEW w, tabs # <<>> => Anchored(tabs[active], w.b, boundId), Neat(w.d),
           typed' => tabs # <<>>, LoadAgain(w)
    PROVE  Tied'
<1>1. /\ drafts' = w.d /\ bound' = Detached(w)
      /\ tabs' = tabs /\ active' = active /\ boundId' = boundId /\ shown' = shown
    BY DEF LoadAgain
<1>2. ASSUME tabs # <<>> PROVE Anchored(tabs[active], bound', boundId)
    <2>1. CASE w.b.at \in {"slot", "folder"}
        <3>1. bound'.at = "lost"
            BY <1>1, <2>1 DEF Detached, Lost
        <3>2. w.b # Nowhere
            BY <2>1 DEF Nowhere
        <3>3. QED
            BY <1>2, <3>1, <3>2 DEF Anchored
    <2>2. CASE ~(w.b.at \in {"slot", "folder"})
        BY <1>1, <1>2, <2>2 DEF Detached
    <2>3. QED
        BY <2>1, <2>2
<1>3. tabs' # <<>> => Anchored(tabs'[active'], bound', boundId')
    BY <1>1, <1>2
<1>4. QED
    BY <1>1, <1>3 DEF Tied, Neat
=============================================================================
