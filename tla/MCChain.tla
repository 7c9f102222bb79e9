------------------------------- MODULE MCChain -------------------------------
(* Chains among three requests: A and C carry ids, B does not and has two  *)
(* paths; there is a path and an id that name nothing.                     *)
EXTENDS ChainReference

CONSTANTS A, B, C, idA, idC, idGone, pathA, pathB, pathSlashB, pathC, pathGone, x, y, bad

MCIDOf == A :> idA @@ B :> NoID @@ C :> idC
MCByID == idA :> A @@ idC :> C @@ idGone :> NoRequest
MCByPath ==
    pathA :> A @@ pathB :> B @@ pathSlashB :> B @@ pathC :> C @@ pathGone :> NoRequest

Ref(i, p) == [id |-> i, path |-> p]
ByAlias(a, ref) == [alias |-> a, id |-> ref.id, path |-> ref.path]

(* BOUND: at most two steps in a chain, one in C's; bad references and     *)
(* aliases only in A's.                                                    *)
Pairs(refs) ==
    {<<>>} \cup {<<ByAlias(x, r)>> : r \in refs}
           \cup {<<ByAlias(x, r), ByAlias(y, s)>> : r, s \in refs}
Live == {Ref(NoID, pathA), Ref(NoID, pathB), Ref(NoID, pathSlashB), Ref(idC, NoPath)}
Odd == {Ref(idGone, pathC), Ref(idGone, NoPath), Ref(NoID, pathGone), Ref(NoID, NoPath)}
ChainsOfA ==
    Pairs(Live \cup Odd)
    \cup {<<ByAlias(x, r), ByAlias(a, Ref(NoID, pathB))>> : r \in Live, a \in {x, bad}}
ChainsOfB == Pairs(Live)
ChainsOfC ==
    {<<>>} \cup {<<ByAlias(x, r)>> : r \in Live \cup {Ref(idA, pathGone)}}
           \cup {<<ByAlias(y, r), ByAlias(x, Ref(NoID, pathB))>> : r \in Live}

MCGraphs ==
    {A :> a @@ B :> b @@ C :> c : a \in ChainsOfA, b \in ChainsOfB, c \in ChainsOfC}
=============================================================================
