------------------------------- MODULE MCTree -------------------------------
(* Tree with two folders, side by side or nested, and requests that share   *)
(* names with them; the files of n1 and n2 have one slug, and a copy of n1  *)
(* is called n2.                                                            *)
EXTENDS Tree

CONSTANTS f1, f2, f3, r1, r2, r3, n1, n2, n3, a1, a2

MCSlug == n1 :> <<"s">> @@ n2 :> <<"s">> @@ n3 :> <<"s", 2>>
MCReserved == {<<"opencollection">>, <<"folder">>, <<"environments">>}
MCCopyOf == n1 :> n2 @@ n2 :> n3
MCOwn == Root :> a1 @@ f1 :> a2 @@ r1 :> Inherit @@ r2 :> Inherit
            @@ [x \in Items |-> Inherit]

MCNames == [x \in Items |-> NoName]
MCRefs == [r \in Requests |-> <<>>]
MCStarts ==
    {[kids |-> Root :> [folders |-> <<f1, f2>>, requests |-> <<r1>>]
               @@ f1 :> [folders |-> <<>>, requests |-> <<r2>>] @@ [c \in Containers |-> NoKids],
      name |-> f1 :> n1 @@ f2 :> n2 @@ r1 :> n3 @@ r2 :> n2 @@ MCNames,
      ref |-> r1 :> <<n1, n2>> @@ r2 :> <<n3>> @@ MCRefs],
     [kids |-> Root :> [folders |-> <<f1>>, requests |-> <<r1, r2>>]
               @@ f1 :> [folders |-> <<f2>>, requests |-> <<>>] @@ [c \in Containers |-> NoKids],
      name |-> f1 :> n1 @@ f2 :> n1 @@ r1 :> n1 @@ r2 :> n2 @@ MCNames,
      ref |-> r1 :> <<n2>> @@ r2 :> <<n1>> @@ MCRefs]}
=============================================================================
