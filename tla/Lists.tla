-------------------------------- MODULE Lists --------------------------------
(***************************************************************************)
(* Parts of lists, as the loops of the program make them that go through a *)
(* list and append to another what they keep.                              *)
(***************************************************************************)
EXTENDS Naturals, Sequences, SequencesExt, FiniteSets

(* The ways to go through the positions at, forward. *)
Forward(at) ==
    {p \in [1 .. Cardinality(at) -> at] : \A i, j \in DOMAIN p : i < j => p[i] < p[j]}

(* The elements of s at these positions, in the order of s. *)
Pick(s, at) ==
    LET p == CHOOSE p \in Forward(at) : TRUE IN [k \in 1 .. Cardinality(at) |-> s[p[k]]]

(* The element at from is put at the position to instead. *)
Moved(s, from, to) == InsertAt(RemoveAt(s, from), to, s[from])
=============================================================================
