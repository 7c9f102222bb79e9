----------------------------- MODULE MCWorkbench -----------------------------
(* Workbench on two collections that share a request id (a copied file):   *)
(* c1 has requests i1, whose URL has a query in it, and i2, each in a       *)
(* folder; c2 has i1 in its root.                                           *)
EXTENDS Workbench, TLC

CONSTANTS c1, c2, i1, i2, stored, folded, edited

MCStarts ==
    {c1 :> [root |-> <<>>, folders |-> <<i1, i2>>, text |-> i1 :> stored @@ i2 :> edited]
     @@ c2 :> [root |-> <<i1>>, folders |-> <<>>, text |-> i1 :> folded]}

MCFold == stored :> folded @@ folded :> folded @@ edited :> edited @@ Blank :> Blank
=============================================================================
