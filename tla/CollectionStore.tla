--------------------------- MODULE CollectionStore ---------------------------
(***************************************************************************)
(* What storage.Save promises its caller about the tree of files of a      *)
(* collection: one call at a time, the tree changes once during a call,    *)
(* from what it was to what is being saved, in a single step; a call that  *)
(* returns an error has changed nothing; and when the program dies the     *)
(* tree is one of the two.  Storage.tla is the code's way to keep this.    *)
(***************************************************************************)
CONSTANTS
    Trees,      \* the trees a path can hold
    NoTree      \* no collection at the path

VARIABLES
    tree,       \* the collection's tree, at its path or aside
    pending,    \* the tree the running call of Save is to store, or NoTree
    fresh,      \* the call is to make a new collection
    done        \* the running call has stored it

vars == <<tree, pending, fresh, done>>

Init ==
    /\ tree \in Trees \cup {NoTree}
    /\ pending = NoTree
    /\ fresh = FALSE
    /\ done = FALSE

Begin(new) ==
    /\ pending = NoTree
    /\ pending' = new
    /\ UNCHANGED <<tree, fresh, done>>

(* A new collection is made where none is seen; what an older one left     *)
(* aside is out of sight, and is given up before the call commits.         *)
BeginNew(new) ==
    /\ pending = NoTree
    /\ pending' = new
    /\ fresh' = TRUE
    /\ tree' \in {tree, NoTree}
    /\ UNCHANGED done

Abandon ==
    /\ fresh /\ ~done
    /\ tree' = NoTree
    /\ UNCHANGED <<pending, fresh, done>>

Commit ==
    /\ pending # NoTree /\ ~done
    /\ tree' = pending
    /\ done' = TRUE
    /\ UNCHANGED <<pending, fresh>>

EndCall == pending' = NoTree /\ fresh' = FALSE /\ done' = FALSE

ReturnOk == done /\ EndCall /\ UNCHANGED tree

ReturnError == pending # NoTree /\ ~done /\ EndCall /\ UNCHANGED tree

(* The program may die at any time, in the middle of an Abandon too. *)
Die ==
    /\ EndCall
    /\ tree' = tree \/ (fresh /\ ~done /\ tree' = NoTree)

Next ==
    \/ \E new \in Trees : Begin(new) \/ BeginNew(new)
    \/ Abandon \/ Commit \/ ReturnOk \/ ReturnError \/ Die

Spec == Init /\ [][Next]_vars
=============================================================================
