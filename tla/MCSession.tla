------------------------------ MODULE MCSession ------------------------------
(* Session on directories that first hold an empty collection; what is in  *)
(* them and in the workspaces comes from the operations.                   *)
EXTENDS Session, FiniteSetsExt, TLC

CONSTANTS
    blank,      \* the text every collection has at first
    MaxHeld     \* BOUND: environments, items and other texts, and broken directories

MCDisks == [Dirs -> {[envs |-> <<>>, items |-> <<>>, text |-> blank]}]

(* A text counts as soon as it is typed. *)
Typed(d) ==
    disk[d].text # blank \/ \E i \in DOMAIN dirs : dirs[i] = d /\ cols[i].text # blank
Held(d) == Len(disk[d].envs) + Len(disk[d].items) + (IF Typed(d) THEN 1 ELSE 0)

(* BOUND: no steps beyond a workspace that lists a directory twice. *)
Bounds == ~doubled /\ MapThenSumSet(Held, Dirs) + Cardinality(broken) <= MaxHeld

Symmetry == Permutations(Names) \cup Permutations(Dirs) \cup Permutations(Envs)
=============================================================================
