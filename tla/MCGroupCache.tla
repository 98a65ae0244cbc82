---------------------------- MODULE MCGroupCache ----------------------------
(***************************************************************************)
(* Instances of GroupCache for TLC: two commands at a time, one other agent *)
(* who comes, goes and changes the group.                                   *)
(***************************************************************************)
EXTENDS GroupCache, TLC

CONSTANTS c1, c2, a1

Symmetry == Permutations(Cmds)
=============================================================================
