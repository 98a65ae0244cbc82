-------------------------- MODULE MCRuntimeControl --------------------------
(***************************************************************************)
(* Instances of RuntimeControl for TLC: two commands at a time.             *)
(***************************************************************************)
EXTENDS RuntimeControl, TLC

CONSTANTS c1, c2, s1, s2

Symmetry == Permutations(Cmds) \union Permutations(Secrets)
=============================================================================
