--------------------------- MODULE MCMessageSend ---------------------------
(***************************************************************************)
(* Instances of MessageSend for TLC: two commands that share a token.       *)
(***************************************************************************)
EXTENDS MessageSend, TLC

CONSTANTS c1, c2

Symmetry == Permutations(Cmds)
=============================================================================
