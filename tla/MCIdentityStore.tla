--------------------------- MODULE MCIdentityStore ---------------------------
(***************************************************************************)
(* Instances of IdentityStore for TLC: one handle with the DIDs a1 to a3 and *)
(* a DID u1 of a local identity without a handle.                            *)
(***************************************************************************)
EXTENDS IdentityStore

CONSTANTS h, a1, a2, a3, u1, p1, p2, alice, alice2, temp, dflt

MCHandleOf == [d \in DIDs |-> IF d = u1 THEN None ELSE h]
MCFinal == [x \in Handles |-> alice]
MCTemp == [x \in Handles |-> temp]
MCFallback == [x \in Handles |-> alice2]
=============================================================================
