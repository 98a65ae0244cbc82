---------------------------- MODULE MCLocalStore ----------------------------
(***************************************************************************)
(* Instances of LocalStore for TLC: two old DIDs of one person, two peers.   *)
(***************************************************************************)
EXTENDS LocalStore

CONSTANTS o1, o2, n

TwoOlds == <<o1, o2>>
OneOld == <<o1>>
FromFirst == [m \in Msgs |-> 1]
=============================================================================
