---------------------------- MODULE MCWSClient ----------------------------
(***************************************************************************)
(* Instances of WSClient for TLC: bridge requests b1 and b2, calls q1 and   *)
(* q2 of the poll, calls n1 of a notification handler.                      *)
(***************************************************************************)
EXTENDS WSClient

CONSTANTS b1, b2, q1, q2, n1
=============================================================================
