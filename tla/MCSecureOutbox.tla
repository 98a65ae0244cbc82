--------------------------- MODULE MCSecureOutbox ---------------------------
(***************************************************************************)
(* Instances of SecureOutbox for TLC.  Three messages: one opens the        *)
(* session, two can be queued behind it, one of these of a type that the    *)
(* flush does not know.                                                     *)
(***************************************************************************)
EXTENDS SecureOutbox

CONSTANTS m1, m2, m3
=============================================================================
