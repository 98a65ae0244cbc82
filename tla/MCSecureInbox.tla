--------------------------- MODULE MCSecureInbox ---------------------------
(***************************************************************************)
(* Instances of SecureInbox for TLC: m1 opens the session, m2 follows; c1    *)
(* runs commands.                                                           *)
(***************************************************************************)
EXTENDS SecureInbox

CONSTANTS m1, m2, c1
=============================================================================
