------------------------ MODULE MCListenerSessions ------------------------
(***************************************************************************)
(* Instances of ListenerSessions for TLC: up to two identities, of which i2 *)
(* is registered while the listener runs; acks go to the late one.          *)
(***************************************************************************)
EXTENDS ListenerSessions

CONSTANTS i1, i2, a1

AckForLate == [a \in Acks |-> i2]
=============================================================================
