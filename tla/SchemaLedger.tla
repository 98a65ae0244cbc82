---------------------------- MODULE SchemaLedger ----------------------------
(***************************************************************************)
(* What the workspace upgrade promises about the record it keeps, without   *)
(* files, phases, processes that inspect, and crashes: the schema version   *)
(* of the workspace, who upgrades it, whether the workspace has already     *)
(* been changed beyond that version, and whether a backup from before the   *)
(* first change is on record.  WorkspaceUpgrade implements it.              *)
(***************************************************************************)
EXTENDS Naturals

CONSTANTS Upgraders, Nobody, Latest

VARIABLES version, upgrader, changed, restorable

vars == <<version, upgrader, changed, restorable>>

Init ==
  /\ version \in 0..Latest /\ upgrader = Nobody
  /\ changed = FALSE /\ restorable = FALSE

(* One upgrader at a time; it may leave at any point of its work, and the   *)
(* next one finds what it left.                                             *)
Enter(p) ==
  /\ upgrader = Nobody /\ upgrader' = p
  /\ UNCHANGED <<version, changed, restorable>>

Leave(p) ==
  /\ upgrader = p /\ upgrader' = Nobody
  /\ UNCHANGED <<version, changed, restorable>>

(* A backup is put on record before anything is changed. *)
Protect(p) ==
  /\ upgrader = p /\ ~changed
  /\ restorable' = TRUE
  /\ UNCHANGED <<version, upgrader, changed>>

Change(p) ==
  /\ upgrader = p /\ restorable
  /\ changed' = TRUE
  /\ UNCHANGED <<version, upgrader, restorable>>

(* The next version is reached; short of the latest one the work goes on    *)
(* from a changed workspace.                                                *)
Record(p) ==
  /\ upgrader = p /\ restorable /\ version < Latest
  /\ version' = version + 1
  /\ changed' = (version' # Latest)
  /\ UNCHANGED <<upgrader, restorable>>

(* The backup goes off the record only when there is nothing to take back.  *)
Forget ==
  /\ version = Latest /\ ~changed
  /\ restorable' = FALSE
  /\ UNCHANGED <<version, upgrader, changed>>

Next ==
  \/ \E p \in Upgraders : Enter(p) \/ Leave(p) \/ Protect(p) \/ Change(p) \/ Record(p)
  \/ Forget

Spec == Init /\ [][Next]_vars
=============================================================================
