--------------------------- MODULE HandleHistory ---------------------------
(***************************************************************************)
(* What the local store promises about a person's past: under which DIDs a  *)
(* handle has been met, which messages were received and which were read.   *)
(* The knowledge of the workspace only grows, whatever becomes of the DIDs  *)
(* that own the rows.  Stated abstractly, without owners, rows and tables;  *)
(* LocalStore implements it.                                                *)
(***************************************************************************)
CONSTANTS Handles, Peers, Msgs, Groups

VARIABLES met, stored, read, joined

vars == <<met, stored, read, joined>>

Init == met = {} /\ stored = {} /\ read = {} /\ joined = {}

(* A contact is met under a handle. *)
Meet(h, p) == met' = met \union {<<h, p>>} /\ UNCHANGED <<stored, read, joined>>

(* A message is stored. *)
Store(m) == stored' = stored \union {m} /\ UNCHANGED <<met, read, joined>>

(* A stored message is read. *)
Read(m) ==
  /\ m \in stored
  /\ read' = read \union {m}
  /\ UNCHANGED <<met, stored, joined>>

(* A group becomes known. *)
Join(g) == joined' = joined \union {g} /\ UNCHANGED <<met, stored, read>>

Next ==
  \/ \E h \in Handles, p \in Peers : Meet(h, p)
  \/ \E m \in Msgs : Store(m) \/ Read(m)
  \/ \E g \in Groups : Join(g)

Spec == Init /\ [][Next]_vars
=============================================================================
