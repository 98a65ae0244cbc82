------------------------ MODULE MCWorkspaceUpgrade ------------------------
(***************************************************************************)
(* Instances of WorkspaceUpgrade for TLC.  Two processes, two identity      *)
(* names; i1 is a legacy or an existing k1 identity, i2 a second one or a   *)
(* name that a command may register.                                        *)
(***************************************************************************)
EXTENDS WorkspaceUpgrade

CONSTANTS p1, p2, i1, i2

LatestEverywhere == [p \in Proc |-> LatestWorkspaceSchemaVersion]

Nobody == [i \in Identities |-> "none"]

Fresh ==
  [config |-> "absent", legacyConfig |-> FALSE, did |-> Nobody, rows |-> Nobody,
   db |-> "absent", meta |-> 0, legacyLock |-> FALSE, ids |-> {}, junk |-> FALSE,
   legacyDb |-> FALSE, settings |-> FALSE]

K1(ids) == [i \in Identities |-> IF i \in ids THEN "k1" ELSE "none"]

(* Nothing at all; Python v1 state of every kind; only legacy settings; only *)
(* files a scan reports but cannot import, alone and beside settings.        *)
LegacyWorkspaces ==
  {Fresh,
   [Fresh EXCEPT !.ids = {i1}, !.legacyDb = TRUE, !.settings = TRUE],
   [Fresh EXCEPT !.ids = {i1, i2}, !.legacyDb = TRUE],
   [Fresh EXCEPT !.settings = TRUE],
   [Fresh EXCEPT !.junk = TRUE],
   [Fresh EXCEPT !.junk = TRUE, !.settings = TRUE]}

(* An awiki-cli workspace without meta.json, one with config.json, one with a *)
(* database that cannot be upgraded, one beside legacy state, and versioned   *)
(* workspaces at schema 1 and 2, one of them while an old upgrader may run.   *)
LiveWorkspaces ==
  {[Fresh EXCEPT !.config = "old", !.did = K1({i1}), !.rows = K1({i1}), !.db = "old"],
   [Fresh EXCEPT !.legacyConfig = TRUE, !.legacyLock = TRUE, !.did = K1({i1})],
   [Fresh EXCEPT !.config = "current", !.db = "unsound"],
   [Fresh EXCEPT !.config = "current", !.ids = {i2}, !.did = K1({i1})],
   [Fresh EXCEPT !.meta = 1, !.config = "current", !.did = K1({i1}), !.rows = K1({i1}),
                 !.db = "current"],
   [Fresh EXCEPT !.meta = 2, !.legacyLock = TRUE, !.did = K1({i1, i2}), !.rows = K1({i1}),
                 !.db = "current"]}

AllWorkspaces == LegacyWorkspaces \union LiveWorkspaces

=============================================================================
