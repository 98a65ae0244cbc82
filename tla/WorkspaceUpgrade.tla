-------------------------- MODULE WorkspaceUpgrade --------------------------
(***************************************************************************)
(* The workspace schema upgrade that every stateful awiki-cli command runs  *)
(* before it touches local state (internal/upgrade, called from             *)
(* internal/cli/app.go).  Several CLI processes share one workspace         *)
(* directory.  Each one inspects it without a lock, takes an OS file lock   *)
(* if a migration is needed, inspects again, takes a backup, and runs the   *)
(* migrations 0->1, 1->2, 2->3 one by one, keeping a journal and recording  *)
(* each completed migration in meta.json.  A process can stop between any   *)
(* two steps (a crash, or an error return: the OS lock is released and      *)
(* everything already on disk stays).                                       *)
(***************************************************************************)
EXTENDS Naturals, Sequences

CONSTANTS
  Proc,               \* CLI processes (process slots that run one invocation at a time)
  NoProc,             \* "nobody holds the OS lock"
  Identities,         \* identity names in the workspace index or in the legacy store
  NoIdentity,         \* no replacement is in progress
  latestVersion,      \* [Proc -> 1..3]: the schema version the binary of each process knows
  InitialWorkspaces,  \* the disk states the processes may start from
  MaxAborts           \* bound on crashes and error returns

LatestWorkspaceSchemaVersion == 3

DID == {"none", "k1", "e1"}   \* an identity is absent, on its old k1 DID, on its new e1 DID

(***************************************************************************)
(* A disk state before the first invocation.  The legacy fields are the     *)
(* Python v1 layout, which the upgrade only reads: ids that can be          *)
(* imported, junk files that make a scan report legacy state although they  *)
(* hold no identity, a legacy database, a legacy settings.json.             *)
(***************************************************************************)
Workspace ==
  [config : {"absent", "old", "current"}, legacyConfig : BOOLEAN,
   did : [Identities -> DID], rows : [Identities -> DID],
   db : {"absent", "old", "unsound", "current"}, meta : 0..LatestWorkspaceSchemaVersion,
   legacyLock : BOOLEAN, ids : SUBSET Identities, junk : BOOLEAN,
   legacyDb : BOOLEAN, settings : BOOLEAN]

(***************************************************************************)
(* States the program can have left behind: a versioned workspace has       *)
(* current artifacts, rows live in the database, names are not both         *)
(* imported and registered.                                                 *)
(***************************************************************************)
Plausible(w) ==
  /\ w.meta > 0 => w.config # "old" /\ w.db \in {"absent", "current"}
  /\ w.meta < LatestWorkspaceSchemaVersion
  /\ w.db = "absent" => \A i \in Identities : w.rows[i] = "none"
  /\ \A i \in Identities : w.rows[i] \in {"none", w.did[i]}

ASSUME UpgradeConstants ==
  /\ NoProc \notin Proc
  /\ NoIdentity \notin Identities
  /\ latestVersion \in [Proc -> 1..LatestWorkspaceSchemaVersion]
  /\ MaxAborts \in Nat
  /\ InitialWorkspaces \subseteq Workspace
  /\ \A w \in InitialWorkspaces : Plausible(w)

VARIABLES
  config,         \* config.yaml: absent, with an old schema_version, current
  legacyConfig,   \* config.json of an early awiki-cli exists
  did,            \* DID of each identity in the workspace index
  rows,           \* owner_did under which the database keeps an identity's rows
  db,             \* awiki-cli.db: absent, old schema, fails EnsureSchema or the health check, current
  legacySkill,    \* files of the legacy skill are installed
  legacy,         \* the Python v1 layout (never written)
  remoteDid,      \* DID the user service holds for the identity
  meta,           \* workspace_schema_version in meta.json, 0 when the file is absent
  metaWarnings,   \* identities a warning of meta.json is about
  journal,        \* backup named by upgrade_journal.json, 0 when the file is absent
  backups,        \* backups taken; TRUE: of a workspace some migration had already changed
  lock,           \* process that holds the OS lock on upgrade.lock
  legacyLock,     \* upgrade.lock holds the metadata of a live upgrader of the old lock format
  pc,             \* where each process is
  seen,           \* detection of the inspection made under the lock
  from,           \* From() of the migration in progress
  backup,         \* backupDir of the running upgrade
  todo,           \* identities whose k1 DID is still to be replaced in this migration
  cur,            \* identity whose replacement is in progress
  warnings,       \* uc.Warnings, reduced to the identities they are about
  midway,         \* history: the workspace differs from the one the upgrade started on
  torn,           \* history: a process stopped where the code has no way to resume
  aborts          \* history: crashes and error returns so far (bounds the model)

content == <<config, legacyConfig, did, rows, db, legacySkill, remoteDid>>
record == <<meta, metaWarnings, journal, backups>>
locks == <<lock, legacyLock>>
local == <<seen, from, backup, todo, cur, warnings>>
history == <<midway, torn, aborts>>
vars == <<content, legacy, record, locks, pc, local, history>>

-----------------------------------------------------------------------------
(* Detect: what an inspection concludes from the files that exist. *)

HasWorkspace ==
  \/ config # "absent" \/ legacyConfig \/ db # "absent"
  \/ \E i \in Identities : did[i] # "none"

LegacyIdentityExists == legacy.ids # {} \/ legacy.junk
HasLegacy == LegacyIdentityExists \/ legacy.legacyDb \/ legacy.settings
Empty == meta = 0 /\ ~HasWorkspace /\ ~HasLegacy
Settled(p) == Empty \/ meta = latestVersion[p]

Detection ==
  [hasWorkspace |-> HasWorkspace, configExists |-> config # "absent",
   legacyConfigExists |-> legacyConfig]

NothingSeen == [hasWorkspace |-> FALSE, configExists |-> FALSE, legacyConfigExists |-> FALSE]

Goto(p, here, there) == pc[p] = here /\ pc' = [pc EXCEPT ![p] = there]

(* Locals of an invocation die with it. *)
ForgetLocals(p) ==
  /\ seen' = [seen EXCEPT ![p] = NothingSeen]
  /\ from' = [from EXCEPT ![p] = 0]
  /\ backup' = [backup EXCEPT ![p] = 0]
  /\ todo' = [todo EXCEPT ![p] = {}]
  /\ cur' = [cur EXCEPT ![p] = NoIdentity]
  /\ warnings' = [warnings EXCEPT ![p] = {}]

Init ==
  /\ \E w \in InitialWorkspaces :
       /\ config = w.config /\ legacyConfig = w.legacyConfig
       /\ did = w.did /\ rows = w.rows /\ db = w.db
       /\ meta = w.meta /\ legacyLock = w.legacyLock
       /\ legacy = [ids |-> w.ids, junk |-> w.junk, legacyDb |-> w.legacyDb,
                    settings |-> w.settings,
                    adopt |-> w.meta = 0 /\ w.config = "absent" /\ ~w.legacyConfig
                              /\ w.db = "absent" /\ \A i \in Identities : w.did[i] = "none"]
       /\ remoteDid = [i \in Identities |->
                         IF w.did[i] = "none" /\ i \in w.ids THEN "k1" ELSE w.did[i]]
  /\ legacySkill = TRUE
  /\ metaWarnings = {} /\ journal = 0 /\ backups = <<>>
  /\ lock = NoProc
  /\ pc = [p \in Proc |-> "idle"]
  /\ seen = [p \in Proc |-> NothingSeen]
  /\ from = [p \in Proc |-> 0]
  /\ backup = [p \in Proc |-> 0]
  /\ todo = [p \in Proc |-> {}]
  /\ cur = [p \in Proc |-> NoIdentity]
  /\ warnings = [p \in Proc |-> {}]
  /\ midway = FALSE /\ torn = FALSE /\ aborts = 0

-----------------------------------------------------------------------------
(* UpgradeIfNeeded up to the lock. *)

(* A mutant: a journal is taken for an old one whatever the version is.      *)
InspectForJournal(p) ==
  /\ meta <= latestVersion[p]
  /\ Goto(p, "idle", IF journal # 0 THEN "clear_stale"
                     ELSE IF ~Settled(p) THEN "acquire" ELSE "ready")
  /\ UNCHANGED <<content, legacy, record, locks, local, history>>

(* First Inspect, no lock held.  A workspace newer than the binary is an    *)
(* error: the process stays idle.                                           *)
InspectUnlocked(p) ==
  /\ meta <= latestVersion[p]
  /\ Goto(p, "idle", IF ~Settled(p) THEN "acquire"
                     ELSE IF journal # 0 THEN "clear_stale" ELSE "ready")
  /\ UNCHANGED <<content, legacy, record, locks, local, history>>

(* The workspace needs nothing but an old journal is there: removed without a lock. *)
ClearStaleJournal(p) ==
  /\ Goto(p, "clear_stale", "ready")
  /\ journal' = 0
  /\ UNCHANGED <<content, legacy, meta, metaWarnings, backups, locks, local, history>>

(* The command itself, once UpgradeIfNeeded returned nil.  Of all commands  *)
(* the upgrade can tell apart only one that creates local state: it         *)
(* registers an identity, which always gets an e1 DID.                      *)
RunCommand(p) ==
  /\ Goto(p, "ready", "idle")
  /\ \/ UNCHANGED content
     \/ \E i \in Identities \ legacy.ids :
          /\ did[i] = "none"
          /\ did' = [did EXCEPT ![i] = "e1"]
          /\ remoteDid' = [remoteDid EXCEPT ![i] = "e1"]
          /\ rows' = [rows EXCEPT ![i] = "e1"]
          /\ db' = "current"
          /\ UNCHANGED <<config, legacyConfig, legacySkill>>
  /\ UNCHANGED <<legacy, record, locks, local, history>>

(* A mutant: the lock file is opened, the OS lock is not tested. *)
AcquireUntestedLock(p) ==
  /\ ~legacyLock
  /\ Goto(p, "acquire", "inspect")
  /\ lock' = p
  /\ UNCHANGED <<content, legacy, record, legacyLock, local, history>>

(* AcquireFileLock never waits: the lock is free and not claimed by a live  *)
(* upgrader of the old format, or the invocation fails at once.             *)
AcquireFileLock(p) ==
  /\ lock = NoProc /\ ~legacyLock
  /\ Goto(p, "acquire", "inspect")
  /\ lock' = p
  /\ UNCHANGED <<content, legacy, record, legacyLock, local, history>>

LockedOut(p) ==
  /\ lock # NoProc \/ legacyLock
  /\ Goto(p, "acquire", "idle")
  /\ UNCHANGED <<content, legacy, record, locks, local, history>>

(* The upgrader of the old format exits, or its lock is older than 24 hours. *)
LegacyLockExpires ==
  /\ legacyLock /\ legacyLock' = FALSE
  /\ UNCHANGED <<content, legacy, record, lock, pc, local, history>>

-----------------------------------------------------------------------------
(* UpgradeIfNeeded under the lock. *)

(* Second Inspect: what it sees decides the whole run. *)
InspectLocked(p) ==
  /\ Goto(p, "inspect", IF ~Settled(p) THEN "backup"
                        ELSE IF journal # 0 THEN "clear" ELSE "release")
  /\ seen' = [seen EXCEPT ![p] = Detection]
  /\ from' = [from EXCEPT ![p] = meta]
  /\ UNCHANGED <<content, legacy, record, locks, backup, todo, cur, warnings, history>>

(* A mutant: the journal of an interrupted run is not read back. *)
AlwaysNewBackup(p) ==
  /\ Goto(p, "backup", IF from[p] > latestVersion[p] THEN "failing" ELSE "check")
  /\ backups' = Append(backups, midway)
  /\ backup' = [backup EXCEPT ![p] = Len(backups) + 1]
  /\ UNCHANGED <<content, legacy, meta, metaWarnings, journal, locks,
                 seen, from, todo, cur, warnings, history>>

(* A journal of an interrupted run names the backup to keep; without one a  *)
(* new backup is taken.  Planning down from a newer version is an error.    *)
CreateBackup(p) ==
  /\ Goto(p, "backup", IF from[p] > latestVersion[p] THEN "failing" ELSE "check")
  /\ IF journal # 0
       THEN backup' = [backup EXCEPT ![p] = journal] /\ UNCHANGED backups
       ELSE /\ backups' = Append(backups, midway)
            /\ backup' = [backup EXCEPT ![p] = Len(backups) + 1]
  /\ UNCHANGED <<content, legacy, meta, metaWarnings, journal, locks,
                 seen, from, todo, cur, warnings, history>>

SaveJournal(p) == journal' = backup[p] /\ UNCHANGED <<meta, metaWarnings, backups>>

(* Phase "checking": IsDone looks at meta.json only. *)
CheckMigration(p) ==
  /\ Goto(p, "check", IF meta > from[p] THEN "validating" ELSE "applying")
  /\ SaveJournal(p)
  /\ UNCHANGED <<content, legacy, locks, local, history>>

(* Phase "applying": on to Apply of migration from[p] -> from[p] + 1. *)
BeginApply(p) ==
  /\ Goto(p, "applying", CASE from[p] = 0 -> "config"
                           [] from[p] = 1 -> "cleanup"
                           [] OTHER -> "list")
  /\ SaveJournal(p)
  /\ UNCHANGED <<content, legacy, locks, local, history>>

(* Phase "validating". *)
BeginValidate(p) ==
  /\ Goto(p, "validating", "validate")
  /\ SaveJournal(p)
  /\ UNCHANGED <<content, legacy, locks, local, history>>

-----------------------------------------------------------------------------
(* Apply of 0 -> 1: config, legacy import, database schema, k1 replacement. *)

AdoptsLegacy(p) == ~seen[p].hasWorkspace /\ HasLegacy

ApplyConfig(p) ==
  /\ Goto(p, "config", IF ~seen[p].configExists /\ seen[p].legacyConfigExists
                       THEN "remove_json" ELSE "import")
  /\ config' = IF \/ seen[p].configExists \/ seen[p].legacyConfigExists
                  \/ ~seen[p].hasWorkspace /\ legacy.settings
               THEN "current" ELSE config
  /\ midway' = (midway \/ config' # config)
  /\ UNCHANGED <<legacyConfig, did, rows, db, legacySkill, remoteDid, legacy, record,
                 locks, local, torn, aborts>>

RemoveLegacyConfig(p) ==
  /\ Goto(p, "remove_json", "import")
  /\ legacyConfig' = FALSE
  /\ UNCHANGED <<config, did, rows, db, legacySkill, remoteDid, legacy, record,
                 locks, local, history>>

(* ImportAllLegacy saves the index after every identity. *)
ImportIdentity(p, i) ==
  /\ AdoptsLegacy(p)
  /\ i \in legacy.ids \ todo[p]
  /\ Goto(p, "import", "import")
  /\ did' = [did EXCEPT ![i] = "k1"]
  /\ todo' = [todo EXCEPT ![p] = @ \union {i}]
  /\ midway' = TRUE
  /\ UNCHANGED <<config, legacyConfig, rows, db, legacySkill, remoteDid, legacy, record,
                 locks, seen, from, backup, cur, warnings, torn, aborts>>

(* All identities are in; a legacy database makes the code create the store. *)
ImportIdentitiesDone(p) ==
  /\ AdoptsLegacy(p) => legacy.ids \subseteq todo[p]
  /\ LET importsRows == AdoptsLegacy(p) /\ legacy.legacyDb
     IN /\ Goto(p, "import", IF importsRows THEN "import_rows" ELSE "schema")
        /\ db' = IF importsRows THEN "current" ELSE db
        /\ midway' = (midway \/ importsRows)
  /\ UNCHANGED <<config, legacyConfig, did, rows, legacySkill, remoteDid, legacy, record,
                 locks, local, torn, aborts>>

(* ImportLegacyDatabase commits row by row, under the owner_did of the legacy row. *)
ImportRows(p, i) ==
  /\ i \in legacy.ids /\ rows[i] = "none"
  /\ Goto(p, "import_rows", "import_rows")
  /\ rows' = [rows EXCEPT ![i] = "k1"]
  /\ UNCHANGED <<config, legacyConfig, did, db, legacySkill, remoteDid, legacy, record,
                 locks, local, history>>

ImportRowsDone(p) ==
  /\ \A i \in legacy.ids : rows[i] # "none"
  /\ Goto(p, "import_rows", "schema")
  /\ UNCHANGED <<content, legacy, record, locks, local, history>>

(* ensureTargetStoreSchema, when there is a database.  An unsound one is    *)
(* refused here (unsupported version) or later, by the health check.        *)
EnsureStoreSchema(p) ==
  /\ \/ Goto(p, "schema", "replace")
     \/ db = "unsound" /\ Goto(p, "schema", "failing")
  /\ db' = IF db = "old" THEN "current" ELSE db
  /\ midway' = (midway \/ db' # db)
  /\ UNCHANGED <<config, legacyConfig, did, rows, legacySkill, remoteDid, legacy, record,
                 locks, local, torn, aborts>>

-----------------------------------------------------------------------------
(* Apply of 1 -> 2 and the listing of 2 -> 3. *)

(* cleanupLegacySkillArtifacts: best effort, every failure is only a warning. *)
CleanupLegacySkill(p) ==
  /\ Goto(p, "cleanup", "validating")
  /\ legacySkill' \in {FALSE, legacySkill}
  /\ UNCHANGED <<config, legacyConfig, did, rows, db, remoteDid, legacy, record,
                 locks, local, history>>

ListExistingK1(p) ==
  /\ Goto(p, "list", "replace")
  /\ todo' = [todo EXCEPT ![p] = {i \in Identities : did[i] = "k1"}]
  /\ UNCHANGED <<content, legacy, record, locks, seen, from, backup, cur, warnings, history>>

-----------------------------------------------------------------------------
(* replaceK1DIDsForSummaries: for each identity replace_did at the service,  *)
(* ReplaceIdentity in the index, RebindLocalIdentityState in the database.   *)

ReplaceRemote(p, i) ==
  /\ i \in todo[p] /\ did[i] = "k1"
  /\ remoteDid[i] = "k1"     \* the call authenticates with the old DID
  /\ Goto(p, "replace", "save_did")
  /\ remoteDid' = [remoteDid EXCEPT ![i] = "e1"]
  /\ todo' = [todo EXCEPT ![p] = @ \ {i}]
  /\ cur' = [cur EXCEPT ![p] = i]
  /\ midway' = TRUE
  /\ UNCHANGED <<config, legacyConfig, did, rows, db, legacySkill, legacy, record,
                 locks, seen, from, backup, warnings, torn, aborts>>

(* A mutant: the identity is skipped without a word. *)
ReplaceFailsSilently(p, i) ==
  /\ i \in todo[p]
  /\ Goto(p, "replace", "replace")
  /\ todo' = [todo EXCEPT ![p] = @ \ {i}]
  /\ UNCHANGED <<content, legacy, record, locks, seen, from, backup, cur, warnings, history>>

(* The call returns an error: a warning, and on to the next one.  The service *)
(* may still have replaced the DID, when only its answer was lost.           *)
ReplaceFails(p, i) ==
  /\ i \in todo[p]
  /\ Goto(p, "replace", "replace")
  /\ remoteDid' \in {remoteDid} \union
       (IF did[i] = "k1" /\ remoteDid[i] = "k1" THEN {[remoteDid EXCEPT ![i] = "e1"]} ELSE {})
  /\ midway' = (midway \/ remoteDid' # remoteDid)
  /\ todo' = [todo EXCEPT ![p] = @ \ {i}]
  /\ warnings' = [warnings EXCEPT ![p] = @ \union {i}]
  /\ UNCHANGED <<config, legacyConfig, did, rows, db, legacySkill, legacy, record,
                 locks, seen, from, backup, cur, torn, aborts>>

SaveReplacedIdentity(p) ==
  /\ Goto(p, "save_did", "rebind")
  /\ did' = [did EXCEPT ![cur[p]] = "e1"]
  /\ UNCHANGED <<config, legacyConfig, rows, db, legacySkill, remoteDid, legacy, record,
                 locks, local, history>>

(* ReplaceIdentity cannot write the new keys: again only a warning, although *)
(* the service has already moved on to the new DID.                         *)
SaveReplacedFails(p) ==
  /\ Goto(p, "save_did", "replace")
  /\ cur' = [cur EXCEPT ![p] = NoIdentity]
  /\ warnings' = [warnings EXCEPT ![p] = @ \union {cur[p]}]
  /\ UNCHANGED <<content, legacy, record, locks, seen, from, backup, todo, history>>

(* A mutant: the rows are looked up under the new DID, so none is moved. *)
RebindNothing(p) ==
  /\ Goto(p, "rebind", "replace")
  /\ cur' = [cur EXCEPT ![p] = NoIdentity]
  /\ UNCHANGED <<content, legacy, record, locks, seen, from, backup, todo, warnings, history>>

(* Rebinding moves the rows to the new owner; it can fail before or after it  *)
(* has moved them (deleting the E2EE rows is a second step): then a warning.  *)
RebindRows(p) ==
  LET moved == [rows EXCEPT ![cur[p]] = IF @ = "k1" THEN "e1" ELSE @]
  IN /\ Goto(p, "rebind", "replace")
     /\ cur' = [cur EXCEPT ![p] = NoIdentity]
     /\ \/ rows' = moved /\ UNCHANGED warnings
        \/ /\ db # "absent"
           /\ rows' \in {rows, moved}
           /\ warnings' = [warnings EXCEPT ![p] = @ \union {cur[p]}]
     /\ UNCHANGED <<config, legacyConfig, did, db, legacySkill, remoteDid, legacy, record,
                    locks, seen, from, backup, todo, history>>

ReplaceDone(p) ==
  /\ todo[p] = {}
  /\ Goto(p, "replace", "validating")
  /\ UNCHANGED <<content, legacy, record, locks, local, history>>

-----------------------------------------------------------------------------
(* Validate, SaveMeta, and the end of the run. *)

Valid(p) ==
  from[p] = 0 =>
    /\ config \in {"absent", "current"}
    /\ db \in {"absent", "current"}
    /\ ~seen[p].hasWorkspace /\ LegacyIdentityExists => \E i \in Identities : did[i] # "none"

Validate(p) ==
  /\ Goto(p, "validate", IF Valid(p) THEN "save_meta" ELSE "failing")
  /\ UNCHANGED <<content, legacy, record, locks, local, history>>

SaveMeta(p) ==
  LET last == from[p] + 1 = latestVersion[p]
  IN /\ Goto(p, "save_meta", IF last THEN "clear" ELSE "check")
     /\ meta' = from[p] + 1
     /\ metaWarnings' = warnings[p]
     /\ from' = [from EXCEPT ![p] = IF last THEN @ ELSE @ + 1]
     /\ midway' = ~last
     /\ UNCHANGED <<content, legacy, journal, backups, locks,
                    seen, backup, todo, cur, warnings, torn, aborts>>

ClearJournal(p) ==
  /\ Goto(p, "clear", "release")
  /\ journal' = 0
  /\ UNCHANGED <<content, legacy, meta, metaWarnings, backups, locks, local, history>>

(* The deferred unlock, after success and after an error return. *)
Release(p) ==
  /\ \/ Goto(p, "release", "ready")
     \/ Goto(p, "failing", "idle")
  /\ lock' = NoProc
  /\ ForgetLocals(p)
  /\ UNCHANGED <<content, legacy, record, legacyLock, history>>

Running(p) == pc[p] \notin {"idle", "ready", "acquire", "clear_stale", "release", "failing"}

(* A mutant: a lock that a dead process still holds. *)
AbortLocked(p) ==
  /\ Running(p) /\ aborts < MaxAborts
  /\ aborts' = aborts + 1
  /\ pc' = [pc EXCEPT ![p] = "idle"]
  /\ torn' = (torn \/ (from[p] = 0 /\ midway /\ legacy.adopt) \/ cur[p] # NoIdentity \/ warnings[p] # {})
  /\ ForgetLocals(p)
  /\ UNCHANGED <<content, legacy, record, locks, midway>>

(* A crash, or the error return of any file, database or network call: the  *)
(* OS lock is gone, the disk stays as it is.                                *)
Abort(p) ==
  /\ Running(p) /\ aborts < MaxAborts
  /\ aborts' = aborts + 1
  /\ pc' = [pc EXCEPT ![p] = "idle"]
  /\ lock' = NoProc
  /\ torn' = (torn \/ (from[p] = 0 /\ midway /\ legacy.adopt) \/ cur[p] # NoIdentity \/ warnings[p] # {})
  /\ ForgetLocals(p)
  /\ UNCHANGED <<content, legacy, record, legacyLock, midway>>

-----------------------------------------------------------------------------
Step(p) ==
  \/ ClearStaleJournal(p) \/ AcquireFileLock(p) \/ LockedOut(p)
  \/ InspectLocked(p) \/ CreateBackup(p) \/ CheckMigration(p) \/ BeginApply(p)
  \/ ApplyConfig(p) \/ RemoveLegacyConfig(p)
  \/ (\E i \in Identities : ImportIdentity(p, i)) \/ ImportIdentitiesDone(p)
  \/ (\E i \in Identities : ImportRows(p, i)) \/ ImportRowsDone(p) \/ EnsureStoreSchema(p)
  \/ CleanupLegacySkill(p) \/ ListExistingK1(p)
  \/ (\E i \in Identities : ReplaceRemote(p, i)) \/ (\E i \in Identities : ReplaceFails(p, i))
  \/ SaveReplacedIdentity(p) \/ SaveReplacedFails(p) \/ RebindRows(p) \/ ReplaceDone(p)
  \/ BeginValidate(p) \/ Validate(p) \/ SaveMeta(p) \/ ClearJournal(p) \/ Release(p)

Next ==
  \/ LegacyLockExpires
  \/ \E p \in Proc : InspectUnlocked(p) \/ RunCommand(p) \/ Step(p) \/ Abort(p)

Spec == Init /\ [][Next]_vars

(***************************************************************************)
(* A process that is scheduled takes its next step, a live lock of the old  *)
(* format ends (its owner exits or 24 hours pass), and the user keeps       *)
(* running commands.                                                        *)
(***************************************************************************)
Fairness ==
  /\ WF_vars(LegacyLockExpires)
  /\ \A p \in Proc : WF_vars(Step(p)) /\ WF_vars(RunCommand(p)) /\ WF_vars(InspectUnlocked(p))

FairSpec == Spec /\ Fairness
-----------------------------------------------------------------------------
(* Properties. *)

Positions ==
  {"idle", "acquire", "clear_stale", "ready", "inspect", "backup", "check", "applying",
   "config", "remove_json", "import", "import_rows", "schema", "cleanup", "list",
   "replace", "save_did", "rebind", "validating", "validate", "save_meta", "clear",
   "release", "failing"}

(* Positions between AcquireFileLock and the deferred unlock. *)
HoldsLock(p) == pc[p] \notin {"idle", "acquire", "clear_stale", "ready"}

(* What the files on disk and at the service can be. *)
ContentOK ==
  /\ config \in {"absent", "old", "current"} /\ legacyConfig \in BOOLEAN
  /\ did \in [Identities -> DID] /\ rows \in [Identities -> DID]
  /\ remoteDid \in [Identities -> DID]
  /\ db \in {"absent", "old", "unsound", "current"} /\ legacySkill \in BOOLEAN
  /\ legacy \in [ids : SUBSET Identities, junk : BOOLEAN, legacyDb : BOOLEAN,
                  settings : BOOLEAN, adopt : BOOLEAN]

(* What the upgrade keeps about itself on disk. *)
RecordOK ==
  /\ meta \in 0..LatestWorkspaceSchemaVersion /\ metaWarnings \subseteq Identities
  /\ backups \in Seq(BOOLEAN) /\ journal \in 0..Len(backups)
  /\ lock \in Proc \union {NoProc} /\ legacyLock \in BOOLEAN

(* What an invocation keeps in memory. *)
LocalOK ==
  /\ pc \in [Proc -> Positions]
  /\ seen \in [Proc -> [hasWorkspace : BOOLEAN, configExists : BOOLEAN,
                         legacyConfigExists : BOOLEAN]]
  /\ from \in [Proc -> 0..LatestWorkspaceSchemaVersion]
  /\ backup \in [Proc -> 0..Len(backups)]
  /\ todo \in [Proc -> SUBSET Identities] /\ cur \in [Proc -> Identities \union {NoIdentity}]
  /\ warnings \in [Proc -> SUBSET Identities]

HistoryOK == midway \in BOOLEAN /\ torn \in BOOLEAN /\ aborts \in 0..MaxAborts

(* Every variable has its type; in particular the journal and every process *)
(* name a backup that was taken, and no process records a version past the   *)
(* latest.                                                                  *)
TypeOK == ContentOK /\ RecordOK /\ LocalOK /\ HistoryOK

(* At most one process is between AcquireFileLock and its unlock, and it is *)
(* the owner of the OS lock: two processes never migrate the same workspace. *)
MutualExclusion == \A p \in Proc : HoldsLock(p) <=> lock = p

(* meta.json only ever moves to the next schema version: no migration is    *)
(* recorded twice, skipped, or undone, whoever runs it and whatever it saw   *)
(* before it got the lock.                                                  *)
StepwiseMeta == [][meta' = meta + 1]_meta

(* While migrations have changed a workspace that is not yet at its target, *)
(* the journal on disk names a backup of the workspace as it was before the *)
(* first change, however often the upgrade was interrupted.                 *)
RecoverableBackup ==
  midway => journal # 0 /\ journal <= Len(backups) /\ ~backups[journal]

(* In a fully upgraded workspace an identity is still on its k1 DID only if  *)
(* meta.json carries a warning about it: no failed replacement goes unsaid,  *)
(* even when the process that saw it fail was not the one to finish.        *)
NoSilentK1 ==
  meta = LatestWorkspaceSchemaVersion =>
    \A i \in Identities : did[i] = "k1" => i \in metaWarnings

Adopted == legacy.adopt =>
  \A i \in legacy.ids : did[i] # "none" /\ (legacy.legacyDb => rows[i] # "none")

KeysUsable ==
  \A i \in Identities : did[i] # "none" /\ did[i] # remoteDid[i] => i \in metaWarnings

RowsFollowIdentity ==
  \A i \in Identities : did[i] # "none" /\ rows[i] \notin {"none", did[i]} => i \in metaWarnings

(* The upgrade delivers all it promises (every legacy identity and its rows  *)
(* imported, every identity on the DID the service knows, its rows under     *)
(* that DID, exceptions named in meta.json) unless a process stopped in one  *)
(* of the windows `torn` names: inside 0 -> 1 of a legacy import after the   *)
(* first write, inside one replacement, or with warnings not yet final.      *)
CompleteUnlessTorn ==
  meta = LatestWorkspaceSchemaVersion /\ ~torn => Adopted /\ KeysUsable /\ RowsFollowIdentity

(* The upgrade can succeed: the database is not unsound, and if the legacy   *)
(* scan reports nothing but junk the import can leave some workspace behind.  *)
Upgradable ==
  /\ ~Empty /\ db # "unsound"
  /\ legacy.adopt /\ legacy.junk /\ legacy.ids = {} => legacy.settings \/ legacy.legacyDb

(* As long as commands keep being run and interruptions end, every workspace *)
(* that can be upgraded reaches the latest schema: no combination of stale   *)
(* journals, half-applied migrations and competing processes blocks it.      *)
UpgradeCompletes == Upgradable ~> meta = LatestWorkspaceSchemaVersion

(* Seen from outside, the upgrade keeps the ledger of SchemaLedger: only the *)
(* holder of the lock changes the workspace or its recorded version, version *)
(* by version, never before a backup of the unchanged workspace is named by  *)
(* the journal, and no inspection, stop or restart takes that name away      *)
(* before the latest version is recorded.                                   *)
Ledger == INSTANCE SchemaLedger WITH
  Upgraders <- Proc, Nobody <- NoProc, Latest <- LatestWorkspaceSchemaVersion,
  version <- meta, upgrader <- lock, changed <- midway,
  restorable <- journal \in 1..Len(backups) /\ ~backups[journal]

ImplementsLedger == Ledger!Spec
=============================================================================
