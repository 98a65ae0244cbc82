----------------------- MODULE WorkspaceUpgradeProofs -----------------------
(***************************************************************************)
(* Proofs about WorkspaceUpgrade for any set of processes, identities and   *)
(* initial workspaces, and any number of interruptions.                     *)
(***************************************************************************)
EXTENDS WorkspaceUpgrade, TLAPS

(* Positions of a process that executes migration from[p] -> from[p] + 1. *)
Planned ==
  {"check", "applying", "config", "remove_json", "import", "import_rows", "schema",
   "cleanup", "list", "replace", "save_did", "rebind", "validating", "validate", "save_meta"}

(* A process works on the version it read under the lock, and only on       *)
(* versions below the one its binary knows.                                 *)
PlanInv ==
  \A p \in Proc :
    /\ pc[p] \in Planned \union {"backup"} => from[p] = meta /\ from[p] # latestVersion[p]
    /\ pc[p] \in Planned => from[p] < latestVersion[p]
    /\ pc[p] \in {"save_did", "rebind"} => cur[p] \in Identities

Inv == TypeOK /\ MutualExclusion /\ PlanInv

LEMMA InitInv == Init => Inv
<1> SUFFICES ASSUME Init PROVE Inv
  OBVIOUS
<1> USE UpgradeConstants
<1>1. TypeOK
  <2>1. PICK w \in InitialWorkspaces :
          /\ config = w.config /\ legacyConfig = w.legacyConfig
          /\ did = w.did /\ rows = w.rows /\ db = w.db
          /\ meta = w.meta /\ legacyLock = w.legacyLock
          /\ legacy = [ids |-> w.ids, junk |-> w.junk, legacyDb |-> w.legacyDb,
                       settings |-> w.settings,
                       adopt |-> w.meta = 0 /\ w.config = "absent" /\ ~w.legacyConfig
                                 /\ w.db = "absent" /\ \A i \in Identities : w.did[i] = "none"]
          /\ remoteDid = [i \in Identities |->
                            IF w.did[i] = "none" /\ i \in w.ids THEN "k1" ELSE w.did[i]]
    BY DEF Init
  <2>2. w \in Workspace
    OBVIOUS
  <2>3. remoteDid \in [Identities -> DID]
    BY <2>1, <2>2 DEF Workspace, DID
  <2>4. legacy \in [ids : SUBSET Identities, junk : BOOLEAN, legacyDb : BOOLEAN,
                    settings : BOOLEAN, adopt : BOOLEAN]
    BY <2>1, <2>2 DEF Workspace
  <2>5. ContentOK
    BY <2>1, <2>2, <2>3, <2>4 DEF Init, ContentOK, Workspace
  <2>6. RecordOK
    BY <2>1, <2>2 DEF Init, RecordOK, Workspace
  <2>7. LocalOK
    <3>1. Len(backups) = 0
      BY DEF Init
    <3>. QED
      BY <3>1 DEF Init, LocalOK, NothingSeen, Positions, LatestWorkspaceSchemaVersion
  <2>8. HistoryOK
    <3>1. MaxAborts \in Nat
      OBVIOUS
    <3>2. 0 \in 0..MaxAborts
      BY <3>1
    <3>. QED
      BY <3>2 DEF Init, HistoryOK
  <2>. QED
    BY <2>5, <2>6, <2>7, <2>8 DEF TypeOK
<1>2. MutualExclusion
  BY DEF Init, MutualExclusion, HoldsLock
<1>3. PlanInv
  BY DEF Init, PlanInv, Planned
<1>. QED
  BY <1>1, <1>2, <1>3 DEF Inv

(* Only known values are written to config, identities, rows and database. *)
LEMMA ContentStep == Inv /\ [Next]_vars => ContentOK'
<1> SUFFICES ASSUME Inv, [Next]_vars PROVE ContentOK'
  OBVIOUS
<1> USE UpgradeConstants DEF Inv, TypeOK, ContentOK, LocalOK, PlanInv, DID, Goto,
        content, record, locks, local, history, vars
<1>1. CASE LegacyLockExpires
  BY <1>1 DEF LegacyLockExpires
<1>2. ASSUME NEW p \in Proc, InspectUnlocked(p) PROVE ContentOK'
  BY <1>2 DEF InspectUnlocked
<1>3. ASSUME NEW p \in Proc, RunCommand(p) PROVE ContentOK'
  <2>1. CASE UNCHANGED content
    BY <1>3, <2>1 DEF RunCommand
  <2>2. ASSUME NEW i \in Identities,
               did' = [did EXCEPT ![i] = "e1"],
               remoteDid' = [remoteDid EXCEPT ![i] = "e1"],
               rows' = [rows EXCEPT ![i] = "e1"],
               db' = "current", UNCHANGED <<config, legacyConfig, legacySkill>>,
               UNCHANGED legacy
        PROVE ContentOK'
    BY <2>2
  <2>. QED
    BY <1>3, <2>1, <2>2 DEF RunCommand
<1>4. ASSUME NEW p \in Proc, Abort(p) PROVE ContentOK'
  BY <1>4 DEF Abort, ForgetLocals, NothingSeen
<1>5. ASSUME NEW p \in Proc, ClearStaleJournal(p) PROVE ContentOK'
  BY <1>5 DEF ClearStaleJournal
<1>6. ASSUME NEW p \in Proc, AcquireFileLock(p) PROVE ContentOK'
  BY <1>6 DEF AcquireFileLock
<1>7. ASSUME NEW p \in Proc, LockedOut(p) PROVE ContentOK'
  BY <1>7 DEF LockedOut
<1>8. ASSUME NEW p \in Proc, InspectLocked(p) PROVE ContentOK'
  BY <1>8 DEF InspectLocked, Detection, HasWorkspace
<1>9. ASSUME NEW p \in Proc, CreateBackup(p) PROVE ContentOK'
  BY <1>9 DEF CreateBackup
<1>10. ASSUME NEW p \in Proc, CheckMigration(p) PROVE ContentOK'
  BY <1>10 DEF CheckMigration, SaveJournal
<1>11. ASSUME NEW p \in Proc, BeginApply(p) PROVE ContentOK'
  BY <1>11 DEF BeginApply, SaveJournal
<1>12. ASSUME NEW p \in Proc, ApplyConfig(p) PROVE ContentOK'
  BY <1>12 DEF ApplyConfig
<1>13. ASSUME NEW p \in Proc, RemoveLegacyConfig(p) PROVE ContentOK'
  BY <1>13 DEF RemoveLegacyConfig
<1>14. ASSUME NEW p \in Proc, NEW i \in Identities, ImportIdentity(p, i) PROVE ContentOK'
  BY <1>14 DEF ImportIdentity
<1>15. ASSUME NEW p \in Proc, ImportIdentitiesDone(p) PROVE ContentOK'
  BY <1>15 DEF ImportIdentitiesDone
<1>16. ASSUME NEW p \in Proc, NEW i \in Identities, ImportRows(p, i) PROVE ContentOK'
  BY <1>16 DEF ImportRows
<1>17. ASSUME NEW p \in Proc, ImportRowsDone(p) PROVE ContentOK'
  BY <1>17 DEF ImportRowsDone
<1>18. ASSUME NEW p \in Proc, EnsureStoreSchema(p) PROVE ContentOK'
  BY <1>18 DEF EnsureStoreSchema
<1>19. ASSUME NEW p \in Proc, CleanupLegacySkill(p) PROVE ContentOK'
  BY <1>19 DEF CleanupLegacySkill
<1>20. ASSUME NEW p \in Proc, ListExistingK1(p) PROVE ContentOK'
  BY <1>20 DEF ListExistingK1
<1>21. ASSUME NEW p \in Proc, NEW i \in Identities, ReplaceRemote(p, i) PROVE ContentOK'
  BY <1>21 DEF ReplaceRemote
<1>22. ASSUME NEW p \in Proc, NEW i \in Identities, ReplaceFails(p, i) PROVE ContentOK'
  BY <1>22 DEF ReplaceFails
<1>23. ASSUME NEW p \in Proc, SaveReplacedIdentity(p) PROVE ContentOK'
  BY <1>23 DEF SaveReplacedIdentity
<1>24. ASSUME NEW p \in Proc, SaveReplacedFails(p) PROVE ContentOK'
  BY <1>24 DEF SaveReplacedFails
<1>25. ASSUME NEW p \in Proc, RebindRows(p) PROVE ContentOK'
  <2>1. cur[p] \in Identities
    BY <1>25 DEF RebindRows
  <2>2. rows' \in [Identities -> DID]
    <3>1. CASE rows' = [rows EXCEPT ![cur[p]] = IF @ = "k1" THEN "e1" ELSE @]
      BY <2>1, <3>1
    <3>2. CASE UNCHANGED rows
      BY <3>2
    <3>. QED
      BY <1>25, <3>1, <3>2 DEF RebindRows
  <2>. QED
    BY <1>25, <2>2 DEF RebindRows
<1>26. ASSUME NEW p \in Proc, ReplaceDone(p) PROVE ContentOK'
  BY <1>26 DEF ReplaceDone
<1>27. ASSUME NEW p \in Proc, BeginValidate(p) PROVE ContentOK'
  BY <1>27 DEF BeginValidate, SaveJournal
<1>28. ASSUME NEW p \in Proc, Validate(p) PROVE ContentOK'
  BY <1>28 DEF Validate
<1>29. ASSUME NEW p \in Proc, SaveMeta(p) PROVE ContentOK'
  BY <1>29 DEF SaveMeta
<1>30. ASSUME NEW p \in Proc, ClearJournal(p) PROVE ContentOK'
  BY <1>30 DEF ClearJournal
<1>31. ASSUME NEW p \in Proc, Release(p) PROVE ContentOK'
  BY <1>31 DEF Release, ForgetLocals, NothingSeen
<1>32. CASE UNCHANGED vars
  BY <1>32
<1>. QED
  BY <1>1, <1>2, <1>3, <1>4, <1>5, <1>6, <1>7, <1>8, <1>9, <1>10, <1>11, <1>12,
     <1>13, <1>14, <1>15, <1>16, <1>17, <1>18, <1>19, <1>20, <1>21, <1>22, <1>23, <1>24,
     <1>25, <1>26, <1>27, <1>28, <1>29, <1>30, <1>31, <1>32
  DEF Next, Step

(* The journal never names a backup that was not taken, and no process writes
   a version past the latest. *)
LEMMA RecordStep == Inv /\ [Next]_vars => RecordOK'
<1> SUFFICES ASSUME Inv, [Next]_vars PROVE RecordOK'
  OBVIOUS
<1> USE UpgradeConstants DEF Inv, TypeOK, RecordOK, LocalOK, HistoryOK, PlanInv,
        LatestWorkspaceSchemaVersion, Goto, content, record, locks, local, history,
        vars
<1>1. CASE LegacyLockExpires
  BY <1>1 DEF LegacyLockExpires
<1>2. ASSUME NEW p \in Proc, InspectUnlocked(p) PROVE RecordOK'
  BY <1>2 DEF InspectUnlocked
<1>3. ASSUME NEW p \in Proc, RunCommand(p) PROVE RecordOK'
  BY <1>3 DEF RunCommand
<1>4. ASSUME NEW p \in Proc, Abort(p) PROVE RecordOK'
  BY <1>4 DEF Abort, ForgetLocals, NothingSeen
<1>5. ASSUME NEW p \in Proc, ClearStaleJournal(p) PROVE RecordOK'
  BY <1>5 DEF ClearStaleJournal
<1>6. ASSUME NEW p \in Proc, AcquireFileLock(p) PROVE RecordOK'
  BY <1>6 DEF AcquireFileLock
<1>7. ASSUME NEW p \in Proc, LockedOut(p) PROVE RecordOK'
  BY <1>7 DEF LockedOut
<1>8. ASSUME NEW p \in Proc, InspectLocked(p) PROVE RecordOK'
  BY <1>8 DEF InspectLocked, Detection, HasWorkspace
<1>9. ASSUME NEW p \in Proc, CreateBackup(p) PROVE RecordOK'
  <2>1. CASE journal # 0
    BY <1>9, <2>1 DEF CreateBackup
  <2>2. CASE journal = 0
    <3>1. /\ backups' = Append(backups, midway)
          /\ backup' = [backup EXCEPT ![p] = Len(backups) + 1]
      BY <1>9, <2>2 DEF CreateBackup
    <3>2. backups' \in Seq(BOOLEAN) /\ Len(backups') = Len(backups) + 1
      BY <3>1
    <3>. QED
      BY <1>9, <2>2, <3>1, <3>2 DEF CreateBackup
  <2>. QED
    BY <2>1, <2>2
<1>10. ASSUME NEW p \in Proc, CheckMigration(p) PROVE RecordOK'
  BY <1>10 DEF CheckMigration, SaveJournal
<1>11. ASSUME NEW p \in Proc, BeginApply(p) PROVE RecordOK'
  BY <1>11 DEF BeginApply, SaveJournal
<1>12. ASSUME NEW p \in Proc, ApplyConfig(p) PROVE RecordOK'
  BY <1>12 DEF ApplyConfig
<1>13. ASSUME NEW p \in Proc, RemoveLegacyConfig(p) PROVE RecordOK'
  BY <1>13 DEF RemoveLegacyConfig
<1>14. ASSUME NEW p \in Proc, NEW i \in Identities, ImportIdentity(p, i) PROVE RecordOK'
  BY <1>14 DEF ImportIdentity
<1>15. ASSUME NEW p \in Proc, ImportIdentitiesDone(p) PROVE RecordOK'
  BY <1>15 DEF ImportIdentitiesDone
<1>16. ASSUME NEW p \in Proc, NEW i \in Identities, ImportRows(p, i) PROVE RecordOK'
  BY <1>16 DEF ImportRows
<1>17. ASSUME NEW p \in Proc, ImportRowsDone(p) PROVE RecordOK'
  BY <1>17 DEF ImportRowsDone
<1>18. ASSUME NEW p \in Proc, EnsureStoreSchema(p) PROVE RecordOK'
  BY <1>18 DEF EnsureStoreSchema
<1>19. ASSUME NEW p \in Proc, CleanupLegacySkill(p) PROVE RecordOK'
  BY <1>19 DEF CleanupLegacySkill
<1>20. ASSUME NEW p \in Proc, ListExistingK1(p) PROVE RecordOK'
  BY <1>20 DEF ListExistingK1
<1>21. ASSUME NEW p \in Proc, NEW i \in Identities, ReplaceRemote(p, i) PROVE RecordOK'
  BY <1>21 DEF ReplaceRemote
<1>22. ASSUME NEW p \in Proc, NEW i \in Identities, ReplaceFails(p, i) PROVE RecordOK'
  BY <1>22 DEF ReplaceFails
<1>23. ASSUME NEW p \in Proc, SaveReplacedIdentity(p) PROVE RecordOK'
  BY <1>23 DEF SaveReplacedIdentity
<1>24. ASSUME NEW p \in Proc, SaveReplacedFails(p) PROVE RecordOK'
  BY <1>24 DEF SaveReplacedFails
<1>25. ASSUME NEW p \in Proc, RebindRows(p) PROVE RecordOK'
  BY <1>25 DEF RebindRows
<1>26. ASSUME NEW p \in Proc, ReplaceDone(p) PROVE RecordOK'
  BY <1>26 DEF ReplaceDone
<1>27. ASSUME NEW p \in Proc, BeginValidate(p) PROVE RecordOK'
  BY <1>27 DEF BeginValidate, SaveJournal
<1>28. ASSUME NEW p \in Proc, Validate(p) PROVE RecordOK'
  BY <1>28 DEF Validate
<1>29. ASSUME NEW p \in Proc, SaveMeta(p) PROVE RecordOK'
  <2>1. from[p] \in 0..LatestWorkspaceSchemaVersion /\ from[p] < latestVersion[p]
    BY <1>29 DEF SaveMeta, Planned
  <2>2. latestVersion[p] \in 1..LatestWorkspaceSchemaVersion
    OBVIOUS
  <2>3. from[p] + 1 \in 0..LatestWorkspaceSchemaVersion
    BY <2>1, <2>2
  <2>. QED
    BY <1>29, <2>3 DEF SaveMeta
<1>30. ASSUME NEW p \in Proc, ClearJournal(p) PROVE RecordOK'
  BY <1>30 DEF ClearJournal
<1>31. ASSUME NEW p \in Proc, Release(p) PROVE RecordOK'
  BY <1>31 DEF Release, ForgetLocals, NothingSeen
<1>32. CASE UNCHANGED vars
  BY <1>32
<1>. QED
  BY <1>1, <1>2, <1>3, <1>4, <1>5, <1>6, <1>7, <1>8, <1>9, <1>10, <1>11, <1>12,
     <1>13, <1>14, <1>15, <1>16, <1>17, <1>18, <1>19, <1>20, <1>21, <1>22, <1>23, <1>24,
     <1>25, <1>26, <1>27, <1>28, <1>29, <1>30, <1>31, <1>32
  DEF Next, Step

(* An invocation keeps its place in the program and a backup that exists. *)
LEMMA LocalStep == Inv /\ [Next]_vars => LocalOK'
<1> SUFFICES ASSUME Inv, [Next]_vars PROVE LocalOK'
  OBVIOUS
<1> USE UpgradeConstants DEF Inv, TypeOK, ContentOK, RecordOK, LocalOK, HistoryOK,
        PlanInv, Planned, Positions, LatestWorkspaceSchemaVersion, Goto, content,
        record, locks, local, history, vars
<1>1. CASE LegacyLockExpires
  BY <1>1 DEF LegacyLockExpires
<1>2. ASSUME NEW p \in Proc, InspectUnlocked(p) PROVE LocalOK'
  BY <1>2 DEF InspectUnlocked
<1>3. ASSUME NEW p \in Proc, RunCommand(p) PROVE LocalOK'
  BY <1>3 DEF RunCommand
<1>4. ASSUME NEW p \in Proc, Abort(p) PROVE LocalOK'
  BY <1>4 DEF Abort, ForgetLocals, NothingSeen
<1>5. ASSUME NEW p \in Proc, ClearStaleJournal(p) PROVE LocalOK'
  BY <1>5 DEF ClearStaleJournal
<1>6. ASSUME NEW p \in Proc, AcquireFileLock(p) PROVE LocalOK'
  BY <1>6 DEF AcquireFileLock
<1>7. ASSUME NEW p \in Proc, LockedOut(p) PROVE LocalOK'
  BY <1>7 DEF LockedOut
<1>8. ASSUME NEW p \in Proc, InspectLocked(p) PROVE LocalOK'
  BY <1>8 DEF InspectLocked, Detection, HasWorkspace
<1>9. ASSUME NEW p \in Proc, CreateBackup(p) PROVE LocalOK'
  <2>1. pc' \in [Proc -> Positions]
    BY <1>9 DEF CreateBackup
  <2>2. backup' \in [Proc -> 0..Len(backups')]
    <3>1. CASE journal # 0
      BY <1>9, <3>1 DEF CreateBackup
    <3>2. CASE journal = 0
      <4>1. /\ backups' = Append(backups, midway)
            /\ backup' = [backup EXCEPT ![p] = Len(backups) + 1]
        BY <1>9, <3>2 DEF CreateBackup
      <4>2. Len(backups') = Len(backups) + 1 /\ Len(backups) \in Nat
        BY <4>1
      <4>. QED
        BY <4>1, <4>2
    <3>. QED
      BY <3>1, <3>2
  <2>. QED
    BY <1>9, <2>1, <2>2 DEF CreateBackup
<1>10. ASSUME NEW p \in Proc, CheckMigration(p) PROVE LocalOK'
  BY <1>10 DEF CheckMigration, SaveJournal
<1>11. ASSUME NEW p \in Proc, BeginApply(p) PROVE LocalOK'
  BY <1>11 DEF BeginApply, SaveJournal
<1>12. ASSUME NEW p \in Proc, ApplyConfig(p) PROVE LocalOK'
  BY <1>12 DEF ApplyConfig
<1>13. ASSUME NEW p \in Proc, RemoveLegacyConfig(p) PROVE LocalOK'
  BY <1>13 DEF RemoveLegacyConfig
<1>14. ASSUME NEW p \in Proc, NEW i \in Identities, ImportIdentity(p, i) PROVE LocalOK'
  BY <1>14 DEF ImportIdentity
<1>15. ASSUME NEW p \in Proc, ImportIdentitiesDone(p) PROVE LocalOK'
  BY <1>15 DEF ImportIdentitiesDone
<1>16. ASSUME NEW p \in Proc, NEW i \in Identities, ImportRows(p, i) PROVE LocalOK'
  BY <1>16 DEF ImportRows
<1>17. ASSUME NEW p \in Proc, ImportRowsDone(p) PROVE LocalOK'
  BY <1>17 DEF ImportRowsDone
<1>18. ASSUME NEW p \in Proc, EnsureStoreSchema(p) PROVE LocalOK'
  BY <1>18 DEF EnsureStoreSchema
<1>19. ASSUME NEW p \in Proc, CleanupLegacySkill(p) PROVE LocalOK'
  BY <1>19 DEF CleanupLegacySkill
<1>20. ASSUME NEW p \in Proc, ListExistingK1(p) PROVE LocalOK'
  BY <1>20 DEF ListExistingK1
<1>21. ASSUME NEW p \in Proc, NEW i \in Identities, ReplaceRemote(p, i) PROVE LocalOK'
  BY <1>21 DEF ReplaceRemote
<1>22. ASSUME NEW p \in Proc, NEW i \in Identities, ReplaceFails(p, i) PROVE LocalOK'
  BY <1>22 DEF ReplaceFails
<1>23. ASSUME NEW p \in Proc, SaveReplacedIdentity(p) PROVE LocalOK'
  BY <1>23 DEF SaveReplacedIdentity
<1>24. ASSUME NEW p \in Proc, SaveReplacedFails(p) PROVE LocalOK'
  BY <1>24 DEF SaveReplacedFails
<1>25. ASSUME NEW p \in Proc, RebindRows(p) PROVE LocalOK'
  <2>1. warnings' \in [Proc -> SUBSET Identities]
    <3>1. cur[p] \in Identities
      BY <1>25 DEF RebindRows
    <3>2. CASE warnings' = [warnings EXCEPT ![p] = @ \union {cur[p]}]
      BY <3>1, <3>2
    <3>3. CASE UNCHANGED warnings
      BY <3>3
    <3>. QED
      BY <1>25, <3>2, <3>3 DEF RebindRows
  <2>. QED
    BY <1>25, <2>1 DEF RebindRows
<1>26. ASSUME NEW p \in Proc, ReplaceDone(p) PROVE LocalOK'
  BY <1>26 DEF ReplaceDone
<1>27. ASSUME NEW p \in Proc, BeginValidate(p) PROVE LocalOK'
  BY <1>27 DEF BeginValidate, SaveJournal
<1>28. ASSUME NEW p \in Proc, Validate(p) PROVE LocalOK'
  BY <1>28 DEF Validate
<1>29. ASSUME NEW p \in Proc, SaveMeta(p) PROVE LocalOK'
  BY <1>29 DEF SaveMeta
<1>30. ASSUME NEW p \in Proc, ClearJournal(p) PROVE LocalOK'
  BY <1>30 DEF ClearJournal
<1>31. ASSUME NEW p \in Proc, Release(p) PROVE LocalOK'
  <2>1. pc' \in [Proc -> Positions]
    <3>1. pc' = [pc EXCEPT ![p] = "ready"] \/ pc' = [pc EXCEPT ![p] = "idle"]
      BY <1>31 DEF Release
    <3>. QED
      BY <3>1
  <2>2. seen' \in [Proc -> [hasWorkspace : BOOLEAN, configExists : BOOLEAN,
                             legacyConfigExists : BOOLEAN]]
    BY <1>31 DEF Release, ForgetLocals, NothingSeen
  <2>. QED
    BY <1>31, <2>1, <2>2 DEF Release, ForgetLocals
<1>32. CASE UNCHANGED vars
  BY <1>32
<1>. QED
  BY <1>1, <1>2, <1>3, <1>4, <1>5, <1>6, <1>7, <1>8, <1>9, <1>10, <1>11, <1>12,
     <1>13, <1>14, <1>15, <1>16, <1>17, <1>18, <1>19, <1>20, <1>21, <1>22, <1>23, <1>24,
     <1>25, <1>26, <1>27, <1>28, <1>29, <1>30, <1>31, <1>32
  DEF Next, Step

(* Interruptions stay within their bound. *)
LEMMA HistoryStep == Inv /\ [Next]_vars => HistoryOK'
<1> SUFFICES ASSUME Inv, [Next]_vars PROVE HistoryOK'
  OBVIOUS
<1> USE UpgradeConstants DEF Inv, TypeOK, HistoryOK, Goto, content, record, locks,
        local, history, vars
<1>1. CASE LegacyLockExpires
  BY <1>1 DEF LegacyLockExpires
<1>2. ASSUME NEW p \in Proc, InspectUnlocked(p) PROVE HistoryOK'
  BY <1>2 DEF InspectUnlocked
<1>3. ASSUME NEW p \in Proc, RunCommand(p) PROVE HistoryOK'
  BY <1>3 DEF RunCommand
<1>4. ASSUME NEW p \in Proc, Abort(p) PROVE HistoryOK'
  BY <1>4 DEF Abort, ForgetLocals, NothingSeen
<1>5. ASSUME NEW p \in Proc, ClearStaleJournal(p) PROVE HistoryOK'
  BY <1>5 DEF ClearStaleJournal
<1>6. ASSUME NEW p \in Proc, AcquireFileLock(p) PROVE HistoryOK'
  BY <1>6 DEF AcquireFileLock
<1>7. ASSUME NEW p \in Proc, LockedOut(p) PROVE HistoryOK'
  BY <1>7 DEF LockedOut
<1>8. ASSUME NEW p \in Proc, InspectLocked(p) PROVE HistoryOK'
  BY <1>8 DEF InspectLocked, Detection, HasWorkspace
<1>9. ASSUME NEW p \in Proc, CreateBackup(p) PROVE HistoryOK'
  BY <1>9 DEF CreateBackup
<1>10. ASSUME NEW p \in Proc, CheckMigration(p) PROVE HistoryOK'
  BY <1>10 DEF CheckMigration, SaveJournal
<1>11. ASSUME NEW p \in Proc, BeginApply(p) PROVE HistoryOK'
  BY <1>11 DEF BeginApply, SaveJournal
<1>12. ASSUME NEW p \in Proc, ApplyConfig(p) PROVE HistoryOK'
  BY <1>12 DEF ApplyConfig
<1>13. ASSUME NEW p \in Proc, RemoveLegacyConfig(p) PROVE HistoryOK'
  BY <1>13 DEF RemoveLegacyConfig
<1>14. ASSUME NEW p \in Proc, NEW i \in Identities, ImportIdentity(p, i) PROVE HistoryOK'
  BY <1>14 DEF ImportIdentity
<1>15. ASSUME NEW p \in Proc, ImportIdentitiesDone(p) PROVE HistoryOK'
  BY <1>15 DEF ImportIdentitiesDone
<1>16. ASSUME NEW p \in Proc, NEW i \in Identities, ImportRows(p, i) PROVE HistoryOK'
  BY <1>16 DEF ImportRows
<1>17. ASSUME NEW p \in Proc, ImportRowsDone(p) PROVE HistoryOK'
  BY <1>17 DEF ImportRowsDone
<1>18. ASSUME NEW p \in Proc, EnsureStoreSchema(p) PROVE HistoryOK'
  BY <1>18 DEF EnsureStoreSchema
<1>19. ASSUME NEW p \in Proc, CleanupLegacySkill(p) PROVE HistoryOK'
  BY <1>19 DEF CleanupLegacySkill
<1>20. ASSUME NEW p \in Proc, ListExistingK1(p) PROVE HistoryOK'
  BY <1>20 DEF ListExistingK1
<1>21. ASSUME NEW p \in Proc, NEW i \in Identities, ReplaceRemote(p, i) PROVE HistoryOK'
  BY <1>21 DEF ReplaceRemote
<1>22. ASSUME NEW p \in Proc, NEW i \in Identities, ReplaceFails(p, i) PROVE HistoryOK'
  BY <1>22 DEF ReplaceFails
<1>23. ASSUME NEW p \in Proc, SaveReplacedIdentity(p) PROVE HistoryOK'
  BY <1>23 DEF SaveReplacedIdentity
<1>24. ASSUME NEW p \in Proc, SaveReplacedFails(p) PROVE HistoryOK'
  BY <1>24 DEF SaveReplacedFails
<1>25. ASSUME NEW p \in Proc, RebindRows(p) PROVE HistoryOK'
  BY <1>25 DEF RebindRows
<1>26. ASSUME NEW p \in Proc, ReplaceDone(p) PROVE HistoryOK'
  BY <1>26 DEF ReplaceDone
<1>27. ASSUME NEW p \in Proc, BeginValidate(p) PROVE HistoryOK'
  BY <1>27 DEF BeginValidate, SaveJournal
<1>28. ASSUME NEW p \in Proc, Validate(p) PROVE HistoryOK'
  BY <1>28 DEF Validate
<1>29. ASSUME NEW p \in Proc, SaveMeta(p) PROVE HistoryOK'
  BY <1>29 DEF SaveMeta
<1>30. ASSUME NEW p \in Proc, ClearJournal(p) PROVE HistoryOK'
  BY <1>30 DEF ClearJournal
<1>31. ASSUME NEW p \in Proc, Release(p) PROVE HistoryOK'
  BY <1>31 DEF Release, ForgetLocals, NothingSeen
<1>32. CASE UNCHANGED vars
  BY <1>32
<1>. QED
  BY <1>1, <1>2, <1>3, <1>4, <1>5, <1>6, <1>7, <1>8, <1>9, <1>10, <1>11, <1>12,
     <1>13, <1>14, <1>15, <1>16, <1>17, <1>18, <1>19, <1>20, <1>21, <1>22, <1>23, <1>24,
     <1>25, <1>26, <1>27, <1>28, <1>29, <1>30, <1>31, <1>32
  DEF Next, Step

(* Only AcquireFileLock enters the locked region and only when nobody is in it;
   every way out of it gives the lock back. *)
LEMMA LockStep == Inv /\ [Next]_vars => MutualExclusion'
<1> SUFFICES ASSUME Inv, [Next]_vars PROVE MutualExclusion'
  OBVIOUS
<1> USE UpgradeConstants DEF Inv, TypeOK, RecordOK, LocalOK, MutualExclusion,
        HoldsLock, Running, Goto, content, record, locks, local, history, vars
<1>1. CASE LegacyLockExpires
  BY <1>1 DEF LegacyLockExpires
<1>2. ASSUME NEW p \in Proc, InspectUnlocked(p) PROVE MutualExclusion'
  BY <1>2 DEF InspectUnlocked
<1>3. ASSUME NEW p \in Proc, RunCommand(p) PROVE MutualExclusion'
  BY <1>3 DEF RunCommand
<1>4. ASSUME NEW p \in Proc, Abort(p) PROVE MutualExclusion'
  BY <1>4 DEF Abort, ForgetLocals, NothingSeen
<1>5. ASSUME NEW p \in Proc, ClearStaleJournal(p) PROVE MutualExclusion'
  BY <1>5 DEF ClearStaleJournal
<1>6. ASSUME NEW p \in Proc, AcquireFileLock(p) PROVE MutualExclusion'
  BY <1>6 DEF AcquireFileLock
<1>7. ASSUME NEW p \in Proc, LockedOut(p) PROVE MutualExclusion'
  BY <1>7 DEF LockedOut
<1>8. ASSUME NEW p \in Proc, InspectLocked(p) PROVE MutualExclusion'
  BY <1>8 DEF InspectLocked, Detection, HasWorkspace
<1>9. ASSUME NEW p \in Proc, CreateBackup(p) PROVE MutualExclusion'
  BY <1>9 DEF CreateBackup
<1>10. ASSUME NEW p \in Proc, CheckMigration(p) PROVE MutualExclusion'
  BY <1>10 DEF CheckMigration, SaveJournal
<1>11. ASSUME NEW p \in Proc, BeginApply(p) PROVE MutualExclusion'
  BY <1>11 DEF BeginApply, SaveJournal
<1>12. ASSUME NEW p \in Proc, ApplyConfig(p) PROVE MutualExclusion'
  BY <1>12 DEF ApplyConfig
<1>13. ASSUME NEW p \in Proc, RemoveLegacyConfig(p) PROVE MutualExclusion'
  BY <1>13 DEF RemoveLegacyConfig
<1>14. ASSUME NEW p \in Proc, NEW i \in Identities, ImportIdentity(p, i) PROVE MutualExclusion'
  BY <1>14 DEF ImportIdentity
<1>15. ASSUME NEW p \in Proc, ImportIdentitiesDone(p) PROVE MutualExclusion'
  BY <1>15 DEF ImportIdentitiesDone
<1>16. ASSUME NEW p \in Proc, NEW i \in Identities, ImportRows(p, i) PROVE MutualExclusion'
  BY <1>16 DEF ImportRows
<1>17. ASSUME NEW p \in Proc, ImportRowsDone(p) PROVE MutualExclusion'
  BY <1>17 DEF ImportRowsDone
<1>18. ASSUME NEW p \in Proc, EnsureStoreSchema(p) PROVE MutualExclusion'
  BY <1>18 DEF EnsureStoreSchema
<1>19. ASSUME NEW p \in Proc, CleanupLegacySkill(p) PROVE MutualExclusion'
  BY <1>19 DEF CleanupLegacySkill
<1>20. ASSUME NEW p \in Proc, ListExistingK1(p) PROVE MutualExclusion'
  BY <1>20 DEF ListExistingK1
<1>21. ASSUME NEW p \in Proc, NEW i \in Identities, ReplaceRemote(p, i) PROVE MutualExclusion'
  BY <1>21 DEF ReplaceRemote
<1>22. ASSUME NEW p \in Proc, NEW i \in Identities, ReplaceFails(p, i) PROVE MutualExclusion'
  BY <1>22 DEF ReplaceFails
<1>23. ASSUME NEW p \in Proc, SaveReplacedIdentity(p) PROVE MutualExclusion'
  BY <1>23 DEF SaveReplacedIdentity
<1>24. ASSUME NEW p \in Proc, SaveReplacedFails(p) PROVE MutualExclusion'
  BY <1>24 DEF SaveReplacedFails
<1>25. ASSUME NEW p \in Proc, RebindRows(p) PROVE MutualExclusion'
  BY <1>25 DEF RebindRows
<1>26. ASSUME NEW p \in Proc, ReplaceDone(p) PROVE MutualExclusion'
  BY <1>26 DEF ReplaceDone
<1>27. ASSUME NEW p \in Proc, BeginValidate(p) PROVE MutualExclusion'
  BY <1>27 DEF BeginValidate, SaveJournal
<1>28. ASSUME NEW p \in Proc, Validate(p) PROVE MutualExclusion'
  BY <1>28 DEF Validate
<1>29. ASSUME NEW p \in Proc, SaveMeta(p) PROVE MutualExclusion'
  BY <1>29 DEF SaveMeta
<1>30. ASSUME NEW p \in Proc, ClearJournal(p) PROVE MutualExclusion'
  BY <1>30 DEF ClearJournal
<1>31. ASSUME NEW p \in Proc, Release(p) PROVE MutualExclusion'
  BY <1>31 DEF Release, ForgetLocals, NothingSeen
<1>32. CASE UNCHANGED vars
  BY <1>32
<1>. QED
  BY <1>1, <1>2, <1>3, <1>4, <1>5, <1>6, <1>7, <1>8, <1>9, <1>10, <1>11, <1>12,
     <1>13, <1>14, <1>15, <1>16, <1>17, <1>18, <1>19, <1>20, <1>21, <1>22, <1>23, <1>24,
     <1>25, <1>26, <1>27, <1>28, <1>29, <1>30, <1>31, <1>32
  DEF Next, Step

(* While one process works on a version, nobody else moves meta.json. *)
LEMMA PlanStep == Inv /\ [Next]_vars => PlanInv'
<1> SUFFICES ASSUME Inv, [Next]_vars PROVE PlanInv'
  OBVIOUS
<1> USE UpgradeConstants DEF Inv, TypeOK, RecordOK, LocalOK, MutualExclusion,
        HoldsLock, PlanInv, Planned, Settled, LatestWorkspaceSchemaVersion, Goto,
        content, record, locks, local, history, vars
<1>1. CASE LegacyLockExpires
  BY <1>1 DEF LegacyLockExpires
<1>2. ASSUME NEW p \in Proc, InspectUnlocked(p) PROVE PlanInv'
  BY <1>2 DEF InspectUnlocked
<1>3. ASSUME NEW p \in Proc, RunCommand(p) PROVE PlanInv'
  BY <1>3 DEF RunCommand
<1>4. ASSUME NEW p \in Proc, Abort(p) PROVE PlanInv'
  BY <1>4 DEF Abort, ForgetLocals, NothingSeen
<1>5. ASSUME NEW p \in Proc, ClearStaleJournal(p) PROVE PlanInv'
  BY <1>5 DEF ClearStaleJournal
<1>6. ASSUME NEW p \in Proc, AcquireFileLock(p) PROVE PlanInv'
  BY <1>6 DEF AcquireFileLock
<1>7. ASSUME NEW p \in Proc, LockedOut(p) PROVE PlanInv'
  BY <1>7 DEF LockedOut
<1>8. ASSUME NEW p \in Proc, InspectLocked(p) PROVE PlanInv'
  BY <1>8 DEF InspectLocked, Detection, HasWorkspace
<1>9. ASSUME NEW p \in Proc, CreateBackup(p) PROVE PlanInv'
  <2>1. /\ pc[p] = "backup" /\ from' = from /\ cur' = cur /\ meta' = meta
        /\ pc' = [pc EXCEPT ![p] = IF from[p] > latestVersion[p] THEN "failing" ELSE "check"]
    BY <1>9 DEF CreateBackup
  <2>2. from[p] \in 0..LatestWorkspaceSchemaVersion /\ from[p] # latestVersion[p] /\ from[p] = meta
    BY <2>1
  <2>3. latestVersion[p] \in 1..LatestWorkspaceSchemaVersion
    OBVIOUS
  <2>4. pc'[p] = "check" => from[p] < latestVersion[p]
    BY <2>1, <2>2, <2>3
  <2>. QED
    BY <2>1, <2>2, <2>4
<1>10. ASSUME NEW p \in Proc, CheckMigration(p) PROVE PlanInv'
  BY <1>10 DEF CheckMigration, SaveJournal
<1>11. ASSUME NEW p \in Proc, BeginApply(p) PROVE PlanInv'
  BY <1>11 DEF BeginApply, SaveJournal
<1>12. ASSUME NEW p \in Proc, ApplyConfig(p) PROVE PlanInv'
  BY <1>12 DEF ApplyConfig
<1>13. ASSUME NEW p \in Proc, RemoveLegacyConfig(p) PROVE PlanInv'
  BY <1>13 DEF RemoveLegacyConfig
<1>14. ASSUME NEW p \in Proc, NEW i \in Identities, ImportIdentity(p, i) PROVE PlanInv'
  BY <1>14 DEF ImportIdentity
<1>15. ASSUME NEW p \in Proc, ImportIdentitiesDone(p) PROVE PlanInv'
  BY <1>15 DEF ImportIdentitiesDone
<1>16. ASSUME NEW p \in Proc, NEW i \in Identities, ImportRows(p, i) PROVE PlanInv'
  BY <1>16 DEF ImportRows
<1>17. ASSUME NEW p \in Proc, ImportRowsDone(p) PROVE PlanInv'
  BY <1>17 DEF ImportRowsDone
<1>18. ASSUME NEW p \in Proc, EnsureStoreSchema(p) PROVE PlanInv'
  BY <1>18 DEF EnsureStoreSchema
<1>19. ASSUME NEW p \in Proc, CleanupLegacySkill(p) PROVE PlanInv'
  BY <1>19 DEF CleanupLegacySkill
<1>20. ASSUME NEW p \in Proc, ListExistingK1(p) PROVE PlanInv'
  BY <1>20 DEF ListExistingK1
<1>21. ASSUME NEW p \in Proc, NEW i \in Identities, ReplaceRemote(p, i) PROVE PlanInv'
  BY <1>21 DEF ReplaceRemote
<1>22. ASSUME NEW p \in Proc, NEW i \in Identities, ReplaceFails(p, i) PROVE PlanInv'
  BY <1>22 DEF ReplaceFails
<1>23. ASSUME NEW p \in Proc, SaveReplacedIdentity(p) PROVE PlanInv'
  BY <1>23 DEF SaveReplacedIdentity
<1>24. ASSUME NEW p \in Proc, SaveReplacedFails(p) PROVE PlanInv'
  BY <1>24 DEF SaveReplacedFails
<1>25. ASSUME NEW p \in Proc, RebindRows(p) PROVE PlanInv'
  BY <1>25 DEF RebindRows
<1>26. ASSUME NEW p \in Proc, ReplaceDone(p) PROVE PlanInv'
  BY <1>26 DEF ReplaceDone
<1>27. ASSUME NEW p \in Proc, BeginValidate(p) PROVE PlanInv'
  BY <1>27 DEF BeginValidate, SaveJournal
<1>28. ASSUME NEW p \in Proc, Validate(p) PROVE PlanInv'
  BY <1>28 DEF Validate
<1>29. ASSUME NEW p \in Proc, SaveMeta(p) PROVE PlanInv'
  <2>1. /\ pc[p] = "save_meta" /\ from[p] = meta /\ from[p] < latestVersion[p]
        /\ from[p] \in 0..LatestWorkspaceSchemaVersion
    BY <1>29 DEF SaveMeta
  <2>2. latestVersion[p] \in 1..LatestWorkspaceSchemaVersion
    OBVIOUS
  <2>3. ASSUME NEW q \in Proc, q # p
        PROVE pc'[q] = pc[q] /\ pc[q] \notin Planned \union {"backup"}
    BY <1>29, <2>1, <2>3 DEF SaveMeta
  <2>4. CASE from[p] + 1 = latestVersion[p]
    <3>1. pc'[p] = "clear"
      BY <1>29, <2>4 DEF SaveMeta
    <3>. QED
      BY <2>3, <3>1
  <2>5. CASE from[p] + 1 # latestVersion[p]
    <3>1. pc'[p] = "check" /\ from'[p] = from[p] + 1 /\ meta' = from[p] + 1
      BY <1>29, <2>5 DEF SaveMeta
    <3>2. from'[p] < latestVersion[p]
      BY <2>1, <2>2, <2>5, <3>1
    <3>. QED
      BY <2>3, <3>1, <3>2
  <2>. QED
    BY <2>4, <2>5
<1>30. ASSUME NEW p \in Proc, ClearJournal(p) PROVE PlanInv'
  BY <1>30 DEF ClearJournal
<1>31. ASSUME NEW p \in Proc, Release(p) PROVE PlanInv'
  BY <1>31 DEF Release, ForgetLocals, NothingSeen
<1>32. CASE UNCHANGED vars
  BY <1>32
<1>. QED
  BY <1>1, <1>2, <1>3, <1>4, <1>5, <1>6, <1>7, <1>8, <1>9, <1>10, <1>11, <1>12,
     <1>13, <1>14, <1>15, <1>16, <1>17, <1>18, <1>19, <1>20, <1>21, <1>22, <1>23, <1>24,
     <1>25, <1>26, <1>27, <1>28, <1>29, <1>30, <1>31, <1>32
  DEF Next, Step


LEMMA InvAlways == Spec => []Inv
<1>1. Init => Inv
  BY InitInv
<1>2. Inv /\ [Next]_vars => Inv'
  BY ContentStep, RecordStep, LocalStep, HistoryStep, LockStep, PlanStep DEF Inv, TypeOK
<1>. QED
  BY <1>1, <1>2, PTL DEF Spec

(* Every variable keeps its type: no journal or process names a backup that  *)
(* does not exist, and no version past the latest is recorded.              *)
THEOREM TypeCorrect == Spec => []TypeOK
<1>1. Inv => TypeOK
  BY DEF Inv
<1>. QED
  BY <1>1, InvAlways, PTL

(* The OS lock excludes: at most one process migrates the workspace, whatever *)
(* releases are installed and however often upgrades stop.                   *)
THEOREM UpgradesExclude == Spec => []MutualExclusion
<1>1. Inv => MutualExclusion
  BY DEF Inv
<1>. QED
  BY <1>1, InvAlways, PTL

(* meta.json climbs one version at a time and never falls, whatever releases *)
(* are installed.                                                           *)
THEOREM MetaClimbs == Spec => StepwiseMeta
<1>1. ASSUME Inv, [Next]_vars PROVE [meta' = meta + 1]_meta
  <2> USE <1>1 DEF Inv, PlanInv, Planned, Goto, content, record, locks, local, history, vars
  <2>1. CASE LegacyLockExpires
    BY <2>1 DEF LegacyLockExpires
  <2>2. ASSUME NEW p \in Proc, InspectUnlocked(p) PROVE [meta' = meta + 1]_meta
    BY <2>2 DEF InspectUnlocked
  <2>3. ASSUME NEW p \in Proc, RunCommand(p) PROVE [meta' = meta + 1]_meta
    BY <2>3 DEF RunCommand
  <2>4. ASSUME NEW p \in Proc, Abort(p) PROVE [meta' = meta + 1]_meta
    BY <2>4 DEF Abort, ForgetLocals, NothingSeen
  <2>5. ASSUME NEW p \in Proc, ClearStaleJournal(p) PROVE [meta' = meta + 1]_meta
    BY <2>5 DEF ClearStaleJournal
  <2>6. ASSUME NEW p \in Proc, AcquireFileLock(p) PROVE [meta' = meta + 1]_meta
    BY <2>6 DEF AcquireFileLock
  <2>7. ASSUME NEW p \in Proc, LockedOut(p) PROVE [meta' = meta + 1]_meta
    BY <2>7 DEF LockedOut
  <2>8. ASSUME NEW p \in Proc, InspectLocked(p) PROVE [meta' = meta + 1]_meta
    BY <2>8 DEF InspectLocked, Detection, HasWorkspace
  <2>9. ASSUME NEW p \in Proc, CreateBackup(p) PROVE [meta' = meta + 1]_meta
    BY <2>9 DEF CreateBackup
  <2>10. ASSUME NEW p \in Proc, CheckMigration(p) PROVE [meta' = meta + 1]_meta
    BY <2>10 DEF CheckMigration, SaveJournal
  <2>11. ASSUME NEW p \in Proc, BeginApply(p) PROVE [meta' = meta + 1]_meta
    BY <2>11 DEF BeginApply, SaveJournal
  <2>12. ASSUME NEW p \in Proc, ApplyConfig(p) PROVE [meta' = meta + 1]_meta
    BY <2>12 DEF ApplyConfig
  <2>13. ASSUME NEW p \in Proc, RemoveLegacyConfig(p) PROVE [meta' = meta + 1]_meta
    BY <2>13 DEF RemoveLegacyConfig
  <2>14. ASSUME NEW p \in Proc, NEW i \in Identities, ImportIdentity(p, i)
      PROVE [meta' = meta + 1]_meta
    BY <2>14 DEF ImportIdentity
  <2>15. ASSUME NEW p \in Proc, ImportIdentitiesDone(p) PROVE [meta' = meta + 1]_meta
    BY <2>15 DEF ImportIdentitiesDone
  <2>16. ASSUME NEW p \in Proc, NEW i \in Identities, ImportRows(p, i)
      PROVE [meta' = meta + 1]_meta
    BY <2>16 DEF ImportRows
  <2>17. ASSUME NEW p \in Proc, ImportRowsDone(p) PROVE [meta' = meta + 1]_meta
    BY <2>17 DEF ImportRowsDone
  <2>18. ASSUME NEW p \in Proc, EnsureStoreSchema(p) PROVE [meta' = meta + 1]_meta
    BY <2>18 DEF EnsureStoreSchema
  <2>19. ASSUME NEW p \in Proc, CleanupLegacySkill(p) PROVE [meta' = meta + 1]_meta
    BY <2>19 DEF CleanupLegacySkill
  <2>20. ASSUME NEW p \in Proc, ListExistingK1(p) PROVE [meta' = meta + 1]_meta
    BY <2>20 DEF ListExistingK1
  <2>21. ASSUME NEW p \in Proc, NEW i \in Identities, ReplaceRemote(p, i)
      PROVE [meta' = meta + 1]_meta
    BY <2>21 DEF ReplaceRemote
  <2>22. ASSUME NEW p \in Proc, NEW i \in Identities, ReplaceFails(p, i)
      PROVE [meta' = meta + 1]_meta
    BY <2>22 DEF ReplaceFails
  <2>23. ASSUME NEW p \in Proc, SaveReplacedIdentity(p) PROVE [meta' = meta + 1]_meta
    BY <2>23 DEF SaveReplacedIdentity
  <2>24. ASSUME NEW p \in Proc, SaveReplacedFails(p) PROVE [meta' = meta + 1]_meta
    BY <2>24 DEF SaveReplacedFails
  <2>25. ASSUME NEW p \in Proc, RebindRows(p) PROVE [meta' = meta + 1]_meta
    BY <2>25 DEF RebindRows
  <2>26. ASSUME NEW p \in Proc, ReplaceDone(p) PROVE [meta' = meta + 1]_meta
    BY <2>26 DEF ReplaceDone
  <2>27. ASSUME NEW p \in Proc, BeginValidate(p) PROVE [meta' = meta + 1]_meta
    BY <2>27 DEF BeginValidate, SaveJournal
  <2>28. ASSUME NEW p \in Proc, Validate(p) PROVE [meta' = meta + 1]_meta
    BY <2>28 DEF Validate
  <2>29. ASSUME NEW p \in Proc, SaveMeta(p) PROVE [meta' = meta + 1]_meta
    BY <2>29 DEF SaveMeta
  <2>30. ASSUME NEW p \in Proc, ClearJournal(p) PROVE [meta' = meta + 1]_meta
    BY <2>30 DEF ClearJournal
  <2>31. ASSUME NEW p \in Proc, Release(p) PROVE [meta' = meta + 1]_meta
    BY <2>31 DEF Release, ForgetLocals, NothingSeen
  <2>32. CASE UNCHANGED vars
    BY <2>32
  <2>. QED
    BY <2>1, <2>2, <2>3, <2>4, <2>5, <2>6, <2>7, <2>8, <2>9, <2>10, <2>11, <2>12,
       <2>13, <2>14, <2>15, <2>16, <2>17, <2>18, <2>19, <2>20, <2>21, <2>22, <2>23, <2>24,
       <2>25, <2>26, <2>27, <2>28, <2>29, <2>30, <2>31, <2>32
    DEF Next, Step
<1>. QED
  BY <1>1, InvAlways, PTL DEF Spec, StepwiseMeta

-----------------------------------------------------------------------------
(* Every process runs a binary that knows the latest schema: without this   *)
(* the guarantees about the journal are false, for a process of the previous *)
(* release takes the journal of a newer upgrade for a stale one.             *)
SameRelease == \A p \in Proc : latestVersion[p] = LatestWorkspaceSchemaVersion

(* A backup that can be restored: it exists and was taken before any change. *)
Pristine(b) == b \in 1..Len(backups) /\ ~backups[b]

(* The journal names a pristine backup, is on disk before the first change,   *)
(* and is not cleared before the last version is recorded.                   *)
JournalInv ==
  /\ journal # 0 => Pristine(journal) /\ ~Empty
  /\ midway => journal # 0 /\ meta # LatestWorkspaceSchemaVersion
  /\ \A p \in Proc :
       /\ pc[p] \in Planned \union {"backup"} => ~Empty
       /\ pc[p] \in Planned => Pristine(backup[p]) /\ journal \in {0, backup[p]}
       /\ pc[p] \in Planned \ {"check"} => journal = backup[p]
       /\ pc[p] \in {"clear_stale", "clear"} => meta = LatestWorkspaceSchemaVersion
       /\ pc[p] = "remove_json" => config = "current"

(* A workspace that has something in it never becomes empty again, so a check
   made before the lock stays true. *)
LEMMA NonEmptyStays == Inv /\ JournalInv /\ ~Empty /\ [Next]_vars => ~Empty'
<1> SUFFICES ASSUME Inv, JournalInv, ~Empty, [Next]_vars PROVE ~Empty'
  OBVIOUS
<1> USE UpgradeConstants DEF Inv, TypeOK, ContentOK, RecordOK, LocalOK, PlanInv,
        Planned, JournalInv, Empty, HasWorkspace, HasLegacy, LegacyIdentityExists,
        Goto, content, record, locks, local, history, vars
<1>1. CASE LegacyLockExpires
  BY <1>1 DEF LegacyLockExpires
<1>2. ASSUME NEW p \in Proc, InspectUnlocked(p) PROVE ~Empty'
  BY <1>2 DEF InspectUnlocked
<1>3. ASSUME NEW p \in Proc, RunCommand(p) PROVE ~Empty'
  BY <1>3 DEF RunCommand
<1>4. ASSUME NEW p \in Proc, Abort(p) PROVE ~Empty'
  BY <1>4 DEF Abort, ForgetLocals, NothingSeen
<1>5. ASSUME NEW p \in Proc, ClearStaleJournal(p) PROVE ~Empty'
  BY <1>5 DEF ClearStaleJournal
<1>6. ASSUME NEW p \in Proc, AcquireFileLock(p) PROVE ~Empty'
  BY <1>6 DEF AcquireFileLock
<1>7. ASSUME NEW p \in Proc, LockedOut(p) PROVE ~Empty'
  BY <1>7 DEF LockedOut
<1>8. ASSUME NEW p \in Proc, InspectLocked(p) PROVE ~Empty'
  BY <1>8 DEF InspectLocked, Detection, HasWorkspace
<1>9. ASSUME NEW p \in Proc, CreateBackup(p) PROVE ~Empty'
  BY <1>9 DEF CreateBackup
<1>10. ASSUME NEW p \in Proc, CheckMigration(p) PROVE ~Empty'
  BY <1>10 DEF CheckMigration, SaveJournal
<1>11. ASSUME NEW p \in Proc, BeginApply(p) PROVE ~Empty'
  BY <1>11 DEF BeginApply, SaveJournal
<1>12. ASSUME NEW p \in Proc, ApplyConfig(p) PROVE ~Empty'
  BY <1>12 DEF ApplyConfig
<1>13. ASSUME NEW p \in Proc, RemoveLegacyConfig(p) PROVE ~Empty'
  BY <1>13 DEF RemoveLegacyConfig
<1>14. ASSUME NEW p \in Proc, NEW i \in Identities, ImportIdentity(p, i) PROVE ~Empty'
  BY <1>14 DEF ImportIdentity
<1>15. ASSUME NEW p \in Proc, ImportIdentitiesDone(p) PROVE ~Empty'
  BY <1>15 DEF ImportIdentitiesDone
<1>16. ASSUME NEW p \in Proc, NEW i \in Identities, ImportRows(p, i) PROVE ~Empty'
  BY <1>16 DEF ImportRows
<1>17. ASSUME NEW p \in Proc, ImportRowsDone(p) PROVE ~Empty'
  BY <1>17 DEF ImportRowsDone
<1>18. ASSUME NEW p \in Proc, EnsureStoreSchema(p) PROVE ~Empty'
  BY <1>18 DEF EnsureStoreSchema
<1>19. ASSUME NEW p \in Proc, CleanupLegacySkill(p) PROVE ~Empty'
  BY <1>19 DEF CleanupLegacySkill
<1>20. ASSUME NEW p \in Proc, ListExistingK1(p) PROVE ~Empty'
  BY <1>20 DEF ListExistingK1
<1>21. ASSUME NEW p \in Proc, NEW i \in Identities, ReplaceRemote(p, i) PROVE ~Empty'
  BY <1>21 DEF ReplaceRemote
<1>22. ASSUME NEW p \in Proc, NEW i \in Identities, ReplaceFails(p, i) PROVE ~Empty'
  BY <1>22 DEF ReplaceFails
<1>23. ASSUME NEW p \in Proc, SaveReplacedIdentity(p) PROVE ~Empty'
  BY <1>23 DEF SaveReplacedIdentity
<1>24. ASSUME NEW p \in Proc, SaveReplacedFails(p) PROVE ~Empty'
  BY <1>24 DEF SaveReplacedFails
<1>25. ASSUME NEW p \in Proc, RebindRows(p) PROVE ~Empty'
  BY <1>25 DEF RebindRows
<1>26. ASSUME NEW p \in Proc, ReplaceDone(p) PROVE ~Empty'
  BY <1>26 DEF ReplaceDone
<1>27. ASSUME NEW p \in Proc, BeginValidate(p) PROVE ~Empty'
  BY <1>27 DEF BeginValidate, SaveJournal
<1>28. ASSUME NEW p \in Proc, Validate(p) PROVE ~Empty'
  BY <1>28 DEF Validate
<1>29. ASSUME NEW p \in Proc, SaveMeta(p) PROVE ~Empty'
  BY <1>29 DEF SaveMeta
<1>30. ASSUME NEW p \in Proc, ClearJournal(p) PROVE ~Empty'
  BY <1>30 DEF ClearJournal
<1>31. ASSUME NEW p \in Proc, Release(p) PROVE ~Empty'
  BY <1>31 DEF Release, ForgetLocals, NothingSeen
<1>32. CASE UNCHANGED vars
  BY <1>32
<1>. QED
  BY <1>1, <1>2, <1>3, <1>4, <1>5, <1>6, <1>7, <1>8, <1>9, <1>10, <1>11, <1>12,
     <1>13, <1>14, <1>15, <1>16, <1>17, <1>18, <1>19, <1>20, <1>21, <1>22, <1>23, <1>24,
     <1>25, <1>26, <1>27, <1>28, <1>29, <1>30, <1>31, <1>32
  DEF Next, Step

(* Every step keeps the journal's promise. *)
LEMMA JournalStep == Inv /\ JournalInv /\ SameRelease /\ [Next]_vars => JournalInv'
<1> SUFFICES ASSUME Inv, JournalInv, SameRelease, [Next]_vars PROVE JournalInv'
  OBVIOUS
<1>0. ~Empty => ~Empty'
  BY NonEmptyStays
<1> USE UpgradeConstants DEF Inv, TypeOK, RecordOK, LocalOK, HistoryOK,
        MutualExclusion, HoldsLock, PlanInv, Planned, JournalInv, SameRelease,
        Settled, Pristine, Goto, content, record, locks, local, history, vars
<1>1. CASE LegacyLockExpires
  BY <1>0, <1>1 DEF LegacyLockExpires
<1>2. ASSUME NEW p \in Proc, InspectUnlocked(p) PROVE JournalInv'
  BY <1>0, <1>2 DEF InspectUnlocked
<1>3. ASSUME NEW p \in Proc, RunCommand(p) PROVE JournalInv'
  BY <1>0, <1>3 DEF RunCommand
<1>4. ASSUME NEW p \in Proc, Abort(p) PROVE JournalInv'
  BY <1>0, <1>4 DEF Abort, ForgetLocals, NothingSeen
<1>5. ASSUME NEW p \in Proc, ClearStaleJournal(p) PROVE JournalInv'
  BY <1>0, <1>5 DEF ClearStaleJournal
<1>6. ASSUME NEW p \in Proc, AcquireFileLock(p) PROVE JournalInv'
  BY <1>0, <1>6 DEF AcquireFileLock
<1>7. ASSUME NEW p \in Proc, LockedOut(p) PROVE JournalInv'
  BY <1>0, <1>7 DEF LockedOut
<1>8. ASSUME NEW p \in Proc, InspectLocked(p) PROVE JournalInv'
  BY <1>0, <1>8 DEF InspectLocked, Detection, HasWorkspace
<1>9. ASSUME NEW p \in Proc, CreateBackup(p) PROVE JournalInv'
  <2>1. pc[p] = "backup" /\ ~Empty /\ from[p] = meta /\ from[p] # LatestWorkspaceSchemaVersion
    BY <1>0, <1>9 DEF CreateBackup
  <2>2. \A q \in Proc \ {p} : pc'[q] = pc[q] /\ pc[q] \notin Planned \union {"backup"}
    BY <1>0, <1>9 DEF CreateBackup
  <2>3. journal' = journal /\ midway' = midway /\ meta' = meta /\ config' = config
    BY <1>0, <1>9 DEF CreateBackup
  <2>4. Len(backups) \in Nat
    OBVIOUS
  <2>5. CASE journal # 0
    <3>1. backups' = backups /\ backup'[p] = journal /\ pc'[p] \in {"failing", "check"}
      BY <1>9, <2>5 DEF CreateBackup
    <3>. QED
      BY <1>0, <2>1, <2>2, <2>3, <2>5, <3>1
  <2>6. CASE journal = 0
    <3>1. /\ backups' = Append(backups, midway) /\ backup'[p] = Len(backups) + 1
          /\ pc'[p] \in {"failing", "check"}
      BY <1>9, <2>6 DEF CreateBackup
    <3>2. ~midway
      BY <2>6
    <3>3. Pristine(backup[p])'
      BY <2>4, <3>1, <3>2
    <3>. QED
      BY <1>0, <2>1, <2>2, <2>3, <2>6, <3>1, <3>2, <3>3
  <2>. QED
    BY <2>5, <2>6
<1>10. ASSUME NEW p \in Proc, CheckMigration(p) PROVE JournalInv'
  <2>1. Pristine(backup[p]) /\ ~Empty /\ meta # LatestWorkspaceSchemaVersion
    BY <1>0, <1>10 DEF CheckMigration
  <2>2. \A q \in Proc \ {p} : pc'[q] = pc[q] /\ pc[q] \notin Planned \union {"backup"}
    BY <1>0, <1>10 DEF CheckMigration
  <2>. QED
    BY <1>10, <1>0, <2>1, <2>2 DEF CheckMigration, SaveJournal
<1>11. ASSUME NEW p \in Proc, BeginApply(p) PROVE JournalInv'
  BY <1>0, <1>11 DEF BeginApply, SaveJournal
<1>12. ASSUME NEW p \in Proc, ApplyConfig(p) PROVE JournalInv'
  BY <1>0, <1>12 DEF ApplyConfig
<1>13. ASSUME NEW p \in Proc, RemoveLegacyConfig(p) PROVE JournalInv'
  BY <1>0, <1>13 DEF RemoveLegacyConfig
<1>14. ASSUME NEW p \in Proc, NEW i \in Identities, ImportIdentity(p, i) PROVE JournalInv'
  <2>1. journal = backup[p] /\ Pristine(backup[p]) /\ meta # LatestWorkspaceSchemaVersion
    BY <1>0, <1>14 DEF ImportIdentity
  <2>. QED
    BY <1>14, <1>0, <2>1 DEF ImportIdentity
<1>15. ASSUME NEW p \in Proc, ImportIdentitiesDone(p) PROVE JournalInv'
  BY <1>0, <1>15 DEF ImportIdentitiesDone
<1>16. ASSUME NEW p \in Proc, NEW i \in Identities, ImportRows(p, i) PROVE JournalInv'
  BY <1>0, <1>16 DEF ImportRows
<1>17. ASSUME NEW p \in Proc, ImportRowsDone(p) PROVE JournalInv'
  BY <1>0, <1>17 DEF ImportRowsDone
<1>18. ASSUME NEW p \in Proc, EnsureStoreSchema(p) PROVE JournalInv'
  BY <1>0, <1>18 DEF EnsureStoreSchema
<1>19. ASSUME NEW p \in Proc, CleanupLegacySkill(p) PROVE JournalInv'
  BY <1>0, <1>19 DEF CleanupLegacySkill
<1>20. ASSUME NEW p \in Proc, ListExistingK1(p) PROVE JournalInv'
  BY <1>0, <1>20 DEF ListExistingK1
<1>21. ASSUME NEW p \in Proc, NEW i \in Identities, ReplaceRemote(p, i) PROVE JournalInv'
  <2>1. journal = backup[p] /\ Pristine(backup[p]) /\ meta # LatestWorkspaceSchemaVersion
    BY <1>0, <1>21 DEF ReplaceRemote
  <2>. QED
    BY <1>21, <1>0, <2>1 DEF ReplaceRemote
<1>22. ASSUME NEW p \in Proc, NEW i \in Identities, ReplaceFails(p, i) PROVE JournalInv'
  BY <1>0, <1>22 DEF ReplaceFails
<1>23. ASSUME NEW p \in Proc, SaveReplacedIdentity(p) PROVE JournalInv'
  BY <1>0, <1>23 DEF SaveReplacedIdentity
<1>24. ASSUME NEW p \in Proc, SaveReplacedFails(p) PROVE JournalInv'
  BY <1>0, <1>24 DEF SaveReplacedFails
<1>25. ASSUME NEW p \in Proc, RebindRows(p) PROVE JournalInv'
  BY <1>0, <1>25 DEF RebindRows
<1>26. ASSUME NEW p \in Proc, ReplaceDone(p) PROVE JournalInv'
  BY <1>0, <1>26 DEF ReplaceDone
<1>27. ASSUME NEW p \in Proc, BeginValidate(p) PROVE JournalInv'
  BY <1>0, <1>27 DEF BeginValidate, SaveJournal
<1>28. ASSUME NEW p \in Proc, Validate(p) PROVE JournalInv'
  BY <1>0, <1>28 DEF Validate
<1>29. ASSUME NEW p \in Proc, SaveMeta(p) PROVE JournalInv'
  <2>1. /\ journal = backup[p] /\ Pristine(backup[p]) /\ ~Empty /\ pc[p] = "save_meta"
        /\ latestVersion[p] = LatestWorkspaceSchemaVersion
    BY <1>0, <1>29 DEF SaveMeta
  <2>2. \A q \in Proc \ {p} :
          pc'[q] = pc[q] /\ pc[q] \notin Planned \union {"backup", "clear", "clear_stale"}
    BY <1>0, <1>29 DEF SaveMeta
  <2>3. /\ journal' = journal /\ backups' = backups /\ backup' = backup
        /\ meta' = from[p] + 1 /\ midway' = (from[p] + 1 # latestVersion[p])
        /\ pc'[p] = IF from[p] + 1 = latestVersion[p] THEN "clear" ELSE "check"
    BY <1>0, <1>29 DEF SaveMeta
  <2>. QED
    BY <1>0, <2>1, <2>2, <2>3
<1>30. ASSUME NEW p \in Proc, ClearJournal(p) PROVE JournalInv'
  BY <1>0, <1>30 DEF ClearJournal
<1>31. ASSUME NEW p \in Proc, Release(p) PROVE JournalInv'
  BY <1>0, <1>31 DEF Release, ForgetLocals, NothingSeen
<1>32. CASE UNCHANGED vars
  BY <1>0, <1>32
<1>. QED
  BY <1>1, <1>2, <1>3, <1>4, <1>5, <1>6, <1>7, <1>8, <1>9, <1>10, <1>11, <1>12,
     <1>13, <1>14, <1>15, <1>16, <1>17, <1>18, <1>19, <1>20, <1>21, <1>22, <1>23, <1>24,
     <1>25, <1>26, <1>27, <1>28, <1>29, <1>30, <1>31, <1>32
  DEF Next, Step


LEMMA InitJournal == Init => JournalInv
<1> SUFFICES ASSUME Init PROVE JournalInv
  OBVIOUS
<1>. QED
  BY DEF Init, JournalInv, Planned

(* With one release installed, whatever an upgrade has changed can be taken   *)
(* back: the journal names a backup from before the first change, however    *)
(* often the upgrade was interrupted.                                       *)
THEOREM BackupRecoverable == ASSUME SameRelease PROVE Spec => []RecoverableBackup
<1>1. Inv /\ JournalInv /\ [Next]_vars => JournalInv'
  BY JournalStep
<1>2. JournalInv => RecoverableBackup
  BY DEF JournalInv, RecoverableBackup, Pristine
<1>. QED
  BY InitJournal, InvAlways, <1>1, <1>2, PTL DEF Spec

-----------------------------------------------------------------------------
(* Which migration runs at which position, and who answers for the identities *)
(* that are still on k1 while 2 -> 3 runs.                                   *)
K1Left == {i \in Identities : did[i] = "k1"}

StageInv ==
  \A p \in Proc :
    /\ pc[p] \in {"config", "remove_json", "import", "import_rows", "schema"} => from[p] = 0
    /\ pc[p] = "cleanup" => from[p] = 1
    /\ pc[p] = "list" => from[p] = 2
    /\ from[p] = 2 =>
         /\ pc[p] \in {"replace", "rebind"} => K1Left \subseteq todo[p] \union warnings[p]
         /\ pc[p] = "save_did" => K1Left \subseteq todo[p] \union warnings[p] \union {cur[p]}
         /\ pc[p] \in {"validating", "validate", "save_meta"} => K1Left \subseteq warnings[p]

(* An identity leaves todo only with a new DID or with a warning, and nobody   *)
(* but the upgrader of 0 -> 1 brings a k1 identity in.                       *)
LEMMA StageStep == Inv /\ StageInv /\ [Next]_vars => StageInv'
<1> SUFFICES ASSUME Inv, StageInv, [Next]_vars PROVE StageInv'
  OBVIOUS
<1> USE UpgradeConstants DEF Inv, TypeOK, ContentOK, RecordOK, LocalOK,
        MutualExclusion, HoldsLock, PlanInv, Planned, StageInv, K1Left, Positions,
        LatestWorkspaceSchemaVersion, DID, Goto, content, record, locks, local,
        history, vars
<1>1. CASE LegacyLockExpires
  BY <1>1 DEF LegacyLockExpires
<1>2. ASSUME NEW p \in Proc, InspectUnlocked(p) PROVE StageInv'
  BY <1>2 DEF InspectUnlocked
<1>3. ASSUME NEW p \in Proc, RunCommand(p) PROVE StageInv'
  BY <1>3 DEF RunCommand
<1>4. ASSUME NEW p \in Proc, Abort(p) PROVE StageInv'
  BY <1>4 DEF Abort, ForgetLocals, NothingSeen
<1>5. ASSUME NEW p \in Proc, ClearStaleJournal(p) PROVE StageInv'
  BY <1>5 DEF ClearStaleJournal
<1>6. ASSUME NEW p \in Proc, AcquireFileLock(p) PROVE StageInv'
  BY <1>6 DEF AcquireFileLock
<1>7. ASSUME NEW p \in Proc, LockedOut(p) PROVE StageInv'
  BY <1>7 DEF LockedOut
<1>8. ASSUME NEW p \in Proc, InspectLocked(p) PROVE StageInv'
  BY <1>8 DEF InspectLocked, Detection, HasWorkspace
<1>9. ASSUME NEW p \in Proc, CreateBackup(p) PROVE StageInv'
  BY <1>9 DEF CreateBackup
<1>10. ASSUME NEW p \in Proc, CheckMigration(p) PROVE StageInv'
  BY <1>10 DEF CheckMigration, SaveJournal
<1>11. ASSUME NEW p \in Proc, BeginApply(p) PROVE StageInv'
  BY <1>11 DEF BeginApply, SaveJournal
<1>12. ASSUME NEW p \in Proc, ApplyConfig(p) PROVE StageInv'
  BY <1>12 DEF ApplyConfig
<1>13. ASSUME NEW p \in Proc, RemoveLegacyConfig(p) PROVE StageInv'
  BY <1>13 DEF RemoveLegacyConfig
<1>14. ASSUME NEW p \in Proc, NEW i \in Identities, ImportIdentity(p, i) PROVE StageInv'
  BY <1>14 DEF ImportIdentity
<1>15. ASSUME NEW p \in Proc, ImportIdentitiesDone(p) PROVE StageInv'
  BY <1>15 DEF ImportIdentitiesDone
<1>16. ASSUME NEW p \in Proc, NEW i \in Identities, ImportRows(p, i) PROVE StageInv'
  BY <1>16 DEF ImportRows
<1>17. ASSUME NEW p \in Proc, ImportRowsDone(p) PROVE StageInv'
  BY <1>17 DEF ImportRowsDone
<1>18. ASSUME NEW p \in Proc, EnsureStoreSchema(p) PROVE StageInv'
  BY <1>18 DEF EnsureStoreSchema
<1>19. ASSUME NEW p \in Proc, CleanupLegacySkill(p) PROVE StageInv'
  BY <1>19 DEF CleanupLegacySkill
<1>20. ASSUME NEW p \in Proc, ListExistingK1(p) PROVE StageInv'
  BY <1>20 DEF ListExistingK1
<1>21. ASSUME NEW p \in Proc, NEW i \in Identities, ReplaceRemote(p, i) PROVE StageInv'
  BY <1>21 DEF ReplaceRemote
<1>22. ASSUME NEW p \in Proc, NEW i \in Identities, ReplaceFails(p, i) PROVE StageInv'
  BY <1>22 DEF ReplaceFails
<1>23. ASSUME NEW p \in Proc, SaveReplacedIdentity(p) PROVE StageInv'
  BY <1>23 DEF SaveReplacedIdentity
<1>24. ASSUME NEW p \in Proc, SaveReplacedFails(p) PROVE StageInv'
  BY <1>24 DEF SaveReplacedFails
<1>25. ASSUME NEW p \in Proc, RebindRows(p) PROVE StageInv'
  BY <1>25 DEF RebindRows
<1>26. ASSUME NEW p \in Proc, ReplaceDone(p) PROVE StageInv'
  BY <1>26 DEF ReplaceDone
<1>27. ASSUME NEW p \in Proc, BeginValidate(p) PROVE StageInv'
  BY <1>27 DEF BeginValidate, SaveJournal
<1>28. ASSUME NEW p \in Proc, Validate(p) PROVE StageInv'
  BY <1>28 DEF Validate
<1>29. ASSUME NEW p \in Proc, SaveMeta(p) PROVE StageInv'
  BY <1>29 DEF SaveMeta
<1>30. ASSUME NEW p \in Proc, ClearJournal(p) PROVE StageInv'
  BY <1>30 DEF ClearJournal
<1>31. ASSUME NEW p \in Proc, Release(p) PROVE StageInv'
  BY <1>31 DEF Release, ForgetLocals, NothingSeen
<1>32. CASE UNCHANGED vars
  BY <1>32
<1>. QED
  BY <1>1, <1>2, <1>3, <1>4, <1>5, <1>6, <1>7, <1>8, <1>9, <1>10, <1>11, <1>12,
     <1>13, <1>14, <1>15, <1>16, <1>17, <1>18, <1>19, <1>20, <1>21, <1>22, <1>23, <1>24,
     <1>25, <1>26, <1>27, <1>28, <1>29, <1>30, <1>31, <1>32
  DEF Next, Step

(* The upgrader that records the last version names all that are left. *)
LEMMA SilenceStep == Inv /\ StageInv /\ NoSilentK1 /\ [Next]_vars => NoSilentK1'
<1> SUFFICES ASSUME Inv, StageInv, NoSilentK1, [Next]_vars PROVE NoSilentK1'
  OBVIOUS
<1> USE UpgradeConstants DEF Inv, TypeOK, ContentOK, RecordOK, LocalOK, PlanInv,
        Planned, StageInv, K1Left, NoSilentK1, LatestWorkspaceSchemaVersion, Goto,
        content, record, locks, local, history, vars
<1>1. CASE LegacyLockExpires
  BY <1>1 DEF LegacyLockExpires
<1>2. ASSUME NEW p \in Proc, InspectUnlocked(p) PROVE NoSilentK1'
  BY <1>2 DEF InspectUnlocked
<1>3. ASSUME NEW p \in Proc, RunCommand(p) PROVE NoSilentK1'
  BY <1>3 DEF RunCommand
<1>4. ASSUME NEW p \in Proc, Abort(p) PROVE NoSilentK1'
  BY <1>4 DEF Abort, ForgetLocals, NothingSeen
<1>5. ASSUME NEW p \in Proc, ClearStaleJournal(p) PROVE NoSilentK1'
  BY <1>5 DEF ClearStaleJournal
<1>6. ASSUME NEW p \in Proc, AcquireFileLock(p) PROVE NoSilentK1'
  BY <1>6 DEF AcquireFileLock
<1>7. ASSUME NEW p \in Proc, LockedOut(p) PROVE NoSilentK1'
  BY <1>7 DEF LockedOut
<1>8. ASSUME NEW p \in Proc, InspectLocked(p) PROVE NoSilentK1'
  BY <1>8 DEF InspectLocked, Detection, HasWorkspace
<1>9. ASSUME NEW p \in Proc, CreateBackup(p) PROVE NoSilentK1'
  BY <1>9 DEF CreateBackup
<1>10. ASSUME NEW p \in Proc, CheckMigration(p) PROVE NoSilentK1'
  BY <1>10 DEF CheckMigration, SaveJournal
<1>11. ASSUME NEW p \in Proc, BeginApply(p) PROVE NoSilentK1'
  BY <1>11 DEF BeginApply, SaveJournal
<1>12. ASSUME NEW p \in Proc, ApplyConfig(p) PROVE NoSilentK1'
  BY <1>12 DEF ApplyConfig
<1>13. ASSUME NEW p \in Proc, RemoveLegacyConfig(p) PROVE NoSilentK1'
  BY <1>13 DEF RemoveLegacyConfig
<1>14. ASSUME NEW p \in Proc, NEW i \in Identities, ImportIdentity(p, i) PROVE NoSilentK1'
  BY <1>14 DEF ImportIdentity
<1>15. ASSUME NEW p \in Proc, ImportIdentitiesDone(p) PROVE NoSilentK1'
  BY <1>15 DEF ImportIdentitiesDone
<1>16. ASSUME NEW p \in Proc, NEW i \in Identities, ImportRows(p, i) PROVE NoSilentK1'
  BY <1>16 DEF ImportRows
<1>17. ASSUME NEW p \in Proc, ImportRowsDone(p) PROVE NoSilentK1'
  BY <1>17 DEF ImportRowsDone
<1>18. ASSUME NEW p \in Proc, EnsureStoreSchema(p) PROVE NoSilentK1'
  BY <1>18 DEF EnsureStoreSchema
<1>19. ASSUME NEW p \in Proc, CleanupLegacySkill(p) PROVE NoSilentK1'
  BY <1>19 DEF CleanupLegacySkill
<1>20. ASSUME NEW p \in Proc, ListExistingK1(p) PROVE NoSilentK1'
  BY <1>20 DEF ListExistingK1
<1>21. ASSUME NEW p \in Proc, NEW i \in Identities, ReplaceRemote(p, i) PROVE NoSilentK1'
  BY <1>21 DEF ReplaceRemote
<1>22. ASSUME NEW p \in Proc, NEW i \in Identities, ReplaceFails(p, i) PROVE NoSilentK1'
  BY <1>22 DEF ReplaceFails
<1>23. ASSUME NEW p \in Proc, SaveReplacedIdentity(p) PROVE NoSilentK1'
  BY <1>23 DEF SaveReplacedIdentity
<1>24. ASSUME NEW p \in Proc, SaveReplacedFails(p) PROVE NoSilentK1'
  BY <1>24 DEF SaveReplacedFails
<1>25. ASSUME NEW p \in Proc, RebindRows(p) PROVE NoSilentK1'
  BY <1>25 DEF RebindRows
<1>26. ASSUME NEW p \in Proc, ReplaceDone(p) PROVE NoSilentK1'
  BY <1>26 DEF ReplaceDone
<1>27. ASSUME NEW p \in Proc, BeginValidate(p) PROVE NoSilentK1'
  BY <1>27 DEF BeginValidate, SaveJournal
<1>28. ASSUME NEW p \in Proc, Validate(p) PROVE NoSilentK1'
  BY <1>28 DEF Validate
<1>29. ASSUME NEW p \in Proc, SaveMeta(p) PROVE NoSilentK1'
  BY <1>29 DEF SaveMeta
<1>30. ASSUME NEW p \in Proc, ClearJournal(p) PROVE NoSilentK1'
  BY <1>30 DEF ClearJournal
<1>31. ASSUME NEW p \in Proc, Release(p) PROVE NoSilentK1'
  BY <1>31 DEF Release, ForgetLocals, NothingSeen
<1>32. CASE UNCHANGED vars
  BY <1>32
<1>. QED
  BY <1>1, <1>2, <1>3, <1>4, <1>5, <1>6, <1>7, <1>8, <1>9, <1>10, <1>11, <1>12,
     <1>13, <1>14, <1>15, <1>16, <1>17, <1>18, <1>19, <1>20, <1>21, <1>22, <1>23, <1>24,
     <1>25, <1>26, <1>27, <1>28, <1>29, <1>30, <1>31, <1>32
  DEF Next, Step


LEMMA InitStage == Init => StageInv /\ NoSilentK1
<1> SUFFICES ASSUME Init PROVE StageInv /\ NoSilentK1
  OBVIOUS
<1>1. StageInv
  BY DEF Init, StageInv
<1>2. meta < LatestWorkspaceSchemaVersion
  <2>1. PICK w \in InitialWorkspaces : meta = w.meta
    BY DEF Init
  <2>. QED
    BY <2>1, UpgradeConstants DEF Plausible
<1>3. NoSilentK1
  BY <1>2 DEF NoSilentK1, LatestWorkspaceSchemaVersion
<1>. QED
  BY <1>1, <1>3

(* However upgrades of whatever releases fail, stop and resume, an identity   *)
(* still on its k1 DID in a fully upgraded workspace is one meta.json warns   *)
(* about.                                                                   *)
THEOREM K1NeverSilent == Spec => []NoSilentK1
<1>1. Inv /\ StageInv /\ NoSilentK1 /\ [Next]_vars => (StageInv /\ NoSilentK1)'
  BY StageStep, SilenceStep
<1>. QED
  BY InitStage, InvAlways, <1>1, PTL DEF Spec

-----------------------------------------------------------------------------
(* What an upgrade delivers.  Nothing is left half done without a process    *)
(* that still has it in hand, unless one was stopped in a window that torn   *)
(* names: first what is known at each place of an upgrade, then the DIDs and *)
(* the rows of an identity, then the import of the legacy layout.            *)

Begun == Planned \union {"backup"}
Unwritten == {"backup", "check", "applying", "config"}
Replaced == {"replace", "save_did", "rebind", "validating", "validate", "save_meta"}
Imported == {"schema"} \union Replaced
ConfigWritten == {"remove_json", "import", "import_rows"} \union Imported

(* Where 0 -> 1 has come to: the identities in todo are imported and the     *)
(* others are not there yet, if the workspace was none; config.yaml is       *)
(* upgraded, then the database.                                              *)
ImportInv(p) ==
  /\ pc[p] \in Unwritten \union {"remove_json"} => todo[p] = {}
  /\ pc[p] \in Unwritten => config = "absent" \/ seen[p].configExists
  /\ pc[p] \in Unwritten \union {"remove_json", "import"} /\ ~seen[p].hasWorkspace =>
       \A i \in legacy.ids \ todo[p] : did[i] = "none"
  /\ pc[p] \in ConfigWritten => config # "old"
  /\ pc[p] \in Replaced => db # "old"

PlaceInv(p) ==
  /\ ~HoldsLock(p) \/ pc[p] = "inspect" => todo[p] = {} /\ warnings[p] = {}
  /\ pc[p] \notin {"save_did", "rebind"} => cur[p] = NoIdentity
  /\ meta # LatestWorkspaceSchemaVersion /\ pc[p] \in {"clear", "release"} => warnings[p] = {}
  /\ pc[p] = "import" => \A i \in todo[p] : did[i] = "k1"
  /\ pc[p] = "import_rows" => \A i \in legacy.ids : did[i] = "k1"
  /\ pc[p] = "save_did" => remoteDid[cur[p]] = "e1"
  /\ pc[p] = "rebind" => did[cur[p]] = "e1" /\ remoteDid[cur[p]] = "e1"
  /\ from[p] = 0 => ImportInv(p)

PlacesInv == \A p \in Proc : PlaceInv(p)

(* Before its import an identity has no rows and is on its k1 DID at the     *)
(* service.                                                                  *)
DiskInv ==
  \A i \in Identities :
    did[i] = "none" => rows[i] = "none" /\ (i \in legacy.ids => remoteDid[i] = "k1")

(* A workspace with an unsound database stays at schema 0.                   *)
UnsoundInv ==
  db = "unsound" =>
    /\ meta = 0
    /\ \A p \in Proc :
         /\ pc[p] \notin {"ready", "clear_stale", "release", "clear", "save_meta"}
         /\ pc[p] \in Begun => seen[p].hasWorkspace

(* Only an import or a registration gives an identity its DID.               *)
LEMMA DiskStep == Inv /\ PlacesInv /\ DiskInv /\ [Next]_vars => DiskInv'
<1> SUFFICES ASSUME Inv, PlacesInv, DiskInv, [Next]_vars PROVE DiskInv'
  OBVIOUS
<1> USE UpgradeConstants DEF Inv, TypeOK, ContentOK, RecordOK, LocalOK, HistoryOK, PlanInv,
        Planned, DID, LatestWorkspaceSchemaVersion, Goto, content, record, locks, local, history,
        vars,
        PlacesInv, PlaceInv, DiskInv
<1>1. CASE LegacyLockExpires
  BY <1>1 DEF LegacyLockExpires
<1>2. ASSUME NEW p \in Proc, InspectUnlocked(p) PROVE DiskInv'
  BY <1>2 DEF InspectUnlocked
<1>3. ASSUME NEW p \in Proc, RunCommand(p) PROVE DiskInv'
  BY <1>3 DEF RunCommand
<1>4. ASSUME NEW p \in Proc, Abort(p) PROVE DiskInv'
  BY <1>4 DEF Abort, ForgetLocals, NothingSeen
<1>5. ASSUME NEW p \in Proc, ClearStaleJournal(p) PROVE DiskInv'
  BY <1>5 DEF ClearStaleJournal
<1>6. ASSUME NEW p \in Proc, AcquireFileLock(p) PROVE DiskInv'
  BY <1>6 DEF AcquireFileLock
<1>7. ASSUME NEW p \in Proc, LockedOut(p) PROVE DiskInv'
  BY <1>7 DEF LockedOut
<1>8. ASSUME NEW p \in Proc, InspectLocked(p) PROVE DiskInv'
  BY <1>8 DEF InspectLocked, Detection, HasWorkspace
<1>9. ASSUME NEW p \in Proc, CreateBackup(p) PROVE DiskInv'
  BY <1>9 DEF CreateBackup
<1>10. ASSUME NEW p \in Proc, CheckMigration(p) PROVE DiskInv'
  BY <1>10 DEF CheckMigration, SaveJournal
<1>11. ASSUME NEW p \in Proc, BeginApply(p) PROVE DiskInv'
  BY <1>11 DEF BeginApply, SaveJournal
<1>12. ASSUME NEW p \in Proc, ApplyConfig(p) PROVE DiskInv'
  BY <1>12 DEF ApplyConfig
<1>13. ASSUME NEW p \in Proc, RemoveLegacyConfig(p) PROVE DiskInv'
  BY <1>13 DEF RemoveLegacyConfig
<1>14. ASSUME NEW p \in Proc, NEW i \in Identities, ImportIdentity(p, i) PROVE DiskInv'
  BY <1>14 DEF ImportIdentity
<1>15. ASSUME NEW p \in Proc, ImportIdentitiesDone(p) PROVE DiskInv'
  BY <1>15 DEF ImportIdentitiesDone
<1>16. ASSUME NEW p \in Proc, NEW i \in Identities, ImportRows(p, i) PROVE DiskInv'
  BY <1>16 DEF ImportRows
<1>17. ASSUME NEW p \in Proc, ImportRowsDone(p) PROVE DiskInv'
  BY <1>17 DEF ImportRowsDone
<1>18. ASSUME NEW p \in Proc, EnsureStoreSchema(p) PROVE DiskInv'
  BY <1>18 DEF EnsureStoreSchema
<1>19. ASSUME NEW p \in Proc, CleanupLegacySkill(p) PROVE DiskInv'
  BY <1>19 DEF CleanupLegacySkill
<1>20. ASSUME NEW p \in Proc, ListExistingK1(p) PROVE DiskInv'
  BY <1>20 DEF ListExistingK1
<1>21. ASSUME NEW p \in Proc, NEW i \in Identities, ReplaceRemote(p, i) PROVE DiskInv'
  BY <1>21 DEF ReplaceRemote
<1>22. ASSUME NEW p \in Proc, NEW i \in Identities, ReplaceFails(p, i) PROVE DiskInv'
  BY <1>22 DEF ReplaceFails
<1>23. ASSUME NEW p \in Proc, SaveReplacedIdentity(p) PROVE DiskInv'
  BY <1>23 DEF SaveReplacedIdentity
<1>24. ASSUME NEW p \in Proc, SaveReplacedFails(p) PROVE DiskInv'
  BY <1>24 DEF SaveReplacedFails
<1>25. ASSUME NEW p \in Proc, RebindRows(p) PROVE DiskInv'
  BY <1>25 DEF RebindRows
<1>26. ASSUME NEW p \in Proc, ReplaceDone(p) PROVE DiskInv'
  BY <1>26 DEF ReplaceDone
<1>27. ASSUME NEW p \in Proc, BeginValidate(p) PROVE DiskInv'
  BY <1>27 DEF BeginValidate, SaveJournal
<1>28. ASSUME NEW p \in Proc, Validate(p) PROVE DiskInv'
  BY <1>28 DEF Validate
<1>29. ASSUME NEW p \in Proc, SaveMeta(p) PROVE DiskInv'
  BY <1>29 DEF SaveMeta
<1>30. ASSUME NEW p \in Proc, ClearJournal(p) PROVE DiskInv'
  BY <1>30 DEF ClearJournal
<1>31. ASSUME NEW p \in Proc, Release(p) PROVE DiskInv'
  BY <1>31 DEF Release, ForgetLocals, NothingSeen
<1>32. CASE UNCHANGED vars
  BY <1>32
<1>. QED
  BY <1>1, <1>2, <1>3, <1>4, <1>5, <1>6, <1>7, <1>8, <1>9, <1>10, <1>11, <1>12,
     <1>13, <1>14, <1>15, <1>16, <1>17, <1>18, <1>19, <1>20, <1>21, <1>22, <1>23, <1>24,
     <1>25, <1>26, <1>27, <1>28, <1>29, <1>30, <1>31, <1>32
  DEF Next, Step

(* An inspection finds an unsound database in need of an upgrade, which the  *)
(* validation stops.                                                         *)
LEMMA UnsoundStep == Inv /\ UnsoundInv /\ [Next]_vars => UnsoundInv'
<1> SUFFICES ASSUME Inv, UnsoundInv, [Next]_vars PROVE UnsoundInv'
  OBVIOUS
<1>0. ASSUME NEW p \in Proc, db = "unsound" PROVE ~Settled(p) /\ HasWorkspace
  <2>1. latestVersion[p] # 0 /\ meta = 0
    BY <1>0, UpgradeConstants DEF UnsoundInv
  <2>. QED
    BY <1>0, <2>1 DEF Settled, Empty, HasWorkspace
<1> USE UpgradeConstants DEF Inv, TypeOK, ContentOK, RecordOK, LocalOK, HistoryOK, PlanInv,
        Planned, DID, LatestWorkspaceSchemaVersion, Goto, content, record, locks, local, history,
        vars,
        UnsoundInv, Begun, MutualExclusion, HoldsLock
<1>1. CASE LegacyLockExpires
  BY <1>1 DEF LegacyLockExpires
<1>2. ASSUME NEW p \in Proc, InspectUnlocked(p) PROVE UnsoundInv'
  BY <1>0, <1>2 DEF InspectUnlocked
<1>3. ASSUME NEW p \in Proc, RunCommand(p) PROVE UnsoundInv'
  BY <1>3 DEF RunCommand
<1>4. ASSUME NEW p \in Proc, Abort(p) PROVE UnsoundInv'
  BY <1>4 DEF Abort, ForgetLocals, NothingSeen
<1>5. ASSUME NEW p \in Proc, ClearStaleJournal(p) PROVE UnsoundInv'
  BY <1>5 DEF ClearStaleJournal
<1>6. ASSUME NEW p \in Proc, AcquireFileLock(p) PROVE UnsoundInv'
  BY <1>6 DEF AcquireFileLock
<1>7. ASSUME NEW p \in Proc, LockedOut(p) PROVE UnsoundInv'
  BY <1>7 DEF LockedOut
<1>8. ASSUME NEW p \in Proc, InspectLocked(p) PROVE UnsoundInv'
  BY <1>0, <1>8 DEF InspectLocked, Detection, HasWorkspace
<1>9. ASSUME NEW p \in Proc, CreateBackup(p) PROVE UnsoundInv'
  BY <1>9 DEF CreateBackup
<1>10. ASSUME NEW p \in Proc, CheckMigration(p) PROVE UnsoundInv'
  BY <1>10 DEF CheckMigration, SaveJournal
<1>11. ASSUME NEW p \in Proc, BeginApply(p) PROVE UnsoundInv'
  BY <1>11 DEF BeginApply, SaveJournal
<1>12. ASSUME NEW p \in Proc, ApplyConfig(p) PROVE UnsoundInv'
  BY <1>12 DEF ApplyConfig
<1>13. ASSUME NEW p \in Proc, RemoveLegacyConfig(p) PROVE UnsoundInv'
  BY <1>13 DEF RemoveLegacyConfig
<1>14. ASSUME NEW p \in Proc, NEW i \in Identities, ImportIdentity(p, i) PROVE UnsoundInv'
  BY <1>14 DEF ImportIdentity
<1>15. ASSUME NEW p \in Proc, ImportIdentitiesDone(p) PROVE UnsoundInv'
  BY <1>15 DEF ImportIdentitiesDone, AdoptsLegacy
<1>16. ASSUME NEW p \in Proc, NEW i \in Identities, ImportRows(p, i) PROVE UnsoundInv'
  BY <1>16 DEF ImportRows
<1>17. ASSUME NEW p \in Proc, ImportRowsDone(p) PROVE UnsoundInv'
  BY <1>17 DEF ImportRowsDone
<1>18. ASSUME NEW p \in Proc, EnsureStoreSchema(p) PROVE UnsoundInv'
  BY <1>18 DEF EnsureStoreSchema
<1>19. ASSUME NEW p \in Proc, CleanupLegacySkill(p) PROVE UnsoundInv'
  BY <1>19 DEF CleanupLegacySkill
<1>20. ASSUME NEW p \in Proc, ListExistingK1(p) PROVE UnsoundInv'
  BY <1>20 DEF ListExistingK1
<1>21. ASSUME NEW p \in Proc, NEW i \in Identities, ReplaceRemote(p, i) PROVE UnsoundInv'
  BY <1>21 DEF ReplaceRemote
<1>22. ASSUME NEW p \in Proc, NEW i \in Identities, ReplaceFails(p, i) PROVE UnsoundInv'
  BY <1>22 DEF ReplaceFails
<1>23. ASSUME NEW p \in Proc, SaveReplacedIdentity(p) PROVE UnsoundInv'
  BY <1>23 DEF SaveReplacedIdentity
<1>24. ASSUME NEW p \in Proc, SaveReplacedFails(p) PROVE UnsoundInv'
  BY <1>24 DEF SaveReplacedFails
<1>25. ASSUME NEW p \in Proc, RebindRows(p) PROVE UnsoundInv'
  BY <1>25 DEF RebindRows
<1>26. ASSUME NEW p \in Proc, ReplaceDone(p) PROVE UnsoundInv'
  BY <1>26 DEF ReplaceDone
<1>27. ASSUME NEW p \in Proc, BeginValidate(p) PROVE UnsoundInv'
  BY <1>27 DEF BeginValidate, SaveJournal
<1>28. ASSUME NEW p \in Proc, Validate(p) PROVE UnsoundInv'
  BY <1>28 DEF Validate, Valid
<1>29. ASSUME NEW p \in Proc, SaveMeta(p) PROVE UnsoundInv'
  BY <1>29 DEF SaveMeta
<1>30. ASSUME NEW p \in Proc, ClearJournal(p) PROVE UnsoundInv'
  BY <1>30 DEF ClearJournal
<1>31. ASSUME NEW p \in Proc, Release(p) PROVE UnsoundInv'
  BY <1>31 DEF Release, ForgetLocals, NothingSeen
<1>32. CASE UNCHANGED vars
  BY <1>32
<1>. QED
  BY <1>1, <1>2, <1>3, <1>4, <1>5, <1>6, <1>7, <1>8, <1>9, <1>10, <1>11, <1>12,
     <1>13, <1>14, <1>15, <1>16, <1>17, <1>18, <1>19, <1>20, <1>21, <1>22, <1>23, <1>24,
     <1>25, <1>26, <1>27, <1>28, <1>29, <1>30, <1>31, <1>32
  DEF Next, Step

(* An upgrade stays in step with the disk: nobody else imports or replaces,  *)
(* and a command only registers identities of its own.                       *)
LEMMA PlacesStep ==
  Inv /\ StageInv /\ SameRelease /\ PlacesInv /\ DiskInv /\ [Next]_vars => PlacesInv'
<1> SUFFICES ASSUME Inv, StageInv, SameRelease, PlacesInv, DiskInv, [Next]_vars PROVE PlacesInv'
  OBVIOUS
<1>0. ASSUME NEW p \in Proc, HoldsLock(p), NEW q \in Proc \ {p} PROVE lock = p /\ ~HoldsLock(q)
  BY <1>0 DEF Inv, MutualExclusion
<1> USE UpgradeConstants DEF Inv, TypeOK, ContentOK, RecordOK, LocalOK, HistoryOK, PlanInv,
        Planned, DID, LatestWorkspaceSchemaVersion, Goto, content, record, locks, local, history,
        vars,
        StageInv, SameRelease, MutualExclusion, HoldsLock, PlacesInv, PlaceInv, ImportInv,
        DiskInv, Unwritten, Replaced, Imported, ConfigWritten
<1>1. CASE LegacyLockExpires
  BY <1>1 DEF LegacyLockExpires
<1>2. ASSUME NEW p \in Proc, InspectUnlocked(p) PROVE PlacesInv'
  BY <1>2 DEF InspectUnlocked
<1>3. ASSUME NEW p \in Proc, RunCommand(p) PROVE PlacesInv'
  BY <1>3 DEF RunCommand
<1>4. ASSUME NEW p \in Proc, Abort(p) PROVE PlacesInv'
  BY <1>4 DEF Abort, ForgetLocals, NothingSeen
<1>5. ASSUME NEW p \in Proc, ClearStaleJournal(p) PROVE PlacesInv'
  BY <1>5 DEF ClearStaleJournal
<1>6. ASSUME NEW p \in Proc, AcquireFileLock(p) PROVE PlacesInv'
  BY <1>6 DEF AcquireFileLock
<1>7. ASSUME NEW p \in Proc, LockedOut(p) PROVE PlacesInv'
  BY <1>7 DEF LockedOut
<1>8. ASSUME NEW p \in Proc, InspectLocked(p) PROVE PlacesInv'
  <2>1. ASSUME NEW q \in Proc \ {p} PROVE PlaceInv(q)'
    <3>0. HoldsLock(p)
      BY <1>8 DEF InspectLocked
    <3>1. lock = p /\ ~HoldsLock(q)
      BY <3>0, <1>0
    <3>2. pc'[q] = pc[q] /\ todo'[q] = todo[q] /\ warnings'[q] = warnings[q] /\ cur'[q] = cur[q]
      BY <1>8 DEF InspectLocked
    <3>. QED
      BY <3>1, <3>2
  <2>2. PlaceInv(p)'
    <3>1. pc'[p] \in {"backup", "clear", "release"} /\ from'[p] = meta
      BY <1>8 DEF InspectLocked
    <3>2. todo'[p] = {} /\ warnings'[p] = {} /\ cur'[p] = NoIdentity
      BY <1>8 DEF InspectLocked
    <3>3. ~seen'[p].hasWorkspace => \A i \in Identities : did'[i] = "none"
      BY <1>8 DEF InspectLocked, Detection, HasWorkspace
    <3>4. config' = "absent" \/ seen'[p].configExists
      <4>1. seen'[p].configExists = (config # "absent") /\ config' = config
        BY <1>8, seen \in [Proc -> [hasWorkspace : BOOLEAN, configExists : BOOLEAN,
                         legacyConfigExists : BOOLEAN]] DEF InspectLocked, Detection
      <4>. QED
        BY <4>1
    <3>. QED
      BY <3>1, <3>2, <3>3, <3>4, <1>8 DEF InspectLocked
  <2>. QED
    BY <2>1, <2>2
<1>9. ASSUME NEW p \in Proc, CreateBackup(p) PROVE PlacesInv'
  BY <1>9 DEF CreateBackup
<1>10. ASSUME NEW p \in Proc, CheckMigration(p) PROVE PlacesInv'
  BY <1>10 DEF CheckMigration, SaveJournal
<1>11. ASSUME NEW p \in Proc, BeginApply(p) PROVE PlacesInv'
  BY <1>11 DEF BeginApply, SaveJournal
<1>12. ASSUME NEW p \in Proc, ApplyConfig(p) PROVE PlacesInv'
  <2>1. ASSUME NEW q \in Proc \ {p} PROVE PlaceInv(q)'
    <3>0. HoldsLock(p)
      BY <1>12 DEF ApplyConfig
    <3>1. lock = p /\ ~HoldsLock(q)
      BY <3>0, <1>0
    <3>2. pc'[q] = pc[q] /\ todo'[q] = todo[q] /\ warnings'[q] = warnings[q] /\ cur'[q] = cur[q]
      BY <1>12 DEF ApplyConfig
    <3>. QED
      BY <3>1, <3>2
  <2>2. PlaceInv(p)'
    <3>1. pc[p] = "config" /\ pc'[p] \in {"remove_json", "import"} /\ from[p] = 0 /\ from' = from
      BY <1>12 DEF ApplyConfig
    <3>2. config' # "old"
      BY <3>1, <1>12 DEF ApplyConfig
    <3>3. UNCHANGED <<todo, warnings, cur, did, seen, legacy>>
      BY <1>12 DEF ApplyConfig
    <3>. QED
      BY <3>1, <3>2, <3>3
  <2>. QED
    BY <2>1, <2>2
<1>13. ASSUME NEW p \in Proc, RemoveLegacyConfig(p) PROVE PlacesInv'
  BY <1>13 DEF RemoveLegacyConfig
<1>14. ASSUME NEW p \in Proc, NEW i \in Identities, ImportIdentity(p, i) PROVE PlacesInv'
  <2>1. ASSUME NEW q \in Proc \ {p} PROVE PlaceInv(q)'
    <3>0. HoldsLock(p)
      BY <1>14 DEF ImportIdentity
    <3>1. lock = p /\ ~HoldsLock(q)
      BY <3>0, <1>0
    <3>2. pc'[q] = pc[q] /\ todo'[q] = todo[q] /\ warnings'[q] = warnings[q] /\ cur'[q] = cur[q]
      BY <1>14 DEF ImportIdentity
    <3>. QED
      BY <3>1, <3>2
  <2>2. PlaceInv(p)'
    <3>1. pc[p] = "import" /\ pc'[p] = "import" /\ from[p] = 0
      BY <1>14 DEF ImportIdentity
    <3>2. did' = [did EXCEPT ![i] = "k1"] /\ todo'[p] = todo[p] \union {i}
      BY <1>14 DEF ImportIdentity
    <3>3. /\ UNCHANGED <<from, config, legacy, seen, cur, meta, warnings>>
      BY <1>14 DEF ImportIdentity
    <3>4. ImportInv(p)'
      BY <3>1, <3>2, <3>3
    <3>. QED
      BY <3>1, <3>2, <3>3, <3>4
  <2>. QED
    BY <2>1, <2>2
<1>15. ASSUME NEW p \in Proc, ImportIdentitiesDone(p) PROVE PlacesInv'
  BY <1>15 DEF ImportIdentitiesDone, AdoptsLegacy
<1>16. ASSUME NEW p \in Proc, NEW i \in Identities, ImportRows(p, i) PROVE PlacesInv'
  BY <1>16 DEF ImportRows
<1>17. ASSUME NEW p \in Proc, ImportRowsDone(p) PROVE PlacesInv'
  BY <1>17 DEF ImportRowsDone
<1>18. ASSUME NEW p \in Proc, EnsureStoreSchema(p) PROVE PlacesInv'
  BY <1>18 DEF EnsureStoreSchema
<1>19. ASSUME NEW p \in Proc, CleanupLegacySkill(p) PROVE PlacesInv'
  BY <1>19 DEF CleanupLegacySkill
<1>20. ASSUME NEW p \in Proc, ListExistingK1(p) PROVE PlacesInv'
  BY <1>20 DEF ListExistingK1
<1>21. ASSUME NEW p \in Proc, NEW i \in Identities, ReplaceRemote(p, i) PROVE PlacesInv'
  BY <1>21 DEF ReplaceRemote
<1>22. ASSUME NEW p \in Proc, NEW i \in Identities, ReplaceFails(p, i) PROVE PlacesInv'
  BY <1>22 DEF ReplaceFails
<1>23. ASSUME NEW p \in Proc, SaveReplacedIdentity(p) PROVE PlacesInv'
  <2>1. ASSUME NEW q \in Proc \ {p} PROVE PlaceInv(q)'
    <3>0. HoldsLock(p)
      BY <1>23 DEF SaveReplacedIdentity
    <3>1. lock = p /\ ~HoldsLock(q)
      BY <3>0, <1>0
    <3>2. pc'[q] = pc[q] /\ todo'[q] = todo[q] /\ warnings'[q] = warnings[q] /\ cur'[q] = cur[q]
      BY <1>23 DEF SaveReplacedIdentity
    <3>. QED
      BY <3>1, <3>2
  <2>2. PlaceInv(p)'
    <3>1. pc[p] = "save_did" /\ pc'[p] = "rebind" /\ cur[p] \in Identities
      BY <1>23 DEF SaveReplacedIdentity
    <3>2. did'[cur[p]] = "e1" /\ remoteDid' = remoteDid /\ cur' = cur
      BY <3>1, <1>23 DEF SaveReplacedIdentity
    <3>3. UNCHANGED <<from, config, db, legacy, seen, meta, warnings, todo>>
      BY <1>23 DEF SaveReplacedIdentity
    <3>4. from[p] = 0 => ImportInv(p)'
      BY <3>1, <3>3
    <3>. QED
      BY <3>1, <3>2, <3>3, <3>4
  <2>. QED
    BY <2>1, <2>2
<1>24. ASSUME NEW p \in Proc, SaveReplacedFails(p) PROVE PlacesInv'
  BY <1>24 DEF SaveReplacedFails
<1>25. ASSUME NEW p \in Proc, RebindRows(p) PROVE PlacesInv'
  BY <1>25 DEF RebindRows
<1>26. ASSUME NEW p \in Proc, ReplaceDone(p) PROVE PlacesInv'
  BY <1>26 DEF ReplaceDone
<1>27. ASSUME NEW p \in Proc, BeginValidate(p) PROVE PlacesInv'
  BY <1>27 DEF BeginValidate, SaveJournal
<1>28. ASSUME NEW p \in Proc, Validate(p) PROVE PlacesInv'
  BY <1>28 DEF Validate, Valid
<1>29. ASSUME NEW p \in Proc, SaveMeta(p) PROVE PlacesInv'
  BY <1>29 DEF SaveMeta
<1>30. ASSUME NEW p \in Proc, ClearJournal(p) PROVE PlacesInv'
  BY <1>30 DEF ClearJournal
<1>31. ASSUME NEW p \in Proc, Release(p) PROVE PlacesInv'
  BY <1>31 DEF Release, ForgetLocals, NothingSeen
<1>32. CASE UNCHANGED vars
  BY <1>32
<1>. QED
  BY <1>1, <1>2, <1>3, <1>4, <1>5, <1>6, <1>7, <1>8, <1>9, <1>10, <1>11, <1>12,
     <1>13, <1>14, <1>15, <1>16, <1>17, <1>18, <1>19, <1>20, <1>21, <1>22, <1>23, <1>24,
     <1>25, <1>26, <1>27, <1>28, <1>29, <1>30, <1>31, <1>32
  DEF Next, Step

(* The DID or the rows of an identity are not where they belong.             *)
Astray(i) == did[i] # "none" /\ (did[i] # remoteDid[i] \/ rows[i] \notin {"none", did[i]})

(* Whatever is astray is in the hands of a process or among the warnings of   *)
(* meta.json, and no upgrade fails with something astray.                    *)
KnownInv ==
  ~torn /\ db # "unsound" =>
    /\ \A i \in Identities : Astray(i) =>
         IF meta = LatestWorkspaceSchemaVersion
           THEN i \in metaWarnings
           ELSE \E p \in Proc : i \in warnings[p] \/ cur[p] = i
    /\ (\E p \in Proc : pc[p] = "failing") => \A i \in Identities : ~Astray(i)

(* An identity is astray only between the answer of the service and the new  *)
(* owner of its rows.                                                        *)
LEMMA KnownStep ==
  Inv /\ StageInv /\ SameRelease /\ PlacesInv /\ DiskInv /\ UnsoundInv /\ KnownInv
    /\ [Next]_vars => KnownInv'
<1> SUFFICES ASSUME Inv, StageInv, SameRelease, PlacesInv, DiskInv, UnsoundInv,
                   KnownInv, [Next]_vars
             PROVE  KnownInv'
  OBVIOUS
<1>0. ASSUME NEW p \in Proc, HoldsLock(p), NEW q \in Proc \ {p} PROVE lock = p /\ ~HoldsLock(q)
  BY <1>0 DEF Inv, MutualExclusion
<1> USE UpgradeConstants DEF Inv, TypeOK, ContentOK, RecordOK, LocalOK, HistoryOK, PlanInv,
        Planned, DID, LatestWorkspaceSchemaVersion, Goto, content, record, locks, local, history,
        vars,
        StageInv, SameRelease, MutualExclusion, HoldsLock, PlacesInv, PlaceInv, ImportInv,
        DiskInv, Unwritten, Replaced, Imported, ConfigWritten, UnsoundInv, Begun, Astray, KnownInv
<1>1. CASE LegacyLockExpires
  BY <1>1 DEF LegacyLockExpires
<1>2. ASSUME NEW p \in Proc, InspectUnlocked(p) PROVE KnownInv'
  BY <1>2 DEF InspectUnlocked
<1>3. ASSUME NEW p \in Proc, RunCommand(p) PROVE KnownInv'
  <2>1. db # "unsound" /\ UNCHANGED <<meta, metaWarnings, torn, warnings, cur>>
    BY <1>3 DEF RunCommand
  <2>2. ASSUME NEW j \in Identities PROVE Astray(j)' => Astray(j)
    <3>1. CASE UNCHANGED content
      BY <3>1
    <3>2. ASSUME NEW i \in Identities, remoteDid' = [remoteDid EXCEPT ![i] = "e1"],
                 did' = [did EXCEPT ![i] = "e1"], rows' = [rows EXCEPT ![i] = "e1"]
          PROVE  Astray(j)' => Astray(j)
      BY <3>2
    <3>. QED
      BY <3>1, <3>2, <1>3 DEF RunCommand
  <2>3. \A q \in Proc : pc'[q] = "failing" => pc[q] = "failing"
    BY <1>3 DEF RunCommand
  <2> HIDE DEF Inv, StageInv, PlacesInv, DiskInv, UnsoundInv, Astray
  <2>. QED
    BY <2>1, <2>2, <2>3
<1>4. ASSUME NEW p \in Proc, Abort(p) PROVE KnownInv'
  <2>1. UNCHANGED <<did, rows, remoteDid, db, meta, metaWarnings>>
    BY <1>4 DEF Abort
  <2>2. ~torn' => ~torn /\ cur[p] = NoIdentity /\ warnings[p] = {}
    BY <1>4 DEF Abort
  <2>3. \A q \in Proc \ {p} : cur'[q] = cur[q] /\ warnings'[q] = warnings[q] /\ pc'[q] = pc[q]
    BY <1>4 DEF Abort, ForgetLocals
  <2>4. pc'[p] = "idle"
    BY <1>4 DEF Abort
  <2>5. \A i \in Identities : Astray(i)' = Astray(i)
    BY <2>1
  <2> HIDE DEF Inv, StageInv, PlacesInv, DiskInv, UnsoundInv, Astray
  <2>. QED
    BY <2>1, <2>2, <2>3, <2>4, <2>5
<1>5. ASSUME NEW p \in Proc, ClearStaleJournal(p) PROVE KnownInv'
  BY <1>5 DEF ClearStaleJournal
<1>6. ASSUME NEW p \in Proc, AcquireFileLock(p) PROVE KnownInv'
  BY <1>6 DEF AcquireFileLock
<1>7. ASSUME NEW p \in Proc, LockedOut(p) PROVE KnownInv'
  BY <1>7 DEF LockedOut
<1>8. ASSUME NEW p \in Proc, InspectLocked(p) PROVE KnownInv'
  BY <1>8 DEF InspectLocked, Detection, HasWorkspace
<1>9. ASSUME NEW p \in Proc, CreateBackup(p) PROVE KnownInv'
  BY <1>9 DEF CreateBackup
<1>10. ASSUME NEW p \in Proc, CheckMigration(p) PROVE KnownInv'
  BY <1>10 DEF CheckMigration, SaveJournal
<1>11. ASSUME NEW p \in Proc, BeginApply(p) PROVE KnownInv'
  BY <1>11 DEF BeginApply, SaveJournal
<1>12. ASSUME NEW p \in Proc, ApplyConfig(p) PROVE KnownInv'
  BY <1>12 DEF ApplyConfig
<1>13. ASSUME NEW p \in Proc, RemoveLegacyConfig(p) PROVE KnownInv'
  BY <1>13 DEF RemoveLegacyConfig
<1>14. ASSUME NEW p \in Proc, NEW i \in Identities, ImportIdentity(p, i) PROVE KnownInv'
  BY <1>14 DEF ImportIdentity, AdoptsLegacy
<1>15. ASSUME NEW p \in Proc, ImportIdentitiesDone(p) PROVE KnownInv'
  BY <1>15 DEF ImportIdentitiesDone, AdoptsLegacy
<1>16. ASSUME NEW p \in Proc, NEW i \in Identities, ImportRows(p, i) PROVE KnownInv'
  BY <1>16 DEF ImportRows
<1>17. ASSUME NEW p \in Proc, ImportRowsDone(p) PROVE KnownInv'
  BY <1>17 DEF ImportRowsDone
<1>18. ASSUME NEW p \in Proc, EnsureStoreSchema(p) PROVE KnownInv'
  BY <1>18 DEF EnsureStoreSchema
<1>19. ASSUME NEW p \in Proc, CleanupLegacySkill(p) PROVE KnownInv'
  BY <1>19 DEF CleanupLegacySkill
<1>20. ASSUME NEW p \in Proc, ListExistingK1(p) PROVE KnownInv'
  BY <1>20 DEF ListExistingK1
<1>21. ASSUME NEW p \in Proc, NEW i \in Identities, ReplaceRemote(p, i) PROVE KnownInv'
  <2>1. /\ pc[p] = "replace" /\ meta # LatestWorkspaceSchemaVersion /\ meta' = meta
        /\ torn' = torn /\ db' = db
    BY <1>21 DEF ReplaceRemote
  <2>2. ASSUME NEW j \in Identities \ {i} PROVE Astray(j)' = Astray(j)
    BY <1>21 DEF ReplaceRemote
  <2>3. /\ cur[p] = NoIdentity /\ cur'[p] = i /\ warnings' = warnings
        /\ \A q \in Proc \ {p} : cur'[q] = cur[q]
    BY <2>1, <1>21 DEF ReplaceRemote
  <2>4. \A q \in Proc : pc'[q] # "failing"
    <3>1. \A q \in Proc \ {p} : ~HoldsLock(q)
      BY <1>0, <2>1
    <3>2. pc'[p] # "failing" /\ \A q \in Proc \ {p} : pc'[q] = pc[q]
      BY <1>21 DEF ReplaceRemote
    <3>. QED
      BY <3>1, <3>2
  <2> HIDE DEF Inv, StageInv, PlacesInv, DiskInv, UnsoundInv, Astray
  <2>. QED
    BY <2>1, <2>2, <2>3, <2>4
<1>22. ASSUME NEW p \in Proc, NEW i \in Identities, ReplaceFails(p, i) PROVE KnownInv'
  <2>1. /\ pc[p] = "replace" /\ meta # LatestWorkspaceSchemaVersion /\ meta' = meta
        /\ torn' = torn /\ db' = db
    BY <1>22 DEF ReplaceFails
  <2>2. ASSUME NEW j \in Identities \ {i} PROVE Astray(j)' = Astray(j)
    BY <1>22 DEF ReplaceFails
  <2>3. /\ cur' = cur /\ i \in warnings'[p]
        /\ \A q \in Proc : warnings[q] \subseteq warnings'[q]
    BY <1>22 DEF ReplaceFails
  <2>4. \A q \in Proc : pc'[q] # "failing"
    <3>1. \A q \in Proc \ {p} : ~HoldsLock(q)
      BY <1>0, <2>1
    <3>2. pc'[p] # "failing" /\ \A q \in Proc \ {p} : pc'[q] = pc[q]
      BY <1>22 DEF ReplaceFails
    <3>. QED
      BY <3>1, <3>2
  <2> HIDE DEF Inv, StageInv, PlacesInv, DiskInv, UnsoundInv, Astray
  <2>. QED
    BY <2>1, <2>2, <2>3, <2>4
<1>23. ASSUME NEW p \in Proc, SaveReplacedIdentity(p) PROVE KnownInv'
  BY <1>23 DEF SaveReplacedIdentity
<1>24. ASSUME NEW p \in Proc, SaveReplacedFails(p) PROVE KnownInv'
  BY <1>24 DEF SaveReplacedFails
<1>25. ASSUME NEW p \in Proc, RebindRows(p) PROVE KnownInv'
  <2>1. /\ pc[p] = "rebind" /\ meta # LatestWorkspaceSchemaVersion /\ meta' = meta
        /\ torn' = torn /\ db' = db /\ did' = did /\ remoteDid' = remoteDid
    BY <1>25 DEF RebindRows
  <2>2. PICK c \in Identities : c = cur[p] /\ did[c] = "e1" /\ remoteDid[c] = "e1"
    BY <2>1
  <2>3. ASSUME NEW j \in Identities \ {c} PROVE Astray(j)' = Astray(j)
    <3>1. rows'[j] = rows[j]
      BY <2>2, <1>25 DEF RebindRows
    <3>. QED
      BY <2>1, <3>1
  <2>4. Astray(c)' => c \in warnings'[p]
    <3>1. rows'[c] \notin {"none", "e1"} => warnings'[p] = warnings[p] \union {c}
      BY <2>2, <1>25 DEF RebindRows
    <3>. QED
      BY <2>1, <2>2, <3>1
  <2>5. /\ \A q \in Proc \ {p} : cur'[q] = cur[q]
        /\ \A q \in Proc : warnings[q] \subseteq warnings'[q]
    <3>1. warnings' = warnings \/ warnings' = [warnings EXCEPT ![p] = @ \union {c}]
      BY <2>2, <1>25 DEF RebindRows
    <3>2. \A q \in Proc : warnings[q] \subseteq warnings'[q]
      BY <3>1
    <3>3. \A q \in Proc \ {p} : cur'[q] = cur[q]
      BY <1>25 DEF RebindRows
    <3>. QED
      BY <3>2, <3>3
  <2>6. \A q \in Proc : pc'[q] # "failing"
    <3>1. \A q \in Proc \ {p} : ~HoldsLock(q)
      BY <1>0, <2>1
    <3>2. pc'[p] # "failing" /\ \A q \in Proc \ {p} : pc'[q] = pc[q]
      BY <1>25 DEF RebindRows
    <3>. QED
      BY <3>1, <3>2
  <2> HIDE DEF Inv, StageInv, PlacesInv, DiskInv, UnsoundInv, Astray
  <2>. QED
    BY <2>1, <2>2, <2>3, <2>4, <2>5, <2>6
<1>26. ASSUME NEW p \in Proc, ReplaceDone(p) PROVE KnownInv'
  BY <1>26 DEF ReplaceDone
<1>27. ASSUME NEW p \in Proc, BeginValidate(p) PROVE KnownInv'
  BY <1>27 DEF BeginValidate, SaveJournal
<1>28. ASSUME NEW p \in Proc, Validate(p) PROVE KnownInv'
  BY <1>28 DEF Validate, Valid
<1>29. ASSUME NEW p \in Proc, SaveMeta(p) PROVE KnownInv'
  <2>1. pc[p] = "save_meta" /\ from[p] = meta /\ meta # LatestWorkspaceSchemaVersion
    BY <1>29 DEF SaveMeta
  <2>2. UNCHANGED <<did, rows, remoteDid, db, torn, warnings, cur>>
    BY <1>29 DEF SaveMeta
  <2>3. cur[p] = NoIdentity /\ \A q \in Proc \ {p} : warnings[q] = {} /\ cur[q] = NoIdentity
    <3>1. \A q \in Proc \ {p} : ~HoldsLock(q)
      BY <1>0, <2>1
    <3>. QED
      BY <2>1, <3>1
  <2>4. metaWarnings' = warnings[p]
    BY <1>29 DEF SaveMeta
  <2>5. \A q \in Proc : pc'[q] = "failing" => pc[q] = "failing"
    BY <1>29 DEF SaveMeta
  <2>6. \A i \in Identities : Astray(i)' = Astray(i)
    BY <2>2
  <2> HIDE DEF Inv, StageInv, PlacesInv, DiskInv, UnsoundInv, Astray
  <2>. QED
    BY <2>1, <2>2, <2>3, <2>4, <2>5, <2>6
<1>30. ASSUME NEW p \in Proc, ClearJournal(p) PROVE KnownInv'
  BY <1>30 DEF ClearJournal
<1>31. ASSUME NEW p \in Proc, Release(p) PROVE KnownInv'
  BY <1>31 DEF Release, ForgetLocals, NothingSeen
<1>32. CASE UNCHANGED vars
  BY <1>32
<1>. QED
  BY <1>1, <1>2, <1>3, <1>4, <1>5, <1>6, <1>7, <1>8, <1>9, <1>10, <1>11, <1>12,
     <1>13, <1>14, <1>15, <1>16, <1>17, <1>18, <1>19, <1>20, <1>21, <1>22, <1>23, <1>24,
     <1>25, <1>26, <1>27, <1>28, <1>29, <1>30, <1>31, <1>32
  DEF Next, Step

(* A process that adopts the legacy layout: it saw no workspace, and every    *)
(* identity is there once the import is over, with its rows if there are any. *)
HandsInv(p) ==
  /\ pc[p] \notin {"ready", "clear_stale", "clear", "release", "failing"}
  /\ pc[p] \in Begun => ~seen[p].hasWorkspace
  /\ pc[p] \in Imported \union {"import_rows"} => \A i \in legacy.ids : did[i] # "none"
  /\ pc[p] \in Imported /\ legacy.legacyDb => \A i \in legacy.ids : rows[i] # "none"

(* Until the legacy layout is adopted there is no workspace, or a process     *)
(* that is past the first write has the adoption in hand.                    *)
AdoptInv ==
  legacy.adopt /\ legacy.ids # {} /\ ~torn =>
    /\ db \in {"absent", "current"}
    /\ meta > 0 => Adopted
    /\ meta = 0 =>
         /\ IF midway THEN \E p \in Proc : pc[p] \in ConfigWritten ELSE ~HasWorkspace
         /\ \A p \in Proc : HandsInv(p)

(* Whoever begins the adoption ends it, unless it is stopped half way.       *)
LEMMA AdoptStep ==
  Inv /\ StageInv /\ SameRelease /\ PlacesInv /\ AdoptInv /\ [Next]_vars => AdoptInv'
<1> SUFFICES ASSUME Inv, StageInv, SameRelease, PlacesInv, AdoptInv, [Next]_vars PROVE AdoptInv'
  OBVIOUS
<1>0. ASSUME NEW p \in Proc, HoldsLock(p), NEW q \in Proc \ {p} PROVE lock = p /\ ~HoldsLock(q)
  BY <1>0 DEF Inv, MutualExclusion
<1> USE UpgradeConstants DEF Inv, TypeOK, ContentOK, RecordOK, LocalOK, HistoryOK, PlanInv,
        Planned, DID, LatestWorkspaceSchemaVersion, Goto, content, record, locks, local, history,
        vars,
        StageInv, SameRelease, MutualExclusion, HoldsLock, PlacesInv, PlaceInv, ImportInv,
        Unwritten, Replaced, Imported, ConfigWritten, Begun, AdoptInv, HandsInv, Adopted,
        HasWorkspace
<1>1. CASE LegacyLockExpires
  BY <1>1 DEF LegacyLockExpires
<1>2. ASSUME NEW p \in Proc, InspectUnlocked(p) PROVE AdoptInv'
  BY <1>2 DEF InspectUnlocked, Settled, Empty, HasLegacy, LegacyIdentityExists
<1>3. ASSUME NEW p \in Proc, RunCommand(p) PROVE AdoptInv'
  BY <1>3 DEF RunCommand
<1>4. ASSUME NEW p \in Proc, Abort(p) PROVE AdoptInv'
  BY <1>4 DEF Abort, ForgetLocals, NothingSeen
<1>5. ASSUME NEW p \in Proc, ClearStaleJournal(p) PROVE AdoptInv'
  BY <1>5 DEF ClearStaleJournal
<1>6. ASSUME NEW p \in Proc, AcquireFileLock(p) PROVE AdoptInv'
  BY <1>6 DEF AcquireFileLock
<1>7. ASSUME NEW p \in Proc, LockedOut(p) PROVE AdoptInv'
  BY <1>7 DEF LockedOut
<1>8. ASSUME NEW p \in Proc, InspectLocked(p) PROVE AdoptInv'
  BY <1>8 DEF InspectLocked, Detection, HasWorkspace, Settled, Empty, HasLegacy,
        LegacyIdentityExists
<1>9. ASSUME NEW p \in Proc, CreateBackup(p) PROVE AdoptInv'
  BY <1>9 DEF CreateBackup
<1>10. ASSUME NEW p \in Proc, CheckMigration(p) PROVE AdoptInv'
  BY <1>10 DEF CheckMigration, SaveJournal
<1>11. ASSUME NEW p \in Proc, BeginApply(p) PROVE AdoptInv'
  BY <1>11 DEF BeginApply, SaveJournal
<1>12. ASSUME NEW p \in Proc, ApplyConfig(p) PROVE AdoptInv'
  BY <1>12 DEF ApplyConfig
<1>13. ASSUME NEW p \in Proc, RemoveLegacyConfig(p) PROVE AdoptInv'
  BY <1>13 DEF RemoveLegacyConfig
<1>14. ASSUME NEW p \in Proc, NEW i \in Identities, ImportIdentity(p, i) PROVE AdoptInv'
  BY <1>14 DEF ImportIdentity, AdoptsLegacy
<1>15. ASSUME NEW p \in Proc, ImportIdentitiesDone(p) PROVE AdoptInv'
  BY <1>15 DEF ImportIdentitiesDone, AdoptsLegacy, HasLegacy, LegacyIdentityExists
<1>16. ASSUME NEW p \in Proc, NEW i \in Identities, ImportRows(p, i) PROVE AdoptInv'
  BY <1>16 DEF ImportRows
<1>17. ASSUME NEW p \in Proc, ImportRowsDone(p) PROVE AdoptInv'
  BY <1>17 DEF ImportRowsDone
<1>18. ASSUME NEW p \in Proc, EnsureStoreSchema(p) PROVE AdoptInv'
  BY <1>18 DEF EnsureStoreSchema
<1>19. ASSUME NEW p \in Proc, CleanupLegacySkill(p) PROVE AdoptInv'
  BY <1>19 DEF CleanupLegacySkill
<1>20. ASSUME NEW p \in Proc, ListExistingK1(p) PROVE AdoptInv'
  BY <1>20 DEF ListExistingK1
<1>21. ASSUME NEW p \in Proc, NEW i \in Identities, ReplaceRemote(p, i) PROVE AdoptInv'
  BY <1>21 DEF ReplaceRemote
<1>22. ASSUME NEW p \in Proc, NEW i \in Identities, ReplaceFails(p, i) PROVE AdoptInv'
  BY <1>22 DEF ReplaceFails
<1>23. ASSUME NEW p \in Proc, SaveReplacedIdentity(p) PROVE AdoptInv'
  BY <1>23 DEF SaveReplacedIdentity
<1>24. ASSUME NEW p \in Proc, SaveReplacedFails(p) PROVE AdoptInv'
  BY <1>24 DEF SaveReplacedFails
<1>25. ASSUME NEW p \in Proc, RebindRows(p) PROVE AdoptInv'
  BY <1>25 DEF RebindRows
<1>26. ASSUME NEW p \in Proc, ReplaceDone(p) PROVE AdoptInv'
  BY <1>26 DEF ReplaceDone
<1>27. ASSUME NEW p \in Proc, BeginValidate(p) PROVE AdoptInv'
  BY <1>27 DEF BeginValidate, SaveJournal
<1>28. ASSUME NEW p \in Proc, Validate(p) PROVE AdoptInv'
  BY <1>28 DEF Validate, Valid
<1>29. ASSUME NEW p \in Proc, SaveMeta(p) PROVE AdoptInv'
  BY <1>29 DEF SaveMeta
<1>30. ASSUME NEW p \in Proc, ClearJournal(p) PROVE AdoptInv'
  BY <1>30 DEF ClearJournal
<1>31. ASSUME NEW p \in Proc, Release(p) PROVE AdoptInv'
  BY <1>31 DEF Release, ForgetLocals, NothingSeen
<1>32. CASE UNCHANGED vars
  BY <1>32
<1>. QED
  BY <1>1, <1>2, <1>3, <1>4, <1>5, <1>6, <1>7, <1>8, <1>9, <1>10, <1>11, <1>12,
     <1>13, <1>14, <1>15, <1>16, <1>17, <1>18, <1>19, <1>20, <1>21, <1>22, <1>23, <1>24,
     <1>25, <1>26, <1>27, <1>28, <1>29, <1>30, <1>31, <1>32
  DEF Next, Step

LEMMA InitDelivers == Init => PlacesInv /\ DiskInv /\ UnsoundInv /\ KnownInv /\ AdoptInv
<1> SUFFICES ASSUME Init PROVE PlacesInv /\ DiskInv /\ UnsoundInv /\ KnownInv /\ AdoptInv
  OBVIOUS
<1>1. PICK w \in InitialWorkspaces :
        /\ did = w.did /\ rows = w.rows /\ db = w.db /\ meta = w.meta /\ config = w.config
        /\ legacyConfig = w.legacyConfig
        /\ legacy = [ids |-> w.ids, junk |-> w.junk, legacyDb |-> w.legacyDb,
                     settings |-> w.settings,
                     adopt |-> w.meta = 0 /\ w.config = "absent" /\ ~w.legacyConfig
                               /\ w.db = "absent" /\ \A i \in Identities : w.did[i] = "none"]
        /\ remoteDid = [i \in Identities |->
                          IF w.did[i] = "none" /\ i \in w.ids THEN "k1" ELSE w.did[i]]
  BY DEF Init
<1>2. /\ w \in Workspace /\ w.did \in [Identities -> DID] /\ w.rows \in [Identities -> DID]
      /\ w.meta \in 0..LatestWorkspaceSchemaVersion /\ w.ids \subseteq Identities
  BY <1>1, UpgradeConstants DEF Workspace
<1>3. /\ w.meta > 0 => w.db \in {"absent", "current"}
      /\ w.meta < LatestWorkspaceSchemaVersion
      /\ \A i \in Identities : w.rows[i] \in {"none", w.did[i]}
  BY <1>1, UpgradeConstants DEF Plausible
<1>4. /\ pc = [p \in Proc |-> "idle"] /\ from = [p \in Proc |-> 0] /\ todo = [p \in Proc |-> {}]
      /\ cur = [p \in Proc |-> NoIdentity] /\ warnings = [p \in Proc |-> {}] /\ midway = FALSE
  BY DEF Init
<1> USE <1>1, <1>2, <1>3, <1>4 DEF DID, LatestWorkspaceSchemaVersion
<1>5. PlacesInv
  BY DEF PlacesInv, PlaceInv, HoldsLock, ImportInv, Unwritten, ConfigWritten, Imported, Replaced
<1>6. DiskInv
  BY DEF DiskInv
<1>7. UnsoundInv
  BY DEF UnsoundInv, Begun, Planned
<1>8. KnownInv
  BY DEF KnownInv, Astray
<1>9. AdoptInv
  <2> SUFFICES ASSUME legacy.adopt PROVE AdoptInv
    BY DEF AdoptInv
  <2>1. meta = 0 /\ config = "absent" /\ ~legacyConfig /\ db = "absent"
    OBVIOUS
  <2>2. \A i \in Identities : did[i] = "none"
    OBVIOUS
  <2>3. \A p \in Proc : HandsInv(p)
    BY DEF HandsInv, Begun, Planned, Imported, Replaced
  <2>. QED
    BY <2>1, <2>2, <2>3 DEF AdoptInv, HasWorkspace
<1>. QED
  BY <1>5, <1>6, <1>7, <1>8, <1>9

(* When every command is of the latest release, a fully upgraded workspace    *)
(* has all the upgrade promises, whoever ran it and however often it failed,  *)
(* or a process was stopped in one of the windows torn names.                *)
THEOREM NothingLeftUndone == ASSUME SameRelease PROVE Spec => []CompleteUnlessTorn
<1> DEFINE Whole == PlacesInv /\ DiskInv /\ UnsoundInv /\ KnownInv /\ AdoptInv
<1>1. Inv /\ StageInv /\ Whole /\ [Next]_vars => (StageInv /\ Whole)'
  BY StageStep, PlacesStep, DiskStep, UnsoundStep, KnownStep, AdoptStep
<1>2. Init => StageInv /\ Whole
  BY InitStage, InitDelivers
<1>3. Inv /\ Whole => CompleteUnlessTorn
  <2> SUFFICES ASSUME Inv, Whole, meta = LatestWorkspaceSchemaVersion, ~torn
               PROVE  Adopted /\ KeysUsable /\ RowsFollowIdentity
    BY DEF CompleteUnlessTorn
  <2>1. db # "unsound"
    BY DEF UnsoundInv, LatestWorkspaceSchemaVersion
  <2>2. \A i \in Identities : Astray(i) => i \in metaWarnings
    BY <2>1 DEF KnownInv
  <2>3. KeysUsable /\ RowsFollowIdentity
    BY <2>2 DEF KeysUsable, RowsFollowIdentity, Astray
  <2>4. Adopted
    BY DEF AdoptInv, Adopted, LatestWorkspaceSchemaVersion
  <2>. QED
    BY <2>3, <2>4
<1> HIDE DEF Whole
<1>. QED
  BY <1>1, <1>2, <1>3, InvAlways, PTL DEF Spec

-----------------------------------------------------------------------------
(* What each step does to the ledger: most leave it as it is.                *)
LEMMA LedgerStep ==
  Inv /\ JournalInv /\ SameRelease /\ [Next]_vars => [Ledger!Next]_(Ledger!vars)
<1> SUFFICES ASSUME Inv, JournalInv, SameRelease, [Next]_vars
             PROVE  [Ledger!Next]_(Ledger!vars)
  OBVIOUS
<1> USE UpgradeConstants DEF Inv, TypeOK, ContentOK, RecordOK, LocalOK, HistoryOK, PlanInv,
        Planned, DID, LatestWorkspaceSchemaVersion, Goto, content, record, locks, local, history,
        vars, SameRelease, MutualExclusion, HoldsLock, JournalInv
<1>1. CASE LegacyLockExpires
  <2>1. UNCHANGED <<meta, lock, midway, journal, backups>>
    BY <1>1 DEF LegacyLockExpires
  <2>. QED
    BY <2>1 DEF Ledger!vars
<1>2. ASSUME NEW p \in Proc, InspectUnlocked(p) PROVE [Ledger!Next]_(Ledger!vars)
  <2>1. UNCHANGED <<meta, lock, midway, journal, backups>>
    BY <1>2 DEF InspectUnlocked
  <2>. QED
    BY <2>1 DEF Ledger!vars
<1>3. ASSUME NEW p \in Proc, RunCommand(p) PROVE [Ledger!Next]_(Ledger!vars)
  <2>1. UNCHANGED <<meta, lock, midway, journal, backups>>
    BY <1>3 DEF RunCommand
  <2>. QED
    BY <2>1 DEF Ledger!vars
<1>4. ASSUME NEW p \in Proc, Abort(p) PROVE [Ledger!Next]_(Ledger!vars)
  <2>1. lock = p /\ lock' = NoProc /\ UNCHANGED <<meta, midway, journal, backups>>
    BY <1>4 DEF Abort, Running, ForgetLocals
  <2>. QED
    BY <2>1 DEF Ledger!Next, Ledger!Leave
<1>5. ASSUME NEW p \in Proc, ClearStaleJournal(p) PROVE [Ledger!Next]_(Ledger!vars)
  <2>1. meta = LatestWorkspaceSchemaVersion /\ ~midway
    BY <1>5 DEF ClearStaleJournal
  <2>2. journal' = 0 /\ UNCHANGED <<meta, lock, midway, backups>>
    BY <1>5 DEF ClearStaleJournal
  <2>. QED
    BY <2>1, <2>2 DEF Ledger!Next, Ledger!Forget
<1>6. ASSUME NEW p \in Proc, AcquireFileLock(p) PROVE [Ledger!Next]_(Ledger!vars)
  <2>1. lock = NoProc /\ lock' = p /\ UNCHANGED <<meta, midway, journal, backups>>
    BY <1>6 DEF AcquireFileLock
  <2>. QED
    BY <2>1 DEF Ledger!Next, Ledger!Enter
<1>7. ASSUME NEW p \in Proc, LockedOut(p) PROVE [Ledger!Next]_(Ledger!vars)
  <2>1. UNCHANGED <<meta, lock, midway, journal, backups>>
    BY <1>7 DEF LockedOut
  <2>. QED
    BY <2>1 DEF Ledger!vars
<1>8. ASSUME NEW p \in Proc, InspectLocked(p) PROVE [Ledger!Next]_(Ledger!vars)
  <2>1. UNCHANGED <<meta, lock, midway, journal, backups>>
    BY <1>8 DEF InspectLocked, Detection, HasWorkspace
  <2>. QED
    BY <2>1 DEF Ledger!vars
<1>9. ASSUME NEW p \in Proc, CreateBackup(p) PROVE [Ledger!Next]_(Ledger!vars)
  <2>1. UNCHANGED <<meta, lock, midway, journal>>
    BY <1>9 DEF CreateBackup
  <2>2. journal # 0 => backups' = backups
    BY <1>9 DEF CreateBackup
  <2>. QED
    BY <2>1, <2>2 DEF Ledger!vars
<1>10. ASSUME NEW p \in Proc, CheckMigration(p) PROVE [Ledger!Next]_(Ledger!vars)
  <2>1. lock = p /\ journal' = backup[p] /\ UNCHANGED <<meta, lock, midway, backups>>
    BY <1>10 DEF CheckMigration, SaveJournal
  <2>2. Pristine(backup[p]) /\ journal \in {0, backup[p]}
    BY <1>10 DEF CheckMigration
  <2>3. CASE midway
    BY <2>1, <2>2, <2>3 DEF Pristine, Ledger!vars
  <2>4. CASE ~midway
    BY <2>1, <2>2, <2>4 DEF Pristine, Ledger!Next, Ledger!Protect
  <2>. QED
    BY <2>3, <2>4
<1>11. ASSUME NEW p \in Proc, BeginApply(p) PROVE [Ledger!Next]_(Ledger!vars)
  <2>1. UNCHANGED <<meta, lock, midway, journal, backups>>
    BY <1>11 DEF BeginApply, SaveJournal
  <2>. QED
    BY <2>1 DEF Ledger!vars
<1>12. ASSUME NEW p \in Proc, ApplyConfig(p) PROVE [Ledger!Next]_(Ledger!vars)
  <2>1. lock = p /\ Pristine(journal) /\ UNCHANGED <<meta, lock, journal, backups>>
    BY <1>12 DEF ApplyConfig
  <2>2. midway' = midway \/ midway' = TRUE
    BY <1>12 DEF ApplyConfig
  <2>. QED
    BY <2>1, <2>2 DEF Pristine, Ledger!Next, Ledger!Change, Ledger!vars
<1>13. ASSUME NEW p \in Proc, RemoveLegacyConfig(p) PROVE [Ledger!Next]_(Ledger!vars)
  <2>1. UNCHANGED <<meta, lock, midway, journal, backups>>
    BY <1>13 DEF RemoveLegacyConfig
  <2>. QED
    BY <2>1 DEF Ledger!vars
<1>14. ASSUME NEW p \in Proc, NEW i \in Identities, ImportIdentity(p, i)
       PROVE  [Ledger!Next]_(Ledger!vars)
  <2>1. lock = p /\ Pristine(journal) /\ UNCHANGED <<meta, lock, journal, backups>>
    BY <1>14 DEF ImportIdentity
  <2>2. midway' = midway \/ midway' = TRUE
    BY <1>14 DEF ImportIdentity
  <2>. QED
    BY <2>1, <2>2 DEF Pristine, Ledger!Next, Ledger!Change, Ledger!vars
<1>15. ASSUME NEW p \in Proc, ImportIdentitiesDone(p) PROVE [Ledger!Next]_(Ledger!vars)
  <2>1. lock = p /\ Pristine(journal) /\ UNCHANGED <<meta, lock, journal, backups>>
    BY <1>15 DEF ImportIdentitiesDone
  <2>2. midway' = midway \/ midway' = TRUE
    BY <1>15 DEF ImportIdentitiesDone
  <2>. QED
    BY <2>1, <2>2 DEF Pristine, Ledger!Next, Ledger!Change, Ledger!vars
<1>16. ASSUME NEW p \in Proc, NEW i \in Identities, ImportRows(p, i)
       PROVE  [Ledger!Next]_(Ledger!vars)
  <2>1. UNCHANGED <<meta, lock, midway, journal, backups>>
    BY <1>16 DEF ImportRows
  <2>. QED
    BY <2>1 DEF Ledger!vars
<1>17. ASSUME NEW p \in Proc, ImportRowsDone(p) PROVE [Ledger!Next]_(Ledger!vars)
  <2>1. UNCHANGED <<meta, lock, midway, journal, backups>>
    BY <1>17 DEF ImportRowsDone
  <2>. QED
    BY <2>1 DEF Ledger!vars
<1>18. ASSUME NEW p \in Proc, EnsureStoreSchema(p) PROVE [Ledger!Next]_(Ledger!vars)
  <2>1. lock = p /\ Pristine(journal) /\ UNCHANGED <<meta, lock, journal, backups>>
    BY <1>18 DEF EnsureStoreSchema
  <2>2. midway' = midway \/ midway' = TRUE
    BY <1>18 DEF EnsureStoreSchema
  <2>. QED
    BY <2>1, <2>2 DEF Pristine, Ledger!Next, Ledger!Change, Ledger!vars
<1>19. ASSUME NEW p \in Proc, CleanupLegacySkill(p) PROVE [Ledger!Next]_(Ledger!vars)
  <2>1. UNCHANGED <<meta, lock, midway, journal, backups>>
    BY <1>19 DEF CleanupLegacySkill
  <2>. QED
    BY <2>1 DEF Ledger!vars
<1>20. ASSUME NEW p \in Proc, ListExistingK1(p) PROVE [Ledger!Next]_(Ledger!vars)
  <2>1. UNCHANGED <<meta, lock, midway, journal, backups>>
    BY <1>20 DEF ListExistingK1
  <2>. QED
    BY <2>1 DEF Ledger!vars
<1>21. ASSUME NEW p \in Proc, NEW i \in Identities, ReplaceRemote(p, i)
       PROVE  [Ledger!Next]_(Ledger!vars)
  <2>1. lock = p /\ Pristine(journal) /\ UNCHANGED <<meta, lock, journal, backups>>
    BY <1>21 DEF ReplaceRemote
  <2>2. midway' = midway \/ midway' = TRUE
    BY <1>21 DEF ReplaceRemote
  <2>. QED
    BY <2>1, <2>2 DEF Pristine, Ledger!Next, Ledger!Change, Ledger!vars
<1>22. ASSUME NEW p \in Proc, NEW i \in Identities, ReplaceFails(p, i)
       PROVE  [Ledger!Next]_(Ledger!vars)
  <2>1. lock = p /\ Pristine(journal) /\ UNCHANGED <<meta, lock, journal, backups>>
    <3>1. pc[p] = "replace" /\ UNCHANGED <<meta, lock, journal, backups>>
      BY <1>22 DEF ReplaceFails
    <3>. QED
      BY <3>1
  <2>2. midway' = midway \/ midway' = TRUE
    BY <1>22 DEF ReplaceFails
  <2>. QED
    BY <2>1, <2>2 DEF Pristine, Ledger!Next, Ledger!Change, Ledger!vars
<1>23. ASSUME NEW p \in Proc, SaveReplacedIdentity(p) PROVE [Ledger!Next]_(Ledger!vars)
  <2>1. UNCHANGED <<meta, lock, midway, journal, backups>>
    BY <1>23 DEF SaveReplacedIdentity
  <2>. QED
    BY <2>1 DEF Ledger!vars
<1>24. ASSUME NEW p \in Proc, SaveReplacedFails(p) PROVE [Ledger!Next]_(Ledger!vars)
  <2>1. UNCHANGED <<meta, lock, midway, journal, backups>>
    BY <1>24 DEF SaveReplacedFails
  <2>. QED
    BY <2>1 DEF Ledger!vars
<1>25. ASSUME NEW p \in Proc, RebindRows(p) PROVE [Ledger!Next]_(Ledger!vars)
  <2>1. UNCHANGED <<meta, lock, midway, journal, backups>>
    BY <1>25 DEF RebindRows
  <2>. QED
    BY <2>1 DEF Ledger!vars
<1>26. ASSUME NEW p \in Proc, ReplaceDone(p) PROVE [Ledger!Next]_(Ledger!vars)
  <2>1. UNCHANGED <<meta, lock, midway, journal, backups>>
    BY <1>26 DEF ReplaceDone
  <2>. QED
    BY <2>1 DEF Ledger!vars
<1>27. ASSUME NEW p \in Proc, BeginValidate(p) PROVE [Ledger!Next]_(Ledger!vars)
  <2>1. UNCHANGED <<meta, lock, midway, journal, backups>>
    BY <1>27 DEF BeginValidate, SaveJournal
  <2>. QED
    BY <2>1 DEF Ledger!vars
<1>28. ASSUME NEW p \in Proc, Validate(p) PROVE [Ledger!Next]_(Ledger!vars)
  <2>1. UNCHANGED <<meta, lock, midway, journal, backups>>
    BY <1>28 DEF Validate
  <2>. QED
    BY <2>1 DEF Ledger!vars
<1>29. ASSUME NEW p \in Proc, SaveMeta(p) PROVE [Ledger!Next]_(Ledger!vars)
  <2>1. lock = p /\ from[p] = meta /\ UNCHANGED <<lock, journal, backups>>
    BY <1>29 DEF SaveMeta
  <2>2. Pristine(journal)
    BY <1>29 DEF SaveMeta
  <2>3. meta < LatestWorkspaceSchemaVersion /\ meta' = meta + 1
    BY <2>1, <1>29 DEF SaveMeta
  <2>4. midway' = (meta' # LatestWorkspaceSchemaVersion)
    BY <2>1, <2>3, <1>29 DEF SaveMeta
  <2>. QED
    BY <2>1, <2>2, <2>3, <2>4 DEF Pristine, Ledger!Next, Ledger!Record
<1>30. ASSUME NEW p \in Proc, ClearJournal(p) PROVE [Ledger!Next]_(Ledger!vars)
  <2>1. meta = LatestWorkspaceSchemaVersion /\ ~midway
    BY <1>30 DEF ClearJournal
  <2>2. journal' = 0 /\ UNCHANGED <<meta, lock, midway, backups>>
    BY <1>30 DEF ClearJournal
  <2>. QED
    BY <2>1, <2>2 DEF Ledger!Next, Ledger!Forget
<1>31. ASSUME NEW p \in Proc, Release(p) PROVE [Ledger!Next]_(Ledger!vars)
  <2>1. lock = p /\ lock' = NoProc /\ UNCHANGED <<meta, midway, journal, backups>>
    BY <1>31 DEF Release, ForgetLocals
  <2>. QED
    BY <2>1 DEF Ledger!Next, Ledger!Leave
<1>32. CASE UNCHANGED vars
  BY <1>32 DEF Ledger!vars
<1>. QED
  BY <1>1, <1>2, <1>3, <1>4, <1>5, <1>6, <1>7, <1>8, <1>9, <1>10, <1>11, <1>12,
     <1>13, <1>14, <1>15, <1>16, <1>17, <1>18, <1>19, <1>20, <1>21, <1>22, <1>23, <1>24,
     <1>25, <1>26, <1>27, <1>28, <1>29, <1>30, <1>31, <1>32
  DEF Next, Step

(* With one release installed, the upgrade implements its ledger: whatever    *)
(* inspects, stops, fails or starts again meanwhile, only the holder of the  *)
(* lock moves the version, step by step, and nothing is changed without a    *)
(* backup from before on record.                                             *)
THEOREM UpgradeKeepsLedger == ASSUME SameRelease PROVE Spec => ImplementsLedger
<1>1. Init => Ledger!Init
  <2> SUFFICES ASSUME Init PROVE Ledger!Init
    OBVIOUS
  <2>1. meta \in 0..LatestWorkspaceSchemaVersion
    BY InitInv DEF Inv, TypeOK, RecordOK
  <2>. QED
    BY <2>1 DEF Init, Ledger!Init
<1>2. Inv /\ JournalInv /\ [Next]_vars => [Ledger!Next]_(Ledger!vars)
  BY LedgerStep
<1>3. Inv /\ JournalInv /\ [Next]_vars => JournalInv'
  BY JournalStep
<1>. QED
  BY InitJournal, InvAlways, <1>1, <1>2, <1>3, PTL DEF Spec, ImplementsLedger, Ledger!Spec
=============================================================================
