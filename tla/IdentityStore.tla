---------------------------- MODULE IdentityStore ----------------------------
(***************************************************************************)
(* The local identity store (internal/identity: index.json, one directory   *)
(* per DID, backups) and the commands that change it: id create, register,  *)
(* use, profile set, replace-did and recover.                               *)
(*                                                                          *)
(* Every command is a process of its own.  index.json is read, changed and  *)
(* written back without a lock; a command writes several files one after    *)
(* the other and calls the user service in between; it can be killed at     *)
(* every step.  A DID names its directory (preferredDirName of its suffix). *)
(***************************************************************************)
EXTENDS Naturals, FiniteSets

CONSTANTS
  Procs,      \* commands running at the same time
  Names,      \* identity names (aliases)
  DIDs,       \* DIDs that can be generated
  Handles,
  None,
  HandleOf,   \* the handle in the path of a DID, None for did:...:user
  FinalName,  \* sanitizeIdentityName of a handle
  TempName,   \* the same followed by "-recover-tmp"
  Fallback,   \* the name chooseNamedIdentity gives when FinalName is used
  Default,    \* the name "default"
  Legacy,     \* a DID an earlier release left behind, without a full handle
  Exclusive,  \* kinds of command of which the user runs one at a time
  Kinds, MaxCommands, MaxKills

ASSUME StoreConstants ==
  /\ HandleOf \in [DIDs -> Handles \union {None}]
  /\ FinalName \in [Handles -> Names] /\ TempName \in [Handles -> Names]
  /\ Fallback \in [Handles -> Names]
  /\ \A h \in Handles : FinalName[h] # TempName[h] /\ Fallback[h] # FinalName[h]
  /\ None \notin Names \union DIDs \union Handles
  /\ Default \in Names /\ Legacy \in DIDs /\ HandleOf[Legacy] # None
  /\ Kinds \subseteq {"create", "register", "use", "profile", "replace", "recover"}
  /\ MaxCommands \in Nat /\ MaxKills \in Nat

VARIABLES
  index,      \* index.json
  dirs,       \* files of each directory: "none", "ident" (no keys yet), "keys"
  backups,    \* DIDs with a copy of their directory in .legacy-backup
  service,    \* the user service: the DID that owns each handle
  rows,       \* DIDs that own rows of the local database
  active,     \* identity.active of config.yaml
  proc,       \* the commands
  generated,  \* DIDs generated so far
  started, killed,  \* bounds
  stale,      \* history: an index was written over one its writer had not read
  dropped,    \* history: DIDs a command let go of before it saved their keys
  orphaned    \* history: owners a command let go of before it moved their rows

files == <<index, dirs, backups, active>>
history == <<generated, started, killed, stale, dropped, orphaned>>
vars == <<files, service, rows, proc, history>>

Entry == [did: DIDs, full: BOOLEAN]   \* full: the entry has a full handle

Live(i) == DOMAIN i.cred
NamedBy(i) == {i.cred[n].did : n \in Live(i)}
NoIndex == [cred |-> [n \in {} |-> None], def |-> None]

(* normalizeIndexPayload: without a default, "default" is it.                *)
Normalize(i) ==
  IF i.def = None /\ Default \in Live(i) THEN [i EXCEPT !.def = Default] ELSE i

With(i, n, e) == [i EXCEPT !.cred = [m \in Live(i) \union {n} |-> IF m = n THEN e ELSE i.cred[m]]]
Without(i, S) == [i EXCEPT !.cred = [m \in Live(i) \ S |-> i.cred[m]]]

Idle == [pc |-> "idle", kind |-> None, name |-> None, did |-> None, handle |-> None,
         record |-> None, seen |-> NoIndex, before |-> NoIndex,
         load |-> {}, fill |-> {}, archived |-> {}, old |-> {}, activeBefore |-> None]

Init ==
  /\ \/ /\ index = NoIndex /\ dirs = [d \in DIDs |-> "none"] /\ generated = {}
        /\ service = [h \in Handles |-> None] /\ rows = {} /\ active = None
     \/ /\ index = [cred |-> [n \in {FinalName[HandleOf[Legacy]]} |->
                              [did |-> Legacy, full |-> FALSE]],
                    def |-> FinalName[HandleOf[Legacy]]]
        /\ dirs = [d \in DIDs |-> IF d = Legacy THEN "keys" ELSE "none"]
        /\ generated = {Legacy} /\ rows = {Legacy}
        /\ service = [h \in Handles |-> IF h = HandleOf[Legacy] THEN Legacy ELSE None]
        /\ active \in {None, FinalName[HandleOf[Legacy]]}
  /\ backups = {} /\ proc = [p \in Procs |-> Idle]
  /\ started = 0 /\ killed = 0
  /\ stale = FALSE /\ dropped = {} /\ orphaned = {}

-----------------------------------------------------------------------------
(* Steps of a command.                                                       *)

At(p, label) == proc[p].pc = label
Goto(p, label) == proc' = [proc EXCEPT ![p].pc = label]

(* Between the answer of the service and the last key file, the keys of the  *)
(* new DID are in the memory of the command only.                            *)
KeysInMemory == {"save", "saveIdent", "saveKeys", "repl", "replIdent", "replKeys"}

(* Between the new index and the end of the rebinding, rows of the replaced  *)
(* DID have no live identity.                                                *)
RowsBehind == {"replRemove", "rebind"}

(* The command of p ends: done, refused or killed.                           *)
End(p) ==
  /\ proc' = [proc EXCEPT ![p] = Idle]
  /\ dropped' = IF proc[p].pc \in KeysInMemory THEN dropped \union {proc[p].did} ELSE dropped
  /\ orphaned' = IF proc[p].pc \in RowsBehind THEN orphaned \union {proc[p].record} ELSE orphaned

Kept == UNCHANGED <<dropped, orphaned>>

SaveIndex(p, i) ==
  /\ index' = Normalize(i)
  /\ stale' = (stale \/ index # proc[p].seen)

Start(p, kind) ==
  /\ At(p, "idle") /\ started < MaxCommands /\ kind \in Kinds
  /\ kind \in Exclusive => \A q \in Procs : proc[q].kind \notin Exclusive
  /\ started' = started + 1

(* id create, id register and id recover look at all identities first.       *)
StartListing(p, kind, h, n) ==
  /\ Start(p, kind)
  /\ proc' = [proc EXCEPT ![p] = [Idle EXCEPT !.pc = "list", !.kind = kind,
                                              !.handle = h, !.name = n]]
  /\ UNCHANGED <<files, service, rows, generated, killed, stale, dropped, orphaned>>

(* --identity, or nothing: then the name is chosen from the list.            *)
Create(p, n) == StartListing(p, "create", None, n)
Register(p, h, n) == StartListing(p, "register", h, n)
Recover(p, h) == StartListing(p, "recover", h, None)

(* id replace-did and profile set load one identity: the named or active one *)
StartOn(p, kind, n) ==
  /\ Start(p, kind) /\ n \in Live(index)
  /\ proc' = [proc EXCEPT ![p] = [Idle EXCEPT !.pc = "load", !.kind = kind, !.name = n,
                !.record = index.cred[n].did, !.seen = index, !.load = {n}]]
  /\ UNCHANGED <<files, service, rows, generated, killed, stale, dropped, orphaned>>

ReplaceDID(p, n) ==
  /\ n \in Live(index) /\ HandleOf[index.cred[n].did] # None
  /\ StartOn(p, "replace", n)

SetProfile(p, n) == StartOn(p, "profile", n)

(* SetDefault reads the index ...                                            *)
Use(p, n) ==
  /\ Start(p, "use") /\ n \in Live(index)
  /\ proc' = [proc EXCEPT ![p] = [Idle EXCEPT !.pc = "use", !.kind = "use",
                                              !.name = n, !.seen = index]]
  /\ UNCHANGED <<files, service, rows, generated, killed, stale, dropped, orphaned>>

(* ... and writes it back.                                                   *)
SetDefault(p) ==
  /\ At(p, "use")
  /\ SaveIndex(p, [proc[p].seen EXCEPT !.def = proc[p].name])
  /\ End(p)
  /\ UNCHANGED <<dirs, backups, active, service, rows, generated, started, killed>>

(* UpdateDisplayName writes the index it read back with another Name.        *)
UpdateDisplayName(p) ==
  /\ At(p, "rename")
  /\ SaveIndex(p, proc[p].seen) /\ End(p)
  /\ UNCHANGED <<dirs, backups, active, service, rows, generated, started, killed>>

LacksHandle(i) == {n \in Live(i) : ~i.cred[n].full /\ HandleOf[i.cred[n].did] # None}

(* List reads the index and then loads every identity without a full handle. *)
List(p) ==
  /\ At(p, "list")
  /\ proc' = [proc EXCEPT ![p].pc = "load", ![p].seen = index, ![p].before = index,
                          ![p].load = LacksHandle(index)]
  /\ UNCHANGED <<files, service, rows, history>>

(* Load reads the index again; what it lacks is written back afterwards.     *)
Load(p) ==
  /\ At(p, "load")
  /\ \E n \in proc[p].load :
       IF n \notin Live(index) \/ dirs[index.cred[n].did] = "none"
       THEN End(p)
       ELSE /\ proc' = [proc EXCEPT ![p].load = @ \ {n}, ![p].seen = index,
                  ![p].record = index.cred[n].did,
                  ![p].fill = {n} \intersect LacksHandle(index),
                  ![p].pc = IF n \in LacksHandle(index) THEN "fill" ELSE "load"]
            /\ Kept
  /\ UNCHANGED <<files, service, rows, generated, started, killed, stale>>

(* persistStoredHandleBackfill: reading an identity rewrites index.json.     *)
Backfill(p) ==
  /\ At(p, "fill")
  /\ \E n \in proc[p].fill :
       SaveIndex(p, [proc[p].seen EXCEPT !.cred[n].full = TRUE])
  /\ proc' = [proc EXCEPT ![p].pc = "load", ![p].fill = {}]
  /\ UNCHANGED <<dirs, backups, active, service, rows, generated, started, killed, dropped, orphaned>>

Fresh(h) == {d \in DIDs \ generated : HandleOf[d] = h}

(* chooseDefaultIdentityName: the requested name, "default" for the first    *)
(* identity of all, or the display name, varied until it is free.            *)
DefaultIdentityNames(c) ==
  CASE c.name # None -> {c.name}
    [] Live(c.before) = {} -> {Default}
    [] OTHER -> Names \ Live(c.before)

(* chooseNamedIdentity: the requested name, or the handle, varied likewise.  *)
NamedIdentities(c) ==
  CASE c.name # None -> {c.name}
    [] FinalName[c.handle] \notin Live(c.before) -> {FinalName[c.handle]}
    [] OTHER -> {Fallback[c.handle]} \ Live(c.before)

Listed(p, kind) == At(p, "load") /\ proc[p].kind = kind /\ proc[p].load = {}

(* A DID is generated and the command goes on under the name n.              *)
Generate(p, n, h, label) ==
  \E d \in Fresh(h) :
    /\ generated' = generated \union {d}
    /\ proc' = [proc EXCEPT ![p].did = d, ![p].name = n, ![p].handle = h, ![p].pc = label]

CreateIdentity(p) ==
  /\ Listed(p, "create")
  /\ \E n \in DefaultIdentityNames(proc[p]) : Generate(p, n, None, "save")
  /\ UNCHANGED <<files, service, rows, started, killed, stale, dropped, orphaned>>

(* Without an OTP, or before the email is verified, register sends one and   *)
(* ends; a --wait that times out ends too.                                   *)
VerifyContact(p) ==
  /\ Listed(p, "register") /\ End(p)
  /\ UNCHANGED <<files, service, rows, generated, started, killed, stale>>

PlanRegister(p) ==
  /\ Listed(p, "register")
  /\ \E n \in NamedIdentities(proc[p]) : Generate(p, n, proc[p].handle, "remote")
  /\ UNCHANGED <<files, service, rows, started, killed, stale, dropped, orphaned>>

PlanProfile(p) ==
  /\ Listed(p, "profile")
  /\ \/ proc' = [proc EXCEPT ![p].pc = "rename", ![p].seen = index] /\ Kept
     \/ End(p)   \* update_me failed
  /\ UNCHANGED <<files, service, rows, generated, started, killed, stale>>

(* HandlePathPrefixFromDID refuses a DID without a handle.                   *)
PlanReplace(p) ==
  /\ Listed(p, "replace")
  /\ IF HandleOf[proc[p].record] = None
     THEN End(p) /\ UNCHANGED generated
     ELSE Generate(p, proc[p].name, HandleOf[proc[p].record], "backupOne") /\ Kept
  /\ UNCHANGED <<files, service, rows, started, killed, stale>>

SameHandle(i, h) == {n \in Live(i) : HandleOf[i.cred[n].did] = h}

(* buildRecoverPlan refuses a final name that belongs to another handle.     *)
PlanRefused(c) == FinalName[c.handle] \in Live(c.before) \ SameHandle(c.before, c.handle)

(* Without an OTP the recovery asks the service for one and ends.            *)
SendRecoverOTP(p) ==
  /\ Listed(p, "recover") /\ ~PlanRefused(proc[p]) /\ End(p)
  /\ UNCHANGED <<files, service, rows, generated, started, killed, stale>>

(* The temporary name is asked for by name, so that it is never varied.      *)
PlanRecover(p) ==
  /\ Listed(p, "recover")
  /\ IF PlanRefused(proc[p])
     THEN End(p) /\ UNCHANGED generated
     ELSE /\ Generate(p, TempName[proc[p].handle], proc[p].handle, "backupAll")
          /\ Kept
  /\ UNCHANGED <<files, service, rows, started, killed, stale>>

(* A mutant: no copy is made. *)
BackupForgotten(p) ==
  /\ At(p, "backupOne") /\ Goto(p, "remote")
  /\ UNCHANGED <<files, service, rows, history>>

(* BackupIdentityForDIDReplacement copies the directory the name has now.    *)
BackupOne(p) ==
  /\ At(p, "backupOne")
  /\ LET n == proc[p].name IN
     IF n \notin Live(index) \/ dirs[index.cred[n].did] = "none"
     THEN End(p) /\ UNCHANGED backups
     ELSE /\ backups' = backups \union {index.cred[n].did}
          /\ Goto(p, "remote") /\ Kept
  /\ UNCHANGED <<index, dirs, active, service, rows, generated, started, killed, stale>>

(* BackupIdentitiesForHandleRecovery copies the directories of all           *)
(* identities of the handle; one that is missing is passed over.             *)
BackupAll(p) ==
  /\ At(p, "backupAll")
  /\ LET c == proc[p]
         same == SameHandle(c.before, c.handle)
     IN /\ backups' = backups \union {d \in {c.before.cred[n].did : n \in same} : dirs[d] # "none"}
        /\ proc' = [proc EXCEPT ![p].archived = same, ![p].activeBefore = active,
                                ![p].old = {c.before.cred[n].did : n \in same},
                                ![p].pc = "remote"]
  /\ UNCHANGED <<index, dirs, active, service, rows, history>>

(* What the user service accepts.                                            *)
Accepts(c) ==
  CASE c.kind = "register" -> service[c.handle] = None
    [] c.kind = "replace" -> service[c.handle] = c.record /\ dirs[c.record] = "keys"
    [] OTHER -> service[c.handle] # None

(* A call of the service that makes the new DID the owner of the handle: its *)
(* answer comes and the command goes on at label, or is lost.                *)
Call(p, kind, label) ==
  /\ At(p, "remote") /\ proc[p].kind = kind
  /\ \/ /\ Accepts(proc[p])
        /\ service' = [service EXCEPT ![proc[p].handle] = proc[p].did]
        /\ \/ Goto(p, label) /\ Kept
           \/ /\ proc' = [proc EXCEPT ![p] = Idle]
              /\ dropped' = dropped \union {proc[p].did} /\ UNCHANGED orphaned
     \/ End(p) /\ UNCHANGED service
  /\ UNCHANGED <<files, rows, generated, started, killed, stale>>

CallRegister(p) == Call(p, "register", "save")
CallReplaceDID(p) == Call(p, "replace", "repl")
CallRecoverHandle(p) == Call(p, "recover", "save")

(* save: refuse a name that is taken by another DID.                         *)
Save(p) ==
  /\ At(p, "save")
  /\ IF proc[p].name \in Live(index)
     THEN End(p)
     ELSE proc' = [proc EXCEPT ![p].pc = "saveIdent", ![p].seen = index] /\ Kept
  /\ UNCHANGED <<files, service, rows, generated, started, killed, stale>>

(* A mutant: the index is written before the keys. *)
WriteKeysLater(p) ==
  /\ At(p, "saveIdent")
  /\ dirs' = [dirs EXCEPT ![proc[p].did] = "ident"]
  /\ Goto(p, "saveIndex")
  /\ UNCHANGED <<index, backups, active, service, rows, history>>

(* identity.json and auth.json first, then the document and the keys.        *)
WriteFiles(p) ==
  /\ \/ /\ At(p, "saveIdent") /\ Goto(p, "saveKeys")
        /\ dirs' = [dirs EXCEPT ![proc[p].did] = "ident"]
     \/ /\ At(p, "saveKeys") /\ Goto(p, "saveIndex")
        /\ dirs' = [dirs EXCEPT ![proc[p].did] = "keys"]
  /\ UNCHANGED <<index, backups, active, service, rows, history>>

AddEntry(i, n, d) ==
  LET added == With(i, n, [did |-> d, full |-> HandleOf[d] # None])
  IN IF i.def = None THEN [added EXCEPT !.def = n] ELSE added

SaveEntry(p) ==
  /\ At(p, "saveIndex")
  /\ SaveIndex(p, AddEntry(proc[p].seen, proc[p].name, proc[p].did))
  /\ IF proc[p].kind = "recover" THEN Goto(p, "merge") /\ Kept ELSE End(p)
  /\ UNCHANGED <<dirs, backups, active, service, rows, generated, started, killed>>

-----------------------------------------------------------------------------
(* id recover, after the temporary identity is saved.                        *)

(* MergeRecoveredHandleLocalState: one transaction, or an error.             *)
Merge(p) ==
  /\ At(p, "merge")
  /\ \/ /\ rows' = IF proc[p].old \intersect rows = {} THEN rows
                   ELSE (rows \ proc[p].old) \union {proc[p].did}
        /\ Goto(p, "final") /\ Kept
     \/ End(p) /\ UNCHANGED rows
  /\ UNCHANGED <<files, service, generated, started, killed, stale>>

(* FinalizeRecoveredHandle keeps the index in case it must be restored.      *)
Finalize(p) ==
  /\ At(p, "final")
  /\ proc' = [proc EXCEPT ![p].pc = "promote", ![p].before = index]
  /\ UNCHANGED <<files, service, rows, history>>

(* A mutant: the default keeps its name. *)
PromotedOnly(i, c) ==
  With(Without(i, c.archived \union {c.name}), FinalName[c.handle], i.cred[c.name])

Promoted(i, c) ==
  LET final == FinalName[c.handle]
      kept == Without(i, c.archived \union {c.name})
      named == With(kept, final, i.cred[c.name])
  IN IF i.def \in c.archived \union {c.name} THEN [named EXCEPT !.def = final] ELSE named

(* PromoteRecoveredHandle reads the index, refuses a final name that another *)
(* identity took ...                                                         *)
PromoteLoad(p) ==
  /\ At(p, "promote")
  /\ LET c == proc[p] IN
     IF c.name \notin Live(index)
        \/ FinalName[c.handle] \in Live(index) \ (c.archived \union {c.name})
     THEN End(p)
     ELSE proc' = [proc EXCEPT ![p].pc = "promoteSave", ![p].seen = index] /\ Kept
  /\ UNCHANGED <<files, service, rows, generated, started, killed, stale>>

(* ... and writes it with the temporary identity under its final name.       *)
PromoteSave(p) ==
  /\ At(p, "promoteSave")
  /\ SaveIndex(p, Promoted(proc[p].seen, proc[p]))
  /\ IF proc[p].activeBefore \in proc[p].archived
     THEN Goto(p, "activate") /\ Kept
     ELSE End(p)
  /\ UNCHANGED <<dirs, backups, active, service, rows, generated, started, killed>>

(* UpdateActiveIdentity; when config.yaml cannot be written the index kept   *)
(* before the promotion is written back.  It takes back what another command *)
(* wrote after Finalize, too.                                                *)
Activate(p) ==
  /\ At(p, "activate")
  /\ \/ /\ active' = FinalName[proc[p].handle] /\ UNCHANGED <<index, stale>>
     \/ /\ index' = Normalize(proc[p].before) /\ UNCHANGED active
        /\ stale' = (stale \/ index # Normalize(Promoted(proc[p].before, proc[p])))
  /\ End(p)
  /\ UNCHANGED <<dirs, backups, service, rows, generated, started, killed>>

-----------------------------------------------------------------------------
(* id replace-did, after the service replaced the DID.                       *)

(* ReplaceIdentity reads the index: record becomes the DID it finds.         *)
Replace(p) ==
  /\ At(p, "repl")
  /\ IF proc[p].name \notin Live(index) \/ dirs[index.cred[proc[p].name].did] = "none"
     THEN End(p)
     ELSE /\ proc' = [proc EXCEPT ![p].pc = "replIdent", ![p].seen = index]
          /\ Kept
  /\ UNCHANGED <<files, service, rows, generated, started, killed, stale>>

WriteReplacement(p) ==
  /\ \/ /\ At(p, "replIdent") /\ Goto(p, "replKeys")
        /\ dirs' = [dirs EXCEPT ![proc[p].did] = "ident"]
     \/ /\ At(p, "replKeys") /\ Goto(p, "replIndex")
        /\ dirs' = [dirs EXCEPT ![proc[p].did] = "keys"]
  /\ UNCHANGED <<index, backups, active, service, rows, history>>

Linked(i, n) == {m \in Live(i) : i.cred[m].did = i.cred[n].did}

ReplaceSave(p) ==
  /\ At(p, "replIndex")
  /\ LET c == proc[p] IN
     SaveIndex(p, [c.seen EXCEPT !.cred = [m \in Live(c.seen) |->
       IF m \in Linked(c.seen, c.name) THEN [did |-> c.did, full |-> TRUE] ELSE c.seen.cred[m]]])
  /\ Goto(p, "replRemove")
  /\ UNCHANGED <<dirs, backups, active, service, rows, generated, started, killed, dropped, orphaned>>

(* A mutant: the directory of the new DID goes. *)
ReplaceRemoveNew(p) ==
  /\ At(p, "replRemove")
  /\ dirs' = [dirs EXCEPT ![proc[p].did] = "none"]
  /\ Goto(p, "rebind")
  /\ UNCHANGED <<index, backups, active, service, rows, history>>

(* The directory the entry named before goes, whichever it is.               *)
ReplaceRemove(p) ==
  /\ At(p, "replRemove")
  /\ dirs' = [dirs EXCEPT ![proc[p].seen.cred[proc[p].name].did] = "none"]
  /\ Goto(p, "rebind")
  /\ UNCHANGED <<index, backups, active, service, rows, history>>

(* A mutant: only the E2EE state of the old owner is cleared. *)
RebindNothing(p) ==
  /\ At(p, "rebind")
  /\ proc' = [proc EXCEPT ![p] = Idle]
  /\ UNCHANGED <<files, service, rows, history>>

(* RebindLocalIdentityState moves the rows of the DID the command had loaded *)
(* at first; a failure is a warning only.                                    *)
Rebind(p) ==
  /\ At(p, "rebind")
  /\ \/ /\ rows' = IF proc[p].record \in rows
                   THEN (rows \ {proc[p].record}) \union {proc[p].did} ELSE rows
        /\ proc' = [proc EXCEPT ![p] = Idle] /\ Kept
     \/ End(p) /\ UNCHANGED rows
  /\ UNCHANGED <<files, service, generated, started, killed, stale>>

-----------------------------------------------------------------------------
Kill(p) ==
  /\ ~At(p, "idle") /\ killed < MaxKills
  /\ killed' = killed + 1 /\ End(p)
  /\ UNCHANGED <<files, service, rows, generated, started, stale>>

(* A message for the owner of a handle is stored under its live identity.    *)
Receive(n) ==
  /\ n \in Live(index)
  /\ LET d == index.cred[n].did IN
     /\ HandleOf[d] # None /\ service[HandleOf[d]] = d /\ d \notin rows
     /\ rows' = rows \union {d}
  /\ UNCHANGED <<files, service, proc, history>>

Next ==
  \/ \E p \in Procs :
       \/ \E n \in Names \union {None} : Create(p, n)
       \/ \E h \in Handles, n \in Names \union {None} : Register(p, h, n)
       \/ \E h \in Handles : Recover(p, h)
       \/ \E n \in Names : Use(p, n) \/ SetProfile(p, n) \/ ReplaceDID(p, n)
       \/ SetDefault(p) \/ UpdateDisplayName(p)
       \/ List(p) \/ Load(p) \/ Backfill(p) \/ CreateIdentity(p) \/ VerifyContact(p)
       \/ PlanRegister(p) \/ PlanProfile(p) \/ PlanReplace(p) \/ SendRecoverOTP(p) \/ PlanRecover(p)
       \/ BackupOne(p) \/ BackupAll(p)
       \/ CallRegister(p) \/ CallReplaceDID(p) \/ CallRecoverHandle(p)
       \/ Save(p) \/ WriteFiles(p) \/ SaveEntry(p)
       \/ Merge(p) \/ Finalize(p) \/ PromoteLoad(p) \/ PromoteSave(p) \/ Activate(p)
       \/ Replace(p) \/ WriteReplacement(p) \/ ReplaceSave(p) \/ ReplaceRemove(p) \/ Rebind(p)
       \/ Kill(p)
  \/ \E n \in Names : Receive(n)

Spec == Init /\ [][Next]_vars

-----------------------------------------------------------------------------
Index == [cred : UNION {[S -> Entry] : S \in SUBSET Names}, def : Names \union {None}]

Labels ==
  {"idle", "list", "load", "fill", "use", "rename", "backupOne", "backupAll", "remote",
   "save", "saveIdent", "saveKeys", "saveIndex",
   "merge", "final", "promote", "promoteSave", "activate",
   "repl", "replIdent", "replKeys", "replIndex", "replRemove", "rebind"}

Command ==
  [pc : Labels, kind : Kinds \union {None}, name : Names \union {None},
   did : DIDs \union {None}, handle : Handles \union {None}, record : DIDs \union {None},
   seen : Index, before : Index, load : SUBSET Names, fill : SUBSET Names,
   archived : SUBSET Names, old : SUBSET DIDs, activeBefore : Names \union {None}]

(* The variables have their types.                                           *)
TypeOK ==
  /\ index \in Index
  /\ dirs \in [DIDs -> {"none", "ident", "keys"}]
  /\ backups \subseteq DIDs /\ rows \subseteq DIDs /\ generated \subseteq DIDs
  /\ service \in [Handles -> DIDs \union {None}]
  /\ active \in Names \union {None}
  /\ proc \in [Procs -> Command]
  /\ stale \in BOOLEAN /\ dropped \subseteq DIDs \union {None} /\ orphaned \subseteq DIDs \union {None}
  /\ started \in Nat /\ killed \in Nat

Held == {d \in DIDs : dirs[d] = "keys"} \union backups

(* As long as no command overwrote an index it had not read, the private     *)
(* keys of the DID that owns a handle are not lost: they are in the directory *)
(* of the DID or in a backup, whatever commands run side by side and wherever *)
(* they are killed.  The one exception is a command that ends after the      *)
(* service accepted its DID and before the keys are written.                 *)
OwnerKeysHeld ==
  ~stale => \A h \in Handles : service[h] # None =>
    \/ service[h] \in Held \union dropped
    \/ \E p \in Procs : proc[p].did = service[h] /\ proc[p].pc \in KeysInMemory

(* Under the same condition keys leave a directory only when a backup has a  *)
(* copy of them.                                                             *)
RemovesCopies == ~stale' => \A d \in DIDs : dirs[d] = "keys" /\ dirs'[d] # "keys" => d \in backups
RemovedAfterBackup == [][RemovesCopies]_vars

(* Under the same condition every entry of the index names a directory with  *)
(* all keys: files are written before the entry and removed after it.        *)
EntriesHaveKeys == ~stale => \A d \in NamedBy(index) : dirs[d] = "keys"

(* Under the same condition the default identity is a live one, so that a    *)
(* command without --identity finds it after a recovery or a replacement.    *)
DefaultIsLive == ~stale /\ Live(index) # {} => index.def \in Live(index)

(* Under the same condition local messages stay with a live identity: rows   *)
(* belong to a DID some entry names, at every step of a recovery too, unless *)
(* a replace-did is between the new index and the end of its rebinding or    *)
(* ended there.                                                              *)
RowsHaveOwner ==
  ~stale => \A d \in rows :
    \/ d \in NamedBy(index) \union orphaned
    \/ \E p \in Procs : proc[p].record = d /\ proc[p].pc \in RowsBehind
=============================================================================
