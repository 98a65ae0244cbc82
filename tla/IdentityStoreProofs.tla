------------------------ MODULE IdentityStoreProofs -------------------------
(***************************************************************************)
(* Proofs about IdentityStore, for any number of commands, names, DIDs,     *)
(* handles and kills: keys, entries, the default and the local rows stay    *)
(* together as long as no command overwrote an index it had not read and    *)
(* the user does not replace or recover while another replace or recover    *)
(* runs (OneReplacement).                                                   *)
(***************************************************************************)
EXTENDS IdentityStore, TLAPS

(* The user does not start replace-did or recover while one of them runs.    *)
OneReplacement == {"replace", "recover"} \subseteq Exclusive

(* The states Clean, below, speaks about.                                    *)
Undisturbed == ~stale /\ OneReplacement

-----------------------------------------------------------------------------
(* What is known of a command, by its place.                                 *)

Saving == {"save", "saveIdent", "saveKeys", "saveIndex"}
Replacing == {"repl", "replIdent", "replKeys", "replIndex"}
Promoting == {"promote", "promoteSave", "activate"}
AfterSave == {"merge", "final"} \union Promoting

(* The DID was generated and no entry names it yet.                          *)
Unentered(c) == c.pc \in {"backupOne", "backupAll", "remote"} \union Saving \union Replacing

(* No file of it is written yet.                                             *)
Unwritten(c) ==
  c.pc \in {"backupOne", "backupAll", "remote", "save", "saveIdent", "repl", "replIdent"}

HasDid(c) == Unentered(c) \/ c.pc \in AfterSave \union RowsBehind

Runs(c, kind) == c.pc # "idle" /\ c.kind = kind
Mover(c) == Runs(c, "replace") \/ Runs(c, "recover")

(* Which kinds of command come by which place, and what they carry.          *)
Shape(c) ==
  /\ c.pc \in {"backupOne"} \union Replacing \union RowsBehind => c.kind = "replace"
  /\ c.pc \in {"backupAll"} \union AfterSave => c.kind = "recover"
  /\ c.pc \in Saving => c.kind \in {"create", "register", "recover"}
  /\ c.pc = "remote" => c.kind \in {"register", "replace", "recover"}
  /\ c.pc \in {"use", "rename"} => ~Mover(c)
  /\ c.pc = "list" => c.kind # "replace"
  /\ Runs(c, "register") \/ Runs(c, "recover") => c.handle \in Handles
  /\ HasDid(c) \/ c.pc = "use" \/ Runs(c, "replace") => c.name \in Names
  /\ HasDid(c) => c.did \in DIDs
  /\ Runs(c, "replace") => c.load \subseteq {c.name} /\ c.record \in DIDs
  /\ c.pc = "use" => c.name \in Live(c.seen)
  /\ c.pc \in {"saveIdent", "saveKeys", "saveIndex"} => c.name \notin Live(c.seen)
  /\ c.pc = "promoteSave" =>
       /\ c.name \in Live(c.seen)
       /\ FinalName[c.handle] \notin Live(c.seen) \ (c.archived \union {c.name})

(* The new DID, before and after its files.                                  *)
DidInv(c) ==
  /\ HasDid(c) => c.did \in generated
  /\ Unentered(c) => c.did \notin NamedBy(index)
  /\ Unwritten(c) => dirs[c.did] = "none"
  /\ c.pc \in {"saveIndex", "replIndex"} => dirs[c.did] = "keys"

Maps(i, n, d) == n \in Live(i) /\ i.cred[n].did = d

(* replace-did: what it removes is what it loaded and copied.                *)
ReplaceInv(c) ==
  /\ Runs(c, "replace") /\ c.pc \notin RowsBehind => Maps(index, c.name, c.record)
  /\ c.kind = "replace" /\ c.pc \in {"remote", "replRemove"} \union Replacing => c.record \in backups
  /\ c.pc \in {"replIdent", "replKeys", "replIndex", "replRemove"} => Maps(c.seen, c.name, c.record)
  /\ c.pc = "replRemove" => c.record \notin NamedBy(index) /\ c.record \in generated
  /\ c.pc \in RowsBehind => Maps(index, c.name, c.did)

(* recover: the identities of the handle are known, then superseded.         *)
RecoverInv(c) ==
  Runs(c, "recover") =>
    /\ c.pc \in {"load", "fill", "backupAll"} =>
         \A n \in Live(c.before) : Maps(index, n, c.before.cred[n].did)
    /\ c.pc \in {"remote", "merge", "final", "promote", "promoteSave"} \union Saving =>
         /\ \A n \in c.archived : n \in Live(index) /\ index.cred[n].did \in c.old
         /\ \A d \in c.old : HandleOf[d] = c.handle /\ d # c.did
    /\ c.pc \in Saving \union AfterSave => service[c.handle] = c.did
    /\ c.pc \in {"merge", "final", "promote", "promoteSave"} => Maps(index, c.name, c.did)
    /\ c.pc \in {"final", "promote", "promoteSave"} => rows \intersect c.old = {}

DefaultInv(i) == i.def \in Live(i) \/ (i.def = None /\ Live(i) = {})

Complete(i) == DefaultInv(i) /\ \A d \in NamedBy(i) : d \in generated /\ dirs[d] = "keys"

(* The index a failed recovery goes back to.                                 *)
RollbackInv(c) == c.pc \in Promoting => Complete(c.before) /\ Maps(c.before, c.name, c.did)

CommandInv(c) == DidInv(c) /\ ReplaceInv(c) /\ RecoverInv(c) /\ RollbackInv(c)

(* Two commands work on different DIDs, and only one replaces or recovers.   *)
Distinct(c, e) ==
  /\ Unentered(c) /\ Unentered(e) => c.did # e.did
  /\ Unentered(c) /\ e.pc \in Promoting => c.did \notin NamedBy(e.before)
  /\ Unentered(c) /\ e.pc = "replRemove" => c.did # e.record
  /\ ~(Mover(c) /\ Mover(e))

DirsInv == \A d \in DIDs : dirs[d] # "none" => d \in generated

Clean ==
  /\ DirsInv /\ Complete(index)
  /\ \A p \in Procs : CommandInv(proc[p])
  /\ \A p, q \in Procs : p # q => Distinct(proc[p], proc[q])
  /\ OwnerKeysHeld /\ RowsHaveOwner

Inv ==
  /\ TypeOK /\ \A p \in Procs : Shape(proc[p])
  /\ Undisturbed => Clean

-----------------------------------------------------------------------------
(* The index as data.                                                        *)

Extends(i, j) == \A n \in Live(i) : Maps(j, n, i.cred[n].did)

LEMMA IndexFields ==
  ASSUME NEW i \in Index
  PROVE  /\ Live(i) \in SUBSET Names /\ i.def \in Names \union {None}
         /\ i.cred \in [Live(i) -> Entry] /\ i = [cred |-> i.cred, def |-> i.def]
         /\ \A n \in Live(i) : i.cred[n] \in Entry /\ i.cred[n].did \in DIDs
         /\ NamedBy(i) \subseteq DIDs
<1>1. PICK S \in SUBSET Names : i.cred \in [S -> Entry]
  BY DEF Index
<1>2. S = Live(i)
  BY <1>1 DEF Live
<1>3. i.def \in Names \union {None} /\ i = [cred |-> i.cred, def |-> i.def]
  BY DEF Index
<1>4. \A n \in Live(i) : i.cred[n] \in Entry
  BY <1>1, <1>2
<1>5. \A n \in Live(i) : i.cred[n].did \in DIDs
  BY <1>4 DEF Entry
<1> QED
  BY <1>1, <1>2, <1>3, <1>4, <1>5 DEF NamedBy

LEMMA IndexMade ==
  ASSUME NEW S \in SUBSET Names, NEW f \in [S -> Entry], NEW d \in Names \union {None}
  PROVE  [cred |-> f, def |-> d] \in Index /\ Live([cred |-> f, def |-> d]) = S
BY DEF Index, Live

LEMMA NoIndexFacts == NoIndex \in Index /\ Live(NoIndex) = {} /\ NoIndex.def = None /\ NamedBy(NoIndex) = {}
<1> DEFINE f == [n \in {} |-> None]
<1>1. f \in [{} -> Entry] /\ {} \in SUBSET Names
  OBVIOUS
<1>2. NoIndex = [cred |-> f, def |-> None]
  BY DEF NoIndex
<1> HIDE DEF f
<1>3. NoIndex \in Index /\ Live(NoIndex) = {}
  BY <1>1, <1>2, IndexMade
<1> QED
  BY <1>2, <1>3 DEF NamedBy

LEMMA NormalizeFacts ==
  ASSUME NEW i \in Index
  PROVE  /\ Normalize(i) \in Index /\ Live(Normalize(i)) = Live(i)
         /\ Normalize(i).cred = i.cred /\ NamedBy(Normalize(i)) = NamedBy(i)
         /\ DefaultInv(i) => DefaultInv(Normalize(i))
<1>1. /\ Live(i) \in SUBSET Names /\ i.def \in Names \union {None}
      /\ i.cred \in [Live(i) -> Entry] /\ i = [cred |-> i.cred, def |-> i.def]
  BY IndexFields
<1>2. CASE i.def = None /\ Default \in Live(i)
  <2>1. Normalize(i) = [cred |-> i.cred, def |-> Default]
    BY <1>1, <1>2 DEF Normalize
  <2>2. Default \in Names
    BY <1>1, <1>2
  <2>3. Normalize(i) \in Index /\ Live(Normalize(i)) = Live(i)
    BY <1>1, <2>1, <2>2, IndexMade
  <2> QED
    BY <1>2, <2>1, <2>3 DEF NamedBy, DefaultInv
<1>3. CASE ~(i.def = None /\ Default \in Live(i))
  BY <1>3 DEF Normalize
<1> QED
  BY <1>2, <1>3

(* An entry that is added or replaced.                                       *)
LEMMA WithFacts ==
  ASSUME NEW i \in Index, NEW n \in Names, NEW e \in Entry
  PROVE  /\ With(i, n, e) \in Index /\ Live(With(i, n, e)) = Live(i) \union {n}
         /\ With(i, n, e).def = i.def /\ With(i, n, e).cred[n] = e
         /\ \A m \in Live(i) \ {n} : With(i, n, e).cred[m] = i.cred[m]
<1> DEFINE f == [m \in Live(i) \union {n} |-> IF m = n THEN e ELSE i.cred[m]]
<1>1. /\ Live(i) \in SUBSET Names /\ i.def \in Names \union {None}
      /\ i.cred \in [Live(i) -> Entry] /\ i = [cred |-> i.cred, def |-> i.def]
  BY IndexFields
<1>2. f \in [Live(i) \union {n} -> Entry] /\ Live(i) \union {n} \in SUBSET Names
  BY <1>1
<1>3. With(i, n, e) = [cred |-> f, def |-> i.def]
  BY <1>1 DEF With
<1>4. f[n] = e /\ \A m \in Live(i) \ {n} : f[m] = i.cred[m]
  OBVIOUS
<1> HIDE DEF f
<1> QED
  BY <1>1, <1>2, <1>3, <1>4, IndexMade

LEMMA WithoutFacts ==
  ASSUME NEW i \in Index, NEW S
  PROVE  /\ Without(i, S) \in Index /\ Live(Without(i, S)) = Live(i) \ S
         /\ Without(i, S).def = i.def
         /\ \A m \in Live(i) \ S : Without(i, S).cred[m] = i.cred[m]
<1> DEFINE f == [m \in Live(i) \ S |-> i.cred[m]]
<1>1. /\ Live(i) \in SUBSET Names /\ i.def \in Names \union {None}
      /\ i.cred \in [Live(i) -> Entry] /\ i = [cred |-> i.cred, def |-> i.def]
  BY IndexFields
<1>2. f \in [Live(i) \ S -> Entry] /\ Live(i) \ S \in SUBSET Names
  BY <1>1
<1>3. Without(i, S) = [cred |-> f, def |-> i.def]
  BY <1>1 DEF Without
<1>4. \A m \in Live(i) \ S : f[m] = i.cred[m]
  OBVIOUS
<1> HIDE DEF f
<1> QED
  BY <1>1, <1>2, <1>3, <1>4, IndexMade

(* Another default, or none: nothing else changes.                           *)
LEMMA DefaultFacts ==
  ASSUME NEW i \in Index, NEW n \in Names
  PROVE  /\ [i EXCEPT !.def = n] \in Index /\ Live([i EXCEPT !.def = n]) = Live(i)
         /\ [i EXCEPT !.def = n].cred = i.cred /\ [i EXCEPT !.def = n].def = n
<1>1. /\ Live(i) \in SUBSET Names
      /\ i.cred \in [Live(i) -> Entry] /\ i = [cred |-> i.cred, def |-> i.def]
  BY IndexFields
<1>2. [i EXCEPT !.def = n] = [cred |-> i.cred, def |-> n]
  BY <1>1
<1> QED
  BY <1>1, <1>2, IndexMade

(* What an index keeps it still names.                                       *)
LEMMA ExtendsNames ==
  ASSUME NEW i, NEW j, Extends(i, j)
  PROVE  NamedBy(i) \subseteq NamedBy(j)
BY DEF Extends, Maps, NamedBy

-----------------------------------------------------------------------------
(* Steps of one command.                                                     *)

LEMMA IdleFacts == Idle \in Command /\ Idle.pc = "idle" /\ Idle.kind = None
<1>1. NoIndex \in Index
  BY NoIndexFacts
<1> QED
  BY <1>1 DEF Idle, Command, Labels

(* What a command had in hand it keeps, leaves in the store, or it is noted. *)
Passes(c, e) ==
  /\ dropped \subseteq dropped' /\ dropped' \subseteq DIDs \union {None}
  /\ orphaned \subseteq orphaned' /\ orphaned' \subseteq DIDs \union {None}
  /\ c.pc \in KeysInMemory =>
       (e.pc \in KeysInMemory /\ e.did = c.did) \/ c.did \in dropped' \union Held'
  /\ c.pc \in RowsBehind =>
       \/ e.pc \in RowsBehind /\ e.record = c.record
       \/ c.record \in orphaned' \union NamedBy(index') \/ c.record \notin rows'

(* It takes nothing up that another command could have.                      *)
Continues(c, e) ==
  /\ Unentered(e) => Unentered(c) /\ e.did = c.did
  /\ e.pc \in Promoting => c.pc \in Promoting /\ e.before = c.before
  /\ e.pc = "replRemove" => c.pc = "replRemove" /\ e.record = c.record
  /\ Mover(e) => Mover(c)

LEMMA StillDistinct ==
  ASSUME NEW c, NEW e, NEW x, Continues(c, e), Distinct(c, x), Distinct(x, c)
  PROVE  Distinct(e, x) /\ Distinct(x, e)
<1>1. Unentered(e) => e.pc \notin Promoting /\ e.pc # "replRemove"
  BY DEF Unentered, Saving, Replacing, Promoting
<1> QED
  BY <1>1 DEF Continues, Distinct

LEMMA IdleDistinct ==
  ASSUME NEW x
  PROVE  Distinct(Idle, x) /\ Distinct(x, Idle)
BY IdleFacts DEF Distinct, Unentered, Saving, Replacing, Promoting, Mover, Runs

LEMMA IdleInv == Shape(Idle) /\ CommandInv(Idle) /\ CommandInv(Idle)'
<1>1. Idle.pc = "idle"
  BY IdleFacts
<1> QED
  BY <1>1 DEF Shape, CommandInv, DidInv, ReplaceInv, RecoverInv, RollbackInv, HasDid, Unentered,
    Unwritten, Saving, Replacing, Promoting, AfterSave, RowsBehind, Mover, Runs

(* What the others rely on, when a step of one command changes the store.    *)
LEMMA Others ==
  ASSUME NEW x \in Command, CommandInv(x), Shape(x),
         generated \subseteq generated', backups \subseteq backups',
         Mover(x) => Extends(index, index'),
         Unentered(x) => x.did \notin NamedBy(index') /\ dirs'[x.did] = dirs[x.did],
         x.pc \in Promoting => \A d \in NamedBy(x.before) : dirs'[d] = dirs[d],
         x.pc = "replRemove" => x.record \notin NamedBy(index'),
         Runs(x, "recover") /\ x.pc \in Saving \union AfterSave =>
           service'[x.handle] = service[x.handle],
         Runs(x, "recover") /\ x.pc \in {"final", "promote", "promoteSave"} => rows' \intersect x.old = {}
  PROVE  CommandInv(x)'
<1>1. DidInv(x)'
  <2>1. DidInv(x) /\ (Unwritten(x) \/ x.pc \in {"saveIndex", "replIndex"} => Unentered(x))
    BY DEF CommandInv, Unwritten, Unentered, Saving, Replacing
  <2> QED
    BY <2>1 DEF DidInv
<1>2. ReplaceInv(x)'
  <2>1. ReplaceInv(x)
    BY DEF CommandInv
  <2>2. (Runs(x, "replace") \/ x.pc \in RowsBehind) => Extends(index, index')
    BY DEF Mover, Shape, Runs, RowsBehind
  <2> QED
    BY <2>1, <2>2 DEF ReplaceInv, Extends, Maps
<1>3. RecoverInv(x)'
  <2> SUFFICES ASSUME Runs(x, "recover") PROVE RecoverInv(x)'
    BY DEF RecoverInv
  <2>1. Extends(index, index') /\ RecoverInv(x)
    BY DEF Mover, CommandInv
  <2> QED
    BY <2>1 DEF RecoverInv, Extends, Maps, AfterSave
<1>4. RollbackInv(x)'
  <2>1. RollbackInv(x)
    BY DEF CommandInv
  <2> QED
    BY <2>1 DEF RollbackInv, Complete
<1> QED
  BY <1>1, <1>2, <1>3, <1>4 DEF CommandInv

LEMMA Assemble ==
  ASSUME Inv, NEW p \in Procs, NEW e \in Command, proc' = [proc EXCEPT ![p] = e],
         TypeOK', Shape(e), stale => stale',
         Undisturbed' =>
           /\ DirsInv' /\ Complete(index)' /\ OwnerKeysHeld' /\ RowsHaveOwner'
           /\ CommandInv(e)'
           /\ \A q \in Procs \ {p} :
                CommandInv(proc[q])' /\ Distinct(e, proc[q]) /\ Distinct(proc[q], e)
  PROVE  Inv'
<1>1. proc'[p] = e /\ \A q \in Procs \ {p} : proc'[q] = proc[q]
  BY DEF Inv, TypeOK
<1>2. \A q \in Procs : Shape(proc'[q])
  BY <1>1 DEF Inv
<1>3. ASSUME Undisturbed' PROVE Clean'
  <2>1. \A q \in Procs : CommandInv(proc[q])'
    <3> SUFFICES ASSUME NEW q \in Procs PROVE CommandInv(proc[q])'
      OBVIOUS
    <3>1. CASE q = p
      <4>1. CommandInv(e)'
        BY <1>3
      <4> QED
        BY <4>1, <3>1, <1>1
    <3>2. CASE q # p
      BY <1>3, <3>2
    <3> QED
      BY <3>1, <3>2
  <2>2. \A q, r \in Procs : q # r => Distinct(proc'[q], proc'[r])
    <3> SUFFICES ASSUME NEW q \in Procs, NEW r \in Procs, q # r
                 PROVE  Distinct(proc'[q], proc'[r])
      OBVIOUS
    <3>1. Undisturbed /\ Distinct(proc[q], proc[r])
      BY <1>3 DEF Inv, Clean, Undisturbed, OneReplacement
    <3> QED
      BY <1>1, <1>3, <3>1
  <2> QED
    BY <1>3, <2>1, <2>2 DEF Clean
<1> QED
  BY <1>2, <1>3 DEF Inv

(* The keys of the owners stay somewhere.                                    *)
LEMMA KeysStay ==
  ASSUME TypeOK, Undisturbed, OwnerKeysHeld, NEW p \in Procs, NEW c \in Command, NEW e \in Command,
         c = proc[p], proc' = [proc EXCEPT ![p] = e],
         UNCHANGED service, Held \subseteq Held', Passes(c, e)
  PROVE  OwnerKeysHeld'
<1>1. proc'[p] = e /\ \A q \in Procs \ {p} : proc'[q] = proc[q]
  BY DEF TypeOK
<1> SUFFICES ASSUME NEW h \in Handles, service[h] # None
             PROVE  \/ service[h] \in Held' \union dropped'
                    \/ \E q \in Procs : proc'[q].did = service[h] /\ proc'[q].pc \in KeysInMemory
  BY DEF OwnerKeysHeld
<1>2. CASE service[h] \in Held \union dropped
  BY <1>2 DEF Passes
<1>3. CASE \E q \in Procs : proc[q].did = service[h] /\ proc[q].pc \in KeysInMemory
  <2>1. PICK q \in Procs : proc[q].did = service[h] /\ proc[q].pc \in KeysInMemory
    BY <1>3
  <2>2. CASE q = p
    BY <1>1, <2>1, <2>2 DEF Passes
  <2>3. CASE q # p
    BY <1>1, <2>1, <2>3
  <2> QED
    BY <2>2, <2>3
<1> QED
  BY <1>2, <1>3 DEF OwnerKeysHeld, Undisturbed

(* The rows stay with an entry, or with the command that is to move them.    *)
LEMMA RowsStay ==
  ASSUME TypeOK, Undisturbed, RowsHaveOwner, NEW p \in Procs, NEW c \in Command, NEW e \in Command,
         c = proc[p], proc' = [proc EXCEPT ![p] = e], Passes(c, e),
         \A d \in rows' : d \notin rows \/ d \in NamedBy(index) =>
           d \in NamedBy(index') \/ (e.pc \in RowsBehind /\ e.record = d)
  PROVE  RowsHaveOwner'
<1>1. proc'[p] = e /\ \A q \in Procs \ {p} : proc'[q] = proc[q]
  BY DEF TypeOK
<1> SUFFICES ASSUME NEW d \in rows'
             PROVE  \/ d \in NamedBy(index') \union orphaned'
                    \/ \E q \in Procs : proc'[q].record = d /\ proc'[q].pc \in RowsBehind
  BY DEF RowsHaveOwner
<1>2. CASE d \notin rows \/ d \in NamedBy(index)
  BY <1>1, <1>2
<1>3. CASE d \in rows /\ d \in orphaned
  BY <1>3 DEF Passes
<1>4. CASE d \in rows /\ \E q \in Procs : proc[q].record = d /\ proc[q].pc \in RowsBehind
  <2>1. PICK q \in Procs : proc[q].record = d /\ proc[q].pc \in RowsBehind
    BY <1>4
  <2>2. CASE q = p
    BY <1>1, <2>1, <2>2 DEF Passes
  <2>3. CASE q # p
    BY <1>1, <2>1, <2>3
  <2> QED
    BY <2>2, <2>3
<1> QED
  BY <1>2, <1>3, <1>4 DEF RowsHaveOwner, Undisturbed, OneReplacement

Counted == started' \in Nat /\ killed' \in Nat /\ active' \in Names \union {None}

(* A step that changes neither the store nor the service.                    *)
LEMMA QuietStep ==
  ASSUME Inv, NEW p \in Procs, NEW c \in Command, NEW e \in Command,
         c = proc[p], proc' = [proc EXCEPT ![p] = e], Shape(e),
         UNCHANGED <<index, dirs, backups, service, rows, stale>>, Counted,
         generated \subseteq generated', generated' \subseteq DIDs, Passes(c, e),
         Undisturbed => /\ CommandInv(e)'
                   /\ \A q \in Procs \ {p} : Distinct(e, proc[q]) /\ Distinct(proc[q], e)
  PROVE  Inv'
<1>1. TypeOK /\ TypeOK'
  BY DEF Inv, TypeOK, Counted, Passes
<1>2. ASSUME Undisturbed PROVE /\ DirsInv' /\ Complete(index)' /\ OwnerKeysHeld' /\ RowsHaveOwner'
                          /\ \A q \in Procs \ {p} : CommandInv(proc[q])'
  <2>1. Clean
    BY <1>2 DEF Inv
  <2>2. DirsInv' /\ Complete(index)'
    BY <2>1 DEF Clean, DirsInv, Complete
  <2>3. OwnerKeysHeld'
    BY <1>1, <2>1, <1>2, KeysStay DEF Clean, Held
  <2>4. RowsHaveOwner'
    BY <1>1, <1>2, <2>1, RowsStay DEF Clean
  <2>5. ASSUME NEW q \in Procs \ {p} PROVE CommandInv(proc[q])'
    <3>1. PICK x \in Command : x = proc[q]
      BY <1>1 DEF TypeOK
    <3>2. CommandInv(x) /\ Shape(x) /\ proc'[q] = x
      BY <1>1, <2>1, <3>1 DEF Clean, Inv, TypeOK
    <3>3. /\ Mover(x) => Extends(index, index')
          /\ Unentered(x) => x.did \notin NamedBy(index') /\ dirs'[x.did] = dirs[x.did]
          /\ x.pc = "replRemove" => x.record \notin NamedBy(index')
          /\ Runs(x, "recover") /\ x.pc \in {"final", "promote", "promoteSave"} =>
               rows' \intersect x.old = {}
      BY <3>2 DEF Extends, Maps, CommandInv, DidInv, ReplaceInv, RecoverInv
    <3>4. CommandInv(x)'
      BY <3>2, <3>3, Others
    <3> QED
      BY <3>2, <3>4
  <2> QED
    BY <2>2, <2>3, <2>4, <2>5
<1> QED
  BY <1>1, <1>2, Assemble DEF Undisturbed, OneReplacement

LEMMA QuietContinues ==
  ASSUME Inv, NEW p \in Procs, NEW c \in Command, NEW e \in Command,
         c = proc[p], proc' = [proc EXCEPT ![p] = e], Shape(e),
         UNCHANGED <<index, dirs, backups, service, rows, stale, generated>>, Counted, Passes(c, e),
         Undisturbed => CommandInv(e)', Continues(c, e)
  PROVE  Inv'
<1>1. ASSUME Undisturbed PROVE \A q \in Procs \ {p} : Distinct(e, proc[q]) /\ Distinct(proc[q], e)
  <2> SUFFICES ASSUME NEW q \in Procs \ {p} PROVE Distinct(e, proc[q]) /\ Distinct(proc[q], e)
    OBVIOUS
  <2>1. Distinct(c, proc[q]) /\ Distinct(proc[q], c)
    BY <1>1 DEF Inv, Clean
  <2> QED
    BY <2>1, StillDistinct
<1>2. generated' \subseteq DIDs
  BY DEF Inv, TypeOK
<1> QED
  BY <1>1, <1>2, QuietStep

(* A command ends, and the store stays as it is.                             *)
LEMMA Ends ==
  ASSUME TypeOK, NEW p \in Procs, NEW c \in Command, c = proc[p], End(p)
  PROVE  /\ proc' = [proc EXCEPT ![p] = Idle] /\ Passes(c, Idle) /\ Continues(c, Idle)
<1>1. Idle \in Command /\ Idle.pc = "idle"
  BY IdleFacts
<1>2. Continues(c, Idle)
  BY <1>1 DEF Continues, Unentered, Saving, Replacing, Promoting, Mover, Runs
<1>3. c.did \in DIDs \union {None} /\ c.record \in DIDs \union {None}
  BY DEF Command
<1> QED
  BY <1>2, <1>3 DEF End, Passes, TypeOK

LEMMA EndStep ==
  ASSUME Inv, NEW p \in Procs, End(p),
         UNCHANGED <<index, dirs, backups, service, rows, stale, generated>>, Counted
  PROVE  Inv'
<1>1. PICK c \in Command : c = proc[p]
  BY DEF Inv, TypeOK
<1> QED
  BY <1>1, Ends, IdleFacts, IdleInv, QuietContinues DEF Inv

-----------------------------------------------------------------------------
(* Commands begin, read and plan.                                            *)

LEMMA BeginStep ==
  ASSUME Inv, NEW p \in Procs, NEW kind, Start(p, kind), NEW e \in Command,
         e.pc \in {"list", "load", "use"}, e.kind = kind, Shape(e),
         proc' = [proc EXCEPT ![p] = e],
         UNCHANGED <<files, service, rows, generated, killed, stale, dropped, orphaned>>,
         Undisturbed => CommandInv(e)'
  PROVE  Inv'
<1>1. PICK c \in Command : c = proc[p]
  BY DEF Inv, TypeOK
<1>2. c.pc = "idle"
  BY <1>1 DEF Start, At
<1>3. Counted
  BY DEF Counted, Inv, TypeOK, Start, files
<1>4. Passes(c, e)
  BY <1>2 DEF Passes, Inv, TypeOK, KeysInMemory, RowsBehind
<1>5. ASSUME Undisturbed, NEW q \in Procs \ {p} PROVE Distinct(e, proc[q]) /\ Distinct(proc[q], e)
  <2>1. Mover(e) => ~Mover(proc[q])
    BY <1>5 DEF Start, Undisturbed, OneReplacement, Mover, Runs
  <2>2. ~Unentered(e) /\ e.pc \notin Promoting /\ e.pc # "replRemove"
    BY DEF Unentered, Saving, Replacing, Promoting
  <2> QED
    BY <2>1, <2>2 DEF Distinct
<1>6. generated \subseteq generated' /\ generated' \subseteq DIDs
  BY DEF Inv, TypeOK
<1> QED
  BY <1>1, <1>3, <1>4, <1>5, <1>6, QuietStep DEF files

(* A command that begins.                                                    *)
LEMMA Lister ==
  ASSUME NEW kind \in Kinds, NEW h \in Handles \union {None}, NEW n \in Names \union {None}
  PROVE  [Idle EXCEPT !.pc = "list", !.kind = kind, !.handle = h, !.name = n] \in Command
<1>1. PICK c \in Command : c = Idle
  BY IdleFacts
<1>2. PICK b \in Command : b = [c EXCEPT !.pc = "list", !.kind = kind]
  <2>1. [c EXCEPT !.pc = "list", !.kind = kind] \in Command
    BY DEF Command, Labels
  <2> QED
    BY <2>1
<1>3. [b EXCEPT !.handle = h, !.name = n] \in Command
  BY DEF Command
<1>4. [c EXCEPT !.pc = "list", !.kind = kind, !.handle = h, !.name = n] = [b EXCEPT !.handle = h, !.name = n]
  BY <1>2 DEF Command
<1> QED
  BY <1>1, <1>3, <1>4

LEMMA User ==
  ASSUME NEW kind \in Kinds, NEW n \in Names, NEW i \in Index
  PROVE  [Idle EXCEPT !.pc = "use", !.kind = kind, !.name = n, !.seen = i] \in Command
<1>1. PICK c \in Command : c = Idle
  BY IdleFacts
<1>2. [c EXCEPT !.pc = "use", !.kind = kind, !.name = n, !.seen = i] \in Command
  BY DEF Command, Labels
<1> QED
  BY <1>1, <1>2

LEMMA Loader ==
  ASSUME NEW kind \in Kinds, NEW n \in Names, NEW d \in DIDs, NEW i \in Index
  PROVE  [Idle EXCEPT !.pc = "load", !.kind = kind, !.name = n, !.record = d, !.seen = i, !.load = {n}]
           \in Command
<1>1. PICK c \in Command : c = Idle
  BY IdleFacts
<1>2. PICK g \in Command : g = [c EXCEPT !.pc = "load", !.kind = kind, !.name = n]
  <2>1. [c EXCEPT !.pc = "load", !.kind = kind, !.name = n] \in Command
    BY DEF Command, Labels
  <2> QED
    BY <2>1
<1>3. [g EXCEPT !.record = d, !.seen = i, !.load = {n}] \in Command
  BY DEF Command
<1>4. [c EXCEPT !.pc = "load", !.kind = kind, !.name = n, !.record = d, !.seen = i, !.load = {n}]
        = [g EXCEPT !.record = d, !.seen = i, !.load = {n}]
  BY <1>2 DEF Command
<1> QED
  BY <1>1, <1>3, <1>4

LEMMA ListingStep ==
  ASSUME Inv, NEW p \in Procs, NEW kind \in {"create", "register", "recover"},
         NEW h \in Handles \union {None}, NEW n \in Names \union {None}, StartListing(p, kind, h, n),
         kind # "create" => h \in Handles
  PROVE  Inv'
<1> DEFINE e == [Idle EXCEPT !.pc = "list", !.kind = kind, !.handle = h, !.name = n]
<1>0. kind \in Kinds
  BY DEF StartListing, Start
<1>1. e \in Command /\ e.pc = "list" /\ e.kind = kind /\ e.handle = h
  <2>1. e \in Command
    BY <1>0, Lister
  <2> QED
    BY <2>1, IdleFacts DEF Command
<1>2. proc' = [proc EXCEPT ![p] = e] /\ Start(p, kind)
  BY DEF StartListing
<1> HIDE DEF e
<1>3. Shape(e)
  BY <1>1 DEF Shape, HasDid, Unentered, Saving, Replacing, Promoting, AfterSave, RowsBehind, Mover, Runs
<1>4. CommandInv(e)'
  BY <1>1 DEF CommandInv, DidInv, ReplaceInv, RecoverInv, RollbackInv, HasDid, Unentered,
    Unwritten, Saving, Replacing, Promoting, AfterSave, RowsBehind, Mover, Runs
<1> QED
  BY <1>1, <1>2, <1>3, <1>4, BeginStep DEF StartListing

LEMMA StartOnStep ==
  ASSUME Inv, NEW p \in Procs, NEW kind \in {"profile", "replace"},
         NEW n \in Names, StartOn(p, kind, n)
  PROVE  Inv'
<1>1. index \in Index /\ n \in Live(index) /\ kind \in Kinds
  BY DEF Inv, TypeOK, StartOn, Start
<1>2. index.cred[n].did \in DIDs
  BY <1>1, IndexFields
<1>3. PICK i \in Index, d \in DIDs : i = index /\ d = index.cred[n].did
  BY <1>1, <1>2
<1> DEFINE e == [Idle EXCEPT !.pc = "load", !.kind = kind, !.name = n,
                   !.record = d, !.seen = i, !.load = {n}]
<1>4. /\ e \in Command /\ e.pc = "load" /\ e.kind = kind /\ e.name = n
      /\ e.record = d /\ e.load = {n}
  <2>1. e \in Command
    BY <1>1, Loader
  <2> QED
    BY <2>1, IdleFacts DEF Command
<1>5. proc' = [proc EXCEPT ![p] = e] /\ Start(p, kind)
  BY <1>3 DEF StartOn
<1> HIDE DEF e
<1>6. Shape(e)
  BY <1>2, <1>3, <1>4 DEF Shape, HasDid, Unentered, Saving, Replacing, Promoting, AfterSave, RowsBehind, Mover, Runs
<1>7. UNCHANGED index
  BY DEF StartOn, files
<1>8. CommandInv(e)'
  BY <1>1, <1>3, <1>4, <1>7 DEF CommandInv, DidInv, ReplaceInv, RecoverInv, RollbackInv, HasDid, Unentered,
    Unwritten, Saving, Replacing, Promoting, AfterSave, RowsBehind, Mover, Runs, Maps
<1> QED
  BY <1>4, <1>5, <1>6, <1>8, BeginStep DEF StartOn

LEMMA UseStep ==
  ASSUME Inv, NEW p \in Procs, NEW n \in Names, Use(p, n)
  PROVE  Inv'
<1>1. PICK i \in Index : i = index
  BY DEF Inv, TypeOK
<1> DEFINE e == [Idle EXCEPT !.pc = "use", !.kind = "use", !.name = n, !.seen = i]
<1>0. "use" \in Kinds
  BY DEF Use, Start
<1>2. e \in Command /\ e.pc = "use" /\ e.kind = "use" /\ e.name = n /\ e.seen = i
  <2>1. e \in Command
    BY <1>0, User
  <2> QED
    BY <2>1, IdleFacts DEF Command
<1>3. proc' = [proc EXCEPT ![p] = e] /\ Start(p, "use") /\ n \in Live(i)
  BY <1>1 DEF Use
<1> HIDE DEF e
<1>4. Shape(e)
  BY <1>2, <1>3 DEF Shape, HasDid, Unentered, Saving, Replacing, Promoting, AfterSave, RowsBehind, Mover, Runs
<1>5. CommandInv(e)'
  BY <1>2 DEF CommandInv, DidInv, ReplaceInv, RecoverInv, RollbackInv, HasDid, Unentered,
    Unwritten, Saving, Replacing, Promoting, AfterSave, RowsBehind, Mover, Runs
<1> QED
  BY <1>2, <1>3, <1>4, <1>5, BeginStep DEF Use

LEMMA BeginsStep ==
  ASSUME Inv, NEW p \in Procs,
         \/ \E n \in Names \union {None} : Create(p, n)
         \/ \E h \in Handles, n \in Names \union {None} : Register(p, h, n)
         \/ \E h \in Handles : Recover(p, h)
         \/ \E n \in Names : Use(p, n) \/ SetProfile(p, n) \/ ReplaceDID(p, n)
  PROVE  Inv'
<1>1. ASSUME NEW n \in Names \union {None}, Create(p, n) PROVE Inv'
  BY <1>1, ListingStep DEF Create
<1>2. ASSUME NEW h \in Handles, NEW n \in Names \union {None}, Register(p, h, n) PROVE Inv'
  BY <1>2, ListingStep DEF Register
<1>3. ASSUME NEW h \in Handles, Recover(p, h) PROVE Inv'
  BY <1>3, ListingStep DEF Recover
<1>4. ASSUME NEW n \in Names, Use(p, n) \/ SetProfile(p, n) \/ ReplaceDID(p, n) PROVE Inv'
  BY <1>4, UseStep, StartOnStep DEF SetProfile, ReplaceDID
<1> QED
  BY <1>1, <1>2, <1>3, <1>4

(* The index is read: List, Finalize, Save, PromoteLoad, Replace and Load.   *)
LEMMA ListStep ==
  ASSUME Inv, NEW p \in Procs, List(p)
  PROVE  Inv'
<1>1. PICK c \in Command : c = proc[p]
  BY DEF Inv, TypeOK
<1>2. PICK i \in Index : i = index
  BY DEF Inv, TypeOK
<1>3. PICK l \in SUBSET Names : l = LacksHandle(index)
  BY <1>2, IndexFields DEF LacksHandle
<1> DEFINE e == [c EXCEPT !.pc = "load", !.seen = i, !.before = i, !.load = l]
<1>4. /\ e \in Command /\ e.pc = "load" /\ e.kind = c.kind /\ e.before = i
      /\ e.handle = c.handle /\ e.name = c.name
  BY DEF Command, Labels
<1>5. proc' = [proc EXCEPT ![p] = e]
  BY <1>1, <1>2, <1>3 DEF List
<1> HIDE DEF e
<1>6. Shape(c) /\ c.pc = "list" /\ c.kind # "replace"
  BY <1>1 DEF Inv, List, At, Shape
<1>7. Shape(e)
  BY <1>4, <1>6 DEF Shape, HasDid, Unentered, Saving, Replacing, Promoting, AfterSave, RowsBehind, Mover, Runs
<1>8. UNCHANGED <<index, dirs, backups, service, rows, stale, generated>> /\ Counted
  BY DEF List, files, history, Counted, Inv, TypeOK
<1>9. CommandInv(e)'
  BY <1>2, <1>4, <1>6, <1>8 DEF CommandInv, DidInv, ReplaceInv, RecoverInv, RollbackInv, HasDid, Unentered,
    Unwritten, Saving, Replacing, Promoting, AfterSave, RowsBehind, Mover, Runs, Maps
<1>10. Passes(c, e) /\ Continues(c, e)
  BY <1>4, <1>6 DEF Passes, Continues, Inv, TypeOK, KeysInMemory, RowsBehind, Unentered, Saving,
    Replacing, Promoting, Mover, Runs, List, history
<1> QED
  BY <1>1, <1>5, <1>7, <1>8, <1>9, <1>10, <1>4, QuietContinues

LEMMA LoadStep ==
  ASSUME Inv, NEW p \in Procs, Load(p)
  PROVE  Inv'
<1>1. PICK c \in Command : c = proc[p]
  BY DEF Inv, TypeOK
<1>2. Shape(c) /\ c.pc = "load" /\ (Undisturbed => CommandInv(c))
  BY <1>1 DEF Inv, Clean, Load, At
<1>3. PICK n \in c.load :
        IF n \notin Live(index) \/ dirs[index.cred[n].did] = "none"
        THEN End(p)
        ELSE /\ proc' = [proc EXCEPT ![p].load = @ \ {n}, ![p].seen = index,
                  ![p].record = index.cred[n].did,
                  ![p].fill = {n} \intersect LacksHandle(index),
                  ![p].pc = IF n \in LacksHandle(index) THEN "fill" ELSE "load"]
             /\ Kept
  BY <1>1 DEF Load
<1>4. UNCHANGED <<index, dirs, backups, service, rows, stale, generated>> /\ Counted
  BY DEF Load, files, Counted, Inv, TypeOK
<1>5. CASE End(p)
  BY <1>4, <1>5, EndStep
<1>6. CASE ~End(p)
  <2>1. PICK i \in Index : i = index
    BY DEF Inv, TypeOK
  <2>2. n \in Live(i) /\ i.cred[n].did \in DIDs
    BY <1>3, <1>6, <2>1, IndexFields
  <2>3. PICK d \in DIDs : d = i.cred[n].did
    BY <2>2
  <2>4. PICK f \in SUBSET Names, l \in {"fill", "load"} :
          /\ f = {n} \intersect LacksHandle(index)
          /\ l = IF n \in LacksHandle(index) THEN "fill" ELSE "load"
    <3>1. LacksHandle(index) \subseteq Names
      BY <2>1, IndexFields DEF LacksHandle
    <3> QED
      BY <3>1
  <2>5. PICK b \in Command : b = [c EXCEPT !.load = c.load \ {n}, !.seen = i, !.record = d]
    <3>1. [c EXCEPT !.load = c.load \ {n}, !.seen = i, !.record = d] \in Command
      BY DEF Command
    <3> QED
      BY <3>1
  <2>6. PICK e \in Command : e = [b EXCEPT !.fill = f, !.pc = l]
    <3>1. [b EXCEPT !.fill = f, !.pc = l] \in Command
      BY DEF Command, Labels
    <3> QED
      BY <3>1
  <2>7. /\ e.pc = l /\ e.kind = c.kind /\ e.name = c.name /\ e.handle = c.handle
        /\ e.before = c.before /\ e.load = c.load \ {n} /\ e.record = d
    BY <2>5, <2>6 DEF Command
  <2>8. proc' = [proc EXCEPT ![p] = e]
    <3>1. e = [c EXCEPT !.load = c.load \ {n}, !.seen = i, !.record = d, !.fill = f, !.pc = l]
      BY <2>5, <2>6 DEF Command
    <3> QED
      BY <1>1, <1>3, <1>6, <2>1, <2>3, <2>4, <3>1 DEF Inv, TypeOK
  <2>9. Shape(e)
    BY <1>2, <2>7 DEF Shape, HasDid, Unentered, Saving, Replacing, Promoting, AfterSave, RowsBehind, Mover, Runs
  <2>10. ASSUME Undisturbed PROVE CommandInv(e)'
    <3>1. Runs(e, "replace") => n = c.name
      BY <1>2, <2>7 DEF Shape, Runs
    <3>2. ReplaceInv(e)'
      BY <1>4, <2>1, <2>2, <2>3, <2>7, <3>1 DEF ReplaceInv, Runs, Replacing, RowsBehind, Maps
    <3>3. RecoverInv(e)'
      <4>1. RecoverInv(c)
        BY <1>2, <2>10 DEF CommandInv
      <4> QED
        BY <1>2, <1>4, <2>7, <4>1 DEF RecoverInv, Runs, Saving, AfterSave, Promoting, Maps
    <3>4. DidInv(e)' /\ RollbackInv(e)'
      BY <2>7 DEF DidInv, RollbackInv, HasDid, Unentered, Unwritten, Saving, Replacing, Promoting, AfterSave, RowsBehind
    <3> QED
      BY <3>2, <3>3, <3>4 DEF CommandInv
  <2>11. Passes(c, e) /\ Continues(c, e)
    BY <1>2, <1>3, <1>6, <2>7 DEF Passes, Continues, Kept, Inv, TypeOK, KeysInMemory, RowsBehind, Unentered,
      Saving, Replacing, Promoting, Mover, Runs
  <2> QED
    BY <1>1, <1>4, <2>8, <2>9, <2>10, <2>11, QuietContinues
<1> QED
  BY <1>5, <1>6

LEMMA SaveStep ==
  ASSUME Inv, NEW p \in Procs, Save(p)
  PROVE  Inv'
<1>1. PICK c \in Command, i \in Index : c = proc[p] /\ i = index
  BY DEF Inv, TypeOK
<1>2. Shape(c) /\ c.pc = "save" /\ (Undisturbed => CommandInv(c))
  BY <1>1 DEF Inv, Clean, Save, At
<1>3. UNCHANGED <<index, dirs, backups, service, rows, stale, generated>> /\ Counted
  BY DEF Save, files, Counted, Inv, TypeOK
<1>4. CASE c.name \in Live(index)
  BY <1>1, <1>3, <1>4, EndStep DEF Save
<1>5. CASE c.name \notin Live(index)
  <2>1. PICK e \in Command : e = [c EXCEPT !.pc = "saveIdent", !.seen = i]
    <3>1. [c EXCEPT !.pc = "saveIdent", !.seen = i] \in Command
      BY DEF Command, Labels
    <3> QED
      BY <3>1
  <2>2. /\ e.pc = "saveIdent" /\ e.kind = c.kind /\ e.name = c.name /\ e.handle = c.handle /\ e.did = c.did
        /\ e.seen = i /\ e.archived = c.archived /\ e.old = c.old /\ e.load = c.load /\ e.record = c.record
    BY <2>1 DEF Command
  <2>3. proc' = [proc EXCEPT ![p] = e] /\ Kept
    BY <1>1, <1>5, <2>1 DEF Save, Inv, TypeOK
  <2>4. Shape(e)
    BY <1>1, <1>2, <1>5, <2>2 DEF Shape, HasDid, Unentered, Saving, Replacing, Promoting, AfterSave, RowsBehind, Mover, Runs
  <2>5. ASSUME Undisturbed PROVE CommandInv(e)'
    BY <1>2, <1>3, <2>2, <2>5 DEF CommandInv, DidInv, ReplaceInv, RecoverInv, RollbackInv, HasDid, Unentered,
      Unwritten, Saving, Replacing, Promoting, AfterSave, RowsBehind, Mover, Runs, Maps, Shape
  <2>6. Passes(c, e) /\ Continues(c, e)
    BY <1>2, <2>2, <2>3 DEF Passes, Continues, Kept, Inv, TypeOK, KeysInMemory, RowsBehind, Unentered,
      Saving, Replacing, Promoting, Mover, Runs
  <2> QED
    BY <1>1, <1>3, <2>3, <2>4, <2>5, <2>6, QuietContinues
<1> QED
  BY <1>4, <1>5

LEMMA PromoteLoadStep ==
  ASSUME Inv, NEW p \in Procs, PromoteLoad(p)
  PROVE  Inv'
<1>1. PICK c \in Command, i \in Index : c = proc[p] /\ i = index
  BY DEF Inv, TypeOK
<1>2. Shape(c) /\ c.pc = "promote" /\ (Undisturbed => CommandInv(c))
  BY <1>1 DEF Inv, Clean, PromoteLoad, At
<1>3. UNCHANGED <<index, dirs, backups, service, rows, stale, generated>> /\ Counted
  BY DEF PromoteLoad, files, Counted, Inv, TypeOK
<1>4. CASE c.name \notin Live(index) \/ FinalName[c.handle] \in Live(index) \ (c.archived \union {c.name})
  BY <1>1, <1>3, <1>4, EndStep DEF PromoteLoad
<1>5. CASE c.name \in Live(index) /\ FinalName[c.handle] \notin Live(index) \ (c.archived \union {c.name})
  <2>1. PICK e \in Command : e = [c EXCEPT !.pc = "promoteSave", !.seen = i]
    <3>1. [c EXCEPT !.pc = "promoteSave", !.seen = i] \in Command
      BY DEF Command, Labels
    <3> QED
      BY <3>1
  <2>2. /\ e.pc = "promoteSave" /\ e.kind = c.kind /\ e.name = c.name /\ e.handle = c.handle /\ e.did = c.did
        /\ e.seen = i /\ e.before = c.before /\ e.archived = c.archived /\ e.old = c.old
        /\ e.load = c.load /\ e.record = c.record
    BY <2>1 DEF Command
  <2>3. proc' = [proc EXCEPT ![p] = e] /\ Kept
    BY <1>1, <1>5, <2>1 DEF PromoteLoad, Inv, TypeOK
  <2>4. Shape(e)
    BY <1>1, <1>2, <1>5, <2>2 DEF Shape, HasDid, Unentered, Saving, Replacing, Promoting, AfterSave, RowsBehind, Mover, Runs
  <2>5. ASSUME Undisturbed PROVE CommandInv(e)'
    BY <1>2, <1>3, <2>2, <2>5 DEF CommandInv, DidInv, ReplaceInv, RecoverInv, RollbackInv, Complete, HasDid, Unentered,
      Unwritten, Saving, Replacing, Promoting, AfterSave, RowsBehind, Mover, Runs, Maps, Shape
  <2>6. Passes(c, e) /\ Continues(c, e)
    BY <1>2, <2>2, <2>3 DEF Passes, Continues, Kept, Inv, TypeOK, KeysInMemory, RowsBehind, Unentered,
      Saving, Replacing, Promoting, Mover, Runs
  <2> QED
    BY <1>1, <1>3, <2>3, <2>4, <2>5, <2>6, QuietContinues
<1> QED
  BY <1>4, <1>5

LEMMA FinalizeStep ==
  ASSUME Inv, NEW p \in Procs, Finalize(p)
  PROVE  Inv'
<1>1. PICK c \in Command, i \in Index : c = proc[p] /\ i = index
  BY DEF Inv, TypeOK
<1>2. Shape(c) /\ c.pc = "final" /\ (Undisturbed => CommandInv(c) /\ Complete(index))
  BY <1>1 DEF Inv, Clean, Finalize, At
<1>3. UNCHANGED <<index, dirs, backups, service, rows, stale, generated>> /\ Counted
  BY DEF Finalize, files, history, Counted, Inv, TypeOK
<1>4. PICK e \in Command : e = [c EXCEPT !.pc = "promote", !.before = i]
  <2>1. [c EXCEPT !.pc = "promote", !.before = i] \in Command
    BY DEF Command, Labels
  <2> QED
    BY <2>1
<1>5. /\ e.pc = "promote" /\ e.kind = c.kind /\ e.name = c.name /\ e.handle = c.handle /\ e.did = c.did
      /\ e.before = i /\ e.archived = c.archived /\ e.old = c.old
      /\ e.load = c.load /\ e.record = c.record
  BY <1>4 DEF Command
<1>6. proc' = [proc EXCEPT ![p] = e]
  BY <1>1, <1>4 DEF Finalize, Inv, TypeOK
<1>7. Shape(e)
  BY <1>1, <1>2, <1>5 DEF Shape, HasDid, Unentered, Saving, Replacing, Promoting, AfterSave, RowsBehind, Mover, Runs
<1>8. ASSUME Undisturbed PROVE CommandInv(e)'
  <2>1. Maps(index, c.name, c.did)
    BY <1>2, <1>8 DEF CommandInv, RecoverInv, Shape, Runs, AfterSave
  <2>2. RollbackInv(e)'
    BY <1>1, <1>2, <1>3, <1>5, <1>8, <2>1 DEF RollbackInv, Complete
  <2> QED
    BY <1>2, <1>3, <1>5, <1>8, <2>2 DEF CommandInv, DidInv, ReplaceInv, RecoverInv, HasDid, Unentered,
      Unwritten, Saving, Replacing, Promoting, AfterSave, RowsBehind, Mover, Runs, Maps, Shape
<1>9. Passes(c, e)
  BY <1>2, <1>5 DEF Passes, Finalize, history, Inv, TypeOK, KeysInMemory, RowsBehind
<1>10. ASSUME Undisturbed, NEW q \in Procs \ {p} PROVE Distinct(e, proc[q]) /\ Distinct(proc[q], e)
  <2>1. Distinct(c, proc[q]) /\ Distinct(proc[q], c) /\ DidInv(proc[q])
    BY <1>1, <1>10 DEF Inv, Clean, CommandInv
  <2>2. Mover(e) => Mover(c)
    BY <1>2, <1>5 DEF Mover, Runs
  <2> QED
    BY <1>1, <1>5, <2>1, <2>2 DEF Distinct, Unentered, Saving, Replacing, DidInv
<1>11. generated \subseteq generated' /\ generated' \subseteq DIDs
  BY <1>3 DEF Inv, TypeOK
<1> QED
  BY <1>1, <1>3, <1>6, <1>7, <1>8, <1>9, <1>10, <1>11, QuietStep

LEMMA ReplaceStep ==
  ASSUME Inv, NEW p \in Procs, Replace(p)
  PROVE  Inv'
<1>1. PICK c \in Command, i \in Index : c = proc[p] /\ i = index
  BY DEF Inv, TypeOK
<1>2. Shape(c) /\ c.pc = "repl" /\ (Undisturbed => CommandInv(c))
  BY <1>1 DEF Inv, Clean, Replace, At
<1>3. UNCHANGED <<index, dirs, backups, service, rows, stale, generated>> /\ Counted
  BY DEF Replace, files, Counted, Inv, TypeOK
<1>4. CASE End(p)
  BY <1>3, <1>4, EndStep
<1>5. CASE ~End(p)
  <2>1. PICK e \in Command : e = [c EXCEPT !.pc = "replIdent", !.seen = i]
    <3>1. [c EXCEPT !.pc = "replIdent", !.seen = i] \in Command
      BY DEF Command, Labels
    <3> QED
      BY <3>1
  <2>2. /\ e.pc = "replIdent" /\ e.kind = c.kind /\ e.name = c.name /\ e.handle = c.handle /\ e.did = c.did
        /\ e.seen = i /\ e.archived = c.archived /\ e.old = c.old /\ e.load = c.load /\ e.record = c.record
    BY <2>1 DEF Command
  <2>3. proc' = [proc EXCEPT ![p] = e] /\ Kept
    BY <1>1, <1>5, <2>1 DEF Replace, Inv, TypeOK
  <2>4. Shape(e)
    BY <1>1, <1>2, <2>2 DEF Shape, HasDid, Unentered, Saving, Replacing, Promoting, AfterSave, RowsBehind, Mover, Runs
  <2>5. ASSUME Undisturbed PROVE CommandInv(e)'
    BY <1>1, <1>2, <1>3, <2>2, <2>5 DEF CommandInv, DidInv, ReplaceInv, RecoverInv, RollbackInv, HasDid, Unentered,
      Unwritten, Saving, Replacing, Promoting, AfterSave, RowsBehind, Mover, Runs, Maps, Shape
  <2>6. Passes(c, e) /\ Continues(c, e)
    BY <1>2, <2>2, <2>3 DEF Passes, Continues, Kept, Inv, TypeOK, KeysInMemory, RowsBehind, Unentered,
      Saving, Replacing, Promoting, Mover, Runs
  <2> QED
    BY <1>1, <1>3, <2>3, <2>4, <2>5, <2>6, QuietContinues
<1> QED
  BY <1>4, <1>5

(* A new DID is nobody's yet.                                                *)
LEMMA GenerateStep ==
  ASSUME Inv, NEW p \in Procs, NEW n \in Names, NEW h \in Handles \union {None}, NEW label,
         Generate(p, n, h, label), Kept,
         UNCHANGED <<files, service, rows, started, killed, stale>>, proc[p].pc = "load",
         \/ label = "save" /\ proc[p].kind = "create"
         \/ label = "remote" /\ proc[p].kind = "register" /\ h \in Handles
         \/ label = "backupOne" /\ proc[p].kind = "replace" /\ n = proc[p].name
         \/ label = "backupAll" /\ proc[p].kind = "recover" /\ h = proc[p].handle
  PROVE  Inv'
<1>1. PICK c \in Command : c = proc[p]
  BY DEF Inv, TypeOK
<1>2. Shape(c) /\ c.pc = "load" /\ (Undisturbed => Clean /\ CommandInv(c))
  BY <1>1 DEF Inv, Clean
<1>3. PICK d \in Fresh(h) :
        /\ generated' = generated \union {d}
        /\ proc' = [proc EXCEPT ![p].did = d, ![p].name = n, ![p].handle = h, ![p].pc = label]
  BY DEF Generate
<1>4. d \in DIDs \ generated
  BY <1>3 DEF Fresh
<1>5. PICK e \in Command : e = [c EXCEPT !.did = d, !.name = n, !.handle = h, !.pc = label]
  <2>1. PICK b \in Command : b = [c EXCEPT !.did = d, !.name = n]
    <3>1. [c EXCEPT !.did = d, !.name = n] \in Command
      BY <1>4 DEF Command
    <3> QED
      BY <3>1
  <2>2. [b EXCEPT !.handle = h, !.pc = label] \in Command
    <3>1. label \in Labels
      BY DEF Labels
    <3> QED
      BY <3>1 DEF Command
  <2>3. [c EXCEPT !.did = d, !.name = n, !.handle = h, !.pc = label] = [b EXCEPT !.handle = h, !.pc = label]
    BY <2>1 DEF Command
  <2> QED
    BY <2>2, <2>3
<1>6. /\ e.pc = label /\ e.kind = c.kind /\ e.name = n /\ e.handle = h /\ e.did = d
      /\ e.before = c.before /\ e.load = c.load /\ e.record = c.record
  BY <1>5 DEF Command
<1>7. proc' = [proc EXCEPT ![p] = e]
  BY <1>1, <1>3, <1>5 DEF Inv, TypeOK
<1>8. Shape(e)
  BY <1>1, <1>2, <1>4, <1>6 DEF Shape, HasDid, Unentered, Saving, Replacing, Promoting, AfterSave, RowsBehind, Mover, Runs
<1>9. UNCHANGED <<index, dirs, backups, service, rows, stale>> /\ Counted
  BY DEF files, Counted, Inv, TypeOK
<1>10. ASSUME Undisturbed PROVE CommandInv(e)'
  <2>1. d \notin NamedBy(index) /\ dirs[d] = "none" /\ d \in generated'
    BY <1>2, <1>3, <1>4, <1>10 DEF Clean, Complete, DirsInv
  <2>2. DidInv(e)' /\ RollbackInv(e)'
    BY <1>6, <1>9, <2>1 DEF DidInv, RollbackInv, HasDid, Unentered, Unwritten, Saving, Replacing, Promoting, AfterSave, RowsBehind
  <2>3. ReplaceInv(e)'
    BY <1>1, <1>2, <1>6, <1>9, <1>10 DEF CommandInv, ReplaceInv, Replacing, RowsBehind, Runs, Maps
  <2>4. RecoverInv(e)'
    BY <1>1, <1>2, <1>6, <1>9, <1>10 DEF CommandInv, RecoverInv, Saving, Promoting, AfterSave, Runs, Maps
  <2> QED
    BY <2>2, <2>3, <2>4 DEF CommandInv
<1>11. Passes(c, e)
  BY <1>2 DEF Passes, Kept, Inv, TypeOK, KeysInMemory, RowsBehind
<1>12. ASSUME Undisturbed, NEW q \in Procs \ {p} PROVE Distinct(e, proc[q]) /\ Distinct(proc[q], e)
  <2>1. PICK x \in Command : x = proc[q]
    BY DEF Inv, TypeOK
  <2>2. Distinct(c, x) /\ Distinct(x, c) /\ CommandInv(x) /\ Shape(x)
    BY <1>1, <1>2, <1>12, <2>1 DEF Inv, Clean
  <2>3. Mover(e) => Mover(c)
    BY <1>2, <1>6 DEF Mover, Runs
  <2>4. /\ Unentered(x) => x.did # d
        /\ x.pc \in Promoting => d \notin NamedBy(x.before)
        /\ x.pc = "replRemove" => x.record # d
    BY <1>4, <2>2 DEF CommandInv, DidInv, ReplaceInv, RollbackInv, Complete, HasDid
  <2>5. e.pc \notin Promoting /\ e.pc # "replRemove"
    BY <1>6 DEF Promoting
  <2> QED
    BY <1>6, <2>1, <2>2, <2>3, <2>4, <2>5 DEF Distinct
<1>13. generated \subseteq generated' /\ generated' \subseteq DIDs
  BY <1>3, <1>4 DEF Inv, TypeOK
<1> QED
  BY <1>1, <1>7, <1>8, <1>9, <1>10, <1>11, <1>12, <1>13, QuietStep

LEMMA PlansStep ==
  ASSUME Inv, NEW p \in Procs,
         CreateIdentity(p) \/ PlanRegister(p) \/ PlanReplace(p) \/ PlanRecover(p)
  PROVE  Inv'
<1>1. PICK c \in Command : c = proc[p]
  BY DEF Inv, TypeOK
<1>2. Shape(c) /\ c.pc = "load"
  BY <1>1 DEF Inv, CreateIdentity, PlanRegister, PlanReplace, PlanRecover, Listed, At
<1>3. ASSUME End(p), UNCHANGED <<files, service, rows, generated, started, killed, stale>>
      PROVE  Inv'
  <2>1. UNCHANGED <<index, dirs, backups, service, rows, stale, generated>> /\ Counted
    BY <1>3 DEF files, Counted, Inv, TypeOK
  <2> QED
    BY <1>3, <2>1, EndStep
<1>4. CASE CreateIdentity(p)
  <2>1. PICK n \in DefaultIdentityNames(c) : Generate(p, n, None, "save")
    BY <1>1, <1>4 DEF CreateIdentity
  <2>2. n \in Names
    <3>1. c.name \in Names \union {None} /\ Default \in Names
      BY StoreConstants DEF Command, StoreConstants
    <3>2. DefaultIdentityNames(c) \subseteq Names
      <4>1. CASE c.name # None
        BY <3>1, <4>1 DEF DefaultIdentityNames
      <4>2. CASE c.name = None /\ Live(c.before) = {}
        BY <3>1, <4>2 DEF DefaultIdentityNames
      <4>3. CASE c.name = None /\ Live(c.before) # {}
        BY <4>3 DEF DefaultIdentityNames
      <4> QED
        BY <4>1, <4>2, <4>3
    <3> QED
      BY <3>2
  <2> QED
    BY <1>1, <1>2, <1>4, <2>1, <2>2, GenerateStep DEF CreateIdentity, Listed, Kept
<1>5. CASE PlanRegister(p)
  <2>1. PICK n \in NamedIdentities(c) : Generate(p, n, c.handle, "remote")
    BY <1>1, <1>5 DEF PlanRegister
  <2>2. c.handle \in Handles /\ c.kind = "register"
    BY <1>1, <1>2, <1>5 DEF PlanRegister, Listed, Shape, Runs
  <2>3. n \in Names
    <3>1. c.name \in Names \union {None} /\ FinalName[c.handle] \in Names /\ Fallback[c.handle] \in Names
      BY <2>2, StoreConstants DEF Command, StoreConstants
    <3>2. NamedIdentities(c) \subseteq Names
      <4>1. CASE c.name # None
        BY <3>1, <4>1 DEF NamedIdentities
      <4>2. CASE c.name = None /\ FinalName[c.handle] \notin Live(c.before)
        BY <3>1, <4>2 DEF NamedIdentities
      <4>3. CASE c.name = None /\ FinalName[c.handle] \in Live(c.before)
        BY <3>1, <4>3 DEF NamedIdentities
      <4> QED
        BY <4>1, <4>2, <4>3
    <3> QED
      BY <3>2
  <2> QED
    BY <1>1, <1>2, <1>5, <2>1, <2>2, <2>3, GenerateStep DEF PlanRegister, Listed, Kept
<1>6. CASE PlanReplace(p)
  <2>1. CASE HandleOf[c.record] = None
    BY <1>1, <1>3, <1>6, <2>1 DEF PlanReplace
  <2>2. CASE HandleOf[c.record] # None
    <3>1. c.kind = "replace" /\ Generate(p, c.name, HandleOf[c.record], "backupOne") /\ Kept
      BY <1>1, <1>6, <2>2 DEF PlanReplace, Listed
    <3>2. c.name \in Names /\ c.record \in DIDs
      BY <1>2, <3>1 DEF Shape, Runs
    <3>3. HandleOf[c.record] \in Handles \union {None}
      BY <3>2, StoreConstants DEF StoreConstants
    <3> QED
      BY <1>1, <1>2, <1>6, <3>1, <3>2, <3>3, GenerateStep DEF PlanReplace
  <2> QED
    BY <2>1, <2>2
<1>7. CASE PlanRecover(p)
  <2>1. CASE PlanRefused(c)
    BY <1>1, <1>3, <1>7, <2>1 DEF PlanRecover
  <2>2. CASE ~PlanRefused(c)
    <3>1. c.kind = "recover" /\ Generate(p, TempName[c.handle], c.handle, "backupAll") /\ Kept
      BY <1>1, <1>7, <2>2 DEF PlanRecover, Listed
    <3>2. c.handle \in Handles
      BY <1>2, <3>1 DEF Shape, Runs
    <3>3. TempName[c.handle] \in Names
      BY <3>2, StoreConstants DEF StoreConstants
    <3> QED
      BY <1>1, <1>2, <1>7, <3>1, <3>2, <3>3, GenerateStep DEF PlanRecover
  <2> QED
    BY <2>1, <2>2
<1> QED
  BY <1>4, <1>5, <1>6, <1>7

LEMMA PlanProfileStep ==
  ASSUME Inv, NEW p \in Procs, PlanProfile(p)
  PROVE  Inv'
<1>1. PICK c \in Command, i \in Index : c = proc[p] /\ i = index
  BY DEF Inv, TypeOK
<1>2. Shape(c) /\ c.pc = "load" /\ c.kind = "profile"
  BY <1>1 DEF Inv, PlanProfile, Listed, At
<1>3. UNCHANGED <<index, dirs, backups, service, rows, stale, generated>> /\ Counted
  BY DEF PlanProfile, files, Counted, Inv, TypeOK
<1>4. CASE End(p)
  BY <1>3, <1>4, EndStep
<1>5. CASE ~End(p)
  <2>1. PICK e \in Command : e = [c EXCEPT !.pc = "rename", !.seen = i]
    <3>1. [c EXCEPT !.pc = "rename", !.seen = i] \in Command
      BY DEF Command, Labels
    <3> QED
      BY <3>1
  <2>2. e.pc = "rename" /\ e.kind = c.kind
    BY <2>1 DEF Command
  <2>3. proc' = [proc EXCEPT ![p] = e] /\ Kept
    BY <1>1, <1>5, <2>1 DEF PlanProfile, Inv, TypeOK
  <2>4. Shape(e)
    BY <1>2, <2>2 DEF Shape, HasDid, Unentered, Saving, Replacing, Promoting, AfterSave, RowsBehind, Mover, Runs
  <2>5. CommandInv(e)'
    BY <1>2, <2>2 DEF CommandInv, DidInv, ReplaceInv, RecoverInv, RollbackInv, HasDid, Unentered,
      Unwritten, Saving, Replacing, Promoting, AfterSave, RowsBehind, Mover, Runs, Maps, Shape
  <2>6. Passes(c, e) /\ Continues(c, e)
    BY <1>2, <2>2, <2>3 DEF Passes, Continues, Kept, Inv, TypeOK, KeysInMemory, RowsBehind, Unentered,
      Saving, Replacing, Promoting, Mover, Runs
  <2> QED
    BY <1>1, <1>3, <2>3, <2>4, <2>5, <2>6, QuietContinues
<1> QED
  BY <1>4, <1>5

(* A command ends without a trace, or is killed.                             *)
LEMMA StopStep ==
  ASSUME Inv, NEW p \in Procs, VerifyContact(p) \/ SendRecoverOTP(p) \/ Kill(p)
  PROVE  Inv'
<1>1. UNCHANGED <<index, dirs, backups, service, rows, stale, generated>> /\ Counted
  BY DEF VerifyContact, SendRecoverOTP, Kill, files, Counted, Inv, TypeOK
<1>2. End(p)
  BY DEF VerifyContact, SendRecoverOTP, Kill
<1> QED
  BY <1>1, <1>2, EndStep

-----------------------------------------------------------------------------
(* The index is written.                                                     *)

LEMMA IndexStep ==
  ASSUME Inv, NEW p \in Procs, NEW c \in Command, NEW e \in Command,
         c = proc[p], proc' = [proc EXCEPT ![p] = e], Shape(e),
         UNCHANGED <<dirs, backups, service, rows, generated>>, Counted,
         index' \in Index, stale' \in BOOLEAN, stale => stale', Passes(c, e),
         Undisturbed' =>
           /\ CommandInv(e)' /\ DefaultInv(index')
           /\ \A d \in NamedBy(index') :
                \/ d \in NamedBy(index)
                \/ Unentered(c) /\ d = c.did /\ dirs[d] = "keys"
                \/ c.pc \in Promoting /\ d \in NamedBy(c.before)
           /\ Mover(c) \/ Extends(index, index')
           /\ \A d \in rows \intersect NamedBy(index) :
                d \in NamedBy(index') \/ (e.pc \in RowsBehind /\ e.record = d)
           /\ \A q \in Procs \ {p} : Distinct(e, proc[q]) /\ Distinct(proc[q], e)
  PROVE  Inv'
<1>1. TypeOK /\ TypeOK'
  BY DEF Inv, TypeOK, Counted, Passes
<1>2. ASSUME Undisturbed' PROVE /\ DirsInv' /\ Complete(index)' /\ OwnerKeysHeld' /\ RowsHaveOwner'
                           /\ \A q \in Procs \ {p} : CommandInv(proc[q])'
  <2>1. Clean /\ Undisturbed /\ CommandInv(c) /\ Shape(c)
    BY <1>2 DEF Inv, Clean, Undisturbed, OneReplacement
  <2>2. DirsInv'
    BY <2>1 DEF Clean, DirsInv
  <2>3. Complete(index)'
    <3>1. ASSUME NEW d \in NamedBy(index') PROVE d \in generated' /\ dirs'[d] = "keys"
      <4>1. CASE d \in NamedBy(index)
        BY <2>1, <4>1 DEF Clean, Complete
      <4>2. CASE Unentered(c) /\ d = c.did /\ dirs[d] = "keys"
        BY <2>1, <4>2 DEF CommandInv, DidInv, HasDid
      <4>3. CASE c.pc \in Promoting /\ d \in NamedBy(c.before)
        BY <2>1, <4>3 DEF CommandInv, RollbackInv, Complete
      <4> QED
        BY <1>2, <3>1, <4>1, <4>2, <4>3
    <3> QED
      BY <1>2, <3>1 DEF Complete
  <2>4. OwnerKeysHeld'
    BY <1>1, <2>1, KeysStay DEF Clean, Held
  <2>5. RowsHaveOwner'
    <3>1. \A d \in rows' : d \notin rows \/ d \in NamedBy(index) =>
             d \in NamedBy(index') \/ (e.pc \in RowsBehind /\ e.record = d)
      BY <1>2
    <3> QED
      BY <1>1, <2>1, <3>1, RowsStay DEF Clean
  <2>6. ASSUME NEW q \in Procs \ {p} PROVE CommandInv(proc[q])'
    <3>1. PICK x \in Command : x = proc[q]
      BY <1>1 DEF TypeOK
    <3>2. CommandInv(x) /\ Shape(x) /\ proc'[q] = x /\ Distinct(c, x) /\ Distinct(x, c)
      BY <1>1, <2>1, <3>1 DEF Clean, Inv, TypeOK
    <3>3. Mover(x) => Extends(index, index')
      BY <1>2, <3>2 DEF Distinct
    <3>4. Unentered(x) => x.did \notin NamedBy(index')
      BY <1>2, <3>2 DEF Distinct, CommandInv, DidInv
    <3>5. x.pc = "replRemove" => x.record \notin NamedBy(index')
      <4> SUFFICES ASSUME x.pc = "replRemove" PROVE x.record \notin NamedBy(index')
        OBVIOUS
      <4>1. Mover(x)
        BY <3>2 DEF Shape, Mover, Runs, RowsBehind
      <4>2. c.pc \notin Promoting
        BY <2>1, <3>2, <4>1 DEF Shape, Distinct, Mover, Runs, AfterSave, Promoting
      <4> QED
        BY <1>2, <3>2, <4>2 DEF Distinct, CommandInv, ReplaceInv
    <3>6. Runs(x, "recover") /\ x.pc \in {"final", "promote", "promoteSave"} => rows' \intersect x.old = {}
      BY <3>2 DEF CommandInv, RecoverInv
    <3>7. CommandInv(x)'
      BY <3>2, <3>3, <3>4, <3>5, <3>6, Others
    <3> QED
      BY <3>2, <3>7
  <2> QED
    BY <2>2, <2>3, <2>4, <2>5, <2>6
<1> QED
  BY <1>1, <1>2, Assemble

(* A write that leaves the names and their DIDs as they are.                 *)
LEMMA RewriteStep ==
  ASSUME Inv, NEW p \in Procs, NEW c \in Command, NEW e \in Command,
         c = proc[p], proc' = [proc EXCEPT ![p] = e], Shape(e),
         UNCHANGED <<dirs, backups, service, rows, generated>>, Counted,
         NEW j \in Index, SaveIndex(p, j), Passes(c, e), Continues(c, e),
         Live(j) = Live(c.seen), \A n \in Live(j) : j.cred[n].did = c.seen.cred[n].did,
         DefaultInv(c.seen) => DefaultInv(j),
         Undisturbed' /\ Extends(index, index') => CommandInv(e)'
  PROVE  Inv'
<1>1. /\ index' \in Index /\ Live(index') = Live(j) /\ index'.cred = j.cred
      /\ DefaultInv(j) => DefaultInv(index')
  BY NormalizeFacts DEF SaveIndex
<1>2. stale' \in BOOLEAN /\ (stale => stale')
  BY DEF SaveIndex, Inv, TypeOK
<1>3. ASSUME Undisturbed'
      PROVE  /\ CommandInv(e)' /\ DefaultInv(index')
             /\ NamedBy(index') = NamedBy(index) /\ Extends(index, index')
             /\ \A q \in Procs \ {p} : Distinct(e, proc[q]) /\ Distinct(proc[q], e)
  <2>1. index = c.seen /\ Undisturbed /\ Clean
    BY <1>2, <1>3 DEF SaveIndex, Inv, Undisturbed, OneReplacement
  <2>2. NamedBy(index') = NamedBy(index) /\ Extends(index, index')
    BY <1>1, <2>1 DEF NamedBy, Extends, Maps
  <2>3. DefaultInv(index')
    BY <1>1, <2>1 DEF Clean, Complete
  <2>4. ASSUME NEW q \in Procs \ {p} PROVE Distinct(e, proc[q]) /\ Distinct(proc[q], e)
    BY <2>1, StillDistinct DEF Clean
  <2> QED
    BY <1>3, <2>2, <2>3, <2>4
<1> QED
  BY <1>1, <1>2, <1>3, IndexStep

LEMMA SetDefaultStep ==
  ASSUME Inv, NEW p \in Procs, SetDefault(p) \/ UpdateDisplayName(p)
  PROVE  Inv'
<1>1. PICK c \in Command : c = proc[p]
  BY DEF Inv, TypeOK
<1>2. Shape(c) /\ c.seen \in Index /\ End(p)
  BY <1>1 DEF Inv, Command, SetDefault, UpdateDisplayName
<1>3. UNCHANGED <<dirs, backups, service, rows, generated>> /\ Counted
  BY DEF SetDefault, UpdateDisplayName, Counted, Inv, TypeOK
<1>4. CASE SetDefault(p)
  <2>1. c.pc = "use" /\ SaveIndex(p, [c.seen EXCEPT !.def = c.name])
    BY <1>1, <1>4 DEF SetDefault, At
  <2>2. c.name \in Names /\ c.name \in Live(c.seen)
    BY <1>2, <2>1 DEF Shape
  <2>3. PICK j \in Index : j = [c.seen EXCEPT !.def = c.name]
    BY <1>2, <2>2, DefaultFacts
  <2>4. Live(j) = Live(c.seen) /\ j.cred = c.seen.cred /\ j.def = c.name
    BY <1>2, <2>2, <2>3, DefaultFacts
  <2>5. DefaultInv(j)
    BY <2>2, <2>4 DEF DefaultInv
  <2> QED
    BY <1>1, <1>2, <1>3, <2>1, <2>3, <2>4, <2>5, Ends, IdleFacts, IdleInv, RewriteStep DEF Inv
<1>5. CASE UpdateDisplayName(p)
  BY <1>1, <1>2, <1>3, <1>5, Ends, IdleFacts, IdleInv, RewriteStep DEF Inv, UpdateDisplayName
<1> QED
  BY <1>4, <1>5

LEMMA FilledFacts ==
  ASSUME NEW i \in Index, NEW n
  PROVE  /\ [i EXCEPT !.cred[n].full = TRUE] \in Index
         /\ Live([i EXCEPT !.cred[n].full = TRUE]) = Live(i)
         /\ [i EXCEPT !.cred[n].full = TRUE].def = i.def
         /\ \A m \in Live(i) : [i EXCEPT !.cred[n].full = TRUE].cred[m].did = i.cred[m].did
<1>1. /\ Live(i) \in SUBSET Names /\ i.def \in Names \union {None}
      /\ i.cred \in [Live(i) -> Entry] /\ i = [cred |-> i.cred, def |-> i.def]
  BY IndexFields
<1> DEFINE f == [i.cred EXCEPT ![n].full = TRUE]
<1>2. f \in [Live(i) -> Entry] /\ \A m \in Live(i) : f[m].did = i.cred[m].did
  BY <1>1 DEF Entry
<1>3. [i EXCEPT !.cred[n].full = TRUE] = [cred |-> f, def |-> i.def]
  <2>1. [i EXCEPT !.cred[n].full = TRUE] = [i EXCEPT !.cred = f]
    BY Zenon
  <2>2. [i EXCEPT !.cred = f] = [cred |-> f, def |-> i.def]
    <3> HIDE DEF f
    <3> QED
      BY <1>1
  <2> QED
    BY <2>1, <2>2
<1> HIDE DEF f
<1> QED
  BY <1>1, <1>2, <1>3, IndexMade

LEMMA BackfillStep ==
  ASSUME Inv, NEW p \in Procs, Backfill(p)
  PROVE  Inv'
<1>1. PICK c \in Command : c = proc[p]
  BY DEF Inv, TypeOK
<1>2. Shape(c) /\ c.seen \in Index /\ c.pc = "fill"
  BY <1>1 DEF Inv, Command, Backfill, At
<1>3. UNCHANGED <<dirs, backups, service, rows, generated>> /\ Counted
  BY DEF Backfill, Counted, Inv, TypeOK
<1>4. PICK n \in c.fill : SaveIndex(p, [c.seen EXCEPT !.cred[n].full = TRUE])
  BY <1>1 DEF Backfill
<1> DEFINE j == [c.seen EXCEPT !.cred[n].full = TRUE]
<1>5. j \in Index /\ SaveIndex(p, j)
  BY <1>2, <1>4, FilledFacts, Zenon
<1>6. Live(j) = Live(c.seen) /\ j.def = c.seen.def /\ \A m \in Live(j) : j.cred[m].did = c.seen.cred[m].did
  <2>1. Live(j) = Live(c.seen) /\ j.def = c.seen.def
    BY <1>2, FilledFacts, Zenon
  <2>2. \A m \in Live(c.seen) : j.cred[m].did = c.seen.cred[m].did
    BY <1>2, FilledFacts, Zenon
  <2> HIDE DEF j
  <2> QED
    BY <2>1, <2>2
<1> HIDE DEF j
<1>7. PICK e \in Command : e = [c EXCEPT !.pc = "load", !.fill = {}]
  <2>1. [c EXCEPT !.pc = "load", !.fill = {}] \in Command
    BY DEF Command, Labels
  <2> QED
    BY <2>1
<1>8. /\ e.pc = "load" /\ e.kind = c.kind /\ e.name = c.name /\ e.handle = c.handle
      /\ e.before = c.before /\ e.load = c.load /\ e.record = c.record
  BY <1>7 DEF Command
<1>9. proc' = [proc EXCEPT ![p] = e]
  BY <1>1, <1>7 DEF Backfill, Inv, TypeOK
<1>10. Shape(e)
  BY <1>2, <1>8 DEF Shape, HasDid, Unentered, Saving, Replacing, Promoting, AfterSave, RowsBehind, Mover, Runs
<1>11. ASSUME Undisturbed', Extends(index, index') PROVE CommandInv(e)'
  <2>1. CommandInv(c)
    BY <1>1, <1>11 DEF SaveIndex, Inv, Clean, Backfill, Undisturbed, OneReplacement
  <2>2. DidInv(e)' /\ RollbackInv(e)'
    BY <1>8 DEF DidInv, RollbackInv, HasDid, Unentered, Unwritten, Saving, Replacing, Promoting, AfterSave, RowsBehind
  <2>3. ReplaceInv(e)'
    BY <1>2, <1>8, <1>11, <2>1 DEF CommandInv, ReplaceInv, Runs, Replacing, RowsBehind, Maps, Extends
  <2>4. RecoverInv(e)'
    BY <1>2, <1>8, <1>11, <2>1 DEF CommandInv, RecoverInv, Runs, Saving, Promoting, AfterSave, Maps, Extends
  <2> QED
    BY <2>2, <2>3, <2>4 DEF CommandInv
<1>12. Passes(c, e) /\ Continues(c, e)
  BY <1>2, <1>8 DEF Passes, Continues, Backfill, Inv, TypeOK, KeysInMemory, RowsBehind, Unentered,
    Saving, Replacing, Promoting, Mover, Runs
<1>13. DefaultInv(c.seen) => DefaultInv(j)
  BY <1>6 DEF DefaultInv
<1> QED
  BY <1>1, <1>3, <1>5, <1>6, <1>9, <1>10, <1>11, <1>12, <1>13, RewriteStep

(* The entry of a new identity.                                              *)
LEMMA AddEntryFacts ==
  ASSUME NEW i \in Index, NEW n \in Names, NEW d \in DIDs, n \notin Live(i)
  PROVE  /\ AddEntry(i, n, d) \in Index /\ Live(AddEntry(i, n, d)) = Live(i) \union {n}
         /\ NamedBy(AddEntry(i, n, d)) = NamedBy(i) \union {d}
         /\ Extends(i, AddEntry(i, n, d)) /\ Maps(AddEntry(i, n, d), n, d)
         /\ DefaultInv(i) => DefaultInv(AddEntry(i, n, d))
<1> DEFINE x == [did |-> d, full |-> HandleOf[d] # None]
           a == With(i, n, x)
           j == AddEntry(i, n, d)
<1>1. x \in Entry /\ x.did = d
  BY DEF Entry
<1> HIDE DEF x
<1>2. /\ a \in Index /\ Live(a) = Live(i) \union {n} /\ a.def = i.def /\ a.cred[n] = x
      /\ \A m \in Live(i) : a.cred[m] = i.cred[m]
  BY <1>1, WithFacts
<1>3. j = IF i.def = None THEN [a EXCEPT !.def = n] ELSE a
  BY DEF AddEntry, x
<1> HIDE DEF a
<1>4. j \in Index /\ Live(j) = Live(a) /\ j.cred = a.cred /\ j.def = IF i.def = None THEN n ELSE i.def
  <2>1. CASE i.def = None
    <3>1. j = [a EXCEPT !.def = n]
      BY <1>3, <2>1
    <3> HIDE DEF j
    <3> QED
      BY <1>2, <2>1, <3>1, DefaultFacts
  <2>2. CASE i.def # None
    <3>1. j = a
      BY <1>3, <2>2
    <3> HIDE DEF j
    <3> QED
      BY <1>2, <2>2, <3>1
  <2> QED
    BY <2>1, <2>2
<1> HIDE DEF j
<1>5. Extends(i, j) /\ Maps(j, n, d)
  BY <1>1, <1>2, <1>4 DEF Extends, Maps
<1>6. NamedBy(j) = NamedBy(i) \union {d}
  BY <1>1, <1>2, <1>4 DEF NamedBy
<1>7. DefaultInv(i) => DefaultInv(j)
  BY <1>2, <1>4 DEF DefaultInv
<1> QED
  BY <1>2, <1>4, <1>5, <1>6, <1>7 DEF j

LEMMA SaveEntryStep ==
  ASSUME Inv, NEW p \in Procs, SaveEntry(p)
  PROVE  Inv'
<1>1. PICK c \in Command : c = proc[p]
  BY DEF Inv, TypeOK
<1>2. Shape(c) /\ c.seen \in Index /\ c.pc = "saveIndex"
  BY <1>1 DEF Inv, Command, SaveEntry, At
<1>3. UNCHANGED <<dirs, backups, service, rows, generated>> /\ Counted
  BY DEF SaveEntry, Counted, Inv, TypeOK
<1>4. c.name \in Names /\ c.did \in DIDs /\ c.name \notin Live(c.seen)
  BY <1>2 DEF Shape, HasDid, Unentered, Saving
<1>5. PICK j \in Index : j = AddEntry(c.seen, c.name, c.did)
  BY <1>2, <1>4, AddEntryFacts
<1>6. /\ NamedBy(j) = NamedBy(c.seen) \union {c.did}
      /\ Extends(c.seen, j) /\ Maps(j, c.name, c.did)
      /\ DefaultInv(c.seen) => DefaultInv(j)
  BY <1>2, <1>4, <1>5, AddEntryFacts
<1>7. SaveIndex(p, j)
  BY <1>1, <1>5 DEF SaveEntry
<1>8. /\ index' \in Index /\ stale' \in BOOLEAN /\ (stale => stale')
      /\ NamedBy(index') = NamedBy(j) /\ (DefaultInv(j) => DefaultInv(index'))
      /\ Maps(index', c.name, c.did) /\ Extends(c.seen, index')
  BY <1>6, <1>7, NormalizeFacts DEF SaveIndex, Inv, TypeOK, Maps, Extends
<1>9. ASSUME Undisturbed'
      PROVE  /\ DefaultInv(index') /\ CommandInv(c)
             /\ \A d \in NamedBy(index') :
                  d \in NamedBy(index) \/ (Unentered(c) /\ d = c.did /\ dirs[d] = "keys")
             /\ Extends(index, index') /\ NamedBy(index) \subseteq NamedBy(index')
             /\ \A q \in Procs \ {p} : Distinct(c, proc[q]) /\ Distinct(proc[q], c)
  <2>1. index = c.seen /\ Undisturbed /\ Clean
    BY <1>1, <1>8, <1>9 DEF SaveIndex, SaveEntry, Inv, Undisturbed, OneReplacement
  <2>2. CommandInv(c)
    BY <1>1, <2>1 DEF Clean
  <2>3. dirs[c.did] = "keys" /\ Unentered(c)
    BY <1>2, <2>2 DEF CommandInv, DidInv, Unentered, Saving
  <2>4. DefaultInv(index')
    BY <1>6, <1>8, <2>1 DEF Clean, Complete
  <2> QED
    BY <1>1, <1>6, <1>8, <2>1, <2>2, <2>3, <2>4 DEF Clean
<1>10. CASE c.kind = "recover"
  <2>1. PICK e \in Command : e = [c EXCEPT !.pc = "merge"]
    <3>1. [c EXCEPT !.pc = "merge"] \in Command
      BY DEF Command, Labels
    <3> QED
      BY <3>1
  <2>2. /\ e.pc = "merge" /\ e.kind = c.kind /\ e.name = c.name /\ e.handle = c.handle /\ e.did = c.did
        /\ e.archived = c.archived /\ e.old = c.old /\ e.load = c.load /\ e.record = c.record
    BY <2>1 DEF Command
  <2>3. proc' = [proc EXCEPT ![p] = e] /\ Kept
    BY <1>1, <1>10, <2>1 DEF SaveEntry, Goto
  <2>4. Shape(e)
    BY <1>2, <1>10, <2>2 DEF Shape, HasDid, Unentered, Saving, Replacing, Promoting, AfterSave, RowsBehind, Mover, Runs
  <2>5. ASSUME Undisturbed' PROVE CommandInv(e)'
    <3>1. DidInv(e)' /\ RollbackInv(e)' /\ ReplaceInv(e)'
      BY <1>2, <1>3, <1>9, <1>10, <2>2, <2>5 DEF CommandInv, DidInv, RollbackInv, ReplaceInv, Runs, HasDid, Unentered, Unwritten, Saving,
        Replacing, Promoting, AfterSave, RowsBehind
    <3>2. RecoverInv(e)'
      BY <1>2, <1>3, <1>8, <1>9, <1>10, <2>2, <2>5 DEF CommandInv, RecoverInv, Runs, Saving, Promoting, AfterSave, Maps, Extends
    <3> QED
      BY <3>1, <3>2 DEF CommandInv
  <2>6. Passes(c, e) /\ Continues(c, e)
    BY <1>2, <2>2, <2>3 DEF Passes, Continues, Kept, Inv, TypeOK, KeysInMemory, RowsBehind, Unentered,
      Saving, Replacing, Promoting, Mover, Runs
  <2>7. ASSUME Undisturbed', NEW q \in Procs \ {p} PROVE Distinct(e, proc[q]) /\ Distinct(proc[q], e)
    BY <1>9, <2>6, <2>7, StillDistinct
  <2> QED
    BY <1>1, <1>3, <1>8, <1>9, <2>3, <2>4, <2>5, <2>6, <2>7, IndexStep
<1>11. CASE c.kind # "recover"
  <2>1. End(p)
    BY <1>1, <1>11 DEF SaveEntry
  <2>2. proc' = [proc EXCEPT ![p] = Idle] /\ Passes(c, Idle)
    BY <1>1, <2>1, Ends DEF Inv
  <2> QED
    BY <1>1, <1>3, <1>8, <1>9, <2>2, IdleFacts, IdleInv, IdleDistinct, IndexStep
<1> QED
  BY <1>10, <1>11

(* The recovered identity takes the place of those it supersedes.            *)
LEMMA PromotedFacts ==
  ASSUME NEW i \in Index, NEW c \in Command, c.handle \in Handles, c.name \in Live(i)
  PROVE  /\ Promoted(i, c) \in Index
         /\ Live(Promoted(i, c)) = (Live(i) \ (c.archived \union {c.name})) \union {FinalName[c.handle]}
         /\ Promoted(i, c).cred[FinalName[c.handle]] = i.cred[c.name]
         /\ \A m \in Live(i) \ (c.archived \union {c.name, FinalName[c.handle]}) :
              Promoted(i, c).cred[m] = i.cred[m]
         /\ NamedBy(Promoted(i, c)) \subseteq NamedBy(i)
         /\ DefaultInv(i) => DefaultInv(Promoted(i, c))
<1> DEFINE S == c.archived \union {c.name}
           final == FinalName[c.handle]
           kept == Without(i, S)
           named == With(kept, final, i.cred[c.name])
           j == Promoted(i, c)
<1>1. final \in Names /\ i.cred[c.name] \in Entry
  BY IndexFields, StoreConstants DEF StoreConstants
<1>2. j = IF i.def \in S THEN [named EXCEPT !.def = final] ELSE named
  BY DEF Promoted
<1> HIDE DEF S, final
<1>3. /\ kept \in Index /\ Live(kept) = Live(i) \ S /\ kept.def = i.def
      /\ \A m \in Live(i) \ S : kept.cred[m] = i.cred[m]
  BY WithoutFacts
<1> HIDE DEF kept
<1>4. /\ named \in Index /\ Live(named) = Live(kept) \union {final} /\ named.def = kept.def
      /\ named.cred[final] = i.cred[c.name]
      /\ \A m \in Live(kept) \ {final} : named.cred[m] = kept.cred[m]
  BY <1>1, <1>3, WithFacts
<1> HIDE DEF named
<1>5. /\ j \in Index /\ Live(j) = Live(named) /\ j.cred = named.cred
      /\ j.def = IF i.def \in S THEN final ELSE i.def
  <2>1. CASE i.def \in S
    <3>1. j = [named EXCEPT !.def = final]
      BY <1>2, <2>1
    <3> HIDE DEF j
    <3> QED
      BY <1>1, <1>4, <2>1, <3>1, DefaultFacts
  <2>2. CASE i.def \notin S
    <3>1. j = named
      BY <1>2, <2>2
    <3> HIDE DEF j
    <3> QED
      BY <1>3, <1>4, <2>2, <3>1
  <2> QED
    BY <2>1, <2>2
<1> HIDE DEF j
<1>6. \A m \in Live(i) \ (S \union {final}) : j.cred[m] = i.cred[m]
  BY <1>3, <1>4, <1>5
<1>7. NamedBy(j) \subseteq NamedBy(i)
  BY <1>3, <1>4, <1>5 DEF NamedBy
<1>8. DefaultInv(i) => DefaultInv(j)
  BY <1>3, <1>4, <1>5 DEF DefaultInv
<1>9. Live(j) = (Live(i) \ S) \union {final} /\ j.cred[final] = i.cred[c.name]
  BY <1>3, <1>4, <1>5
<1>10. c.archived \union {c.name, final} = S \union {final}
  BY DEF S
<1> QED
  BY <1>5, <1>6, <1>7, <1>8, <1>9, <1>10 DEF S, final, j

LEMMA PromoteSaveStep ==
  ASSUME Inv, NEW p \in Procs, PromoteSave(p)
  PROVE  Inv'
<1>1. PICK c \in Command : c = proc[p]
  BY DEF Inv, TypeOK
<1>2. Shape(c) /\ c.seen \in Index /\ c.pc = "promoteSave"
  BY <1>1 DEF Inv, Command, PromoteSave, At
<1>3. UNCHANGED <<dirs, backups, service, rows, generated>> /\ Counted
  BY DEF PromoteSave, Counted, Inv, TypeOK
<1>4. c.handle \in Handles /\ c.kind = "recover"
  BY <1>2 DEF Shape, Runs, AfterSave, Promoting
<1>5. c.name \in Live(c.seen) /\ FinalName[c.handle] \notin Live(c.seen) \ (c.archived \union {c.name})
  BY <1>2 DEF Shape
<1>6. PICK j \in Index : j = Promoted(c.seen, c)
  BY <1>2, <1>4, <1>5, PromotedFacts
<1>7. /\ Live(j) = (Live(c.seen) \ (c.archived \union {c.name})) \union {FinalName[c.handle]}
      /\ j.cred[FinalName[c.handle]] = c.seen.cred[c.name]
      /\ \A m \in Live(c.seen) \ (c.archived \union {c.name, FinalName[c.handle]}) :
           j.cred[m] = c.seen.cred[m]
      /\ NamedBy(j) \subseteq NamedBy(c.seen)
      /\ DefaultInv(c.seen) => DefaultInv(j)
  BY <1>2, <1>4, <1>5, <1>6, PromotedFacts
<1>8. SaveIndex(p, j)
  BY <1>1, <1>6 DEF PromoteSave
<1>9. /\ index' \in Index /\ stale' \in BOOLEAN /\ (stale => stale')
      /\ NamedBy(index') = NamedBy(j) /\ (DefaultInv(j) => DefaultInv(index'))
  BY <1>8, NormalizeFacts DEF SaveIndex, Inv, TypeOK
<1>10. ASSUME Undisturbed'
       PROVE  /\ DefaultInv(index') /\ CommandInv(c) /\ NamedBy(index') \subseteq NamedBy(index)
              /\ rows \intersect NamedBy(index) \subseteq NamedBy(index')
              /\ \A q \in Procs \ {p} : Distinct(c, proc[q]) /\ Distinct(proc[q], c)
  <2>1. index = c.seen /\ Undisturbed /\ Clean
    BY <1>1, <1>9, <1>10 DEF SaveIndex, PromoteSave, Inv, Undisturbed, OneReplacement
  <2>2. CommandInv(c)
    BY <1>1, <2>1 DEF Clean
  <2>3. DefaultInv(index')
    BY <1>7, <1>9, <2>1 DEF Clean, Complete
  <2>4. ASSUME NEW d \in rows \intersect NamedBy(index) PROVE d \in NamedBy(index')
    <3>1. PICK n \in Live(index) : d = index.cred[n].did
      BY DEF NamedBy
    <3>2. n \notin c.archived
      BY <1>2, <1>4, <2>2, <3>1 DEF CommandInv, RecoverInv, Runs
    <3>3. d \in NamedBy(j)
      <4>1. CASE n = c.name
        BY <1>7, <2>1, <3>1, <4>1 DEF NamedBy
      <4>2. CASE n # c.name
        BY <1>5, <1>7, <2>1, <3>1, <3>2, <4>2 DEF NamedBy
      <4> QED
        BY <4>1, <4>2
    <3> QED
      BY <1>9, <3>3
  <2>5. NamedBy(index') \subseteq NamedBy(index)
    BY <1>7, <1>9, <2>1
  <2> QED
    BY <1>1, <2>1, <2>2, <2>3, <2>4, <2>5 DEF Clean
<1>11. Mover(c)
  BY <1>2, <1>4 DEF Mover, Runs
<1>12. CASE c.activeBefore \in c.archived
  <2>1. PICK e \in Command : e = [c EXCEPT !.pc = "activate"]
    <3>1. [c EXCEPT !.pc = "activate"] \in Command
      BY DEF Command, Labels
    <3> QED
      BY <3>1
  <2>2. /\ e.pc = "activate" /\ e.kind = c.kind /\ e.name = c.name /\ e.handle = c.handle /\ e.did = c.did
        /\ e.before = c.before /\ e.archived = c.archived /\ e.old = c.old /\ e.load = c.load /\ e.record = c.record
    BY <2>1 DEF Command
  <2>3. proc' = [proc EXCEPT ![p] = e] /\ Kept
    BY <1>1, <1>12, <2>1 DEF PromoteSave, Goto
  <2>4. Shape(e)
    BY <1>2, <1>4, <2>2 DEF Shape, HasDid, Unentered, Saving, Replacing, Promoting, AfterSave, RowsBehind, Mover, Runs
  <2>5. ASSUME Undisturbed' PROVE CommandInv(e)'
    <3>1. DidInv(e)' /\ ReplaceInv(e)'
      BY <1>2, <1>3, <1>4, <1>10, <2>2, <2>5 DEF CommandInv, DidInv, ReplaceInv, Runs, HasDid, Unentered, Unwritten, Saving,
        Replacing, Promoting, AfterSave, RowsBehind
    <3>2. RecoverInv(e)'
      BY <1>2, <1>3, <1>4, <1>10, <2>2, <2>5 DEF CommandInv, RecoverInv, Runs, Saving, Promoting, AfterSave
    <3>3. RollbackInv(e)'
      BY <1>2, <1>3, <1>10, <2>2, <2>5 DEF CommandInv, RollbackInv, Promoting, Complete
    <3> QED
      BY <3>1, <3>2, <3>3 DEF CommandInv
  <2>6. Passes(c, e) /\ Continues(c, e)
    BY <1>2, <2>2, <2>3 DEF Passes, Continues, Kept, Inv, TypeOK, KeysInMemory, RowsBehind, Unentered,
      Saving, Replacing, Promoting, Mover, Runs
  <2>7. ASSUME Undisturbed', NEW q \in Procs \ {p} PROVE Distinct(e, proc[q]) /\ Distinct(proc[q], e)
    BY <1>10, <2>6, <2>7, StillDistinct
  <2> QED
    BY <1>1, <1>3, <1>9, <1>10, <1>11, <2>3, <2>4, <2>5, <2>6, <2>7, IndexStep
<1>13. CASE c.activeBefore \notin c.archived
  <2>1. End(p)
    BY <1>1, <1>13 DEF PromoteSave
  <2>2. proc' = [proc EXCEPT ![p] = Idle] /\ Passes(c, Idle)
    BY <1>1, <2>1, Ends DEF Inv
  <2> QED
    BY <1>1, <1>3, <1>9, <1>10, <1>11, <2>2, IdleFacts, IdleInv, IdleDistinct, IndexStep
<1> QED
  BY <1>12, <1>13

LEMMA ActivateStep ==
  ASSUME Inv, NEW p \in Procs, Activate(p)
  PROVE  Inv'
<1>1. PICK c \in Command : c = proc[p]
  BY DEF Inv, TypeOK
<1>2. Shape(c) /\ c.before \in Index /\ c.pc = "activate"
  BY <1>1 DEF Inv, Command, Activate, At
<1>3. UNCHANGED <<dirs, backups, service, rows, generated>> /\ End(p)
  BY DEF Activate
<1>4. c.handle \in Handles /\ c.kind = "recover"
  BY <1>2 DEF Shape, Runs, AfterSave, Promoting
<1>5. CASE active' = FinalName[proc[p].handle] /\ UNCHANGED <<index, stale>>
  <2>1. Counted
    BY <1>1, <1>4, <1>5, StoreConstants DEF StoreConstants, Counted, Activate, Inv, TypeOK
  <2> QED
    BY <1>3, <1>5, <2>1, EndStep
<1>6. CASE /\ index' = Normalize(c.before) /\ UNCHANGED active
           /\ stale' = (stale \/ index # Normalize(Promoted(c.before, c)))
  <2>1. Counted
    BY <1>6 DEF Counted, Activate, Inv, TypeOK
  <2>2. /\ index' \in Index /\ stale' \in BOOLEAN /\ (stale => stale')
        /\ NamedBy(index') = NamedBy(c.before) /\ (DefaultInv(c.before) => DefaultInv(index'))
    BY <1>2, <1>6, NormalizeFacts DEF Inv, TypeOK
  <2>3. ASSUME Undisturbed' PROVE DefaultInv(index') /\ NamedBy(index) \subseteq NamedBy(index')
    <3>1. CommandInv(c) /\ index = Normalize(Promoted(c.before, c))
      BY <1>1, <1>6, <2>3 DEF Inv, Clean, Undisturbed, OneReplacement
    <3>2. Complete(c.before) /\ c.name \in Live(c.before)
      BY <1>2, <3>1 DEF CommandInv, RollbackInv, Promoting, Maps
    <3>3. Promoted(c.before, c) \in Index /\ NamedBy(Promoted(c.before, c)) \subseteq NamedBy(c.before)
      BY <1>2, <1>4, <3>2, PromotedFacts
    <3> QED
      BY <2>2, <3>1, <3>2, <3>3, NormalizeFacts DEF Complete
  <2>4. proc' = [proc EXCEPT ![p] = Idle] /\ Passes(c, Idle)
    BY <1>1, <1>3, Ends DEF Inv
  <2>5. Mover(c) /\ c.pc \in Promoting
    BY <1>2, <1>4 DEF Mover, Runs, Promoting
  <2> QED
    BY <1>1, <1>3, <2>1, <2>2, <2>3, <2>4, <2>5, IdleFacts, IdleInv, IdleDistinct, IndexStep
<1> QED
  BY <1>1, <1>5, <1>6 DEF Activate

(* Entries that get the new DID.                                             *)
Rewritten(i, S, x) == [i EXCEPT !.cred = [m \in Live(i) |-> IF m \in S THEN x ELSE i.cred[m]]]

LEMMA RewrittenFacts ==
  ASSUME NEW i \in Index, NEW S, NEW x \in Entry
  PROVE  /\ Rewritten(i, S, x) \in Index /\ Live(Rewritten(i, S, x)) = Live(i)
         /\ Rewritten(i, S, x).def = i.def
         /\ \A m \in Live(i) : Rewritten(i, S, x).cred[m] = IF m \in S THEN x ELSE i.cred[m]
<1> DEFINE f == [m \in Live(i) |-> IF m \in S THEN x ELSE i.cred[m]]
<1>1. /\ Live(i) \in SUBSET Names /\ i.def \in Names \union {None}
      /\ i.cred \in [Live(i) -> Entry] /\ i = [cred |-> i.cred, def |-> i.def]
  BY IndexFields
<1>2. f \in [Live(i) -> Entry]
  BY <1>1
<1>3. Rewritten(i, S, x) = [cred |-> f, def |-> i.def]
  BY <1>1 DEF Rewritten
<1>4. \A m \in Live(i) : f[m] = IF m \in S THEN x ELSE i.cred[m]
  OBVIOUS
<1> HIDE DEF f
<1> QED
  BY <1>1, <1>2, <1>3, <1>4, IndexMade

LEMMA ReplacedFacts ==
  ASSUME NEW i \in Index, NEW n \in Live(i), NEW x \in Entry,
         NEW j \in Index, j = Rewritten(i, Linked(i, n), x)
  PROVE  /\ Live(j) = Live(i) /\ j.def = i.def /\ Maps(j, n, x.did)
         /\ NamedBy(j) \subseteq (NamedBy(i) \ {i.cred[n].did}) \union {x.did}
         /\ NamedBy(i) \ {i.cred[n].did} \subseteq NamedBy(j)
<1>1. /\ Live(j) = Live(i) /\ j.def = i.def
      /\ \A m \in Live(i) : j.cred[m] = IF m \in Linked(i, n) THEN x ELSE i.cred[m]
  BY RewrittenFacts
<1>2. \A m \in Live(i) : m \in Linked(i, n) <=> i.cred[m].did = i.cred[n].did
  BY DEF Linked
<1>3. Maps(j, n, x.did)
  BY <1>1, <1>2 DEF Maps
<1>4. ASSUME NEW b \in NamedBy(j) PROVE b \in (NamedBy(i) \ {i.cred[n].did}) \union {x.did}
  BY <1>1, <1>2 DEF NamedBy
<1>5. ASSUME NEW b \in NamedBy(i) \ {i.cred[n].did} PROVE b \in NamedBy(j)
  <2>1. PICK m \in Live(i) : b = i.cred[m].did
    BY DEF NamedBy
  <2>2. m \in Live(j) /\ j.cred[m].did = b
    BY <1>1, <1>2, <1>5, <2>1
  <2> QED
    BY <2>2 DEF NamedBy
<1> QED
  BY <1>1, <1>3, <1>4, <1>5

LEMMA ReplaceSaveStep ==
  ASSUME Inv, NEW p \in Procs, ReplaceSave(p)
  PROVE  Inv'
<1>1. PICK c \in Command : c = proc[p]
  BY DEF Inv, TypeOK
<1>2. Shape(c) /\ c.seen \in Index /\ c.pc = "replIndex"
  BY <1>1 DEF Inv, Command, ReplaceSave, At
<1>3. UNCHANGED <<dirs, backups, service, rows, generated, dropped, orphaned>> /\ Counted
  BY DEF ReplaceSave, Counted, Inv, TypeOK
<1>4. c.kind = "replace" /\ c.name \in Names /\ c.did \in DIDs
  BY <1>2 DEF Shape, HasDid, Unentered, Replacing
<1>5. PICK x \in Entry : x = [did |-> c.did, full |-> TRUE]
  BY <1>4 DEF Entry
<1>6. PICK j \in Index : j = Rewritten(c.seen, Linked(c.seen, c.name), x)
  BY <1>2, RewrittenFacts
<1>7. SaveIndex(p, j) /\ x.did = c.did
  BY <1>1, <1>5, <1>6 DEF ReplaceSave, Rewritten
<1>8. c.name \in Live(c.seen) =>
        /\ Live(j) = Live(c.seen) /\ j.def = c.seen.def /\ Maps(j, c.name, c.did)
        /\ NamedBy(j) \subseteq (NamedBy(c.seen) \ {c.seen.cred[c.name].did}) \union {c.did}
        /\ NamedBy(c.seen) \ {c.seen.cred[c.name].did} \subseteq NamedBy(j)
  BY <1>2, <1>6, <1>7, ReplacedFacts
<1>9. /\ index' \in Index /\ Live(index') = Live(j) /\ index'.cred = j.cred
      /\ NamedBy(index') = NamedBy(j) /\ (DefaultInv(j) => DefaultInv(index'))
  BY <1>7, NormalizeFacts DEF SaveIndex
<1>10. stale' \in BOOLEAN /\ (stale => stale')
  BY <1>7 DEF SaveIndex, Inv, TypeOK
<1>11. PICK e \in Command : e = [c EXCEPT !.pc = "replRemove"]
  <2>1. [c EXCEPT !.pc = "replRemove"] \in Command
    BY DEF Command, Labels
  <2> QED
    BY <2>1
<1>12. /\ e.pc = "replRemove" /\ e.kind = c.kind /\ e.name = c.name /\ e.handle = c.handle /\ e.did = c.did
       /\ e.seen = c.seen /\ e.record = c.record /\ e.load = c.load
  BY <1>11 DEF Command
<1>13. proc' = [proc EXCEPT ![p] = e]
  BY <1>1, <1>11 DEF ReplaceSave, Goto
<1>14. Shape(e)
  BY <1>2, <1>12 DEF Shape, HasDid, Unentered, Saving, Replacing, Promoting, AfterSave, RowsBehind, Mover, Runs
<1>15. Passes(c, e)
  BY <1>2, <1>3 DEF Passes, Inv, TypeOK, KeysInMemory, RowsBehind
<1>16. ASSUME Undisturbed'
       PROVE  /\ Clean /\ CommandInv(c) /\ c.did # c.record /\ DefaultInv(index')
              /\ c.record \in NamedBy(index) /\ c.record \notin NamedBy(index')
              /\ NamedBy(index') \subseteq NamedBy(index) \union {c.did}
              /\ NamedBy(index) \ {c.record} \subseteq NamedBy(index')
              /\ Maps(index', c.name, c.did)
  <2>1. index = c.seen /\ Undisturbed /\ Clean
    BY <1>1, <1>7, <1>10, <1>16 DEF SaveIndex, Inv, Undisturbed, OneReplacement
  <2>2. CommandInv(c)
    BY <1>1, <2>1 DEF Clean
  <2>3. Maps(c.seen, c.name, c.record)
    BY <1>2, <1>4, <2>2 DEF CommandInv, ReplaceInv
  <2>4. c.record \in NamedBy(index)
    BY <2>1, <2>3 DEF Maps, NamedBy
  <2>5. c.did # c.record
    BY <1>2, <2>2, <2>4 DEF CommandInv, DidInv, Unentered, Replacing
  <2>6. DefaultInv(index')
    BY <1>8, <1>9, <2>1, <2>3 DEF Clean, Complete, DefaultInv, Maps
  <2>7. Maps(index', c.name, c.did)
    BY <1>8, <1>9, <2>3 DEF Maps
  <2> QED
    BY <1>8, <1>9, <2>1, <2>2, <2>3, <2>4, <2>5, <2>6, <2>7 DEF Maps
<1>17. ASSUME Undisturbed' PROVE CommandInv(e)'
  <2>1. DidInv(e)' /\ RollbackInv(e)' /\ RecoverInv(e)'
    BY <1>2, <1>3, <1>4, <1>12, <1>16, <1>17 DEF CommandInv, DidInv, RollbackInv, RecoverInv, Runs, HasDid, Unentered,
      Unwritten, Saving, Replacing, Promoting, AfterSave, RowsBehind
  <2>2. c.record \in generated
    BY <1>16, <1>17 DEF Clean, Complete
  <2>3. ReplaceInv(e)'
    BY <1>2, <1>3, <1>4, <1>12, <1>16, <1>17, <2>2 DEF CommandInv, ReplaceInv, Runs, Replacing, RowsBehind
  <2> QED
    BY <2>1, <2>3 DEF CommandInv
<1>18. ASSUME Undisturbed', NEW q \in Procs \ {p} PROVE Distinct(e, proc[q]) /\ Distinct(proc[q], e)
  <2>1. Distinct(c, proc[q]) /\ Distinct(proc[q], c) /\ DidInv(proc[q])
    BY <1>1, <1>16, <1>18 DEF Clean, CommandInv
  <2>2. Unentered(proc[q]) => proc[q].did # c.record
    BY <1>16, <1>18, <2>1 DEF DidInv
  <2> QED
    BY <1>2, <1>4, <1>12, <2>1, <2>2 DEF Distinct, Unentered, Saving, Replacing, Promoting, Mover, Runs
<1>19. ASSUME Undisturbed'
       PROVE  /\ \A d \in NamedBy(index') :
                   d \in NamedBy(index) \/ (Unentered(c) /\ d = c.did /\ dirs[d] = "keys")
              /\ Mover(c)
              /\ \A d \in rows \intersect NamedBy(index) :
                   d \in NamedBy(index') \/ (e.pc \in RowsBehind /\ e.record = d)
  <2>1. dirs[c.did] = "keys" /\ Unentered(c) /\ Mover(c)
    BY <1>2, <1>4, <1>16, <1>19 DEF CommandInv, DidInv, Unentered, Replacing, Mover, Runs
  <2> QED
    BY <1>12, <1>16, <1>19, <2>1 DEF RowsBehind
<1> QED
  BY <1>1, <1>3, <1>9, <1>10, <1>13, <1>14, <1>15, <1>16, <1>17, <1>18, <1>19, IndexStep

-----------------------------------------------------------------------------
(* Backups, files, the service and the rows change.                          *)

(* What such a step leaves alone of what another command relies on.          *)
Spares(x) ==
  /\ Unentered(x) => dirs'[x.did] = dirs[x.did]
  /\ x.pc \in Promoting => \A d \in NamedBy(x.before) : dirs'[d] = dirs[d]
  /\ Runs(x, "recover") /\ x.pc \in Saving \union AfterSave => service'[x.handle] = service[x.handle]
  /\ Runs(x, "recover") /\ x.pc \in {"final", "promote", "promoteSave"} => rows' \intersect x.old = {}

LEMMA StoreStep ==
  ASSUME Inv, NEW p \in Procs, NEW c \in Command, NEW e \in Command,
         c = proc[p], proc' = [proc EXCEPT ![p] = e], Shape(e), TypeOK',
         UNCHANGED <<index, stale, generated>>, backups \subseteq backups',
         Undisturbed =>
           /\ CommandInv(e)' /\ Continues(c, e)
           /\ DirsInv' /\ \A d \in NamedBy(index) : dirs'[d] = dirs[d]
           /\ OwnerKeysHeld' /\ RowsHaveOwner'
           /\ \A q \in Procs \ {p} : Spares(proc[q])
  PROVE  Inv'
<1>1. ASSUME Undisturbed, NEW q \in Procs \ {p}
      PROVE  CommandInv(proc[q])' /\ Distinct(e, proc[q]) /\ Distinct(proc[q], e)
  <2>1. Clean
    BY <1>1 DEF Inv
  <2>2. Distinct(c, proc[q]) /\ Distinct(proc[q], c)
    BY <2>1 DEF Clean
  <2>3. PICK x \in Command : x = proc[q]
    BY DEF Inv, TypeOK
  <2>4. CommandInv(x) /\ Shape(x) /\ proc'[q] = x /\ Spares(x)
    BY <1>1, <2>1, <2>3 DEF Clean, Inv, TypeOK
  <2>5. Mover(x) => Extends(index, index')
    BY DEF Extends, Maps
  <2>6. /\ Unentered(x) => x.did \notin NamedBy(index')
        /\ x.pc = "replRemove" => x.record \notin NamedBy(index')
    BY <2>4 DEF CommandInv, DidInv, ReplaceInv
  <2>7. CommandInv(x)'
    BY <2>4, <2>5, <2>6, Others DEF Spares
  <2> QED
    BY <1>1, <2>2, <2>4, <2>7, StillDistinct
<1>2. ASSUME Undisturbed PROVE Complete(index)'
  BY <1>2 DEF Inv, Clean, Complete
<1> QED
  BY <1>1, <1>2, Assemble DEF Undisturbed, OneReplacement

LEMMA BackupOneStep ==
  ASSUME Inv, NEW p \in Procs, BackupOne(p)
  PROVE  Inv'
<1>1. PICK c \in Command : c = proc[p]
  BY DEF Inv, TypeOK
<1>2. Shape(c) /\ c.pc = "backupOne"
  BY <1>1 DEF Inv, BackupOne, At
<1>3. UNCHANGED <<index, dirs, active, service, rows, generated, stale>> /\ Counted
  BY DEF BackupOne, Counted, Inv, TypeOK
<1>4. CASE End(p) /\ UNCHANGED backups
  BY <1>3, <1>4, EndStep
<1>5. CASE /\ c.name \in Live(index) /\ backups' = backups \union {index.cred[c.name].did}
           /\ Goto(p, "remote") /\ Kept
  <2>1. PICK e \in Command : e = [c EXCEPT !.pc = "remote"]
    <3>1. [c EXCEPT !.pc = "remote"] \in Command
      BY DEF Command, Labels
    <3> QED
      BY <3>1
  <2>2. /\ e.pc = "remote" /\ e.kind = c.kind /\ e.name = c.name /\ e.handle = c.handle /\ e.did = c.did
        /\ e.record = c.record /\ e.load = c.load
    BY <2>1 DEF Command
  <2>3. proc' = [proc EXCEPT ![p] = e]
    BY <1>1, <1>5, <2>1 DEF Goto
  <2>4. Shape(e) /\ c.kind = "replace"
    BY <1>2, <2>2 DEF Shape, HasDid, Unentered, Saving, Replacing, Promoting, AfterSave, RowsBehind, Mover, Runs
  <2>5. index.cred[c.name].did \in DIDs
    BY <1>5, IndexFields DEF Inv, TypeOK
  <2>6. TypeOK'
    BY <1>3, <1>5, <2>3, <2>5 DEF Inv, TypeOK, Counted, Kept
  <2>7. backups \subseteq backups' /\ Held \subseteq Held'
    BY <1>3, <1>5 DEF Held
  <2>8. ASSUME Undisturbed
        PROVE  CommandInv(e)' /\ Continues(c, e) /\ DirsInv' /\ OwnerKeysHeld' /\ RowsHaveOwner'
    <3>1. Clean /\ CommandInv(c)
      BY <1>1, <2>8 DEF Inv, Clean
    <3>2. index.cred[c.name].did = c.record
      BY <1>2, <2>4, <3>1 DEF CommandInv, ReplaceInv, Runs, RowsBehind, Maps
    <3>3. DidInv(e)' /\ RecoverInv(e)' /\ RollbackInv(e)'
      BY <1>2, <1>3, <2>2, <2>4, <3>1 DEF CommandInv, DidInv, RecoverInv, RollbackInv, Runs, HasDid,
        Unentered, Unwritten, Saving, Replacing, Promoting, AfterSave, RowsBehind
    <3>4. ReplaceInv(e)'
      BY <1>2, <1>3, <1>5, <2>2, <2>4, <3>1, <3>2 DEF CommandInv, ReplaceInv, Runs, Replacing, RowsBehind
    <3>5. Continues(c, e) /\ Passes(c, e)
      BY <1>2, <1>5, <2>2 DEF Continues, Passes, Kept, Inv, TypeOK, KeysInMemory, RowsBehind, Unentered,
        Saving, Replacing, Promoting, Mover, Runs
    <3>6. DirsInv'
      BY <1>3, <3>1 DEF Clean, DirsInv
    <3>7. OwnerKeysHeld'
      BY <1>1, <1>3, <2>3, <2>7, <3>1, <3>5, <2>8, KeysStay DEF Inv, Clean
    <3>8. RowsHaveOwner'
      BY <1>1, <1>3, <2>3, <2>8, <3>1, <3>5, RowsStay DEF Inv, Clean
    <3> QED
      BY <3>3, <3>4, <3>5, <3>6, <3>7, <3>8 DEF CommandInv
  <2>9. ASSUME Undisturbed, NEW q \in Procs \ {p} PROVE Spares(proc[q])
    BY <1>3, <2>9 DEF Spares, Inv, Clean, CommandInv, RecoverInv
  <2> QED
    BY <1>1, <1>3, <2>3, <2>4, <2>6, <2>7, <2>8, <2>9, StoreStep
<1> QED
  BY <1>1, <1>4, <1>5 DEF BackupOne

LEMMA BackupAllStep ==
  ASSUME Inv, NEW p \in Procs, BackupAll(p)
  PROVE  Inv'
<1>1. PICK c \in Command : c = proc[p]
  BY DEF Inv, TypeOK
<1>2. Shape(c) /\ c.pc = "backupAll" /\ c.before \in Index
  BY <1>1 DEF Inv, BackupAll, At, Command
<1>3. UNCHANGED <<index, dirs, active, service, rows, generated, stale, dropped, orphaned>> /\ Counted
  BY DEF BackupAll, Counted, Inv, TypeOK, history
<1>4. PICK same \in SUBSET Names : same = SameHandle(c.before, c.handle)
  <2>1. SameHandle(c.before, c.handle) \subseteq Names
    BY <1>2, IndexFields DEF SameHandle
  <2> QED
    BY <2>1
<1>5. PICK gone \in SUBSET DIDs : gone = {c.before.cred[n].did : n \in same}
  <2>1. \A n \in same : c.before.cred[n].did \in DIDs
    BY <1>2, <1>4, IndexFields DEF SameHandle
  <2> QED
    BY <2>1
<1>6. PICK a \in Names \union {None} : a = active
  BY DEF Inv, TypeOK
<1>7. PICK b \in Command : b = [c EXCEPT !.archived = same, !.activeBefore = a]
  <2>1. [c EXCEPT !.archived = same, !.activeBefore = a] \in Command
    BY DEF Command
  <2> QED
    BY <2>1
<1>8. PICK e \in Command : e = [b EXCEPT !.old = gone, !.pc = "remote"]
  <2>1. [b EXCEPT !.old = gone, !.pc = "remote"] \in Command
    BY DEF Command, Labels
  <2> QED
    BY <2>1
<1>9. [c EXCEPT !.archived = same, !.activeBefore = a, !.old = gone, !.pc = "remote"] = e
  BY <1>7, <1>8 DEF Command
<1>10. proc' = [proc EXCEPT ![p] = e] /\ backups' = backups \union {d \in gone : dirs[d] # "none"}
  <2>1. /\ proc' = [proc EXCEPT ![p].archived = same, ![p].activeBefore = a, ![p].old = gone,
                              ![p].pc = "remote"]
        /\ backups' = backups \union {d \in gone : dirs[d] # "none"}
    BY <1>1, <1>4, <1>5, <1>6, Zenon DEF BackupAll
  <2>2. proc' = [proc EXCEPT ![p] = [c EXCEPT !.archived = same, !.activeBefore = a, !.old = gone, !.pc = "remote"]]
    BY <1>1, <2>1 DEF Inv, TypeOK
  <2> QED
    BY <1>9, <2>1, <2>2
<1>11. /\ e.pc = "remote" /\ e.kind = c.kind /\ e.name = c.name /\ e.handle = c.handle /\ e.did = c.did
       /\ e.record = c.record /\ e.load = c.load /\ e.archived = same /\ e.old = gone
  <2>1. /\ b.kind = c.kind /\ b.name = c.name /\ b.handle = c.handle /\ b.did = c.did
        /\ b.record = c.record /\ b.load = c.load /\ b.archived = same
    BY <1>7 DEF Command
  <2> QED
    BY <1>8, <2>1 DEF Command
<1>12. Shape(e) /\ c.kind = "recover"
  BY <1>2, <1>11 DEF Shape, HasDid, Unentered, Saving, Replacing, Promoting, AfterSave, RowsBehind, Mover, Runs
<1>13. TypeOK'
  BY <1>3, <1>10 DEF Inv, TypeOK, Counted
<1>14. backups \subseteq backups' /\ Held \subseteq Held'
  BY <1>3, <1>10 DEF Held
<1>15. ASSUME Undisturbed
       PROVE  CommandInv(e)' /\ Continues(c, e) /\ DirsInv' /\ OwnerKeysHeld' /\ RowsHaveOwner'
  <2>1. Clean /\ CommandInv(c)
    BY <1>1, <1>15 DEF Inv, Clean
  <2>2. DidInv(e)' /\ RollbackInv(e)' /\ ReplaceInv(e)'
    BY <1>2, <1>3, <1>11, <1>12, <2>1 DEF CommandInv, DidInv, ReplaceInv, RollbackInv, Runs, HasDid,
      Unentered, Unwritten, Saving, Replacing, Promoting, AfterSave, RowsBehind
  <2>3. \A n \in Live(c.before) : Maps(index, n, c.before.cred[n].did)
    BY <1>2, <1>12, <2>1 DEF CommandInv, RecoverInv, Runs
  <2>4. \A n \in same : n \in Live(index) /\ index.cred[n].did \in gone
    BY <1>4, <1>5, <2>3 DEF Maps, SameHandle
  <2>5. ASSUME NEW d \in gone PROVE HandleOf[d] = c.handle /\ d # c.did
    <3>1. PICK n \in same : d = c.before.cred[n].did
      BY <1>5
    <3>2. HandleOf[d] = c.handle /\ Maps(index, n, d)
      BY <1>4, <2>3, <3>1 DEF SameHandle
    <3>3. c.did \notin NamedBy(index) /\ d \in NamedBy(index)
      BY <1>2, <2>1, <3>2 DEF CommandInv, DidInv, Unentered, Maps, NamedBy
    <3> QED
      BY <3>2, <3>3
  <2>6. RecoverInv(e)'
    BY <1>3, <1>11, <2>4, <2>5 DEF RecoverInv, Saving, AfterSave, Promoting
  <2>7. Continues(c, e) /\ Passes(c, e)
    BY <1>2, <1>3, <1>11 DEF Continues, Passes, Inv, TypeOK, KeysInMemory, RowsBehind, Unentered,
      Saving, Replacing, Promoting, Mover, Runs
  <2>8. DirsInv'
    BY <1>3, <2>1 DEF Clean, DirsInv
  <2>9. OwnerKeysHeld'
    BY <1>1, <1>3, <1>10, <1>14, <2>1, <2>7, <1>15, KeysStay DEF Inv, Clean
  <2>10. RowsHaveOwner'
    BY <1>1, <1>3, <1>10, <1>15, <2>1, <2>7, RowsStay DEF Inv, Clean
  <2> QED
    BY <2>2, <2>6, <2>7, <2>8, <2>9, <2>10 DEF CommandInv
<1>16. ASSUME Undisturbed, NEW q \in Procs \ {p} PROVE Spares(proc[q])
  BY <1>3, <1>16 DEF Spares, Inv, Clean, CommandInv, RecoverInv
<1> QED
  BY <1>1, <1>3, <1>10, <1>12, <1>13, <1>14, <1>15, <1>16, StoreStep

(* The service makes the new DID the owner of the handle.                    *)
LEMMA OwnedStep ==
  ASSUME Inv, NEW p \in Procs, NEW c \in Command, NEW e \in Command, c = proc[p], c.pc = "remote",
         Accepts(c), service' = [service EXCEPT ![c.handle] = c.did],
         proc' = [proc EXCEPT ![p] = e], Shape(e), UNCHANGED <<files, rows, generated, stale>>, Counted,
         dropped \subseteq dropped', dropped' \subseteq DIDs \union {None}, UNCHANGED orphaned,
         (e.pc \in KeysInMemory /\ e.did = c.did) \/ c.did \in dropped',
         Undisturbed => CommandInv(e)' /\ Continues(c, e)
  PROVE  Inv'
<1>1. Shape(c) /\ c.did \in DIDs
  BY DEF Inv, Shape, HasDid, Unentered
<1>2. UNCHANGED <<index, dirs, backups>>
  BY DEF files
<1>3. TypeOK /\ TypeOK'
  BY <1>1, <1>2 DEF Inv, TypeOK, Counted
<1>4. proc'[p] = e /\ \A q \in Procs \ {p} : proc'[q] = proc[q]
  BY <1>3 DEF TypeOK
<1>5. ASSUME Undisturbed PROVE DirsInv' /\ OwnerKeysHeld' /\ RowsHaveOwner'
  <2>1. Clean
    BY <1>5 DEF Inv
  <2>2. DirsInv'
    BY <1>2, <2>1 DEF Clean, DirsInv
  <2>3. OwnerKeysHeld'
    <3> SUFFICES ASSUME NEW h \in Handles, service'[h] # None
                 PROVE  \/ service'[h] \in Held' \union dropped'
                        \/ \E q \in Procs : proc'[q].did = service'[h] /\ proc'[q].pc \in KeysInMemory
      BY DEF OwnerKeysHeld
    <3>1. CASE h = c.handle
      <4>1. service'[h] = c.did
        BY <1>3, <3>1 DEF TypeOK
      <4> QED
        BY <1>4, <4>1
    <3>2. CASE h # c.handle
      <4>1. service'[h] = service[h]
        BY <1>3, <3>2 DEF TypeOK
      <4>2. \/ service[h] \in Held \union dropped
            \/ \E q \in Procs : proc[q].did = service[h] /\ proc[q].pc \in KeysInMemory
        BY <1>5, <2>1, <4>1 DEF Clean, OwnerKeysHeld, Undisturbed
      <4>3. CASE service[h] \in Held \union dropped
        BY <1>2, <4>1, <4>3 DEF Held
      <4>4. CASE \E q \in Procs : proc[q].did = service[h] /\ proc[q].pc \in KeysInMemory
        BY <1>4, <4>1, <4>4 DEF KeysInMemory
      <4> QED
        BY <4>2, <4>3, <4>4
    <3> QED
      BY <3>1, <3>2
  <2>4. RowsHaveOwner'
    <3> SUFFICES ASSUME NEW d \in rows
                 PROVE  \/ d \in NamedBy(index) \union orphaned
                        \/ \E q \in Procs : proc'[q].record = d /\ proc'[q].pc \in RowsBehind
      BY <1>2 DEF RowsHaveOwner
    <3>1. \/ d \in NamedBy(index) \union orphaned
          \/ \E q \in Procs : proc[q].record = d /\ proc[q].pc \in RowsBehind
      BY <1>5, <2>1 DEF Clean, RowsHaveOwner, Undisturbed, OneReplacement
    <3> QED
      BY <1>4, <3>1 DEF RowsBehind
  <2> QED
    BY <2>2, <2>3, <2>4
<1>6. ASSUME Undisturbed, NEW q \in Procs \ {p} PROVE Spares(proc[q])
  <2>1. PICK x \in Command : x = proc[q]
    BY <1>3 DEF TypeOK
  <2>2. Shape(x) /\ CommandInv(x) /\ Distinct(c, x)
    BY <1>6, <2>1 DEF Inv, Clean
  <2>3. ASSUME Runs(x, "recover"), x.pc \in Saving \union AfterSave
        PROVE  service'[x.handle] = service[x.handle]
    <3>1. x.handle \in Handles /\ service[x.handle] = x.did /\ x.did \in DIDs
      BY <2>2, <2>3 DEF Shape, HasDid, Unentered, CommandInv, RecoverInv
    <3>2. c.kind = "register"
      BY <1>1, <2>2, <2>3 DEF Shape, Distinct, Mover, Runs
    <3>3. service[c.handle] = None
      BY <3>2 DEF Accepts
    <3>4. x.handle # c.handle
      BY <3>1, <3>3, StoreConstants DEF StoreConstants
    <3> QED
      BY <1>3, <3>1, <3>4 DEF TypeOK
  <2>4. ASSUME Runs(x, "recover"), x.pc \in {"final", "promote", "promoteSave"}
        PROVE  rows' \intersect x.old = {}
    BY <2>2, <2>4 DEF CommandInv, RecoverInv
  <2> QED
    BY <1>2, <2>1, <2>3, <2>4 DEF Spares
<1> QED
  BY <1>2, <1>3, <1>5, <1>6, StoreStep

LEMMA CallStep ==
  ASSUME Inv, NEW p \in Procs, CallRegister(p) \/ CallReplaceDID(p) \/ CallRecoverHandle(p)
  PROVE  Inv'
<1>1. PICK c \in Command : c = proc[p]
  BY DEF Inv, TypeOK
<1>2. PICK label \in {"save", "repl"} :
        /\ Call(p, c.kind, label)
        /\ label = "save" => c.kind \in {"register", "recover"}
        /\ label = "repl" => c.kind = "replace"
  BY <1>1 DEF CallRegister, CallReplaceDID, CallRecoverHandle, Call
<1>3. Shape(c) /\ c.pc = "remote"
  BY <1>1, <1>2 DEF Inv, Call, At
<1>4. c.did \in DIDs /\ c.name \in Names
  BY <1>3 DEF Shape, HasDid, Unentered
<1>5. UNCHANGED <<files, rows, generated, stale>> /\ Counted
  BY <1>2 DEF Call, Counted, Inv, TypeOK, files
<1>6. CASE End(p) /\ UNCHANGED service
  BY <1>5, <1>6, EndStep DEF files
<1>7. CASE Accepts(c) /\ service' = [service EXCEPT ![c.handle] = c.did] /\ Goto(p, label) /\ Kept
  <2>1. PICK e \in Command : e = [c EXCEPT !.pc = label]
    <3>1. [c EXCEPT !.pc = label] \in Command
      BY DEF Command, Labels
    <3> QED
      BY <3>1
  <2>2. /\ e.pc = label /\ e.kind = c.kind /\ e.name = c.name /\ e.handle = c.handle /\ e.did = c.did
        /\ e.record = c.record /\ e.load = c.load /\ e.archived = c.archived /\ e.old = c.old
    BY <2>1 DEF Command
  <2>3. proc' = [proc EXCEPT ![p] = e]
    BY <1>1, <1>7, <2>1 DEF Goto
  <2>4. Shape(e)
    BY <1>2, <1>3, <1>4, <2>2 DEF Shape, HasDid, Unentered, Saving, Replacing, Promoting, AfterSave, RowsBehind, Mover, Runs
  <2>5. Continues(c, e)
    BY <1>2, <1>3, <2>2 DEF Continues, Unentered, Saving, Replacing, Promoting, Mover, Runs
  <2>6. e.pc \in KeysInMemory
    BY <1>2, <2>2 DEF KeysInMemory
  <2>7. ASSUME Undisturbed PROVE CommandInv(e)'
    <3>1. CommandInv(c)
      BY <1>1, <2>7 DEF Inv, Clean
    <3>2. DidInv(e)' /\ RollbackInv(e)'
      BY <1>2, <1>3, <1>5, <2>2, <3>1 DEF files, CommandInv, DidInv, RollbackInv, HasDid,
        Unentered, Unwritten, Saving, Replacing, Promoting, AfterSave, RowsBehind
    <3>3. ReplaceInv(e)'
      BY <1>2, <1>3, <1>5, <2>2, <3>1 DEF files, CommandInv, ReplaceInv, Runs, Replacing, RowsBehind, Maps
    <3>4. Runs(e, "recover") => service'[e.handle] = e.did
      BY <1>3, <1>7, <2>2 DEF Shape, Runs, Inv, TypeOK
    <3>5. RecoverInv(e)'
      BY <1>2, <1>3, <1>5, <2>2, <3>1, <3>4 DEF files, CommandInv, RecoverInv, Runs, Saving, AfterSave, Promoting
    <3> QED
      BY <3>2, <3>3, <3>5 DEF CommandInv
  <2>8. dropped \subseteq dropped' /\ dropped' \subseteq DIDs \union {None} /\ UNCHANGED orphaned
    BY <1>7 DEF Kept, Inv, TypeOK
  <2> QED
    BY <1>1, <1>3, <1>5, <1>7, <2>2, <2>3, <2>4, <2>5, <2>6, <2>7, <2>8, OwnedStep
<1>8. CASE /\ Accepts(c) /\ service' = [service EXCEPT ![c.handle] = c.did]
           /\ proc' = [proc EXCEPT ![p] = Idle]
           /\ dropped' = dropped \union {c.did} /\ UNCHANGED orphaned
  <2>1. Continues(c, Idle)
    BY IdleFacts DEF Continues, Unentered, Saving, Replacing, Promoting, Mover, Runs
  <2>2. dropped \subseteq dropped' /\ dropped' \subseteq DIDs \union {None} /\ c.did \in dropped'
    BY <1>4, <1>8 DEF Inv, TypeOK
  <2> QED
    BY <1>1, <1>3, <1>5, <1>8, <2>1, <2>2, IdleFacts, IdleInv, OwnedStep
<1> QED
  BY <1>1, <1>2, <1>6, <1>7, <1>8 DEF Call

(* Files of a DID are written or removed that no other command counts on.    *)
LEMMA FilesStep ==
  ASSUME Inv, NEW p \in Procs, NEW c \in Command, NEW e \in Command, c = proc[p],
         proc' = [proc EXCEPT ![p] = e], Shape(e), UNCHANGED <<index, backups, active, service, rows, history>>,
         NEW d, NEW v \in {"none", "ident", "keys"}, dirs' = [dirs EXCEPT ![d] = v],
         Undisturbed =>
           /\ CommandInv(e)' /\ Continues(c, e) /\ Passes(c, e)
           /\ d \in generated /\ d \notin NamedBy(index)
           /\ v = "keys" \/ d \in backups \/ dirs[d] = "none"
           /\ \A q \in Procs \ {p} :
                /\ Unentered(proc[q]) => proc[q].did # d
                /\ proc[q].pc \in Promoting => d \notin NamedBy(proc[q].before)
  PROVE  Inv'
<1>1. TypeOK /\ TypeOK' /\ UNCHANGED <<index, stale, generated, dropped, orphaned>>
  BY DEF Inv, TypeOK, history
<1>2. \A a : a # d => dirs'[a] = dirs[a]
  BY <1>1 DEF TypeOK
<1>3. ASSUME Undisturbed
      PROVE  /\ DirsInv' /\ (\A a \in NamedBy(index) : dirs'[a] = dirs[a])
             /\ OwnerKeysHeld' /\ RowsHaveOwner'
  <2>1. Clean
    BY <1>3 DEF Inv
  <2>2. DirsInv' /\ \A a \in NamedBy(index) : dirs'[a] = dirs[a]
    BY <1>1, <1>2, <1>3, <2>1 DEF Clean, DirsInv
  <2>3. Held \subseteq Held'
    BY <1>1, <1>2, <1>3 DEF Held, TypeOK
  <2>4. OwnerKeysHeld'
    BY <1>1, <1>3, <2>1, <2>3, KeysStay DEF Clean
  <2>5. RowsHaveOwner'
    BY <1>1, <1>3, <2>1, RowsStay DEF Clean
  <2> QED
    BY <2>2, <2>4, <2>5
<1>4. ASSUME Undisturbed, NEW q \in Procs \ {p} PROVE Spares(proc[q])
  BY <1>2, <1>3, <1>4 DEF Spares, Inv, Clean, CommandInv, RecoverInv
<1> QED
  BY <1>1, <1>3, <1>4, StoreStep

(* One more file of the new DID.                                             *)
LEMMA WriteStep ==
  ASSUME Inv, NEW p \in Procs, WriteFiles(p) \/ WriteReplacement(p)
  PROVE  Inv'
<1>1. PICK c \in Command : c = proc[p]
  BY DEF Inv, TypeOK
<1>2. PICK label \in {"saveKeys", "saveIndex", "replKeys", "replIndex"}, v \in {"ident", "keys"} :
        /\ Goto(p, label) /\ dirs' = [dirs EXCEPT ![c.did] = v]
        /\ \/ c.pc = "saveIdent" /\ label = "saveKeys" /\ v = "ident"
           \/ c.pc = "saveKeys" /\ label = "saveIndex" /\ v = "keys"
           \/ c.pc = "replIdent" /\ label = "replKeys" /\ v = "ident"
           \/ c.pc = "replKeys" /\ label = "replIndex" /\ v = "keys"
  BY <1>1 DEF WriteFiles, WriteReplacement, At
<1>3. Shape(c) /\ UNCHANGED <<index, backups, active, service, rows, history>>
  BY <1>1 DEF Inv, WriteFiles, WriteReplacement
<1>4. c.did \in DIDs /\ Unentered(c)
  BY <1>2, <1>3 DEF Shape, HasDid, Unentered, Saving, Replacing
<1>5. PICK e \in Command : e = [c EXCEPT !.pc = label]
  <2>1. [c EXCEPT !.pc = label] \in Command
    BY DEF Command, Labels
  <2> QED
    BY <2>1
<1>6. /\ e.pc = label /\ e.kind = c.kind /\ e.name = c.name /\ e.handle = c.handle /\ e.did = c.did
      /\ e.record = c.record /\ e.seen = c.seen /\ e.load = c.load /\ e.archived = c.archived /\ e.old = c.old
  BY <1>5 DEF Command
<1>7. proc' = [proc EXCEPT ![p] = e]
  BY <1>1, <1>2, <1>5 DEF Goto
<1>8. Shape(e)
  BY <1>2, <1>3, <1>6 DEF Shape, HasDid, Unentered, Saving, Replacing, Promoting, AfterSave, RowsBehind, Mover, Runs
<1>9. UNCHANGED <<index, backups, service, rows, generated, dropped, orphaned>> /\ dirs'[c.did] = v
  BY <1>2, <1>3, <1>4 DEF history, Inv, TypeOK
<1>10. Continues(c, e)
  BY <1>2, <1>4, <1>6 DEF Continues, Unentered, Saving, Replacing, Promoting, Mover, Runs
<1>11. Passes(c, e)
  <2>1. v = "keys" => c.did \in Held'
    BY <1>4, <1>9 DEF Held
  <2> QED
    BY <1>2, <1>6, <1>9, <2>1 DEF Passes, Inv, TypeOK, KeysInMemory, RowsBehind
<1>12. ASSUME Undisturbed
       PROVE  /\ CommandInv(e)' /\ c.did \in generated /\ c.did \notin NamedBy(index)
              /\ v = "keys" \/ dirs[c.did] = "none"
              /\ \A q \in Procs \ {p} :
                   /\ Unentered(proc[q]) => proc[q].did # c.did
                   /\ proc[q].pc \in Promoting => c.did \notin NamedBy(proc[q].before)
  <2>1. Clean /\ CommandInv(c)
    BY <1>1, <1>12 DEF Inv, Clean
  <2>2. DidInv(e)'
    BY <1>2, <1>6, <1>9, <2>1 DEF CommandInv, DidInv, HasDid,
      Unentered, Unwritten, Saving, Replacing, Promoting, AfterSave, RowsBehind
  <2>3. ReplaceInv(e)' /\ RollbackInv(e)'
    BY <1>2, <1>3, <1>6, <1>9, <2>1 DEF CommandInv, Shape, ReplaceInv, RollbackInv, Runs, Saving, Replacing, RowsBehind, Promoting, Maps
  <2>4. RecoverInv(e)'
    BY <1>2, <1>3, <1>6, <1>9, <2>1 DEF CommandInv, Shape, RecoverInv, Runs, Saving, Replacing, AfterSave, Promoting
  <2>5. c.did \in generated /\ c.did \notin NamedBy(index) /\ (v = "keys" \/ dirs[c.did] = "none")
    BY <1>2, <1>4, <2>1 DEF CommandInv, DidInv, HasDid, Unwritten
  <2>6. ASSUME NEW q \in Procs \ {p}
        PROVE  /\ Unentered(proc[q]) => proc[q].did # c.did
               /\ proc[q].pc \in Promoting => c.did \notin NamedBy(proc[q].before)
    BY <1>1, <1>4, <2>1 DEF Clean, Distinct
  <2> QED
    BY <2>2, <2>3, <2>4, <2>5, <2>6 DEF CommandInv
<1> QED
  BY <1>1, <1>2, <1>3, <1>7, <1>8, <1>10, <1>11, <1>12, FilesStep

LEMMA ReplaceRemoveStep ==
  ASSUME Inv, NEW p \in Procs, ReplaceRemove(p)
  PROVE  Inv'
<1>1. PICK c \in Command : c = proc[p]
  BY DEF Inv, TypeOK
<1>2. Shape(c) /\ c.pc = "replRemove" /\ UNCHANGED <<index, backups, active, service, rows, history>>
  BY <1>1 DEF Inv, ReplaceRemove, At
<1>3. c.kind = "replace"
  BY <1>2 DEF Shape, RowsBehind
<1>4. PICK e \in Command : e = [c EXCEPT !.pc = "rebind"]
  <2>1. [c EXCEPT !.pc = "rebind"] \in Command
    BY DEF Command, Labels
  <2> QED
    BY <2>1
<1>5. /\ e.pc = "rebind" /\ e.kind = c.kind /\ e.name = c.name /\ e.handle = c.handle /\ e.did = c.did
      /\ e.record = c.record /\ e.seen = c.seen /\ e.load = c.load
  BY <1>4 DEF Command
<1>6. proc' = [proc EXCEPT ![p] = e]
  BY <1>1, <1>4 DEF ReplaceRemove, Goto
<1>7. Shape(e)
  BY <1>2, <1>5 DEF Shape, HasDid, Unentered, Saving, Replacing, Promoting, AfterSave, RowsBehind, Mover, Runs
<1>8. UNCHANGED <<generated, dropped, orphaned>>
  BY <1>2 DEF history
<1>9. Continues(c, e) /\ Passes(c, e)
  BY <1>2, <1>5, <1>8 DEF Continues, Passes, Inv, TypeOK, KeysInMemory, Unentered, Saving, Replacing, Promoting,
    RowsBehind, Mover, Runs
<1> DEFINE d == c.seen.cred[c.name].did
<1>10. dirs' = [dirs EXCEPT ![d] = "none"]
  BY <1>1 DEF ReplaceRemove
<1>11. ASSUME Undisturbed
       PROVE  /\ CommandInv(e)' /\ d \in generated /\ d \notin NamedBy(index) /\ d \in backups
              /\ \A q \in Procs \ {p} :
                   /\ Unentered(proc[q]) => proc[q].did # d
                   /\ proc[q].pc \in Promoting => d \notin NamedBy(proc[q].before)
  <2>1. Clean /\ CommandInv(c)
    BY <1>1, <1>11 DEF Inv, Clean
  <2>2. d = c.record /\ d \in backups /\ d \in generated /\ d \notin NamedBy(index)
    BY <1>2, <1>3, <2>1 DEF CommandInv, ReplaceInv, Maps
  <2>3. DidInv(e)' /\ RollbackInv(e)' /\ RecoverInv(e)'
    BY <1>2, <1>3, <1>5, <1>8, <2>1 DEF CommandInv, DidInv, RollbackInv, RecoverInv, Runs, HasDid,
      Unentered, Unwritten, Saving, Replacing, Promoting, AfterSave, RowsBehind
  <2>4. ReplaceInv(e)'
    BY <1>2, <1>3, <1>5, <2>1 DEF CommandInv, ReplaceInv, Runs, Replacing, RowsBehind, Maps
  <2>5. ASSUME NEW q \in Procs \ {p}
        PROVE  /\ Unentered(proc[q]) => proc[q].did # d
               /\ proc[q].pc \in Promoting => d \notin NamedBy(proc[q].before)
    <3>1. Distinct(proc[q], c) /\ Shape(proc[q])
      BY <1>1, <2>1, <2>5 DEF Inv, Clean
    <3>2. Mover(c)
      BY <1>2, <1>3 DEF Mover, Runs
    <3>3. proc[q].pc \notin Promoting
      BY <3>1, <3>2 DEF Distinct, Shape, Mover, Runs, AfterSave, Promoting
    <3> QED
      BY <1>2, <2>2, <3>1, <3>3 DEF Distinct
  <2> HIDE DEF d
  <2> QED
    BY <2>2, <2>3, <2>4, <2>5 DEF CommandInv
<1> HIDE DEF d
<1> QED
  BY <1>1, <1>2, <1>6, <1>7, <1>9, <1>10, <1>11, FilesStep

LEMMA MergeStep ==
  ASSUME Inv, NEW p \in Procs, Merge(p)
  PROVE  Inv'
<1>1. PICK c \in Command : c = proc[p]
  BY DEF Inv, TypeOK
<1>2. Shape(c) /\ c.pc = "merge"
  BY <1>1 DEF Inv, Merge, At
<1>3. c.kind = "recover" /\ c.did \in DIDs
  BY <1>2 DEF Shape, HasDid, AfterSave
<1>4. UNCHANGED <<index, dirs, backups, active, service, generated, stale>> /\ Counted
  BY DEF Merge, Counted, Inv, TypeOK, files
<1>5. CASE End(p) /\ UNCHANGED rows
  BY <1>4, <1>5, EndStep
<1>6. CASE /\ rows' = IF c.old \intersect rows = {} THEN rows ELSE (rows \ c.old) \union {c.did}
           /\ Goto(p, "final") /\ Kept
  <2>1. PICK e \in Command : e = [c EXCEPT !.pc = "final"]
    <3>1. [c EXCEPT !.pc = "final"] \in Command
      BY DEF Command, Labels
    <3> QED
      BY <3>1
  <2>2. /\ e.pc = "final" /\ e.kind = c.kind /\ e.name = c.name /\ e.handle = c.handle /\ e.did = c.did
        /\ e.record = c.record /\ e.load = c.load /\ e.archived = c.archived /\ e.old = c.old
    BY <2>1 DEF Command
  <2>3. proc' = [proc EXCEPT ![p] = e]
    BY <1>1, <1>6, <2>1 DEF Goto
  <2>4. Shape(e) /\ Mover(c)
    BY <1>2, <1>3, <2>2 DEF Shape, HasDid, Unentered, Saving, Replacing, Promoting, AfterSave, RowsBehind, Mover, Runs
  <2>5. TypeOK'
    BY <1>3, <1>4, <1>6, <2>3 DEF Inv, TypeOK, Counted, Kept
  <2>6. Continues(c, e) /\ Passes(c, e)
    BY <1>2, <1>6, <2>2 DEF Continues, Passes, Kept, Inv, TypeOK, KeysInMemory, RowsBehind, Unentered,
      Saving, Replacing, Promoting, Mover, Runs
  <2>7. ASSUME Undisturbed PROVE CommandInv(e)' /\ DirsInv' /\ OwnerKeysHeld' /\ RowsHaveOwner'
    <3>1. Clean /\ CommandInv(c)
      BY <1>1, <2>7 DEF Inv, Clean
    <3>2. /\ \A d \in c.old : d # c.did
          /\ Maps(index, c.name, c.did)
      BY <1>2, <1>3, <3>1 DEF CommandInv, RecoverInv, Runs
    <3>3. rows' \intersect c.old = {}
      BY <1>6, <3>2
    <3>4. DidInv(e)' /\ RollbackInv(e)' /\ ReplaceInv(e)'
      BY <1>2, <1>3, <1>4, <2>2, <3>1 DEF CommandInv, DidInv, ReplaceInv, RollbackInv, Runs, HasDid,
        Unentered, Unwritten, Saving, Replacing, Promoting, AfterSave, RowsBehind
    <3>5. RecoverInv(e)'
      BY <1>2, <1>3, <1>4, <2>2, <3>1, <3>3 DEF CommandInv, RecoverInv, Runs, Saving, AfterSave, Promoting
    <3>6. DirsInv'
      BY <1>4, <3>1 DEF Clean, DirsInv
    <3>7. OwnerKeysHeld'
      BY <1>1, <1>4, <2>3, <2>6, <3>1, <2>7, KeysStay DEF Inv, Clean, Held
    <3>8. \A d \in rows' : d \notin rows \/ d \in NamedBy(index) => d \in NamedBy(index)
      BY <1>6, <3>2 DEF Maps, NamedBy
    <3>9. RowsHaveOwner'
      BY <1>1, <1>4, <2>3, <2>6, <2>7, <3>1, <3>8, RowsStay DEF Inv, Clean
    <3> QED
      BY <3>4, <3>5, <3>6, <3>7, <3>9 DEF CommandInv
  <2>8. ASSUME Undisturbed, NEW q \in Procs \ {p} PROVE Spares(proc[q])
    BY <1>1, <1>4, <2>4, <2>8 DEF Spares, Inv, Clean, Distinct, Mover, Runs
  <2> QED
    BY <1>1, <1>4, <2>3, <2>4, <2>5, <2>6, <2>7, <2>8, StoreStep
<1> QED
  BY <1>1, <1>5, <1>6 DEF Merge

LEMMA RebindStep ==
  ASSUME Inv, NEW p \in Procs, Rebind(p)
  PROVE  Inv'
<1>1. PICK c \in Command : c = proc[p]
  BY DEF Inv, TypeOK
<1>2. Shape(c) /\ c.pc = "rebind"
  BY <1>1 DEF Inv, Rebind, At
<1>3. c.kind = "replace" /\ c.did \in DIDs /\ Mover(c)
  BY <1>2 DEF Shape, HasDid, RowsBehind, Mover, Runs
<1>4. UNCHANGED <<index, dirs, backups, active, service, generated, stale>> /\ Counted
  BY DEF Rebind, Counted, Inv, TypeOK, files
<1>5. CASE End(p) /\ UNCHANGED rows
  BY <1>4, <1>5, EndStep
<1>6. CASE /\ rows' = IF c.record \in rows THEN (rows \ {c.record}) \union {c.did} ELSE rows
           /\ proc' = [proc EXCEPT ![p] = Idle] /\ Kept
  <2>1. TypeOK'
    BY <1>3, <1>4, <1>6, IdleFacts DEF Inv, TypeOK, Counted, Kept
  <2>2. ASSUME Undisturbed PROVE Continues(c, Idle) /\ DirsInv' /\ OwnerKeysHeld' /\ RowsHaveOwner'
    <3>1. Clean /\ CommandInv(c)
      BY <1>1, <2>2 DEF Inv, Clean
    <3>2. c.did \in NamedBy(index)
      BY <1>2, <1>3, <3>1 DEF CommandInv, ReplaceInv, RowsBehind, Maps, NamedBy
    <3>3. c.record \notin rows' \/ c.record \in NamedBy(index')
      BY <1>4, <1>6, <3>2
    <3>4. Passes(c, Idle)
      BY <1>2, <1>6, <3>3 DEF Passes, Kept, Inv, TypeOK, KeysInMemory
    <3>5. Continues(c, Idle)
      BY IdleFacts DEF Continues, Unentered, Saving, Replacing, Promoting, Mover, Runs
    <3>6. DirsInv'
      BY <1>4, <3>1 DEF Clean, DirsInv
    <3>7. OwnerKeysHeld'
      BY <1>1, <1>4, <1>6, <3>1, <3>4, IdleFacts, <2>2, KeysStay DEF Inv, Clean, Held
    <3>8. \A d \in rows' : d \notin rows \/ d \in NamedBy(index) => d \in NamedBy(index)
      BY <1>6, <3>2
    <3>9. RowsHaveOwner'
      BY <1>1, <1>4, <1>6, <2>2, <3>1, <3>4, <3>8, IdleFacts, RowsStay DEF Inv, Clean
    <3> QED
      BY <3>5, <3>6, <3>7, <3>9
  <2>3. ASSUME Undisturbed, NEW q \in Procs \ {p} PROVE Spares(proc[q])
    BY <1>1, <1>3, <1>4, <2>3 DEF Spares, Inv, Clean, Distinct, Mover, Runs
  <2> QED
    BY <1>1, <1>4, <1>6, <2>1, <2>2, <2>3, IdleFacts, IdleInv, StoreStep
<1> QED
  BY <1>1, <1>5, <1>6 DEF Rebind

(* A message belongs to the DID that owns its handle, which a recovery that  *)
(* merged the rows has made its own.                                         *)
LEMMA ReceiveStep ==
  ASSUME Inv, NEW n \in Names, Receive(n)
  PROVE  Inv'
<1>1. PICK d \in DIDs : d = index.cred[n].did
  BY IndexFields DEF Receive, Inv, TypeOK
<1>2. /\ d \in NamedBy(index) /\ service[HandleOf[d]] = d /\ rows' = rows \union {d}
      /\ UNCHANGED <<index, dirs, backups, active, service, proc, generated, stale, started, killed, dropped, orphaned>>
  BY <1>1 DEF Receive, NamedBy, files, history
<1>3. TypeOK'
  BY <1>2 DEF Inv, TypeOK
<1>4. ASSUME Undisturbed PROVE Clean'
  <2>1. Clean
    BY <1>4 DEF Inv
  <2>2. DirsInv' /\ Complete(index)' /\ OwnerKeysHeld'
    BY <1>2, <2>1 DEF Clean, DirsInv, Complete, OwnerKeysHeld, Held
  <2>3. RowsHaveOwner'
    BY <1>2, <1>4, <2>1 DEF Clean, RowsHaveOwner
  <2>4. ASSUME NEW q \in Procs PROVE CommandInv(proc[q])'
    <3>1. PICK x \in Command : x = proc[q]
      BY DEF Inv, TypeOK
    <3>2. CommandInv(x) /\ Shape(x) /\ proc'[q] = x
      BY <1>2, <2>1, <3>1 DEF Inv, Clean
    <3>3. Mover(x) => Extends(index, index')
      BY <1>2 DEF Extends, Maps
    <3>4. /\ Unentered(x) => x.did \notin NamedBy(index') /\ dirs'[x.did] = dirs[x.did]
          /\ x.pc = "replRemove" => x.record \notin NamedBy(index')
      BY <1>2, <3>2 DEF CommandInv, DidInv, ReplaceInv
    <3>5. ASSUME Runs(x, "recover"), x.pc \in {"final", "promote", "promoteSave"}
          PROVE  rows' \intersect x.old = {}
      <4>1. /\ rows \intersect x.old = {} /\ service[x.handle] = x.did
            /\ \A a \in x.old : HandleOf[a] = x.handle /\ a # x.did
        BY <3>2, <3>5 DEF CommandInv, RecoverInv, AfterSave, Promoting
      <4>2. d \notin x.old
        BY <1>2, <4>1
      <4> QED
        BY <1>2, <4>1, <4>2
    <3>6. CommandInv(x)'
      BY <1>2, <3>2, <3>3, <3>4, <3>5, Others
    <3> QED
      BY <3>2, <3>6
  <2>5. \A a, b \in Procs : a # b => Distinct(proc'[a], proc'[b])
    BY <1>2, <2>1 DEF Clean
  <2> QED
    BY <2>2, <2>3, <2>4, <2>5 DEF Clean
<1> QED
  BY <1>2, <1>3, <1>4 DEF Inv, Undisturbed, OneReplacement

-----------------------------------------------------------------------------
(* The invariant.                                                            *)

LEMMA InitInv == Init => Inv
<1> SUFFICES ASSUME Init PROVE Inv
  OBVIOUS
<1>1. \A p \in Procs : proc[p] = Idle
  BY DEF Init
<1>2. proc \in [Procs -> Command]
  BY IdleFacts DEF Init
<1>3. \A p \in Procs : Shape(proc[p]) /\ CommandInv(proc[p])
  BY <1>1, IdleInv
<1>4. \A p, q \in Procs : Distinct(proc[p], proc[q])
  BY <1>1, IdleDistinct
<1>5. CASE /\ index = NoIndex /\ dirs = [d \in DIDs |-> "none"] /\ generated = {}
           /\ service = [h \in Handles |-> None] /\ rows = {} /\ active = None
  <2>1. TypeOK
    BY <1>2, <1>5, NoIndexFacts DEF Init, TypeOK
  <2>2. DirsInv /\ Complete(index)
    BY <1>5, NoIndexFacts DEF DirsInv, Complete, DefaultInv
  <2>3. OwnerKeysHeld /\ RowsHaveOwner
    BY <1>5 DEF OwnerKeysHeld, RowsHaveOwner
  <2> QED
    BY <1>3, <1>4, <2>1, <2>2, <2>3 DEF Inv, Clean
<1>6. CASE /\ index = [cred |-> [n \in {FinalName[HandleOf[Legacy]]} |-> [did |-> Legacy, full |-> FALSE]],
                       def |-> FinalName[HandleOf[Legacy]]]
           /\ dirs = [d \in DIDs |-> IF d = Legacy THEN "keys" ELSE "none"]
           /\ generated = {Legacy} /\ rows = {Legacy}
           /\ service = [h \in Handles |-> IF h = HandleOf[Legacy] THEN Legacy ELSE None]
           /\ active \in {None, FinalName[HandleOf[Legacy]]}
  <2>1. Legacy \in DIDs /\ HandleOf[Legacy] \in Handles /\ FinalName[HandleOf[Legacy]] \in Names
    BY StoreConstants DEF StoreConstants
  <2>2. PICK n \in Names : n = FinalName[HandleOf[Legacy]]
    BY <2>1
  <2>3. PICK x \in Entry : x = [did |-> Legacy, full |-> FALSE] /\ x.did = Legacy
    <3>1. [did |-> Legacy, full |-> FALSE] \in Entry
      BY <2>1 DEF Entry
    <3> QED
      BY <3>1
  <2>4. PICK f \in [{n} -> Entry] : f = [m \in {n} |-> x] /\ f[n] = x
    <3>1. [m \in {n} |-> x] \in [{n} -> Entry] /\ [m \in {n} |-> x][n] = x
      OBVIOUS
    <3> QED
      BY <3>1
  <2>5. index = [cred |-> f, def |-> n]
    BY <1>6, <2>2, <2>3, <2>4
  <2>6. index \in Index /\ Live(index) = {n} /\ index.cred[n].did = Legacy /\ index.def = n
    BY <2>3, <2>4, <2>5, IndexMade
  <2>7. TypeOK
    <3>1. /\ dirs \in [DIDs -> {"none", "ident", "keys"}] /\ service \in [Handles -> DIDs \union {None}]
          /\ active \in Names \union {None} /\ rows \subseteq DIDs /\ generated \subseteq DIDs
      BY <1>6, <2>1
    <3> QED
      BY <1>2, <2>6, <3>1 DEF Init, TypeOK
  <2>8. DirsInv /\ Complete(index) /\ NamedBy(index) = {Legacy}
    BY <1>6, <2>1, <2>6 DEF DirsInv, Complete, DefaultInv, NamedBy
  <2>9. OwnerKeysHeld /\ RowsHaveOwner
    BY <1>6, <2>1, <2>8 DEF OwnerKeysHeld, RowsHaveOwner, Held
  <2> QED
    BY <1>3, <1>4, <2>7, <2>8, <2>9 DEF Inv, Clean
<1> QED
  BY <1>5, <1>6 DEF Init

LEMMA Inductive ==
  Inv /\ [Next]_vars => Inv'
<1> SUFFICES ASSUME Inv, [Next]_vars PROVE Inv'
  OBVIOUS
<1>1. ASSUME NEW p \in Procs, NEW n \in Names \union {None}, Create(p, n) PROVE Inv'
  BY <1>1, BeginsStep
<1>2. ASSUME NEW p \in Procs, NEW h \in Handles, NEW n \in Names \union {None}, Register(p, h, n)
      PROVE  Inv'
  BY <1>2, BeginsStep
<1>3. ASSUME NEW p \in Procs, NEW h \in Handles, Recover(p, h) PROVE Inv'
  BY <1>3, BeginsStep
<1>4. ASSUME NEW p \in Procs, NEW n \in Names, Use(p, n) \/ SetProfile(p, n) \/ ReplaceDID(p, n) PROVE Inv'
  BY <1>4, BeginsStep
<1>5. ASSUME NEW p \in Procs, SetDefault(p) \/ UpdateDisplayName(p) PROVE Inv'
  BY <1>5, SetDefaultStep
<1>6. ASSUME NEW p \in Procs, List(p) PROVE Inv'
  BY <1>6, ListStep
<1>7. ASSUME NEW p \in Procs, Load(p) PROVE Inv'
  BY <1>7, LoadStep
<1>8. ASSUME NEW p \in Procs, Backfill(p) PROVE Inv'
  BY <1>8, BackfillStep
<1>9. ASSUME NEW p \in Procs, CreateIdentity(p) \/ PlanRegister(p) \/ PlanReplace(p) \/ PlanRecover(p)
      PROVE  Inv'
  BY <1>9, PlansStep
<1>10. ASSUME NEW p \in Procs, PlanProfile(p) PROVE Inv'
  BY <1>10, PlanProfileStep
<1>11. ASSUME NEW p \in Procs, VerifyContact(p) \/ SendRecoverOTP(p) \/ Kill(p) PROVE Inv'
  BY <1>11, StopStep
<1>12. ASSUME NEW p \in Procs, BackupOne(p) PROVE Inv'
  BY <1>12, BackupOneStep
<1>13. ASSUME NEW p \in Procs, BackupAll(p) PROVE Inv'
  BY <1>13, BackupAllStep
<1>14. ASSUME NEW p \in Procs, CallRegister(p) \/ CallReplaceDID(p) \/ CallRecoverHandle(p) PROVE Inv'
  BY <1>14, CallStep
<1>15. ASSUME NEW p \in Procs, Save(p) PROVE Inv'
  BY <1>15, SaveStep
<1>16. ASSUME NEW p \in Procs, WriteFiles(p) \/ WriteReplacement(p) PROVE Inv'
  BY <1>16, WriteStep
<1>17. ASSUME NEW p \in Procs, SaveEntry(p) PROVE Inv'
  BY <1>17, SaveEntryStep
<1>18. ASSUME NEW p \in Procs, Merge(p) PROVE Inv'
  BY <1>18, MergeStep
<1>19. ASSUME NEW p \in Procs, Finalize(p) PROVE Inv'
  BY <1>19, FinalizeStep
<1>20. ASSUME NEW p \in Procs, PromoteLoad(p) PROVE Inv'
  BY <1>20, PromoteLoadStep
<1>21. ASSUME NEW p \in Procs, PromoteSave(p) PROVE Inv'
  BY <1>21, PromoteSaveStep
<1>22. ASSUME NEW p \in Procs, Activate(p) PROVE Inv'
  BY <1>22, ActivateStep
<1>23. ASSUME NEW p \in Procs, Replace(p) PROVE Inv'
  BY <1>23, ReplaceStep
<1>24. ASSUME NEW p \in Procs, ReplaceSave(p) PROVE Inv'
  BY <1>24, ReplaceSaveStep
<1>25. ASSUME NEW p \in Procs, ReplaceRemove(p) PROVE Inv'
  BY <1>25, ReplaceRemoveStep
<1>26. ASSUME NEW p \in Procs, Rebind(p) PROVE Inv'
  BY <1>26, RebindStep
<1>27. ASSUME NEW n \in Names, Receive(n) PROVE Inv'
  BY <1>27, ReceiveStep
<1>28. ASSUME UNCHANGED vars PROVE Inv'
  <2>1. UNCHANGED <<index, dirs, backups, active, service, rows, proc, generated, started, killed,
                    stale, dropped, orphaned>>
    BY <1>28 DEF vars, files, history
  <2> QED
    BY <2>1 DEF Inv, TypeOK, Clean, DirsInv, Complete, OwnerKeysHeld, Held, RowsHaveOwner, CommandInv,
      DidInv, ReplaceInv, RecoverInv, RollbackInv, Maps, Undisturbed, OneReplacement
<1> QED
  BY <1>1, <1>2, <1>3, <1>4, <1>5, <1>6, <1>7, <1>8, <1>9, <1>10, <1>11, <1>12, <1>13, <1>14, <1>15,
    <1>16, <1>17, <1>18, <1>19, <1>20, <1>21, <1>22, <1>23, <1>24, <1>25, <1>26, <1>27, <1>28 DEF Next

LEMMA AlwaysInv ==
  Spec => []Inv
<1>1. Init => Inv
  BY InitInv
<1>2. Inv /\ [Next]_vars => Inv'
  BY Inductive
<1> QED
  BY <1>1, <1>2, PTL DEF Spec

(* TypeCorrect: the variables keep their types, in every state of every      *)
(* number of commands (TypeOK of IdentityStore).                             *)
THEOREM TypeCorrect == Spec => []TypeOK
<1>1. Inv => TypeOK
  BY DEF Inv
<1> QED
  BY <1>1, AlwaysInv, PTL

(* OwnerKeysSafe: create, register, use, profile set, replace-did and recover *)
(* (internal/identity/service.go, store.go, recover.go) do not lose the       *)
(* private keys of a DID that owns a handle, however many of them run and     *)
(* wherever they are killed, as long as none overwrites an index it had not   *)
(* read and one of replace-did and recover runs at a time.                    *)
THEOREM OwnerKeysSafe == OneReplacement => (Spec => []OwnerKeysHeld)
<1> SUFFICES ASSUME OneReplacement PROVE Spec => []OwnerKeysHeld
  OBVIOUS
<1>1. Inv => OwnerKeysHeld
  <2> SUFFICES ASSUME Inv, ~stale PROVE OwnerKeysHeld
    BY DEF OwnerKeysHeld
  <2> QED
    BY DEF Inv, Clean, Undisturbed
<1> QED
  BY <1>1, AlwaysInv, PTL

(* EntriesComplete: under the same conditions every entry of index.json names *)
(* a directory with all keys (save, ReplaceIdentity, PromoteRecoveredHandle). *)
THEOREM EntriesComplete == OneReplacement => (Spec => []EntriesHaveKeys)
<1> SUFFICES ASSUME OneReplacement PROVE Spec => []EntriesHaveKeys
  OBVIOUS
<1>1. Inv => EntriesHaveKeys
  BY DEF Inv, Clean, Complete, Undisturbed, EntriesHaveKeys
<1> QED
  BY <1>1, AlwaysInv, PTL

(* DefaultLives: under the same conditions the default identity is one of    *)
(* the index, through promotions, roll-backs and replacements.               *)
THEOREM DefaultLives == OneReplacement => (Spec => []DefaultIsLive)
<1> SUFFICES ASSUME OneReplacement PROVE Spec => []DefaultIsLive
  OBVIOUS
<1>1. Inv => DefaultIsLive
  BY DEF Inv, Clean, Complete, DefaultInv, Undisturbed, DefaultIsLive
<1> QED
  BY <1>1, AlwaysInv, PTL

(* RowsOwned: under the same conditions local rows belong to a live identity, *)
(* or to one whose replace-did is to move them (MergeRecoveredHandleLocalState *)
(* before the promotion, RebindLocalIdentityState after the replacement).     *)
THEOREM RowsOwned == OneReplacement => (Spec => []RowsHaveOwner)
<1> SUFFICES ASSUME OneReplacement PROVE Spec => []RowsHaveOwner
  OBVIOUS
<1>1. Inv => RowsHaveOwner
  <2> SUFFICES ASSUME Inv, ~stale PROVE RowsHaveOwner
    BY DEF RowsHaveOwner
  <2> QED
    BY DEF Inv, Clean, Undisturbed
<1> QED
  BY <1>1, AlwaysInv, PTL

(* Only the end of replace-did takes files away.                             *)
LEMMA FilesGo ==
  ASSUME TypeOK, [Next]_vars, NEW d \in DIDs, dirs[d] = "keys", dirs'[d] # "keys"
  PROVE  \E p \in Procs : WriteFiles(p) \/ WriteReplacement(p) \/ ReplaceRemove(p)
<1>1. dirs' # dirs
  OBVIOUS
<1>2. ASSUME NEW p \in Procs
      PROVE  /\ \A n \in Names \union {None} : ~Create(p, n)
             /\ \A h \in Handles, n \in Names \union {None} : ~Register(p, h, n)
             /\ \A h \in Handles : ~Recover(p, h)
             /\ \A n \in Names : ~Use(p, n) /\ ~SetProfile(p, n) /\ ~ReplaceDID(p, n)
  BY <1>1 DEF Create, Register, Recover, StartListing, Use, SetProfile, ReplaceDID, StartOn, files
<1>3. ASSUME NEW p \in Procs
      PROVE  ~(SetDefault(p) \/ UpdateDisplayName(p) \/ Backfill(p) \/ SaveEntry(p) \/ PromoteSave(p)
               \/ Activate(p) \/ ReplaceSave(p))
  BY <1>1 DEF SetDefault, UpdateDisplayName, Backfill, SaveEntry, PromoteSave, Activate, ReplaceSave
<1>4. ASSUME NEW p \in Procs
      PROVE  ~(List(p) \/ Load(p) \/ CreateIdentity(p) \/ VerifyContact(p) \/ PlanRegister(p)
               \/ PlanProfile(p) \/ PlanReplace(p) \/ SendRecoverOTP(p) \/ PlanRecover(p))
  BY <1>1 DEF List, Load, CreateIdentity, VerifyContact, PlanRegister, PlanProfile, PlanReplace,
    SendRecoverOTP, PlanRecover, files
<1>5. ASSUME NEW p \in Procs
      PROVE  ~(BackupOne(p) \/ BackupAll(p) \/ CallRegister(p) \/ CallReplaceDID(p) \/ CallRecoverHandle(p)
               \/ Save(p) \/ Merge(p) \/ Finalize(p) \/ PromoteLoad(p) \/ Replace(p) \/ Rebind(p) \/ Kill(p))
  BY <1>1 DEF BackupOne, BackupAll, CallRegister, CallReplaceDID, CallRecoverHandle, Call, Save, Merge,
    Finalize, PromoteLoad, Replace, Rebind, Kill, files
<1>6. \A n \in Names : ~Receive(n)
  BY <1>1 DEF Receive, files
<1>7. ~UNCHANGED vars
  BY <1>1 DEF vars, files
<1> QED
  BY <1>2, <1>3, <1>4, <1>5, <1>6, <1>7 DEF Next

(* RemovesOnlyCopies: under the same conditions no step takes keys out of a  *)
(* directory before a backup holds them (BackupIdentityForDIDReplacement,    *)
(* then the os.RemoveAll of ReplaceIdentity).                                *)
THEOREM RemovesOnlyCopies == OneReplacement => (Spec => RemovedAfterBackup)
<1> SUFFICES ASSUME OneReplacement PROVE Spec => RemovedAfterBackup
  OBVIOUS
<1>1. Inv /\ [Next]_vars => RemovesCopies
  <2> SUFFICES ASSUME Inv, [Next]_vars, ~stale', NEW d \in DIDs, dirs[d] = "keys", dirs'[d] # "keys"
               PROVE  d \in backups
    BY DEF RemovesCopies
  <2>1. PICK p \in Procs : WriteFiles(p) \/ WriteReplacement(p) \/ ReplaceRemove(p)
    BY FilesGo DEF Inv
  <2>2. PICK c \in Command : c = proc[p]
    BY DEF Inv, TypeOK
  <2>3. ~stale
    BY <2>1 DEF WriteFiles, WriteReplacement, ReplaceRemove, history
  <2>4. Shape(c) /\ CommandInv(c)
    BY <2>2, <2>3 DEF Inv, Clean, Undisturbed
  <2>5. CASE WriteFiles(p) \/ WriteReplacement(p)
    <3>1. \/ c.pc \in {"saveIdent", "replIdent"} /\ dirs' = [dirs EXCEPT ![c.did] = "ident"]
          \/ dirs' = [dirs EXCEPT ![c.did] = "keys"]
      BY <2>2, <2>5 DEF WriteFiles, WriteReplacement, At
    <3>2. c.pc \in {"saveIdent", "replIdent"} => dirs[c.did] = "none"
      BY <2>4 DEF CommandInv, DidInv, Unwritten
    <3> QED
      BY <3>1, <3>2 DEF Inv, TypeOK
  <2>6. CASE ReplaceRemove(p)
    <3>1. c.pc = "replRemove" /\ dirs' = [dirs EXCEPT ![c.seen.cred[c.name].did] = "none"]
      BY <2>2, <2>6 DEF ReplaceRemove, At
    <3>2. c.seen.cred[c.name].did \in backups
      BY <2>4, <3>1 DEF Shape, RowsBehind, CommandInv, ReplaceInv, Maps
    <3> QED
      BY <3>1, <3>2 DEF Inv, TypeOK
  <2> QED
    BY <2>1, <2>5, <2>6
<1> QED
  BY <1>1, AlwaysInv, PTL DEF Spec, RemovedAfterBackup
=============================================================================
