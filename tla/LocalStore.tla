----------------------------- MODULE LocalStore -----------------------------
(***************************************************************************)
(* The tables of the local database that belong to a DID (owner_did):       *)
(* messages, contacts, contact_handle_bindings, groups, group_members,      *)
(* relationship_events and the e2ee tables (internal/store).  Commands and  *)
(* the listener write rows for the DID they run as; `id replace-did` moves  *)
(* the rows of the old DID to the new one (RebindLocalIdentityState) and    *)
(* `id recover` merges the rows of several old DIDs into the new one        *)
(* (MergeRecoveredHandleLocalState).                                        *)
(*                                                                          *)
(* A table is a function from the keys of its rows to their columns; a key  *)
(* is a pair whose first component is the owner.  Every handler below is    *)
(* one transaction or one statement of SQLite and so one step.              *)
(***************************************************************************)
EXTENDS Integers, Sequences, FiniteSets

CONSTANTS
  OldOwners,  \* the DIDs the person had, in the order `id recover` lists them
  NewOwner,   \* the DID that replaces them
  Peers,      \* DIDs of other people: numbers, compared as the strings are
  Handles, Msgs, Groups, Events,
  Sender,     \* the peer that sent each message
  NoHandle,   \* a contact whose handle is NULL
  MaxTime,    \* bound on the clock
  MaxWrites   \* bound on the rows written outside the two commands

VARIABLES
  contacts,   \* <<owner, did>> -> [handle, seen]
  bindings,   \* <<owner, <<handle, did>>>> -> [current, seen]
  messages,   \* <<owner, msg>> -> [peer, self, thread, read]
  groups,     \* <<owner, group>> -> [creator, synced]
  members,    \* <<owner, group>> -> DID of the person as a member
  events,     \* event -> owner
  e2ee,       \* owners with rows in e2ee_outbox or e2ee_sessions
  stage,      \* how far replace-did or recover has come
  clock, writes

tables == <<contacts, bindings, messages, groups, members, events, e2ee>>
vars == <<contacts, bindings, messages, groups, members, events, e2ee, stage, clock, writes>>

Olds == {OldOwners[i] : i \in 1..Len(OldOwners)}
Owners == Olds \union {NewOwner}

ASSUME ConstantsOK ==
  /\ OldOwners \in Seq(Olds) /\ OldOwners # <<>> /\ NewOwner \notin Olds
  /\ Peers \subseteq Nat /\ IsFiniteSet(Peers) /\ IsFiniteSet(Handles)
  /\ MaxTime \in Nat \ {0} /\ MaxWrites \in Nat /\ NoHandle \notin Handles
  /\ Sender \in [Msgs -> Peers]

-----------------------------------------------------------------------------
(* Rows. *)

EmptyTable == [k \in {} |-> 0]

Put(t, k, row) == [j \in DOMAIN t \union {k} |-> IF j = k THEN row ELSE t[j]]

(* The keys of an owner, and a key under another owner. *)
KeysOf(t, o) == {k \in DOMAIN t : k[1] = o}
Under(k, o) == <<o, k[2]>>

(* deleteRowsForOwners *)
DeleteRowsForOwners(t) == [k \in {k \in DOMAIN t : k[1] \notin Olds} |-> t[k]]

(* The DIDs met under a handle of an owner: ListDIDsByHandle. *)
ListDIDsByHandle(o, h) ==
  LET bound == {p \in Peers : <<o, <<h, p>>>> \in DOMAIN bindings}
  IN IF bound # {} THEN bound
     ELSE {p \in Peers : <<o, p>> \in DOMAIN contacts /\ contacts[<<o, p>>].handle = h}

(* The handle of a contact, or the one it had last, the current one before   *)
(* others: ResolveContactHandleByDID.                                        *)
ResolveContactHandleByDID(o, p) ==
  LET had == {h \in Handles : <<o, <<h, p>>>> \in DOMAIN bindings}
      b(h) == bindings[<<o, <<h, p>>>>]
      Before(h, g) == \/ b(h).current /\ ~b(g).current
                      \/ b(h).current = b(g).current /\ b(h).seen >= b(g).seen
  IN IF <<o, p>> \in DOMAIN contacts /\ contacts[<<o, p>>].handle # NoHandle
     THEN {contacts[<<o, p>>].handle}
     ELSE {h \in had : \A g \in had : Before(h, g)}

(* What the cache shows of a conversation with a handle                      *)
(* (ListDirectMessagesByPeerDIDs) and of the thread with a DID               *)
(* (ListThreadMessages): a row counts only when it was addressed to its      *)
(* present owner, and when its thread was made from that owner.              *)
ListDirectMessages(o, h) ==
  {m \in Msgs : /\ <<o, m>> \in DOMAIN messages
                /\ messages[<<o, m>>].self = o
                /\ messages[<<o, m>>].peer \in ListDIDsByHandle(o, h)}

ListThreadMessages(o, p) ==
  {m \in Msgs : <<o, m>> \in DOMAIN messages /\ messages[<<o, m>>].thread = {o, p}}

-----------------------------------------------------------------------------

Init ==
  /\ contacts = EmptyTable /\ bindings = EmptyTable /\ messages = EmptyTable
  /\ groups = EmptyTable /\ members = EmptyTable /\ events = EmptyTable
  /\ e2ee = {}
  /\ stage = "idle" /\ clock = 1 /\ writes = 0

(* A process writes for the DID it has loaded.  A listener session keeps the *)
(* record it started with, so old DIDs write on after the command.           *)
Writer(o) ==
  /\ writes < MaxWrites
  /\ writes' = writes + 1
  /\ o = NewOwner => stage # "idle"
  /\ UNCHANGED <<stage, clock>>

Tick ==
  /\ clock < MaxTime
  /\ clock' = clock + 1
  /\ UNCHANGED <<tables, stage, writes>>

-----------------------------------------------------------------------------
(* Contacts. *)

(* upsertContactHandleBinding: the DID becomes the current one of the        *)
(* handle, and the others are marked as seen at least as late.               *)
UpsertContactHandleBinding(o, h, p) ==
  LET others == {k \in KeysOf(bindings, o) : k[2][1] = h /\ k[2][2] # p}
  IN Put([k \in DOMAIN bindings |->
            IF k \in others
            THEN [current |-> FALSE, seen |-> IF bindings[k].seen < clock THEN clock
                                              ELSE bindings[k].seen]
            ELSE bindings[k]],
         <<o, <<h, p>>>>, [current |-> TRUE, seen |-> clock])

(* A mutant: the handle stays with the contact that had it before. *)
UpsertContactSharingHandle(o, p, h) ==
  /\ contacts' = Put(contacts, <<o, p>>, [handle |-> h, seen |-> clock])
  /\ bindings' = UpsertContactHandleBinding(o, h, p)

(* UpsertContact with a handle: the first other contact with the handle      *)
(* loses it, the contact gets it, and so does the binding.                   *)
UpsertContact(o, p, h) ==
  LET holders == {k \in KeysOf(contacts, o) : contacts[k].handle = h}
  IN /\ \E loser \in (IF holders = {} THEN {<<o, p>>} ELSE holders) :
          contacts' = Put([k \in DOMAIN contacts |->
                             IF k = loser THEN [handle |-> NoHandle, seen |-> clock]
                             ELSE contacts[k]],
                          <<o, p>>, [handle |-> h, seen |-> clock])
     /\ bindings' = UpsertContactHandleBinding(o, h, p)

(* syncPeerHandle of a command: the handle the user typed, else the one on   *)
(* record for the DID, else the one the service names.  Between the look-up  *)
(* and the transaction other processes may write; since a typed handle can   *)
(* be any, a stale one adds no behaviour.                                    *)
SyncPeerHandle(o, p) ==
  /\ Writer(o)
  /\ \/ \E typed \in Handles : UpsertContact(o, p, typed)
     \/ \E known \in ResolveContactHandleByDID(o, p) : UpsertContact(o, p, known)
  /\ UNCHANGED <<messages, groups, members, events, e2ee>>

(* syncIncomingContact of the listener: a DID with a handle on record is     *)
(* left alone, else the service is asked.                                    *)
SyncIncomingContact(o, p) ==
  /\ Writer(o)
  /\ ResolveContactHandleByDID(o, p) = {}
  /\ \E found \in Handles : UpsertContact(o, p, found)
  /\ UNCHANGED <<messages, groups, members, events, e2ee>>

(* The contacts of a handle, the one seen last first (ties by DID): the      *)
(* ranking of backfillContactHandleBindings.                                 *)
Ranked(o, h) ==
  {p \in Peers :
     /\ <<o, p>> \in DOMAIN contacts /\ contacts[<<o, p>>].handle = h
     /\ \A q \in Peers :
          <<o, q>> \in DOMAIN contacts /\ contacts[<<o, q>>].handle = h
          => \/ contacts[<<o, q>>].seen < contacts[<<o, p>>].seen
             \/ contacts[<<o, q>>].seen = contacts[<<o, p>>].seen /\ q <= p}

(* backfillContactHandleBindings, on every EnsureSchema: contacts with a     *)
(* handle get a binding, and of those the first of its handle is current.    *)
BackfillContactHandleBindings ==
  LET named == {<<k[1], <<contacts[k].handle, k[2]>>>> :
                  k \in {k \in DOMAIN contacts : contacts[k].handle # NoHandle}}
  IN [k \in DOMAIN bindings \union named |->
        IF k \in named THEN [current |-> k[2][2] \in Ranked(k[1], k[2][1]),
                             seen |-> contacts[<<k[1], k[2][2]>>].seen]
        ELSE bindings[k]]

(* EnsureSchema of a command that opens the database. *)
EnsureSchema ==
  /\ bindings' = BackfillContactHandleBindings
  /\ bindings' # bindings
  /\ UNCHANGED <<contacts, messages, groups, members, events, e2ee, stage, clock, writes>>

-----------------------------------------------------------------------------
(* Messages, groups and events. *)

(* StoreMessage for a message of a peer to the DID that stores it. *)
StoreMessage(o, m) ==
  /\ Writer(o)
  /\ <<o, m>> \notin DOMAIN messages
  /\ messages' = Put(messages, <<o, m>>,
                     [peer |-> Sender[m], self |-> o, thread |-> {o, Sender[m]}, read |-> FALSE])
  /\ UNCHANGED <<contacts, bindings, groups, members, events, e2ee>>

(* MarkMessagesRead *)
MarkMessagesRead(o, m) ==
  /\ <<o, m>> \in DOMAIN messages
  /\ messages' = [messages EXCEPT ![<<o, m>>].read = TRUE]
  /\ UNCHANGED <<contacts, bindings, groups, members, events, e2ee, stage, clock, writes>>

(* UpsertGroup for a group the person created.  It replaces the whole row:   *)
(* the sequence number it does not give is gone.                             *)
UpsertGroup(o, g) ==
  /\ Writer(o)
  /\ \E s \in 0..1 : groups' = Put(groups, <<o, g>>, [creator |-> o, synced |-> s])
  /\ UNCHANGED <<contacts, bindings, messages, members, events, e2ee>>

(* ReplaceGroupMembers with a list that has the person on it. *)
ReplaceGroupMembers(o, g) ==
  /\ Writer(o)
  /\ members' = Put(members, <<o, g>>, o)
  /\ UNCHANGED <<contacts, bindings, messages, groups, events, e2ee>>

(* AppendRelationshipEvent *)
AppendRelationshipEvent(o, e) ==
  /\ Writer(o)
  /\ e \notin DOMAIN events
  /\ events' = Put(events, e, o)
  /\ UNCHANGED <<contacts, bindings, messages, groups, members, e2ee>>

(* QueueE2EEOutbox and the session store of the secure messages. *)
StoreE2EE(o) ==
  /\ Writer(o)
  /\ e2ee' = e2ee \union {o}
  /\ UNCHANGED <<contacts, bindings, messages, groups, members, events>>

-----------------------------------------------------------------------------
(* `id replace-did`: the rows of the old DID move to the new one. *)

Old == OldOwners[1]

(* The identity files name the new DID from here on; the rows follow later. *)
SwitchIdentity(to) ==
  /\ stage = "idle"
  /\ stage' = to
  /\ UNCHANGED <<tables, clock, writes>>

ReplaceDID == SwitchIdentity("replaced")

(* UPDATE OR IGNORE: rows move to the new owner unless a row there has their *)
(* key; `blocked` are keys that another index of the table keeps back.       *)
Rebound(t, blocked) ==
  LET moved == {k \in KeysOf(t, Old) : Under(k, NewOwner) \notin DOMAIN t} \ blocked
  IN [k \in (DOMAIN t \ moved) \union {Under(k, NewOwner) : k \in moved} |->
        IF k \in DOMAIN t THEN t[k] ELSE t[Under(k, Old)]]

(* Only one binding of an owner and handle may be current. *)
CurrentTaken ==
  {k \in KeysOf(bindings, Old) :
     /\ bindings[k].current
     /\ \E j \in KeysOf(bindings, NewOwner) : j[2][1] = k[2][1] /\ bindings[j].current}

(* RebindOwnerDID, one transaction; what the rows say of the person (the     *)
(* receiver, the thread, the creator of a group) stays as it was.            *)
RebindOwnerDID ==
  /\ stage = "replaced"
  /\ messages' = Rebound(messages, {})
  /\ contacts' = Rebound(contacts, {})
  /\ bindings' = Rebound(bindings, CurrentTaken)
  /\ events' = [e \in DOMAIN events |-> IF events[e] = Old THEN NewOwner ELSE events[e]]
  /\ groups' = Rebound(groups, {})
  /\ members' = Rebound(members, {})
  /\ stage' = "rebound"
  /\ UNCHANGED <<e2ee, clock, writes>>

(* ClearOwnerE2EEData, after the transaction. *)
ClearOwnerE2EEData ==
  /\ stage = "rebound"
  /\ e2ee' = e2ee \ {Old}
  /\ stage' = "cleared"
  /\ UNCHANGED <<contacts, bindings, messages, groups, members, events, clock, writes>>

-----------------------------------------------------------------------------
(* `id recover`: the rows of all old DIDs are merged into the new one. *)

Recover == SwitchIdentity("recovered")

(* remapRecoveredSelfDID *)
RemapSelf(did) == IF did \in Olds THEN NewOwner ELSE did

Later(a, b) == IF a < b THEN b ELSE a

(* A mutant: the messages stay in the threads of the old DID. *)
NormalizeMessageAddress(r) == [r EXCEPT !.self = RemapSelf(r.self)]

(* normalizeRecoveredMessageRow: addressed to the new DID, in its thread. *)
NormalizeMessageRow(r) ==
  [r EXCEPT !.self = RemapSelf(r.self), !.thread = {NewOwner, r.peer}]

NormalizeContactRow(r) == r

NormalizeBindingRow(r) == [r EXCEPT !.current = FALSE]

NormalizeGroupRow(r) == [r EXCEPT !.creator = RemapSelf(r.creator)]

NormalizeMemberRow(r) == RemapSelf(r)

(* A mutant: whether the message was read is what the old row says. *)
JoinMessageByOldRow(existing, incoming) == incoming

(* mergeRecoveredMessage and its siblings: what the old row says, unless it  *)
(* says nothing; flags are joined, numbers and times are the larger ones.    *)
JoinMessage(existing, incoming) ==
  [incoming EXCEPT !.read = existing.read \/ incoming.read]

JoinContact(existing, incoming) ==
  [handle |-> IF incoming.handle # NoHandle THEN incoming.handle ELSE existing.handle,
   seen |-> Later(existing.seen, incoming.seen)]

JoinBinding(existing, incoming) ==
  [current |-> FALSE, seen |-> Later(existing.seen, incoming.seen)]

JoinGroup(existing, incoming) ==
  [incoming EXCEPT !.synced = Later(existing.synced, incoming.synced)]

JoinMember(existing, incoming) == incoming

Normalize(table, r) ==
  CASE table = "messages" -> NormalizeMessageRow(r)
    [] table = "contacts" -> NormalizeContactRow(r)
    [] table = "bindings" -> NormalizeBindingRow(r)
    [] table = "groups" -> NormalizeGroupRow(r)
    [] table = "members" -> NormalizeMemberRow(r)

Join(table, existing, incoming) ==
  CASE table = "messages" -> JoinMessage(existing, incoming)
    [] table = "contacts" -> JoinContact(existing, incoming)
    [] table = "bindings" -> JoinBinding(existing, incoming)
    [] table = "groups" -> JoinGroup(existing, incoming)
    [] table = "members" -> JoinMember(existing, incoming)

(* INSERT ... ON CONFLICT DO UPDATE of every column. *)
UpsertRows(t, rows) ==
  [k \in DOMAIN t \union DOMAIN rows |-> IF k \in DOMAIN rows THEN rows[k] ELSE t[k]]

(* The rows of an old owner, each normalized and joined with the row the new *)
(* owner has for its key.  The keys of one owner are distinct, so the order  *)
(* of its rows does not matter.                                              *)
MergeOwner(table, t, o) ==
  UpsertRows(t, [k \in {Under(k, NewOwner) : k \in KeysOf(t, o)} |->
                   IF k \in DOMAIN t THEN Join(table, t[k], Normalize(table, t[Under(k, o)]))
                   ELSE Normalize(table, t[Under(k, o)])])

(* One old owner after the other. *)
MergeOwners(table, t) ==
  LET merged[i \in 0..Len(OldOwners)] ==
        IF i = 0 THEN t ELSE MergeOwner(table, merged[i - 1], OldOwners[i])
  IN merged

MergeRows(table, t) == DeleteRowsForOwners(MergeOwners(table, t)[Len(OldOwners)])

(* mergeRecoveredMessages and its siblings *)
MergeMessages == MergeRows("messages", messages)
MergeContacts == MergeRows("contacts", contacts)
MergeBindings == MergeRows("bindings", bindings)
MergeGroups == MergeRows("groups", groups)
MergeMembers == MergeRows("members", members)
MergeEvents == [e \in DOMAIN events |-> RemapSelf(events[e])]

(* The handles in the rows of the old owners. *)
AffectedHandles ==
  {h \in Handles :
     \E o \in Olds, p \in Peers :
       \/ <<o, <<h, p>>>> \in DOMAIN bindings
       \/ <<o, p>> \in DOMAIN contacts /\ contacts[<<o, p>>].handle = h}

(* The binding of a handle that was seen last, ties by DID. *)
LastSeen(b, h) ==
  LET known == {p \in Peers : <<NewOwner, <<h, p>>>> \in DOMAIN b}
      seen(p) == b[<<NewOwner, <<h, p>>>>].seen
  IN {p \in known : \A q \in known : seen(q) < seen(p) \/ (seen(q) = seen(p) /\ q <= p)}

(* One turn of normalizeRecoveredCurrentHandles over the merged contacts c   *)
(* and bindings b: the last seen DID is the current one of the handle and    *)
(* the only contact with it.                                                 *)
NormalizeCurrentHandle(t, h) ==
  IF LastSeen(t.b, h) = {} THEN t
  ELSE [b |-> [k \in DOMAIN t.b |->
                 IF k[1] = NewOwner /\ k[2][1] = h
                 THEN [t.b[k] EXCEPT !.current = k[2][2] \in LastSeen(t.b, h)] ELSE t.b[k]],
        c |-> [k \in DOMAIN t.c |->
                 IF k[1] # NewOwner THEN t.c[k]
                 ELSE IF k[2] \in LastSeen(t.b, h) THEN [t.c[k] EXCEPT !.handle = h]
                 ELSE IF t.c[k].handle = h THEN [t.c[k] EXCEPT !.handle = NoHandle]
                 ELSE t.c[k]]]

(* The statement that marks the current binding visits the rows in the order *)
(* of the index it uses, last seen first, and the unique index is checked    *)
(* row by row: it fails when another row is still current by then, and may   *)
(* fail when that row was seen at the same time.                             *)
MarkFails(b, h) ==
  \E p \in LastSeen(b, h), q \in Peers \ LastSeen(b, h) :
    /\ <<NewOwner, <<h, q>>>> \in DOMAIN b /\ b[<<NewOwner, <<h, q>>>>].current
    /\ b[<<NewOwner, <<h, q>>>>].seen < b[<<NewOwner, <<h, p>>>>].seen

MarkMayFail(b, h) ==
  \E p \in LastSeen(b, h), q \in Peers \ LastSeen(b, h) :
    /\ <<NewOwner, <<h, q>>>> \in DOMAIN b /\ b[<<NewOwner, <<h, q>>>>].current
    /\ b[<<NewOwner, <<h, q>>>>].seen = b[<<NewOwner, <<h, p>>>>].seen

(* The turns of an order of handles. *)
NormalizeCurrentHandles(t, order) ==
  LET turn[i \in 0..Len(order)] ==
        IF i = 0 THEN t ELSE NormalizeCurrentHandle(turn[i - 1], order[i])
  IN turn

(* The orders in which a Go map of the handles may be visited. *)
Orders(handles) ==
  {order \in [1..Cardinality(handles) -> handles] :
     \A h \in handles : \E i \in DOMAIN order : order[i] = h}

(* MergeRecoveredHandleLocalState commits. *)
MergeCommits ==
  /\ stage = "recovered"
  /\ \A h \in AffectedHandles : ~MarkFails(MergeBindings, h)
  /\ \E order \in Orders(AffectedHandles) :
       LET turn == NormalizeCurrentHandles([c |-> MergeContacts, b |-> MergeBindings], order)
           t == turn[Len(order)]
       IN contacts' = t.c /\ bindings' = t.b
  /\ messages' = MergeMessages
  /\ events' = MergeEvents
  /\ groups' = MergeGroups
  /\ members' = MergeMembers
  /\ e2ee' = e2ee \ Olds
  /\ stage' = "merged"
  /\ UNCHANGED <<clock, writes>>

(* MergeRecoveredHandleLocalState fails: everything is rolled back and the   *)
(* command ends.                                                             *)
MergeFails ==
  /\ stage = "recovered"
  /\ \E h \in AffectedHandles : MarkFails(MergeBindings, h) \/ MarkMayFail(MergeBindings, h)
  /\ stage' = "unmerged"
  /\ UNCHANGED <<tables, clock, writes>>

-----------------------------------------------------------------------------

Next ==
  \/ \E o \in Owners, p \in Peers :
       SyncPeerHandle(o, p) \/ SyncIncomingContact(o, p)
  \/ \E o \in Owners, m \in Msgs : StoreMessage(o, m) \/ MarkMessagesRead(o, m)
  \/ \E o \in Owners, g \in Groups : UpsertGroup(o, g) \/ ReplaceGroupMembers(o, g)
  \/ \E o \in Owners, e \in Events : AppendRelationshipEvent(o, e)
  \/ \E o \in Owners : StoreE2EE(o)
  \/ EnsureSchema \/ Tick
  \/ ReplaceDID \/ RebindOwnerDID \/ ClearOwnerE2EEData
  \/ Recover \/ MergeCommits \/ MergeFails

Spec == Init /\ [][Next]_vars

-----------------------------------------------------------------------------
(* Properties. *)

ContactRows == [handle : Handles \union {NoHandle}, seen : 1..MaxTime]
BindingRows == [current : BOOLEAN, seen : 1..MaxTime]
MessageRows == [peer : Peers, self : Owners, thread : SUBSET (Owners \union Peers), read : BOOLEAN]
GroupRows == [creator : Owners, synced : 0..1]

IsTable(t, keys, rows) == DOMAIN t \subseteq keys /\ t \in [DOMAIN t -> rows]

(* Every table has keys and rows of its types.                               *)
TypeOK ==
  /\ IsTable(contacts, Owners \X Peers, ContactRows)
  /\ IsTable(bindings, Owners \X (Handles \X Peers), BindingRows)
  /\ IsTable(messages, Owners \X Msgs, MessageRows)
  /\ IsTable(groups, Owners \X Groups, GroupRows)
  /\ IsTable(members, Owners \X Groups, Owners)
  /\ IsTable(events, Events, Owners)
  /\ e2ee \subseteq Owners
  /\ stage \in {"idle", "replaced", "rebound", "cleared", "recovered", "merged", "unmerged"}
  /\ clock \in 1..MaxTime /\ writes \in 0..MaxWrites

(* A contact that shows a handle is the current one of that handle, and the  *)
(* only one: however commands and the listener move handles between DIDs,    *)
(* and after rows of several owners are merged in any order of handles.  The *)
(* rows that RebindOwnerDID moves beside rows of the new DID are excepted.   *)
HandleNamesCurrent ==
  stage \notin {"rebound", "cleared"} =>
    \A k \in DOMAIN contacts :
      contacts[k].handle # NoHandle =>
        \A p \in Peers :
          LET b == <<k[1], <<contacts[k].handle, p>>>>
          IN (b \in DOMAIN bindings /\ bindings[b].current) <=> p = k[2]

(* What an owner could read of the past of a handle, of a thread or of its   *)
(* own groups and has now handed to another owner, the other one can read.   *)
HandsOver(o, n) ==
  /\ \A h \in Handles : ListDirectMessages(o, h) \subseteq ListDirectMessages(n, h)'
  /\ \A p \in Peers : ListThreadMessages(o, p) \subseteq ListThreadMessages(n, p)'
  /\ \A g \in Groups :
       <<o, g>> \in DOMAIN groups
       => <<n, g>> \in DOMAIN groups' /\ (groups[<<o, g>>].creator = o => groups'[<<n, g>>].creator = n)
  /\ \A g \in Groups : <<o, g>> \in DOMAIN members => <<n, g>> \in DOMAIN members'

(* A committed merge hands everything over and leaves the old owners no row; *)
(* and what the new owner could read before, it still can.                   *)
MergeHandsOver ==
  [][stage = "recovered" /\ stage' = "merged"
     => /\ \A o \in Owners : HandsOver(o, NewOwner)
        /\ \A o \in Olds :
             /\ KeysOf(messages', o) = {} /\ KeysOf(contacts', o) = {} /\ KeysOf(bindings', o) = {}
             /\ KeysOf(groups', o) = {} /\ KeysOf(members', o) = {}]_vars

(* Whatever happens to the owners of the rows, the workspace forgets no DID  *)
(* of a handle, no message, no read mark and no group.                       *)
History == INSTANCE HandleHistory WITH
  met <- {k[2] : k \in DOMAIN bindings},
  stored <- {k[2] : k \in DOMAIN messages},
  read <- {k[2] : k \in {k \in DOMAIN messages : messages[k].read}},
  joined <- {k[2] : k \in DOMAIN groups}

ImplementsHistory == History!Spec

(* docs/installation.md:287: the history of a handle is aggregated over its  *)
(* DIDs from the local records.  RebindOwnerDID moves the rows of the old    *)
(* DID and leaves their receiver and thread as they were, which the queries  *)
(* compare with the new DID.                                                 *)
RebindHandsOver ==
  [][stage = "replaced" /\ stage' = "rebound" => HandsOver(Old, NewOwner)]_vars
=============================================================================
