# Verification of awiki-cli in TLA+

awiki-cli is a Go program with two faces: short-lived commands (`awiki-cli msg send ...`)
and a long-running listener (`runtime listener`). All of them work on one workspace
directory: an identity index with key files, `config.yaml`, a SQLite database,
session files of the end-to-end encryption, and the files of the workspace upgrade.
Nothing but the upgrade lock and SQLite's own locking keeps the processes apart, so
most of what can go wrong is an interleaving of processes or an interruption between
two writes. This directory models those parts, checks them with TLC, and proves
theorems about them with TLAPS.

    tlc -config <run>.cfg MC<Module>     every .cfg names one run
    tlapm <Module>Proofs.tla             the proofs: WorkspaceUpgrade, Listener (its sessions
                                         and WSClient), SecureInbox, MessageSend (with
                                         SecureOutbox), GroupCache, IdentityStore,
                                         LocalStore, RuntimeControl

`PROJECT.json` is the machine-readable index: components, runs, mutants, the map from
definitions to source lines, findings, hazards and theorems.

## 1. Inventory

For each part: the state it keeps, what changes it, who else touches that state, what
is hard, and what makes it correct. "Modelled" names the module.

| Part | State | Operations | Interacts with | Hard | Correct when | Modelled |
|---|---|---|---|---|---|---|
| Workspace upgrade (`internal/upgrade`) | `meta.json`, `upgrade_journal.json`, `upgrade.lock`, backups | inspect, lock, backup, migrations 0→1→2→3, validate | every command runs it first; rewrites config, index, database; calls the user service to replace DIDs | several processes and releases, interruption between any two writes, remote and local state in step | one upgrader at a time; version climbs one by one; the original can be restored; nothing lost in silence | `WorkspaceUpgrade` implements `SchemaLedger`, proved |
| Listener sessions (`runtime/listener/server.go`) | session map, per session: client, record, flags, context; queue of local acks | ensureSession, session loop, watch for identities, bridge requests, stop | CLI commands over a local bridge; identity index; message service | goroutines racing on a session, timeouts against late answers, stop in the middle of a dial | one loop and one socket per identity; reconnects; creators get an answer; stop leaves nothing open | `ListenerSessions`, proved |
| Websocket client (`runtime/listener/wsclient.go`) | pending calls, read loop, notification channel | SendRPC, readLoop, failPending, Connect with token refresh | session loops, bridge requests, poll | lock held while sending on channels; contexts that expire at the wrong moment | every call returns; the read loop never blocks for good | `WSClient`, proved |
| Incoming messages (`handleNotification`, inbox polling) | `messages`, groups, contacts | push, poll, CLI inbox | database upsert shared by all | the same message arrives on several ways, decrypted or not | plaintext wins in every order; a text that was decrypted is not lost; the host learns the text | `SecureInbox`, proved (one peer's encrypted messages) |
| Secure messaging (`message/secure*.go`) | `e2ee_outbox` table, session files, prekeys | send, queue, flush, retry, drop, repair, decrypt | listener goroutines and commands share table and session files | flushes overlap; the state that led to a decision has changed when it is written | no message reported sent or queued vanishes; queued ones go out | `SecureOutbox`, proved (outbox) |
| Message transport (`message/service.go`, HTTP and bridge clients), authentication (`internal/authsdk`) | a token in session, record and file | send over the bridge or HTTP, repeat after 401 or 1401, refresh, persist | listener bridge first, HTTP second; did-auth | a lost answer and the fallback; a token another command renews | duplicates only after a lost answer; the outcome told is the true one; an old token never ends a send | `MessageSend`, proved |
| Groups (`message/group_service.go`, group notifications) | `groups`, `group_members` | create, join, leave, change, list; snapshot, member list, notification | commands and listener write the same rows; other agents change the group | a fetch overtaken by a change; notifications of an earlier membership | the cache converges; leave is refused to owners only | `GroupCache`, proved |
| Identity store (`internal/identity`) | `index.json`, identity directories, backups | create, register, use, profile, replace DID, recover, back-fill | listener and commands, user service, rows of the database | read-modify-write without a lock; several files and a remote call per operation | keys of an owned handle are never lost; index, directories and rows agree | `IdentityStore`, proved |
| Message store (`internal/store`) | SQLite | upsert of messages, contacts with handle history, groups, rebind of the owner, recover merge, import | everything | rows of several owners meet on one key | nothing known is forgotten; a merge hands everything over | `LocalStore` implements `HandleHistory`, proved; import, schema and outbox statements are steps of `WorkspaceUpgrade`, `SecureOutbox` |
| Runtime control (`cli/runtime.go`, `config/write.go`, `listener/service.go`, `hermesbridge`, `openclawnotify`) | `config.yaml`, service units, pid, status, boot-id and socket files, Hermes route | setup, mode, start, stop, restart, install, host-notify settings, Hermes setup | two services, the service manager, each other | a service runs with the configuration of before; files of an earlier instance; edits without a lock | a change reaches the listener; ready means ready with it; bridge and listener share one secret | `RuntimeControl`, proved |
| Update check, mail, site, content | a version cache | request and answer | services | | | not modelled: nothing is decided by state |
| Command line, output, docs, doctor, tracing | none | parsing, printing | | | | not modelled: nothing a model tells apart |

## 2. Modules

### WorkspaceUpgrade

`UpgradeIfNeeded` (`upgrader.go`) and the three migrations. A process slot (`Proc`) runs
one invocation at a time; `pc[p]` is its place in the code, `seen`, `from`, `backup`,
`todo`, `cur` and `warnings` its locals. Disk: `config`, `legacyConfig`, `did` (the
index), `rows` (owner of the database rows), `db`, `legacySkill`, `meta`,
`metaWarnings`, `journal`, `backups`, `legacyLock`. The OS lock is `lock`; the user
service is `remoteDid`. `legacy` is the read-only layout of the Python version.

| Code | Actions |
|---|---|
| `UpgradeIfNeeded`, before the lock | `InspectUnlocked`, `ClearStaleJournal` |
| `AcquireFileLock`, a lock file of the old format | `AcquireFileLock`, `LockedOut`, `LegacyLockExpires` |
| under the lock | `InspectLocked`, `CreateBackup`, `SaveJournal`, `CheckMigration`, `BeginApply`, `BeginValidate`, `Valid`, `SaveMeta` ... |
| migration 0→1 | `ApplyConfig`, `RemoveLegacyConfig`, `ImportIdentity`, `ImportRows`, `EnsureStoreSchema` ... |
| migration 1→2 | `CleanupLegacySkill` |
| migrations 0→1 and 2→3, k1 DIDs | `ListExistingK1`, `ReplaceRemote`, `SaveReplacedIdentity`, `RebindRows`, `ReplaceFails` ... |
| crash or error return | `Abort`: locals and the OS lock go, the disk stays |

What a file holds is reduced to what decisions depend on: absent, old or current
schema, and which DID. Messages to the user and `refreshResolvedConfig` are left out.

`SchemaLedger` is the abstract specification: a version, who upgrades it, whether the
workspace is changed beyond the version, and whether a backup from before the change is on
record. One upgrader enters at a time and may leave at any point; it puts a backup on record
before it changes anything, records the versions one by one, and the backup goes off the
record only at the latest version. The mapping: `version` is `meta`, `upgrader` the holder of
`lock`, `changed` is `midway`, and `restorable` says that `journal` names a backup taken before
any change. `ImplementsLedger` says that `WorkspaceUpgrade` refines it. It does with one
release installed; with two, the older one forgets a backup that is still needed.

### ListenerSessions

`Supervisor` and its sessions. `sessions`, `cancelled` and `loops` are the session map,
the cancelled contexts and the number of `runSessionLoop` goroutines started; `client`,
`connected`, `record`, `initResult` the fields of a session, with the critical sections of
`session.mu` as single steps; `open` the sockets, numbered by `dials`. The loop is
`CheckContext`, `ConnectFails`, `ConnectSucceeds`, `MarkConnected`, `FlushQueued`,
`Disconnect` or `GiveUp`, `Wake`. `Main` is the goroutine that runs `startKnownSessions` and then
`watchNewIdentities`; `Requests` are goroutines of bridge requests. Both call
`ensureSession`: `EnsureSession`, then `AwaitInitial` or `BootstrapTimeout`; `Main` goes
on with `RecordSessionError`. Local secure acks are `LookUpRecipient` and `QueueAck`.
Stopping is `RequestStop` (the context of `Run`) and `Close`. The process ends after that;
the model lets what is still running go on, which is the worst case.

The state a loop dials in is its own: `connectSession` does not use the session's
context, so a cancelled session still finishes its dial. What a request asks of its client
and what a notification does to the database are other parts.

### SecureOutbox

One owner, one peer, several messages, each sent by a process of its own
(`SendSecureDirect`, `RefuseSecure`, `QueueRow`). `Workers` are the goroutines and commands that
process a confirmation and flush (`Confirm`, `List`, `SendRow`, `RejectRow`,
`SendRowFails`, `MarkSent`, `MarkFailed`), retry (`SecureRetry`) or repair
(`ResetSession`, `ListFailed`, `RequeueFailed`, `SecureInit`); `SecureDrop` is one
statement. `row` is `local_status`, `session` the status of the session file, `atService`
what the message service took. The ANP SDK is not part of the repository: `SendText` is
modelled from its use and from `secure_test.go` (the first message opens a session and
leaves it pending, further ones are refused until it is confirmed). Order of rows within a
flush is not modelled: no property depends on it.

### WSClient

One connected client of the listener and the goroutines that share it. An element of
`Calls` is an invocation of `SendRPC` and its request id: bridge requests (no deadline), calls
of the inbox poll (15 seconds), and nested calls, which the consumer of notifications makes
while it handles one. `stage[k]` is the place of the call, `pending` the keys of the map,
`channel[k]` the response channel of capacity one.

| Code | Actions |
|---|---|
| `SendRPC` | `RegisterCall`, `Write`, `WriteExpires`, the select `Receive` or `Expire`, the deferred `Unregister` |
| `readLoop` | `ReadAnswer`, `Deliver`, `ReadPush`, `ReadFails`, `ReadUnreadable` |
| `failPending` and the end of the loop | `FailPending`, `FailNext`, `FailCall`, `EndReader` |
| `consumeNotifications`, and the close in `runSessionLoop` | `Take`, `Handled`, `Leave` |
| network, stop of the listener | `Break`, `Stop` |

`reader` says where the read loop is: reading, delivering an answer, failed, in
`failPending`, ended. `pendingMu` is kept for more than a moment only by `failPending`, so
it is not a variable: it is held while `reader = "failing"`. An answer may be read as soon as the
request is written, in any order. Connecting and the token refresh are not in this module.

### SecureInbox

The encrypted messages of one peer to one identity. `Push` and `Poll` are the two goroutines
of the listener that call `handleNotification`; `Commands` are processes that run
`msg inbox`, `msg history`, the unified inbox and mark-read. They share the session files of
the ratchet (`spent`: messages whose keys are used up), the `messages` table (`row`) and the
message service (`sent`, `unread`). `held[a]` is what an actor has decrypted and not stored.

| Code | Actions |
|---|---|
| sender and service | `Send` (external): a push may or may not come of it |
| `consumeNotifications` | `TakePush` |
| `syncUnreadSecureDirectInbox` | `PollUnread`, `PollNext`, `PollEnds` |
| `handleNotification`, run by either | `Decrypt`, `Ack`, `Store`, `Notify` |
| `Inbox`, `History` | `Fetch`, `DecryptNext`, `AckPolling`, `StoreBatch` |
| `allInbox` in websocket mode | `ReadCache` |
| `MarkRead`, end of the command | `MarkRemote`, `MarkLocal`, `Return` |
| stop and start of the listener, an interrupted command | `Restart`, `Interrupt` |

A row has five fields: content type, content and metadata, each of the ciphertext or of the
plaintext, and the two flags; `Upsert` is the `ON CONFLICT` clause of `storeMessageSQL` on
them. The first message of a session is acknowledged by whoever decrypts it, and the peer
sends the others after that. Messages without text for the user (`controls`, the
secure-init and secure-ack payloads) are decrypted but not stored; what an ack does to the
outbox is `SecureOutbox`.

The SDK is external. `Decrypts` assumes what a ratchet gives: a message decrypts once, in a
session its first message opened. The upsert is written for that (`dao_test.go`,
`TestStoreMessageUpdatesCachedRawWireWithDecryptedContent`). A message that would decrypt
may also fail for the moment, for instance when the DID document of its sender cannot be
resolved.

Two histories name what the code gives up, and the properties except exactly that: `torn`,
texts (or the ack) that an actor had in hand when it was stopped or its statement
failed; `stranded`, messages stored as ciphertext after a passing failure, which the poll
skips from then on because they have a row. The limit of 100 messages in
one poll, and of a command's page, is left out.

### MessageSend

`msg send`, group and attachment sends, and `id refresh-token`. A send uses at most two of
three *legs*: it begins over the listener's bridge (`ws`) or over HTTP (`first`), and if
that fails it is sent once more over HTTP (`second`); an attachment has only its first leg.
Before the second leg of a direct message the token is renewed when the error was
"unauthorized" (`refreshJWT`). `accepted[c][l]` counts how often the message service took
the message of a leg; `late` are requests the command no longer waits for, which may still
arrive (`LateRequest`). A leg over HTTP is a list of requests (`capabilities`,
`create_slot`, `upload`, `commit`, `send`, `get_me`), each an `Exchange`: `Answer`,
`Unauthorized401` (repeat once with a signature), `Unauthorized1401` (refresh through
did-auth, repeat once), `Refuse`, `NoAnswer`. `auth` is the token file with what did-auth
issued; `bearer` and `jwt` are the copies of a session and of a record. `persistSendResult`
and its siblings store afterwards and may fail.

Assumed of the services: one validity for a token everywhere, a signature is always
accepted, did-auth rejects a bad bearer token by HTTP 401. What the code does and a reader
may not expect: a direct send repeats over HTTP with a new message id after *any* failure of
the bridge, refusals included, so a lost answer may give two messages; the bridge client
gives up after 3 seconds while the listener goes on; errors of the websocket never count as
unauthorized; a failure to persist is an error of the command although the message was sent.

### GroupCache

One group, the user, other agents. `srv` is the group at the message service with its
sequence number; `queue` and `writing` are the notifications under way and the one written
in part (group row and member row are two statements). `row` is the cached `groups` row,
`members` the cached member rows. A command is a list of steps (`CallChange`, `CallRead`,
then `persistGroupSnapshot`, `persistGroupMembers`, `persistGroupMessages`,
`touchCachedGroup` or `markCachedGroupLeft` with `clearCachedMembers`), so a fetch and its
write are apart. `hist` names what the properties except: changes whose notification was
lost, overtaken by an earlier list, or from an earlier membership.

Observed: `touchCachedGroup`, `persistGroupMessages` and state-changed notifications replace
the row without `my_role`, after which the owner guard of `LeaveGroup` does not fire (the
service then decides); a fetch overtaken by a notification stays stale, `last_synced_seq` is
stored and never compared; a notification in flight when the user leaves makes the row
active again. Listing groups, message rows, the limit of 100 members and downloads are left
out.

### IdentityStore

Commands are processes over `index` (`index.json`), `dirs` (what is in the directory of a
DID: nothing, `identity.json`, all keys), `backups`, `active` (config), `rows` (owners of
database rows), and `service` (owner of each handle). An index is read at one step and
written at another; `stale` records that one was written over another its writer had not
read (the write of a roll-back that takes back more than its own included), and the properties
except what follows that. `Call*` are the remote calls,
with the answer lost or not; `Kill` may end a command between any two steps. `dropped` and
`orphaned` name what a command had in hand when it ended. `Exclusive` holds the kinds of
which the user runs one at a time (replace and recover).

Observed: with replace and recover overlapping, `RemovedAfterBackup` does not hold, since one
of them removes what the other put there after its backup. Three commands do the same without
a recovery: a create has read an index without `alice`, a register adds her, replace-did for `alice`
makes its backup, the create writes its index with `alice` as its own DID (`stale`), and the
replacement removes the directory the entry names by now (`store.go:433`), whose keys nobody copied,
where `docs/architecture/local-state-upgrade.md:281` promises a backup of the old directory. A
recovery interrupted after the service took the new DID leaves the name `...-recover-tmp`,
which makes every retry refused; a stop between `PromoteSave` and `Activate` leaves
`identity.active` naming a removed identity; reading an identity may rewrite the index
(`Backfill`, `store.go:555`). Binding of phone and e-mail, resolution and key formats are
not modelled. The run has two commands; the theorems are about any number, with replace and
recover one at a time and as long as no index was written over one unread.

### HandleHistory and LocalStore

`LocalStore` is the part of the database that belongs to a DID (`owner_did`): a table is a
function from keys, whose first component is the owner, to rows. Writers are `StoreMessage`,
`SyncPeerHandle`, `SyncIncomingContact`, `UpsertGroup` and the like, for any owner (sessions
of an old DID go on); `RebindOwnerDID` follows replace-did, `MergeCommits` or `MergeFails`
follows recover, each one transaction. `MergeRows` goes over the old owners in their order
(`MergeOwners`): it normalizes the rows of each (`Normalize`, by table), joins them with the
rows the new owner has for their keys (`Join`) and deletes what is left of the old owners, as
`recover_merge.go` does table by table. Then `NormalizeCurrentHandle` takes one turn for each
handle the old rows name, in any order (`Orders`: the code ranges over a Go map).

`HandleHistory` is the abstract specification: the DIDs met under a handle, the messages
stored and read, and the groups only grow. The mapping forgets the owners: `met` from
`bindings`, `stored` and `read` from `messages`, `joined` from `groups`. `ImplementsHistory`
says that `LocalStore` refines it: a merge or rebinding maps to a stutter.

Observed: the merge updates `is_current` row by row under a partial unique index, so it may
fail on the second row and roll back as a whole (`MergeFails`); a contact that is synced
with a handle of the past makes a superseded DID current again; `RebindOwnerDID` onto an
owner that has rows can leave two contacts with one handle, which `HandleNamesCurrent`
excepts.

### RuntimeControl

The seventeen `runtime` and `host-notify` commands as lists of steps (`todo`), among them
the two halves of an edit of `config.yaml` (`ReadFileConfig`, `WriteFileConfig`),
`ApplyRuntimePolicy`, `StartService`, `StopService`, `RestartService` and their smaller
steps, `refreshListenerForHostNotifyChange`, and those of the Hermes bridge. `inst` are the
processes of the two services with the configuration they read when they started; `files`
the status file, the socket and the expected boot id, which outlive them. `Process` is what
a service does by itself, `Crash`, `Reboot` and `Abort` are the faults. `rev` counts the
writes of `config.yaml`, so that properties can say which configuration a process has.
Two histories say what the properties except: `waived`, a change that was interrupted, written over or
left for the next start; `detached`, a unit that was removed while its service ran, see below.

The service manager is assumed to be systemd's: stop waits for the process, and active or
activating count as running. Observed, and excepted or waived by name: `runtime apply` and
`listener enable` do not restart a listener that runs, so it keeps its old configuration
(`docs/awiki-command-v2.md:763`); the boot id a restart writes may be deleted by the
instance that stops, and the wait then ends after 15 seconds (`ReadyHasChange` leaves
restart out); the socket file of a crashed listener counts as ready; two edits at once lose
one; clearing the Hermes secret while the sink is Hermes makes the service crash again and
again; secret changes restart the listener and not the bridge (only `setup` does both). An
`uninstall` that is overtaken by a `start` between its stop of the listener and its removal of the unit
leaves a listener that runs without a unit; a host-notify change then takes it for not running and
leaves it its old configuration (`detached`). The
contents of the status file, pid files and the route registry of OpenClaw are not modelled.

## 3. Runs

Passing runs:

| Run | Instance | Shows |
|---|---|---|
| `WorkspaceUpgrade_release` | 2 processes of this release, 12 workspaces, 2 interruptions, fair | one upgrader; a restorable backup; no k1 DID kept without a warning; nothing incomplete except after an interruption the code cannot resume; every workspace that can be upgraded is; `ImplementsLedger` |
| `ListenerSessions_safety` | 2 identities, 1 registered late, requests, 1 ack, 1 network failure, stop | `OneLiveLoop`, `OneSocket`, `ConnectedMeansServed` |
| `ListenerSessions_live` | 1 identity unknown at first, requests, 2 failures, stop, fair | `Reconnects`, `CallersReturn`, `CancelledEnds` |
| `WSClient_calls` | 1 call of each kind, 1 place in the notification channel, 2 notifications, 1 fault, stop, fair | `PatientCallsNeverBlock`, `CallsReturn`, `LossIsNoticed` |
| `SecureInbox_rows` | 2 messages, the first opens the session, at most 1 without text, 1 command, 1 fault, fair | `RowIsWhole`, `RowsOnlyImprove`, `DecryptedKept`, `UnreadUntilStored`, `TextsArrive`, `FirstIsAcked` |
| `SecureOutbox_flush` | 3 messages, 2 workers, 1 confirmation, 2 commands, 1 fault, fair | `NoSilentLoss`, `BacklogFlushed` |
| `MessageSend_sends` | 2 commands of any kind, 2 lost answers, 1 expiry | `NoNeedlessDuplicate`, `AnswerIsTrue`, `AuthHeals` |
| `GroupCache_members` | 2 commands at a time, 1 other agent, 3 changes, 1 lost notification | `MembersCurrent`, `OwnerGuardTrue` |
| `IdentityStore_commands` | 2 commands, 1 handle, 4 DIDs, an empty store or one of an earlier release, 1 kill | `OwnerKeysHeld`, `EntriesHaveKeys`, `DefaultIsLive`, `RowsHaveOwner`, `RemovedAfterBackup` |
| `LocalStore_owners` | 2 old DIDs and the new one, 2 peers, 2 handles, 4 writes, clock to 2 | `HandleNamesCurrent`, `MergeHandsOver`, `ImplementsHistory` |
| `RuntimeControl_commands` | 2 commands of 17 kinds, 2 secrets, 3 initial states, 1 fault | `NotifyApplied`, `ReadyHasChange`, `SetupAgrees`, `ConfigInForce` |

The two liveness properties of `WSClient` name two states in which the code does not
return: `Wedged`, where `failPending` sends a second message on the channel of a call that
expired with its answer unread, and keeps `pendingMu` for good; and `Orphaned`, a call
that registers after `failPending` has run on a connection that is still open, because the
read loop ended on a message that is not JSON. Everything else returns.

One run finds a violation:

| Run | What happens |
|---|---|
| `LocalStore_replaced_history` | After replace-did, `RebindOwnerDID` has moved the rows of the old DID and left `receiver_did`, `sender_did` and `thread_id` as they were; the queries by handle and by thread compare these with the new DID and no longer find the messages (`RebindHandsOver`). `docs/installation.md:285-287` promises the aggregated history; the merge after a recovery does remap the columns. |

`TypeOK` is in each module for the reader; it is no property of a run, and it is proved for
every module with proofs.

Other behaviour the models reach, which the properties above except by name, if they concern it:

- An upgrade interrupted inside migration 0→1 after its first write takes its own half-made
  workspace for a live one on the next run, and never imports the rest (`torn`).
- An upgrade interrupted between `ReplaceIdentity` and `RebindLocalIdentityState` leaves the rows
  under the old DID, without a warning (`torn`).
- A process of the previous release can remove, without the lock, the journal of a newer upgrade
  that is running. The run has one release installed; the theorem says so (`SameRelease`).
- Push handler and poll are both at one message; the poll's decryption comes second, fails, and the poll notifies
  the host first, without the text, under the id by which the host then ignores the event that has it.
- The confirmation of a secure session is processed between the refusal of a message and the insertion of its row;
  nothing flushes the row until another ack or a retry (`BacklogFlushed` speaks of rows queued before the flush).
- A message dropped while a flush is running is sent all the same (the flush works from its list).
- A process of the previous release that ends its upgrade at version 2 with warnings has them overwritten
  by the next upgrade to version 3 (`CompleteUnlessTorn` is a theorem for one release).

### Bounds

Every bound is a constant used in a guard. `MaxAborts`: two interruptions let a second run
be interrupted while it resumes the first; the journal and the backup carry no count, so a
third adds no new state of the disk. `MaxFailures`: one failure covers each of failed first
dial, failed reconnect and lost connection in some behaviour, and two combine them.
`MaxConfirms`, `MaxCommands`: two of each put a flush, a repair or a retry beside another
(two confirmations with two commands, 250,000 states up to symmetry, showed nothing more).
Two processes or workers are what a race needs; two identities or three messages are what
the loops over them need (one in progress, one before or behind it). `Capacity = 1` and two
notifications in `WSClient` make the channel full once, with one notification dropped; one
call of each kind has every pair of kinds share the read loop. Two messages are what
`SecureInbox` needs: one that opens the session and one that follows, either with a text or
without; one command beside the two goroutines of the listener makes three writers of a row;
one fault of each kind is taken in some behaviour, and faults are what the properties
except, so that a second adds nothing they speak of.

In `MessageSend` both legs of a send may lose their answers (bridge, then HTTP), hence
`MaxLost = 2`; one expiry makes the token of the file, the record or a session an old
one in some behaviour. In `GroupCache` three changes are a leave, a return and a change in
between, with a command's fetch and a notification on either side of each; the second
command is what overwrites the first one's rows. Two commands and one kill in
`IdentityStore` are each pair of commands that may overlap, with either one ended at any
step; three DIDs of one handle allow a replacement of a replacement. In `LocalStore` two old
owners are what the merge in order is about, two peers and two handles what a handle that
moves is about; four writes fill any four rows before or between the two commands. In
`RuntimeControl` one command may undo or overtake one other, and one fault ends either or a
service. Its `Exclusive` restricts the run: no second `hermes setup` beside a first, and of the
host-notify commands, the five that change the switch, the sink or the secret begin only when no other
host-notify command runs (`openclaw set` and `hermes set` may begin beside any); the three
classes do run beside each other, and so do the lifecycle commands. Symmetry is used in `MessageSend` and `GroupCache` (commands) and `RuntimeControl`
(commands, secrets): their runs check invariants only, and nothing in them tells these
values apart. The runs that check liveness use none.

Deadlock is checked except where a system may really stop: a listener or a client after its
stop, an outbox or an inbox with nothing left to do, and the modules of commands once the
bounded number of commands is over.

### Fairness

`WorkspaceUpgrade`: a process that runs is scheduled, a lock that is free is eventually
taken by one that retries, an old lock file expires, and the user goes on running commands
(without that an interrupted upgrade has no reason to be resumed). `ListenerSessions`:
goroutines are scheduled, a dial returns (it has a timeout), timers fire, a stop that began
completes. No fairness on registering, calling the bridge, failing, stopping.
`SecureOutbox`: an operation that has begun goes on; nothing obliges users or peers.
`WSClient`: goroutines are scheduled, timers fire, and the service answers a request while
the connection lasts; nobody has to call, push a notification, break the connection or stop.
`SecureInbox`: push handler and poll (its ticker included) run, and a command that was
started goes on; nobody has to send or to run commands, and no push has to arrive. All of it
is weak fairness, which is what the Go scheduler, timers and timeouts give. `MessageSend`,
`GroupCache`, `IdentityStore`, `LocalStore` and `RuntimeControl` state safety only and no
fairness: their processes are commands, which may stop at any step.

## 4. Proofs

`WorkspaceUpgradeProofs` proves, for any set of processes, identities, initial workspaces
that satisfy `UpgradeConstants`, and any bound:

| Theorem | States |
|---|---|
| `TypeCorrect` | `Spec => []TypeOK` |
| `UpgradesExclude` | `Spec => []MutualExclusion`, for any mix of releases |
| `MetaClimbs` | `Spec => StepwiseMeta`: the recorded version only ever moves up by one |
| `BackupRecoverable` | `SameRelease => (Spec => []RecoverableBackup)`: while the workspace differs from the one the upgrade began with, a backup of the original is there to be found |
| `K1NeverSilent` | an identity that stays on k1 has its warning |
| `NothingLeftUndone` | `SameRelease => (Spec => []CompleteUnlessTorn)`: an upgraded workspace has every legacy identity with its rows, and every identity on the DID the service knows, except what a warning or `torn` names |
| `UpgradeKeepsLedger` | `SameRelease => (Spec => ImplementsLedger)`: the refinement of `SchemaLedger`, step by step |

About `WSClient`, `ListenerProofs` proves, for any sets of calls and any bounds:

| Theorem | States |
|---|---|
| `ClientTypeCorrect` | `WSSpec => []WSTypeOK`, with it that `pending` holds exactly the calls under way |
| `PatientNeverBlocks` | `WSSpec => []PatientCallsNeverBlock`: only a call that was given up can block the reader |

`SecureInboxProofs` proves, for any messages, commands and bounds:

| Theorem | States |
|---|---|
| `TypeCorrect` | `Spec => []TypeOK` |
| `RowsWhole` | `Spec => []RowIsWhole`: a row is all ciphertext or all plaintext |
| `RowsStayImproved` | `Spec => RowsOnlyImprove`: no step takes the plaintext or the read mark from a row |
| `NoTextVanishes` | `Spec => []DecryptedKept`: a decrypted text is in its row, in somebody's hands, or lost by a fault |
| `NoTextIsReadUnstored` | `Spec => []UnreadUntilStored`: no text leaves the unread messages before it is stored or about to be |

About `ListenerSessions`, `ListenerProofs` proves, for any sets of identities, requests and acks and any
number of failures:

| Theorem | States |
|---|---|
| `TypeCorrect` | `Spec => []TypeOK` |
| `OneLoopPerIdentity` | `Spec => []OneLiveLoop`: exactly one loop runs for a session of the map |
| `OneConnection` | `Spec => []OneSocket`: an identity never has two open sockets |
| `ServedIfConnected` | `Spec => []ConnectedMeansServed`: a session that says it is connected has a client and a loop that reads from it |

About `SecureOutbox`, `MessageSendProofs` proves, for any messages, workers and bounds:

| Theorem | States |
|---|---|
| `OutboxTypeCorrect` | `OutboxSpec => []OutboxTypeOK` |
| `NothingVanishes` | `OutboxSpec => []NoSilentLoss`: a message reported as sent was accepted, one reported as queued was accepted since, is in the table where a flush or a retry finds it, or was dropped |

About `MessageSend`, it proves, for any set of commands and any number of lost answers and expiries:

| Theorem | States |
|---|---|
| `TypeCorrect` | `Spec => []TypeOK` |
| `OnlyLossDuplicates` | `Spec => []NoNeedlessDuplicate`: a message is accepted at most once, and a text twice only if an answer was lost |
| `OutcomeIsTrue` | `Spec => []AnswerIsTrue`: sent means accepted, failed means not accepted unless an answer was lost |
| `OldTokensHeal` | `Spec => []AuthHeals`: no send ends with a refused token; attachments, group commands and lost answers are excepted |

`GroupCacheProofs` proves, for any commands, other agents, number of changes and of lost
notifications:

| Theorem | States |
|---|---|
| `TypeCorrect` | `Spec => []TypeOK` |
| `MembersConverge` | `Spec => []MembersCurrent`: with nothing under way, the cached list lacks exactly the lost or overtaken changes |
| `OwnerGuardHolds` | `Spec => []OwnerGuardTrue`: a leave is refused to an owner only, but for a role `hist` names |

`IdentityStoreProofs` proves, for any commands, names, DIDs, handles and kills; all but the
first need `OneReplacement`:

| Theorem | States |
|---|---|
| `TypeCorrect` | `Spec => []TypeOK` |
| `OwnerKeysSafe` | `Spec => []OwnerKeysHeld`: keys of a DID that owns a handle are in its directory, a backup, or the command about to write them |
| `EntriesComplete` | `Spec => []EntriesHaveKeys`: every entry names a directory with all keys |
| `DefaultLives` | `Spec => []DefaultIsLive`: the default identity is in the index |
| `RowsOwned` | `Spec => []RowsHaveOwner`: rows belong to a live identity or wait for a rebinding |
| `RemovesOnlyCopies` | `Spec => RemovedAfterBackup`: no step takes keys that no backup has |

`LocalStoreProofs` proves, for any number of old DIDs, peers, handles, messages and groups, and any
bounds:

| Theorem | States |
|---|---|
| `TypeCorrect` | `Spec => []TypeOK` |
| `NamesAlwaysCurrent` | `Spec => []HandleNamesCurrent`: a contact that shows a handle is the current one of it and the only one, except after `RebindOwnerDID` |
| `HistoryImplemented` | `Spec => ImplementsHistory`: the refinement of `HandleHistory` |
| `MergeAlwaysHandsOver` | `Spec => MergeHandsOver`: after a committed merge the new DID reads what any owner could read, has the groups, and the old DIDs have no row |

`RuntimeControlProofs` proves, for any number of commands at a time, any kinds of them, any secrets
and any number of faults:

| Theorem | States |
|---|---|
| `TypeCorrect` | `Spec => []TypeOK` |
| `NotifyAlwaysApplied` | `Spec => []NotifyApplied`: a host-notify command that ended well leaves no listener with an older configuration |
| `ReadyAlwaysHasChange` | `Spec => []ReadyHasChange`: a listener found ready has what the start read |
| `SetupAlwaysAgrees` | `Spec => []SetupAgrees`: after `hermes setup` listener and bridge share a secret until the next write of `config.yaml` |
| `ConfigAlwaysInForce` | `Spec => []ConfigInForce`: with nothing under way, the listener notifies as `config.yaml` says |

Assumptions, all on the constants: `UpgradeConstants` (types; initial workspaces are ones
the program can leave), `SessionConstants`, `OutboxConstants` and `SendConstants` (the
bounds are numbers, the actors differ), `ClientConstants` (the kinds of call are disjoint),
`InboxConstants` (the actors differ, the bounds are numbers), `GroupConstants` (the user is none of
the other agents, the bounds are numbers), `StoreConstants` (the names a handle may get differ
from each other, the bounds are numbers), `ConstantsOK` of `LocalStore` (there is an old DID and the new
one is none of them; peers are numbers, since DIDs are compared as strings; peers and handles are
finite; every message has a sender; the bounds are numbers), `RuntimeConstants` (no secret is `Unset`, and there is one; the
bounds are numbers; nothing is assumed of `Exclusive`, so the theorems are also about `hermes setup`s that
overlap, which the run leaves out). `BackupRecoverable`, `NothingLeftUndone` and `UpgradeKeepsLedger` also need
`SameRelease`, that all processes know the same schema version: a process of the previous
release takes the journal of a newer upgrade for a stale one and removes it. The theorems of
`IdentityStore` need `OneReplacement`, that the user runs replace and recover one at a time
(`Exclusive` has both): the code does not enforce it, and without it TLC refutes
`RemovedAfterBackup`.

The argument for `SecureInbox`: `UpsertFacts` shows once that `Upsert` keeps a row whole and
only improves it, and `RowStep` that rows change by it or by `is_read` alone. `DecryptedKept`
and `UnreadUntilStored` are not inductive: one has to know that what an actor holds is
the message it is at (`ActorInv`), and that a command only marks what somebody has
decrypted or given up (`ServiceInv`). `Growth` collects what no step takes back; with it an
actor's invariant survives the steps of the others (`OthersHandlers`,
`OthersCommands`), and each action is looked at for its own actor only.

The argument for `WSClient`: the blocking invariant speaks of the channel the reader is at, so
`BlockInv` says, for each stage of the reader, which channels may be full and where their calls
then are; `ReaderBlock` carries it from a stage to the next.

The argument for `WorkspaceUpgrade`: `MutualExclusion` is not inductive. `Inv` adds `TypeOK`
and `PlanInv`, which says where a process may be and that only the holder of the lock is
past it. `JournalInv` builds on it: the journal names an existing backup taken before any
migration, and it is there from the first write to the last (another process removes it only
at the latest version, which under `SameRelease` means nobody is upgrading). `StageInv` ties
the warnings and the list of identities still to be replaced to the migration in progress.
Each is shown to hold initially and to be preserved by each action (one lemma per group of
variables: `ContentStep`, `RecordStep`, `LocalStep`, `HistoryStep`, `LockStep`, `PlanStep`),
and the theorems combine these with temporal logic in their last step. For `NothingLeftUndone`,
`PlacesInv` says what is done at each place of the code, `KnownInv` that whatever is astray (an
identity not imported, a DID the service does not have, rows of another owner) is in the hands of
the upgrader, in its warnings, in those of `meta.json`, or `torn`; `AdoptInv` that an adoption
once begun is ended by who began it. For `UpgradeKeepsLedger`, `LedgerStep` goes through the
actions: most of them stutter, and what `JournalInv` says is what the others need.

The argument for `ListenerSessions`: for the loops, what a caller holds between two critical
sections must be known. A caller that waits or is about to record an error works on a
session of the map (`CallersHaveSessions`), so `recordSessionError` never puts a session
without a loop there, and `EnsureSession` starts a loop only with the session it adds. For
the sockets, `SocketInv` ties `client`, `connected` and `open` to the place of the loop:
nothing is open before a dial or after the clean-up (`Idle`), the new socket belongs to the
loop alone after the dial (`Fresh`) and to client and loop while it reads (`Live`); a stop
may close it and clear the client at any place (`SocketClose`). The steps of one identity
leave the others' as they are (`SocketOthers`).

The argument for `SecureOutbox`: a worker about to write "sent" holds a message that was
accepted (`SentIsAccepted`), so that whatever row it overwrites, of whatever status, its
message is not lost; every other write leaves a status that a flush or a retry looks for.

The argument for `MessageSend`: `SendInv` says for each command and its place that each leg
has been accepted at most once and is not both accepted and on its way (`OncePerLeg`), that
during an exchange the leg under way and the second one are still unused (`AtExchange`),
that a copy beyond the answer the command has goes back to a lost answer (`NothingLost`) and
that its outcome is true (`Truthful`). The lists of requests are sequences that end in their
only `send` (`EndInSend`, with `Prefixed` and `Rest` for what is put before and taken off),
so an accepted `send` is the last request of its leg. `OneCommand` frames the other
commands, which share only the token. For `AuthHeals`, `TokenInv`: a token that is no longer valid
never becomes valid again, and a session asks did-auth only after a refusal, so what it
sends next carries a signature or a token issued since; an expiry in between is one of those
`Excused`, which lasts.

The argument for `GroupCache`: the properties speak of a quiet system, the invariants of one
with notifications under way. `QueueInv` puts these in the order of the changes, `LastInv` says that
the last one about an agent says what the group is, `StoreInv` that the cache is right about the
agents none is about. What a command has fetched is right unless a change since is written or
under way (`ListInv`, `RoleInv`, `LeftInv`), and each save follows its fetch (`Paired`).

The argument for `IdentityStore`: `Inv` is `TypeOK`, the shape of each command's locals at each
step, and, while no index was overwritten unread, `Clean`. That relates store and commands:
what a command has generated is nobody else's (`Distinct`), what its steps to come will
find (`DidInv`, `ReplaceInv`, `RecoverInv`, `RollbackInv`), which directories may be incomplete
(`DirsInv`, `Complete`), and who has the keys and rows in hand. The actions fall into four groups by what
they change (`QuietStep`, `IndexStep`, `StoreStep`, `FilesStep`), each with one lemma that frames
the other commands (`Others`).

The argument for `RuntimeControl`: what matters is which steps a command has still to do, and a list of steps is known by
which step may follow which (`After`, `Linked`; `Follows` and `Joined` say that taking a step off and
putting steps in its place keep that). `CommandInv` then says what holds of a command at its next step: a
host-notify command that is past the stop of the listener has left none with an older configuration
(`NotifyInv`), and a listener that starts later reads `config.yaml` later; one that waits for a listener
to be ready found none when its boot id was written, so only a later one can have it (`ReadyInv`); a setup
past the stop of the bridge left none with an older secret (`BridgeInv`). `ForceInv` is the converse: what
the listener lacks of `config.yaml`, a command with the stop still before it has written. `Frame` collects
what a step may do to the variables the other commands speak of (`KeptDoes`, `KeptIdle`), so that each of the
actions is looked at for its own command only.

The argument for `LocalStore`: `HandleNamesCurrent` says nothing of old owners' contacts after a
rebinding moved rows beside others, so `Inv` adds what holds at every stage: a contact with a handle
has a binding of it under some owner (`NamesMet`), a message is from its sender (`FromSenders`), and
until a rebinding, what a row says of the person names its owner (`NameOwners`). The merge is a
recursive function over the old owners. `Induction`, on a set of numbers, follows from the
well-foundedness of the library, and with it `MergeTurns` and `OwnersMerged` say once for all tables:
what is true of the new owner's rows and of normalized rows, and kept by each join, is true of each
merged row, and no key is lost (`KeysMerged`, `Gathers`). The turns of `normalizeRecoveredCurrentHandles` are a
recursion over an order of the handles: the binding seen last is unique (`OneLastSeen`), a turn
settles its handle (`Turn`) and no later turn unsettles it (`Turns`), so that after all of them each
handle has its one contact, whatever the order. `Upserts`, `Backfills` and `Rebinds` are the other
writers of handles; `CommitHandsOver` and `CommitEmpties` are the action property.

Only model-checked: the liveness properties (`UpgradeCompletes`, `Reconnects`, `CallersReturn`,
`CancelledEnds`, `CallsReturn`, `LossIsNoticed`, `TextsArrive`, `FirstIsAcked`, `BacklogFlushed`),
since the installed backends of TLAPS do not treat fairness and ENABLED. Every invariant, action
property and refinement a passing run checks is a theorem.

## 5. Not modelled, and why

Message contents, formats and texts: no property depends on them. Timing beyond the order
of events: a timeout may fire whenever it is pending. The encryption itself and the
remote services: external, reduced to the answers the code distinguishes, including
answers that get lost. Torn writes of single files: most files are replaced by rename; the others
(key files, pid, boot id) are written whole as far as the models go.

Not modelled, although it keeps state: the contents of `listener.status.json`, which several
goroutines write from copies taken earlier (`RuntimeControl` has the file, not the list of
sessions in it); pid files; the route registry of OpenClaw, one more file that is read,
changed and replaced; the version cache of the update check; the publication and rotation of
prekeys and the download of attachments, one request each; the details of the import from
the Python version beyond which rows are imported (its files are read only). Mail, site and
content, the list commands, the command line, output, docs, doctor and tracing ask, parse or
print and decide nothing by state of theirs.

`told` of `SecureInbox`, `torn`, `stranded`, `hist`, `rev` and the like are histories:
bookkeeping for the properties that no variable of the code corresponds to.

## 6. What is left

1. Abstract specifications: a session as absent, down, up or gone, implemented by
   `ListenerSessions` and used in its place to compose `WSClient` and `SecureInbox` with it.
2. The status file of the listener and the prekeys, as modules of their own.
