----------------------------- MODULE SecureOutbox -----------------------------
(***************************************************************************)
(* The outbox of secure direct messages (internal/message/secure*.go over   *)
(* the e2ee_outbox table of internal/store/dao.go), for one owner and one   *)
(* peer.  `msg send --secure on' processes queue what they cannot send      *)
(* while the session with the peer awaits confirmation.  Whoever processes  *)
(* the confirmation (a session loop or a polling goroutine of the listener, *)
(* or a CLI command reading the inbox) flushes the queue, as does           *)
(* `msg secure retry'; `msg secure drop' and `msg secure repair' edit it.   *)
(* All of them share the table and the session file without a lock: each    *)
(* SQL statement and each file operation is one step.                       *)
(***************************************************************************)
EXTENDS Naturals, FiniteSets

CONSTANTS
  Messages,      \* messages, each sent by a CLI process of its own
  Unsupported,   \* those of a type the flush does not know (neither text nor json)
  Workers,       \* goroutines and processes that confirm, flush, retry or repair
  NoMessage,
  MaxConfirms,   \* bound on confirmations that arrive
  MaxCommands,   \* bound on retry, drop and repair commands
  MaxFaults      \* bound on failed calls, failed statements and crashes

ASSUME OutboxConstants ==
  /\ Unsupported \subseteq Messages
  /\ NoMessage \notin Messages
  /\ {MaxConfirms, MaxCommands, MaxFaults} \subseteq Nat

VARIABLES
  session,    \* the session file for the peer: "none", "pending", "confirmed"
  row,        \* local_status of the outbox row of a message, or "absent"
  atService,  \* messages the message service has accepted (external)
  sender,     \* where the process that sends a message is
  promised,   \* messages whose send command reported success, sent or queued
  at,         \* where each worker is
  todo,       \* rows a worker has listed and not yet handled
  cur,        \* row a worker is about to update
  dropped,    \* history: messages the user dropped and did not retry since
  abandoned,  \* history: listed rows a flush could not update or did not get to
  confirms, commands, faults   \* history: bounds the model

work == <<at, todo, cur>>
bounds == <<confirms, commands, faults>>
history == <<dropped, abandoned>>
outboxVars == <<session, row, atService, sender, promised, work, history, bounds>>

OutboxInit ==
  /\ session = "none"
  /\ row = [m \in Messages |-> "absent"]
  /\ atService = {} /\ promised = {} /\ dropped = {} /\ abandoned = {}
  /\ sender = [m \in Messages |-> "new"]
  /\ at = [w \in Workers |-> "idle"]
  /\ todo = [w \in Workers |-> {}]
  /\ cur = [w \in Workers |-> NoMessage]
  /\ confirms = 0 /\ commands = 0 /\ faults = 0

Rows(status) == {m \in Messages : row[m] = status}

Fault == faults < MaxFaults /\ faults' = faults + 1
OutboxCommand == commands < MaxCommands /\ commands' = commands + 1

(* MessageServiceE2EEClient.SendText: the first message of a session carries *)
(* the init and leaves the session pending; a call may fail, before or after *)
(* the service has accepted the message.                                     *)
SendText(m) ==
  /\ session # "pending"
  /\ atService' = atService \union {m}
  /\ session' = IF session = "none" THEN "pending" ELSE session
SendTextFails(m) ==
  /\ Fault
  /\ atService' \in {atService, atService \union {m}}
  /\ session' = session

-----------------------------------------------------------------------------
(* msg send --secure on: sendSecureDirect *)

SendSecureDirect(m) ==
  /\ sender[m] = "new"
  /\ SendText(m)
  /\ promised' = promised \union {m}
  /\ sender' = [sender EXCEPT ![m] = "done"]
  /\ UNCHANGED <<row, work, history, bounds>>

SendSecureDirectFails(m) ==
  /\ sender[m] = "new"
  /\ SendTextFails(m)
  /\ sender' = [sender EXCEPT ![m] = "done"]
  /\ UNCHANGED <<row, promised, work, history, confirms, commands>>

(* SendText refuses: the session awaits confirmation. *)
RefuseSecure(m) ==
  /\ sender[m] = "new" /\ session = "pending"
  /\ sender' = [sender EXCEPT ![m] = "refused"]
  /\ UNCHANGED <<session, row, atService, promised, work, history, bounds>>

(* queueSecureOutboxRecord, in a transaction of its own later on. *)
QueueRow(m) ==
  /\ sender[m] = "refused"
  /\ row' = [row EXCEPT ![m] = "queued"]
  /\ promised' = promised \union {m}
  /\ sender' = [sender EXCEPT ![m] = "done"]
  /\ UNCHANGED <<session, atService, work, history, bounds>>

(* The command fails or is interrupted before the row is written. *)
QueueRowFails(m) ==
  /\ sender[m] = "refused"
  /\ Fault
  /\ sender' = [sender EXCEPT ![m] = "done"]
  /\ UNCHANGED <<session, row, atService, promised, work, history, confirms, commands>>

-----------------------------------------------------------------------------
(* FlushQueuedSecureOutbox *)

Goto(w, there) == at' = [at EXCEPT ![w] = there]

(* ProcessIncoming handles the ack of a pending session, or an init of the   *)
(* peer, which replaces whatever session there is; a flush follows.          *)
Confirm(w) ==
  /\ at[w] = "idle" /\ confirms < MaxConfirms
  /\ session' = "confirmed"
  /\ Goto(w, "listing")
  /\ confirms' = confirms + 1
  /\ UNCHANGED <<row, atService, sender, promised, todo, cur, history, commands, faults>>

List(w) ==
  /\ at[w] = "listing"
  /\ todo' = [todo EXCEPT ![w] = Rows("queued")]
  /\ Goto(w, "flushing")
  /\ UNCHANGED <<session, row, atService, sender, promised, cur, history, bounds>>

Handle(w, m, there) ==
  /\ at[w] = "flushing" /\ m \in todo[w]
  /\ cur' = [cur EXCEPT ![w] = m]
  /\ Goto(w, there)
  /\ UNCHANGED <<row, sender, promised, todo, history>>

SendRow(w, m) ==
  /\ m \notin Unsupported
  /\ SendText(m)
  /\ Handle(w, m, "sent")
  /\ UNCHANGED bounds

(* SendText refuses or fails, or the type of the row is not one of the two.  *)
RejectRow(w, m) ==
  /\ m \in Unsupported \/ session = "pending"
  /\ Handle(w, m, "rejected")
  /\ UNCHANGED <<session, atService, bounds>>

(* Mutant: the error of the call is ignored. *)
SendRowUnchecked(w, m) ==
  /\ m \notin Unsupported
  /\ SendTextFails(m)
  /\ Handle(w, m, "sent")
  /\ UNCHANGED <<confirms, commands>>

SendRowFails(w, m) ==
  /\ m \notin Unsupported
  /\ SendTextFails(m)
  /\ Handle(w, m, "rejected")
  /\ UNCHANGED <<confirms, commands>>

(* On to the next row, whatever became of this one. *)
RowDone(w) ==
  /\ todo' = [todo EXCEPT ![w] = @ \ {cur[w]}]
  /\ cur' = [cur EXCEPT ![w] = NoMessage]
  /\ Goto(w, "flushing")

(* MarkE2EEOutboxSent, then StoreMessage. *)
MarkSent(w) ==
  /\ at[w] = "sent"
  /\ row' = [row EXCEPT ![cur[w]] = "sent"]
  /\ RowDone(w)
  /\ UNCHANGED <<session, atService, sender, promised, history, bounds>>

(* Mutant: the first failure ends the flush (break instead of continue). *)
MarkFailedAndStop(w) ==
  /\ at[w] = "rejected"
  /\ row' = [row EXCEPT ![cur[w]] = "failed"]
  /\ todo' = [todo EXCEPT ![w] = {}]
  /\ cur' = [cur EXCEPT ![w] = NoMessage]
  /\ Goto(w, "flushing")
  /\ UNCHANGED <<session, atService, sender, promised, history, bounds>>

(* SetE2EEOutboxFailureByID. *)
MarkFailed(w) ==
  /\ at[w] = "rejected"
  /\ row' = [row EXCEPT ![cur[w]] = "failed"]
  /\ RowDone(w)
  /\ UNCHANGED <<session, atService, sender, promised, history, bounds>>

(* The statement fails; the row keeps its status. *)
MarkFails(w) ==
  /\ at[w] \in {"sent", "rejected"}
  /\ Fault
  /\ RowDone(w)
  /\ abandoned' = abandoned \union {cur[w]}
  /\ UNCHANGED <<session, row, atService, sender, promised, dropped, confirms, commands>>

FlushDone(w) ==
  /\ at[w] = "flushing" /\ todo[w] = {}
  /\ Goto(w, "idle")
  /\ UNCHANGED <<session, row, atService, sender, promised, todo, cur, history, bounds>>

-----------------------------------------------------------------------------
(* msg secure retry, drop, repair *)

(* SecureRetry puts the row back in the queue, whatever its status, and      *)
(* flushes.                                                                  *)
SecureRetry(w, m) ==
  /\ at[w] = "idle" /\ row[m] # "absent"
  /\ OutboxCommand
  /\ row' = [row EXCEPT ![m] = "queued"]
  /\ dropped' = dropped \ {m}
  /\ Goto(w, "listing")
  /\ UNCHANGED <<session, atService, sender, promised, todo, cur, abandoned, confirms, faults>>

(* SecureDrop sets the status, whatever it is. *)
SecureDrop(m) ==
  /\ row[m] # "absent"
  /\ OutboxCommand
  /\ row' = [row EXCEPT ![m] = "dropped"]
  /\ dropped' = dropped \union {m}
  /\ UNCHANGED <<session, atService, sender, promised, work, abandoned, confirms, faults>>

(* SecureRepair deletes the session file, lists the failed rows, queues them *)
(* one by one and starts a new session.                                      *)
ResetSession(w) ==
  /\ at[w] = "idle"
  /\ OutboxCommand
  /\ session' = "none"
  /\ Goto(w, "repairing")
  /\ UNCHANGED <<row, atService, sender, promised, todo, cur, history, confirms, faults>>

ListFailed(w) ==
  /\ at[w] = "repairing"
  /\ todo' = [todo EXCEPT ![w] = Rows("failed")]
  /\ Goto(w, "requeueing")
  /\ UNCHANGED <<session, row, atService, sender, promised, cur, history, bounds>>

RequeueFailed(w, m) ==
  /\ at[w] = "requeueing" /\ m \in todo[w]
  /\ row' = [row EXCEPT ![m] = "queued"]
  /\ todo' = [todo EXCEPT ![w] = @ \ {m}]
  /\ UNCHANGED <<session, atService, sender, promised, at, cur, history, bounds>>

(* SecureInit: a session that exists by now is reused, else an init goes out. *)
SecureInit(w) ==
  /\ at[w] = "requeueing" /\ todo[w] = {}
  /\ session' = IF session = "none" THEN "pending" ELSE session
  /\ Goto(w, "idle")
  /\ UNCHANGED <<row, atService, sender, promised, todo, cur, history, bounds>>

(* A command or the listener is interrupted, or a flush or a repair returns  *)
(* early with an error: everything on disk stays as it is.                   *)
Interrupt(w) ==
  /\ at[w] # "idle"
  /\ Fault
  /\ Goto(w, "idle")
  /\ todo' = [todo EXCEPT ![w] = {}]
  /\ cur' = [cur EXCEPT ![w] = NoMessage]
  /\ abandoned' = abandoned \union (IF at[w] = "listing" THEN Rows("queued") ELSE todo[w])
  /\ UNCHANGED <<session, row, atService, sender, promised, dropped, confirms, commands>>

-----------------------------------------------------------------------------
SenderNext(m) ==
  SendSecureDirect(m) \/ SendSecureDirectFails(m) \/ RefuseSecure(m) \/ QueueRow(m) \/ QueueRowFails(m)

FlushNext(w) ==
  \/ List(w) \/ MarkSent(w) \/ MarkFailed(w) \/ MarkFails(w) \/ FlushDone(w)
  \/ \E m \in Messages : SendRow(w, m) \/ RejectRow(w, m) \/ SendRowFails(w, m)

RepairNext(w) ==
  \/ ListFailed(w) \/ SecureInit(w)
  \/ \E m \in Messages : RequeueFailed(w, m)

OutboxNext ==
  \/ \E m \in Messages : SenderNext(m) \/ SecureDrop(m)
  \/ \E w \in Workers :
       \/ Confirm(w) \/ FlushNext(w) \/ RepairNext(w) \/ ResetSession(w) \/ Interrupt(w)
       \/ \E m \in Messages : SecureRetry(w, m)

OutboxSpec == OutboxInit /\ [][OutboxNext]_outboxVars

(***************************************************************************)
(* Fairness: a flush, a repair or a send that has begun goes on.  Nothing   *)
(* obliges the user to send or to give another command, the peer to confirm *)
(* again, or anything to fail.                                              *)
(***************************************************************************)
OutboxFairSpec ==
  /\ OutboxSpec
  /\ \A w \in Workers : WF_outboxVars(FlushNext(w)) /\ WF_outboxVars(RepairNext(w))
  /\ \A m \in Messages : WF_outboxVars(QueueRow(m))

-----------------------------------------------------------------------------
(* Properties. *)

Statuses == {"absent", "queued", "sent", "failed", "dropped"}
Updating == {"sent", "rejected"}

(* Every variable has its type; a worker holds a row exactly while it has a  *)
(* status to write for it, and it is one of those it has listed.             *)
OutboxTypeOK ==
  /\ session \in {"none", "pending", "confirmed"}
  /\ row \in [Messages -> Statuses]
  /\ atService \subseteq Messages /\ promised \subseteq Messages
  /\ dropped \subseteq Messages /\ abandoned \subseteq Messages
  /\ sender \in [Messages -> {"new", "refused", "done"}]
  /\ at \in [Workers -> {"idle", "listing", "flushing", "repairing", "requeueing"} \union Updating]
  /\ todo \in [Workers -> SUBSET Messages]
  /\ cur \in [Workers -> Messages \union {NoMessage}]
  /\ \A w \in Workers :
       IF at[w] \in Updating THEN cur[w] \in todo[w] ELSE cur[w] = NoMessage
  /\ confirms \in 0..MaxConfirms /\ commands \in 0..MaxCommands /\ faults \in 0..MaxFaults

(* A message whose send command reported success has reached the service, or *)
(* is still in the outbox where a flush or a retry finds it, or was dropped  *)
(* by the user: however flushes, repairs, drops and interruptions overlap,   *)
(* none of the unconditional updates makes it vanish.                        *)
NoSilentLoss ==
  \A m \in promised : m \in atService \/ row[m] \in {"queued", "failed"} \/ m \in dropped

(* A flush deals with every row that was queued when it began, also with     *)
(* those behind a row that fails, unless it is interrupted or the database   *)
(* refuses.                                                                  *)
BacklogFlushed ==
  \A w \in Workers, m \in Messages :
    (at[w] = "listing" /\ row[m] = "queued") ~> (row[m] # "queued" \/ m \in abandoned)

=============================================================================
