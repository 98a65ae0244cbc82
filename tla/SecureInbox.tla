---------------------------- MODULE SecureInbox ----------------------------
(***************************************************************************)
(* The encrypted messages one peer sends to one identity, and everyone who   *)
(* processes them: the push handler and the inbox poll of the listener       *)
(* (internal/runtime/listener/server.go) and commands that read the inbox    *)
(* (internal/message).  They share the session files of the ratchet, which   *)
(* decrypt a message once, and the row of the message in the database.       *)
(*                                                                          *)
(* The peer opens the session with First; it sends the rest when its session *)
(* is confirmed by our ack.  Some messages have no text for the user, but a  *)
(* secure-init or secure-ack payload.                                        *)
(***************************************************************************)
EXTENDS Naturals, FiniteSets

CONSTANTS
  Messages, First,
  MaxControls, \* bound on messages that are not texts
  Commands,    \* processes that read the inbox
  Push, Poll,  \* the two goroutines of the listener
  NoRow, NoMessage,
  MaxCommands, \* bound on commands run
  MaxFaults    \* bound on restarts, failures and lost acks

Handlers == {Push, Poll}
Actors == Handlers \union Commands

ASSUME InboxConstants ==
  /\ First \in Messages /\ NoMessage \notin Messages
  /\ Push # Poll /\ Handlers \intersect Commands = {}
  /\ IsFiniteSet(Messages) /\ MaxControls \in Nat /\ MaxCommands \in Nat /\ MaxFaults \in Nat

Row == [content_type : {"wire", "plain"}, content : {"wire", "plain"},
        metadata : {"wire", "plain"}, is_e2ee : BOOLEAN, is_read : BOOLEAN]

ASSUME NoRowIsNoRow == NoRow \notin Row

VARIABLES
  controls, \* messages that are not texts, by the peer's choice
  sent,     \* messages the service accepted
  unread,   \* those it has not marked as read
  pushes,   \* notifications the push handler has not taken yet
  spent,    \* messages whose keys the ratchet has used up
  acked,    \* our ack of First reached the service
  row,      \* the messages table
  told,     \* what the host was told first of a message
  at,       \* where each actor is
  message,  \* the notification a handler is at
  todo,     \* messages an actor has listed and not looked at yet
  listed,   \* the messages of a command's answer, and those in it that were read
  held,     \* messages an actor has decrypted
  commands, faults,
  torn,     \* history: text or ack lost between decryption and the next step
  stranded  \* history: could not be decrypted for a moment, and is stored like that

service == <<controls, sent, unread, pushes>>
locals == <<at, message, todo, listed, held>>
bounds == <<commands, faults>>
history == <<torn, stranded>>
vars == <<service, spent, acked, row, told, locals, bounds, history>>

Init ==
  /\ controls \in {k \in SUBSET Messages : Cardinality(k) <= MaxControls}
  /\ sent = {} /\ unread = {} /\ pushes = {}
  /\ spent = {} /\ acked = FALSE
  /\ row = [m \in Messages |-> NoRow]
  /\ told = [m \in Messages |-> "nothing"]
  /\ at = [a \in Actors |-> "idle"]
  /\ message = [h \in Handlers |-> NoMessage]
  /\ todo = [a \in Actors |-> {}]
  /\ listed = [c \in Commands |-> [all |-> {}, read |-> {}]]
  /\ held = [a \in Actors |-> {}]
  /\ commands = 0 /\ faults = 0 /\ torn = {} /\ stranded = {}

-----------------------------------------------------------------------------
(* storeMessageSQL: INSERT ... ON CONFLICT DO UPDATE. *)

(* A mutant: metadata has no case of its own. *)
UpsertCoalesce(old, new) ==
  IF old = NoRow THEN new
  ELSE LET keep == new.content_type = "wire" /\ old.content_type = "plain"
       IN [content_type |-> IF keep THEN old.content_type ELSE new.content_type,
           content |-> IF keep THEN old.content ELSE new.content,
           metadata |-> new.metadata,
           is_e2ee |-> new.is_e2ee \/ old.is_e2ee,
           is_read |-> new.is_read \/ old.is_read]

(* A mutant: DO NOTHING. *)
UpsertNothing(old, new) == IF old = NoRow THEN new ELSE old

(* A mutant: the flags of the last writer win. *)
UpsertFlags(old, new) ==
  IF old = NoRow THEN new
  ELSE LET keep == new.content_type = "wire" /\ old.content_type = "plain"
       IN [content_type |-> IF keep THEN old.content_type ELSE new.content_type,
           content |-> IF keep THEN old.content ELSE new.content,
           metadata |-> IF keep THEN old.metadata ELSE new.metadata,
           is_e2ee |-> new.is_e2ee \/ old.is_e2ee,
           is_read |-> new.is_read]

Upsert(old, new) ==
  IF old = NoRow THEN new
  ELSE LET keep == new.content_type = "wire" /\ old.content_type = "plain"
       IN [content_type |-> IF keep THEN old.content_type ELSE new.content_type,
           content |-> IF keep THEN old.content ELSE new.content,
           metadata |-> IF keep THEN old.metadata ELSE new.metadata,
           is_e2ee |-> new.is_e2ee \/ old.is_e2ee,
           is_read |-> new.is_read \/ old.is_read]

Record(kind, secure, read) ==
  [content_type |-> kind, content |-> kind, metadata |-> kind,
   is_e2ee |-> secure, is_read |-> read]

IsPlain(m) == row[m] # NoRow /\ row[m].content_type = "plain"

(* ProcessIncoming of the SDK, by its results: a message decrypts once, in a *)
(* session that First opened.                                                *)
Decrypts(m) == m \notin spent /\ (m = First \/ First \in spent)

(* A message that would decrypt may fail too, for the moment: the DID         *)
(* document of its sender cannot be had, or a file cannot be read.            *)
FailsToDecrypt(m) ==
  \/ ~Decrypts(m) /\ UNCHANGED <<faults, stranded>>
  \/ /\ Decrypts(m) /\ faults < MaxFaults
     /\ faults' = faults + 1 /\ stranded' = stranded \union {m}

-----------------------------------------------------------------------------
(* The peer and the service. *)

(* The service takes a message and pushes it, unless the listener is not     *)
(* connected or its channel is full.                                         *)
Send(m) ==
  /\ m \notin sent /\ (m # First => acked)
  /\ sent' = sent \union {m} /\ unread' = unread \union {m}
  /\ pushes' \in {pushes, pushes \union {m}}
  /\ UNCHANGED <<controls, spent, acked, row, told, locals, bounds, history>>

-----------------------------------------------------------------------------
(* handleNotification, run by the push handler and by the poll. *)

TakePush(m) ==
  /\ at[Push] = "idle" /\ m \in pushes
  /\ pushes' = pushes \ {m}
  /\ message' = [message EXCEPT ![Push] = m]
  /\ at' = [at EXCEPT ![Push] = "decrypting"]
  /\ UNCHANGED <<controls, sent, unread, spent, acked, row, told, todo, listed, held, bounds, history>>

(* syncUnreadSecureDirectInbox: the unread messages are listed. *)
PollUnread ==
  /\ at[Poll] = "idle" /\ unread # {}
  /\ todo' = [todo EXCEPT ![Poll] = unread]
  /\ at' = [at EXCEPT ![Poll] = "scanning"]
  /\ UNCHANGED <<service, spent, acked, row, told, message, listed, held, bounds, history>>

(* A mutant: a message that is there ends the scan. *)
PollBreaks(m) ==
  /\ at[Poll] = "scanning" /\ m \in todo[Poll]
  /\ IF row[m] = NoRow
     THEN /\ message' = [message EXCEPT ![Poll] = m]
          /\ at' = [at EXCEPT ![Poll] = "decrypting"]
          /\ todo' = [todo EXCEPT ![Poll] = @ \ {m}]
     ELSE todo' = [todo EXCEPT ![Poll] = {}] /\ UNCHANGED <<at, message>>
  /\ UNCHANGED <<service, spent, acked, row, told, listed, held, bounds, history>>

(* GetMessageByID: a message that has a row is skipped; any other is handled *)
(* like a notification.                                                      *)
PollNext(m) ==
  /\ at[Poll] = "scanning" /\ m \in todo[Poll]
  /\ todo' = [todo EXCEPT ![Poll] = @ \ {m}]
  /\ IF row[m] = NoRow
     THEN /\ message' = [message EXCEPT ![Poll] = m]
          /\ at' = [at EXCEPT ![Poll] = "decrypting"]
     ELSE UNCHANGED <<at, message>>
  /\ UNCHANGED <<service, spent, acked, row, told, listed, held, bounds, history>>

PollEnds ==
  /\ at[Poll] = "scanning" /\ todo[Poll] = {}
  /\ at' = [at EXCEPT ![Poll] = "idle"]
  /\ UNCHANGED <<service, spent, acked, row, told, message, todo, listed, held, bounds,
                 history>>

(* The handler is done with a message. *)
Finish(h) ==
  /\ at' = [at EXCEPT ![h] = IF h = Poll THEN "scanning" ELSE "idle"]
  /\ message' = [message EXCEPT ![h] = NoMessage]
  /\ held' = [held EXCEPT ![h] = {}]

(* normalizeDirectSecureNotification: when the message does not decrypt, the *)
(* notification is handled as it came.  A decrypted control message is not   *)
(* direct.incoming any more, and is neither stored nor told to the host.     *)
Decrypt(h) ==
  /\ at[h] = "decrypting"
  /\ LET m == message[h] IN
     \/ /\ Decrypts(m) /\ spent' = spent \union {m}
        /\ IF m \in controls /\ m # First THEN Finish(h)
           ELSE /\ at' = [at EXCEPT ![h] = IF m = First THEN "acking" ELSE "storing"]
                /\ held' = [held EXCEPT ![h] = {m}]
                /\ UNCHANGED message
        /\ UNCHANGED <<faults, stranded>>
     \/ /\ FailsToDecrypt(m)
        /\ at' = [at EXCEPT ![h] = "storing"]
        /\ UNCHANGED <<spent, message, held>>
  /\ UNCHANGED <<service, acked, row, told, todo, listed, commands, torn>>

(* The message that opened the session is acknowledged; a failure is not     *)
(* retried.                                                                  *)
Acknowledge ==
  \/ acked' = TRUE /\ UNCHANGED <<faults, torn>>
  \/ /\ faults < MaxFaults /\ faults' = faults + 1
     /\ torn' = torn \union {First} /\ UNCHANGED acked

Ack(h) ==
  /\ at[h] = "acking"
  /\ Acknowledge
  /\ IF First \in controls THEN Finish(h)
     ELSE at' = [at EXCEPT ![h] = "storing"] /\ UNCHANGED <<message, held>>
  /\ UNCHANGED <<service, spent, row, told, todo, listed, commands, stranded>>

(* StoreMessage.  Its error is ignored: the context of the poll may have     *)
(* expired since the decryption, or the database be busy.                    *)
Store(h) ==
  /\ at[h] = "storing"
  /\ LET m == message[h]
         new == Record(IF m \in held[h] THEN "plain" ELSE "wire", TRUE, FALSE)
     IN \/ row' = [row EXCEPT ![m] = Upsert(@, new)] /\ UNCHANGED <<faults, torn>>
        \/ /\ faults < MaxFaults /\ faults' = faults + 1
           /\ torn' = torn \union held[h] /\ UNCHANGED row
  /\ at' = [at EXCEPT ![h] = "notifying"]
  /\ UNCHANGED <<service, spent, acked, told, message, todo, listed, held, commands,
                 stranded>>

(* dispatchHostNotification.  The event has the id of the message, and hosts *)
(* ignore further events with that id.                                       *)
Notify(h) ==
  /\ at[h] = "notifying"
  /\ told' = [told EXCEPT ![message[h]] =
                IF @ # "nothing" THEN @ ELSE IF held[h] = {} THEN "wire" ELSE "text"]
  /\ Finish(h)
  /\ UNCHANGED <<service, spent, acked, row, todo, listed, bounds, history>>

(* The listener ends and is started again. *)
Restart ==
  /\ faults < MaxFaults /\ faults' = faults + 1
  /\ torn' = torn \union held[Push] \union held[Poll]
  /\ at' = [a \in Actors |-> IF a \in Handlers THEN "idle" ELSE at[a]]
  /\ message' = [h \in Handlers |-> NoMessage]
  /\ todo' = [a \in Actors |-> IF a \in Handlers THEN {} ELSE todo[a]]
  /\ held' = [a \in Actors |-> IF a \in Handlers THEN {} ELSE held[a]]
  /\ pushes' = {}
  /\ UNCHANGED <<controls, sent, unread, spent, acked, row, told, listed, commands, stranded>>

-----------------------------------------------------------------------------
(* msg inbox and msg history. *)

(* A mutant: what is listed counts as read. *)
FetchMarks(c) ==
  /\ at[c] = "idle" /\ commands < MaxCommands /\ commands' = commands + 1
  /\ todo' = [todo EXCEPT ![c] = unread]
  /\ listed' = [listed EXCEPT ![c] = [all |-> unread, read |-> {}]]
  /\ at' = [at EXCEPT ![c] = "reading"]
  /\ unread' = {}
  /\ UNCHANGED <<controls, sent, pushes, spent, acked, row, told, message, held, faults, history>>

(* The inbox lists what is unread, the history everything. *)
Fetch(c) ==
  /\ at[c] = "idle" /\ commands < MaxCommands /\ commands' = commands + 1
  /\ \E all \in {unread, sent} :
       /\ todo' = [todo EXCEPT ![c] = all]
       /\ listed' = [listed EXCEPT ![c] = [all |-> all, read |-> all \ unread]]
  /\ at' = [at EXCEPT ![c] = "reading"]
  /\ UNCHANGED <<service, spent, acked, row, told, message, held, faults, history>>

(* maybeDecryptDirectE2EEMessages, in the order of server_seq. *)
DecryptNext(c, m) ==
  /\ at[c] = "reading" /\ m \in todo[c] /\ (First \in todo[c] => m = First)
  /\ todo' = [todo EXCEPT ![c] = @ \ {m}]
  /\ \/ /\ Decrypts(m) /\ spent' = spent \union {m}
        /\ held' = [held EXCEPT ![c] = @ \union {m}]
        /\ at' = [at EXCEPT ![c] = IF m = First THEN "acking" ELSE "reading"]
        /\ UNCHANGED <<faults, stranded>>
     \/ FailsToDecrypt(m) /\ UNCHANGED <<spent, held, at>>
  /\ UNCHANGED <<service, acked, row, told, message, listed, commands, torn>>

(* A mutant: polling does not acknowledge. *)
SkipAck(c) ==
  /\ at[c] = "acking"
  /\ at' = [at EXCEPT ![c] = "reading"]
  /\ UNCHANGED <<service, spent, acked, row, told, message, todo, listed, held, bounds,
                 history>>

(* maybeAckPollingDirectInit. *)
AckPolling(c) ==
  /\ at[c] = "acking"
  /\ Acknowledge
  /\ at' = [at EXCEPT ![c] = "reading"]
  /\ UNCHANGED <<service, spent, row, told, message, todo, listed, held, commands,
                 stranded>>

(* persistInboxMessages, persistHistoryMessages: one transaction, whose      *)
(* error is ignored.  is_e2ee is set only if the SDK gave a result.  What    *)
(* was decrypted and is not a control message is the answer of the command.  *)
StoreBatch(c) ==
  /\ at[c] = "reading" /\ todo[c] = {}
  /\ \/ /\ \E processed \in SUBSET listed[c].all :
             /\ held[c] \subseteq processed
             /\ row' = [m \in Messages |->
                  IF m \notin listed[c].all \ (controls \intersect held[c]) THEN row[m]
                  ELSE Upsert(row[m], Record(IF m \in held[c] THEN "plain" ELSE "wire",
                                             m \in processed, m \in listed[c].read))]
        /\ UNCHANGED <<faults, torn>>
     \/ /\ faults < MaxFaults /\ faults' = faults + 1
        /\ torn' = torn \union held[c] /\ UNCHANGED row
  /\ at' = [at EXCEPT ![c] = "shown"]
  /\ todo' = [todo EXCEPT ![c] = held[c] \ controls]
  /\ listed' = [listed EXCEPT ![c] = [all |-> {}, read |-> {}]]
  /\ held' = [held EXCEPT ![c] = {}]
  /\ UNCHANGED <<service, spent, acked, told, message, commands, stranded>>

(* allInbox in websocket mode shows the rows of the database. *)
ReadCache(c) ==
  /\ at[c] = "idle" /\ commands < MaxCommands /\ commands' = commands + 1
  /\ todo' = [todo EXCEPT ![c] = {m \in Messages : row[m] # NoRow}]
  /\ at' = [at EXCEPT ![c] = "shown"]
  /\ UNCHANGED <<service, spent, acked, row, told, message, listed, held, faults, history>>

Forget(c) ==
  /\ at' = [at EXCEPT ![c] = "idle"]
  /\ todo' = [todo EXCEPT ![c] = {}]
  /\ listed' = [listed EXCEPT ![c] = [all |-> {}, read |-> {}]]
  /\ held' = [held EXCEPT ![c] = {}]

(* Without --mark-read the command ends here. *)
Return(c) ==
  /\ at[c] = "shown"
  /\ Forget(c)
  /\ UNCHANGED <<service, spent, acked, row, told, message, bounds, history>>

(* MarkRead of what is shown: first at the service ...                       *)
MarkRemote(c) ==
  /\ at[c] = "shown"
  /\ unread' = unread \ todo[c]
  /\ at' = [at EXCEPT ![c] = "marking"]
  /\ UNCHANGED <<controls, sent, pushes, spent, acked, row, told, message, todo, listed, held,
                 bounds, history>>

(* ... then the rows. *)
MarkLocal(c) ==
  /\ at[c] = "marking"
  /\ row' = [m \in Messages |->
               IF m \in todo[c] /\ row[m] # NoRow THEN [row[m] EXCEPT !.is_read = TRUE]
               ELSE row[m]]
  /\ Forget(c)
  /\ UNCHANGED <<service, spent, acked, told, message, bounds, history>>

(* The command is interrupted. *)
Interrupt(c) ==
  /\ at[c] # "idle" /\ faults < MaxFaults /\ faults' = faults + 1
  /\ torn' = torn \union held[c]
  /\ Forget(c)
  /\ UNCHANGED <<service, spent, acked, row, told, message, commands, stranded>>

-----------------------------------------------------------------------------
HandlerNext(h) ==
  \/ h = Push /\ \E m \in Messages : TakePush(m)
  \/ h = Poll /\ (PollUnread \/ PollEnds \/ \E m \in Messages : PollNext(m))
  \/ Decrypt(h) \/ Ack(h) \/ Store(h) \/ Notify(h)

CommandNext(c) ==
  \/ \E m \in Messages : DecryptNext(c, m)
  \/ AckPolling(c) \/ StoreBatch(c) \/ MarkRemote(c) \/ MarkLocal(c) \/ Return(c)

Next ==
  \/ \E m \in Messages : Send(m)
  \/ \E h \in Handlers : HandlerNext(h)
  \/ Restart
  \/ \E c \in Commands : CommandNext(c) \/ Fetch(c) \/ ReadCache(c) \/ Interrupt(c)

Spec == Init /\ [][Next]_vars

(***************************************************************************)
(* Fairness: the goroutines of the listener run, its ticker included, and a  *)
(* command that was started goes on.  Nobody has to send or to run commands. *)
(***************************************************************************)
FairSpec ==
  /\ Spec
  /\ \A h \in Handlers : WF_vars(HandlerNext(h))
  /\ \A c \in Commands : WF_vars(CommandNext(c))

-----------------------------------------------------------------------------
(* Properties. *)

Texts == Messages \ controls

(* Types, and a handler has a message exactly while it is at one.             *)
TypeOK ==
  /\ controls \subseteq Messages
  /\ sent \subseteq Messages /\ unread \subseteq sent /\ pushes \subseteq sent
  /\ spent \subseteq Messages /\ acked \in BOOLEAN
  /\ row \in [Messages -> Row \union {NoRow}]
  /\ told \in [Messages -> {"nothing", "wire", "text"}]
  /\ at \in [Actors -> {"idle", "scanning", "decrypting", "acking", "storing", "notifying",
                       "reading", "shown", "marking"}]
  /\ message \in [Handlers -> Messages \union {NoMessage}]
  /\ \A h \in Handlers : message[h] = NoMessage <=> at[h] \in {"idle", "scanning"}
  /\ todo \in [Actors -> SUBSET Messages] /\ held \in [Actors -> SUBSET Messages]
  /\ listed \in [Commands -> [all : SUBSET Messages, read : SUBSET Messages]]
  /\ commands \in 0..MaxCommands /\ faults \in 0..MaxFaults
  /\ torn \subseteq Messages /\ stranded \subseteq Messages

(* A row is of one piece, whoever wrote it and in whatever order: type,      *)
(* content and metadata are all of the ciphertext or all of the plaintext,   *)
(* and a plaintext that was encrypted is marked so.                          *)
RowIsWhole ==
  \A m \in Messages : row[m] # NoRow =>
    /\ row[m].content = row[m].content_type /\ row[m].metadata = row[m].content_type
    /\ row[m].content_type = "plain" => row[m].is_e2ee

(* Once a row has the plaintext it keeps it, and once it is read it stays    *)
(* read, although others store the same message as ciphertext and unread     *)
(* afterwards.                                                               *)
RowsOnlyImprove ==
  [][\A m \in Messages : row[m] # NoRow =>
       /\ row'[m] # NoRow
       /\ row[m].content_type = "plain" => row'[m].content = "plain"
       /\ row[m].is_read => row'[m].is_read]_vars

(* Someone has decrypted m and not stored it yet. *)
InFlight(m) ==
  \E a \in Actors : m \in held[a] /\ at[a] \in {"acking", "storing", "reading"}

(* A text is decrypted once; whichever actor did it, the plaintext is in the *)
(* database or about to be, unless that actor was stopped or its statement   *)
(* failed.                                                                   *)
DecryptedKept ==
  \A m \in Texts \intersect spent : IsPlain(m) \/ InFlight(m) \/ m \in torn

(* A text leaves the unread messages, the only ones the poll looks at, not   *)
(* before it is stored or about to be.  The exception is one that is stored  *)
(* as ciphertext: the poll does not look at it again, and the unified inbox  *)
(* shows its row, and marks it, as it is.                                    *)
UnreadUntilStored ==
  \A m \in Texts \intersect (sent \ unread) :
    IsPlain(m) \/ InFlight(m) \/ m \in torn \union stranded

(* Every text can eventually be read in the database, pushed or not, without *)
(* a command's help and whatever commands do, with the same exceptions.      *)
TextsArrive ==
  \A m \in Messages : (m \in sent /\ m \in Texts) ~> (IsPlain(m) \/ m \in torn \union stranded)

(* The peer gets its ack, on which the rest of the session waits, from       *)
(* whoever decrypts the first message.                                       *)
FirstIsAcked == First \in spent ~> (acked \/ First \in torn)

=============================================================================
