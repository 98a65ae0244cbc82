-------------------------- MODULE ListenerSessions --------------------------
(***************************************************************************)
(* The sessions of the listener supervisor (internal/runtime/listener/     *)
(* server.go).  The listener keeps one session per identity; a goroutine    *)
(* per session (its loop) dials the message service, consumes               *)
(* notifications and reconnects for ever.  Sessions are created on demand   *)
(* by the supervisor's own goroutine (startKnownSessions, then              *)
(* watchNewIdentities every three seconds) and by the goroutines that serve *)
(* bridge requests of CLI commands; the creator waits up to 15 seconds for  *)
(* the outcome of the first dial.  Stopping the service cancels every       *)
(* session.  A session also hands secure acks to other local identities,    *)
(* which are queued until their session has connected.                      *)
(***************************************************************************)
EXTENDS Naturals, FiniteSets

CONSTANTS
  Identities,   \* identity names
  Known,        \* names in the identity index when the listener starts
  Requests,     \* goroutines that serve bridge requests, one at a time each
  Main,         \* the goroutine of startKnownSessions and watchNewIdentities
  NoIdentity,   \* no target
  Acks,         \* local secure acks produced during the run
  recipient,    \* [Acks -> Identities]
  MaxFailures   \* bound on failed dials and connections lost to the network

Callers == Requests \union {Main}

ASSUME SessionConstants ==
  /\ Known \subseteq Identities
  /\ Main \notin Requests
  /\ NoIdentity \notin Identities
  /\ recipient \in [Acks -> Identities]
  /\ MaxFailures \in Nat

VARIABLES
  index,      \* names in index.json; CLI commands add to it while the listener runs
  sessions,   \* keys of Supervisor.sessions
  loops,      \* number of runSessionLoop goroutines started for an identity
  loop,       \* where the loop of an identity is
  dials,      \* successful dials of an identity; the n-th one opened socket n
  open,       \* sockets of an identity that are open
  client,     \* session.client: the socket of the client, 0 when nil
  connected,  \* session.connected
  record,     \* session.record is set
  initResult, \* session.initResult: "unset", "ok" or "error"
  cancelled,  \* sessions whose context is cancelled
  at,         \* where each caller of ensureSession is
  target,     \* the identity a caller works on
  todo,       \* identities of Main's current List() still to be looked at
  starting,   \* Main is in startKnownSessions
  stop,       \* serviceProgram.Stop: "no", "requested" (ctx cancelled), "closed"
  ack,        \* state of each local secure ack
  failures    \* history: failures so far (bounds the model)

session == <<sessions, loops, cancelled>>
socket == <<loop, dials, open, client, connected, record, initResult>>
caller == <<at, target, todo, starting>>
vars == <<index, session, socket, caller, stop, ack, failures>>

-----------------------------------------------------------------------------
(* Session fields (each operator is one critical section of session.mu). *)

CloseClient(i) ==
  /\ open' = [open EXCEPT ![i] = @ \ {client[i]}]
  /\ client' = [client EXCEPT ![i] = 0]
  /\ connected' = [connected EXCEPT ![i] = FALSE]

SignalInitial(i, result) ==
  initResult' = [initResult EXCEPT ![i] = IF @ = "unset" THEN result ELSE @]

Init ==
  /\ index = Known
  /\ sessions = {} /\ cancelled = {}
  /\ loops = [i \in Identities |-> 0]
  /\ loop = [i \in Identities |-> "none"]
  /\ dials = [i \in Identities |-> 0]
  /\ open = [i \in Identities |-> {}]
  /\ client = [i \in Identities |-> 0]
  /\ connected = [i \in Identities |-> FALSE]
  /\ record = [i \in Identities |-> FALSE]
  /\ initResult = [i \in Identities |-> "unset"]
  /\ at = [c \in Callers |-> IF c = Main THEN "listing" ELSE "idle"]
  /\ target = [c \in Callers |-> NoIdentity]
  /\ todo = {} /\ starting = TRUE
  /\ stop = "no"
  /\ ack = [a \in Acks |-> "none"]
  /\ failures = 0

-----------------------------------------------------------------------------
(* ensureSession and its two callers. *)

(* A CLI command adds an identity to the shared index. *)
Register(i) ==
  /\ i \notin index
  /\ index' = index \union {i}
  /\ UNCHANGED <<session, socket, caller, stop, ack, failures>>

(* startKnownSessions, or a tick of the watch: List().  The watch may take a *)
(* tick that is due although the service is being stopped.                   *)
ListIdentities ==
  /\ at[Main] = "listing"
  /\ \/ todo' = index /\ at' = [at EXCEPT ![Main] = "scanning"]
     \/ /\ stop # "no" /\ ~starting
        /\ at' = [at EXCEPT ![Main] = "returned"] /\ UNCHANGED todo
  /\ UNCHANGED <<index, session, socket, target, starting, stop, ack, failures>>

(* The next summary of the list.  startKnownSessions gives up when the       *)
(* service stops; the watch finishes its pass.  A name that has a session is *)
(* skipped.                                                                  *)
ScanIdentity(i) ==
  /\ at[Main] = "scanning" /\ i \in todo
  /\ ~(starting /\ stop # "no")
  /\ todo' = todo \ {i}
  /\ IF i \in sessions
     THEN UNCHANGED <<at, target>>
     ELSE /\ at' = [at EXCEPT ![Main] = "ensuring"]
          /\ target' = [target EXCEPT ![Main] = i]
  /\ UNCHANGED <<index, session, socket, starting, stop, ack, failures>>

(* The end of a pass: refreshStatus, then the next tick; or Run returns.    *)
FinishPass ==
  /\ at[Main] = "scanning"
  /\ \/ /\ todo = {}
        /\ at' = [at EXCEPT ![Main] = "listing"]
     \/ /\ todo # {} /\ starting /\ stop # "no"
        /\ at' = [at EXCEPT ![Main] = "returned"]
  /\ todo' = {}
  /\ starting' = FALSE
  /\ UNCHANGED <<index, session, socket, target, stop, ack, failures>>

(* A CLI command reaches the bridge, for any name it likes. *)
AcceptRequest(r, i) ==
  /\ at[r] = "idle" /\ stop # "closed"
  /\ at' = [at EXCEPT ![r] = "ensuring"]
  /\ target' = [target EXCEPT ![r] = i]
  /\ UNCHANGED <<index, session, socket, todo, starting, stop, ack, failures>>

(* Where a caller goes on when ensureSession returns. *)
Returned(c, ok) ==
  /\ at' = [at EXCEPT ![c] =
              IF c # Main THEN "answering" ELSE IF ok THEN "scanning" ELSE "recording"]
  /\ UNCHANGED target

(* Mutant: a session that has not connected yet is started once more. *)
EnsureConnectedSession(c) ==
  LET i == target[c]
  IN /\ at[c] = "ensuring"
     /\ IF i \in sessions /\ record[i]
        THEN Returned(c, TRUE) /\ UNCHANGED <<session, loop>>
        ELSE /\ sessions' = sessions \union {i}
             /\ loops' = [loops EXCEPT ![i] = @ + 1]
             /\ loop' = [loop EXCEPT ![i] = "top"]
             /\ at' = [at EXCEPT ![c] = "waiting"]
             /\ UNCHANGED <<target, cancelled>>
     /\ UNCHANGED <<index, dials, open, client, connected, record, initResult, todo,
                    starting, stop, ack, failures>>

(* An existing session is returned at once, connected or not; a missing one  *)
(* is added and its loop started under sessionsMu.                           *)
EnsureSession(c) ==
  LET i == target[c]
  IN /\ at[c] = "ensuring"
     /\ IF i \in sessions
        THEN Returned(c, TRUE) /\ UNCHANGED <<session, loop>>
        ELSE /\ sessions' = sessions \union {i}
             /\ loops' = [loops EXCEPT ![i] = @ + 1]
             /\ loop' = [loop EXCEPT ![i] = "top"]
             /\ at' = [at EXCEPT ![c] = "waiting"]
             /\ UNCHANGED <<target, cancelled>>
     /\ UNCHANGED <<index, dials, open, client, connected, record, initResult, todo,
                    starting, stop, ack, failures>>

AwaitInitial(c) ==
  /\ at[c] = "waiting"
  /\ initResult[target[c]] # "unset"
  /\ Returned(c, initResult[target[c]] = "ok")
  /\ UNCHANGED <<index, session, socket, todo, starting, stop, ack, failures>>

(* Mutant: the creator waits for the first dial without a timeout. *)
NoBootstrapTimeout(c) == at[c] = "waiting" /\ FALSE /\ UNCHANGED vars

(* 15 seconds have passed; the first dial may still be under way, and the    *)
(* result may be there as well (select takes either).                        *)
BootstrapTimeout(c) ==
  /\ at[c] = "waiting"
  /\ Returned(c, FALSE)
  /\ UNCHANGED <<index, session, socket, todo, starting, stop, ack, failures>>

(* Mutant: the session forgets its client without closing it. *)
RecordErrorOnly ==
  LET i == target[Main]
  IN /\ at[Main] = "recording"
     /\ sessions' = sessions \union {i}
     /\ client' = [client EXCEPT ![i] = 0]
     /\ connected' = [connected EXCEPT ![i] = FALSE]
     /\ at' = [at EXCEPT ![Main] = "scanning"]
     /\ UNCHANGED <<index, loops, cancelled, loop, dials, open, record, initResult, target,
                    todo, starting, stop, ack, failures>>

(* recordSessionError: a session that is missing would be added without a    *)
(* loop; markDisconnected closes whatever client the session has by now.     *)
RecordSessionError ==
  LET i == target[Main]
  IN /\ at[Main] = "recording"
     /\ sessions' = sessions \union {i}
     /\ CloseClient(i)
     /\ at' = [at EXCEPT ![Main] = "scanning"]
     /\ UNCHANGED <<index, loops, cancelled, loop, dials, record, initResult, target,
                    todo, starting, stop, ack, failures>>

(* handleBridgeRequest with a session: it is refused unless the session has  *)
(* a record and a client, else sent on that client; either way the command   *)
(* gets its answer and the goroutine ends.                                   *)
AnswerRequest(r) ==
  /\ at[r] = "answering"
  /\ at' = [at EXCEPT ![r] = "idle"]
  /\ target' = [target EXCEPT ![r] = NoIdentity]
  /\ UNCHANGED <<index, session, socket, todo, starting, stop, ack, failures>>

-----------------------------------------------------------------------------
(* runSessionLoop. *)

(* The top of the loop: a cancelled session ends, any other one dials. *)
CheckContext(i) ==
  /\ loop[i] = "top"
  /\ IF i \in cancelled
     THEN loop' = [loop EXCEPT ![i] = "ended"] /\ CloseClient(i)
     ELSE loop' = [loop EXCEPT ![i] = "dialing"] /\ UNCHANGED <<open, client, connected>>
  /\ UNCHANGED <<index, session, dials, record, initResult, caller, stop, ack, failures>>

(* connectSession fails: the identity is not in the index, or the network or *)
(* the server refuses (which the bound counts).  A timeout of the sleep that *)
(* follows leads back to the top.                                            *)
ConnectFails(i) ==
  /\ loop[i] = "dialing"
  /\ i \in index => failures < MaxFailures
  /\ failures' = IF i \in index THEN failures + 1 ELSE failures
  /\ CloseClient(i)
  /\ SignalInitial(i, "error")
  /\ loop' = [loop EXCEPT ![i] = "sleeping"]
  /\ UNCHANGED <<index, session, dials, record, caller, stop, ack>>

(* connectSession succeeds, whether or not the session was cancelled         *)
(* meanwhile: it does not use the context of the session.                    *)
ConnectSucceeds(i) ==
  /\ loop[i] = "dialing" /\ i \in index
  /\ dials' = [dials EXCEPT ![i] = @ + 1]
  /\ open' = [open EXCEPT ![i] = @ \union {dials[i] + 1}]
  /\ loop' = [loop EXCEPT ![i] = "dialed"]
  /\ UNCHANGED <<index, session, client, connected, record, initResult, caller, stop, ack,
                 failures>>

(* markConnected and signalInitial. *)
MarkConnected(i) ==
  /\ loop[i] = "dialed"
  /\ open' = [open EXCEPT ![i] = @ \ ({client[i]} \ {dials[i]})]
  /\ client' = [client EXCEPT ![i] = dials[i]]
  /\ connected' = [connected EXCEPT ![i] = TRUE]
  /\ record' = [record EXCEPT ![i] = TRUE]
  /\ SignalInitial(i, "ok")
  /\ loop' = [loop EXCEPT ![i] = "marked"]
  /\ UNCHANGED <<index, session, dials, caller, stop, ack, failures>>

(* flushQueuedLocalNotifications: the queue is copied and emptied under its  *)
(* lock and every entry handled.                                             *)
FlushQueued(i) ==
  /\ loop[i] = "marked"
  /\ ack' = [a \in Acks |-> IF recipient[a] = i /\ ack[a] = "queued" THEN "handled" ELSE ack[a]]
  /\ loop' = [loop EXCEPT ![i] = "consuming"]
  /\ UNCHANGED <<index, session, dials, open, client, connected, record, initResult, caller,
                 stop, failures>>

(* Mutants: the loop forgets its client without closing it; a cancelled      *)
(* session returns without closing.                                          *)
ForgetConnection(i) ==
  /\ loop[i] = "consuming"
  /\ client' = [client EXCEPT ![i] = 0]
  /\ connected' = [connected EXCEPT ![i] = FALSE]
  /\ loop' = [loop EXCEPT ![i] = IF i \in cancelled THEN "ended" ELSE "sleeping"]
  /\ UNCHANGED <<index, session, dials, open, record, initResult, caller, stop, ack>>

ReturnConnected(i) ==
  /\ loop[i] = "consuming"
  /\ IF i \in cancelled
     THEN UNCHANGED <<open, client, connected>>
     ELSE CloseClient(i)
  /\ loop' = [loop EXCEPT ![i] = IF i \in cancelled THEN "ended" ELSE "sleeping"]
  /\ UNCHANGED <<index, session, dials, record, initResult, caller, stop, ack>>

(* consumeNotifications has returned: the loop closes the client it dialed   *)
(* and that of the session, and ends or sleeps before the next attempt.      *)
LeaveConnection(i) ==
  /\ loop[i] = "consuming"
  /\ open' = [open EXCEPT ![i] = @ \ {dials[i], client[i]}]
  /\ client' = [client EXCEPT ![i] = 0]
  /\ connected' = [connected EXCEPT ![i] = FALSE]
  /\ loop' = [loop EXCEPT ![i] = IF i \in cancelled THEN "ended" ELSE "sleeping"]
  /\ UNCHANGED <<index, session, dials, record, initResult, caller, stop, ack>>

(* The session is cancelled or its connection is gone. *)
Disconnect(i) ==
  /\ i \in cancelled \/ dials[i] \notin open[i]
  /\ LeaveConnection(i)
  /\ UNCHANGED failures

(* A ping gets no answer, or the reader cannot parse a message: the socket   *)
(* is still open when consumeNotifications returns.                          *)
GiveUp(i) ==
  /\ dials[i] \in open[i] /\ failures < MaxFailures
  /\ failures' = failures + 1
  /\ LeaveConnection(i)

(* sleepWithContext: the delay is over, or the session is cancelled. *)
Wake(i) ==
  /\ loop[i] = "sleeping"
  /\ \/ loop' = [loop EXCEPT ![i] = "top"]
     \/ i \in cancelled /\ loop' = [loop EXCEPT ![i] = "ended"]
  /\ UNCHANGED <<index, session, dials, open, client, connected, record, initResult, caller,
                 stop, ack, failures>>

(* The network or the server drops a connection. *)
LoseConnection(i) ==
  /\ failures < MaxFailures
  /\ failures' = failures + 1
  /\ \E n \in open[i] : open' = [open EXCEPT ![i] = @ \ {n}]
  /\ UNCHANGED <<index, session, loop, dials, client, connected, record, initResult, caller,
                 stop, ack>>

-----------------------------------------------------------------------------
(* A secure ack for another identity of this listener. *)

(* deliverLocalSecureAckInProcess, on behalf of another identity's session:  *)
(* the ack cannot be built or applied locally and goes over the network, or  *)
(* a session with a record for the recipient is found, or none is.           *)
LookUpRecipient(a) ==
  /\ ack[a] = "none"
  /\ \E i \in Identities \ {recipient[a]} : record[i]
  /\ \/ ack' = [ack EXCEPT ![a] = "network"]
     \/ /\ recipient[a] \in index
        /\ ack' = [ack EXCEPT ![a] = IF record[recipient[a]] THEN "handled" ELSE "inactive"]
  /\ UNCHANGED <<index, session, socket, caller, stop, failures>>

(* hasRuntimeSessionForDID and queueLocalNotification: the ack waits for the *)
(* session, or goes out over the network when the identity has none.         *)
QueueAck(a) ==
  /\ ack[a] = "inactive"
  /\ ack' = [ack EXCEPT ![a] = IF recipient[a] \in sessions THEN "queued" ELSE "network"]
  /\ UNCHANGED <<index, session, socket, caller, stop, failures>>

-----------------------------------------------------------------------------
(* serviceProgram.Stop. *)

RequestStop ==
  /\ stop = "no"
  /\ stop' = "requested"
  /\ UNCHANGED <<index, session, socket, caller, ack, failures>>

(* Supervisor.Close: every session of the map, under sessionsMu. *)
Close ==
  /\ stop = "requested"
  /\ stop' = "closed"
  /\ cancelled' = sessions
  /\ open' = [i \in Identities |-> IF i \in sessions THEN open[i] \ {client[i]} ELSE open[i]]
  /\ client' = [i \in Identities |-> IF i \in sessions THEN 0 ELSE client[i]]
  /\ connected' = [i \in Identities |-> connected[i] /\ i \notin sessions]
  /\ UNCHANGED <<index, sessions, loops, loop, dials, record, initResult, caller, ack, failures>>

-----------------------------------------------------------------------------
CallerNext(c) == EnsureSession(c) \/ AwaitInitial(c) \/ BootstrapTimeout(c)

MainNext ==
  \/ ListIdentities \/ (\E i \in Identities : ScanIdentity(i)) \/ FinishPass
  \/ CallerNext(Main) \/ RecordSessionError

RequestNext(r) ==
  \/ (\E i \in Identities : AcceptRequest(r, i))
  \/ CallerNext(r) \/ AnswerRequest(r)

LoopNext(i) ==
  \/ CheckContext(i) \/ ConnectFails(i) \/ ConnectSucceeds(i) \/ MarkConnected(i)
  \/ FlushQueued(i) \/ Disconnect(i) \/ Wake(i)

Next ==
  \/ MainNext
  \/ \E r \in Requests : RequestNext(r)
  \/ \E i \in Identities : LoopNext(i) \/ GiveUp(i) \/ LoseConnection(i) \/ Register(i)
  \/ \E a \in Acks : LookUpRecipient(a) \/ QueueAck(a)
  \/ RequestStop \/ Close

Spec == Init /\ [][Next]_vars

(***************************************************************************)
(* Fairness: goroutines are scheduled, dials and sleeps end, the watch      *)
(* ticks and the 15 second timer fires.  Nothing obliges a command to       *)
(* register an identity or to call the bridge, the network to fail, an ack  *)
(* to be produced or the service to stop; a stop that began goes on.        *)
(***************************************************************************)
FairSpec ==
  /\ Spec
  /\ \A i \in Identities : WF_vars(LoopNext(i))
  /\ WF_vars(MainNext)
  /\ \A r \in Requests : WF_vars(CallerNext(r) \/ AnswerRequest(r))
  /\ \A a \in Acks : WF_vars(QueueAck(a))
  /\ WF_vars(Close)

-----------------------------------------------------------------------------
(* Properties. *)

LoopStates == {"none", "top", "dialing", "dialed", "marked", "consuming", "sleeping", "ended"}

CallerStates ==
  {"idle", "listing", "scanning", "ensuring", "waiting", "recording", "answering",
   "returned"}

(* Every variable has its type; sockets are numbered by the dials made, and  *)
(* a caller that works on a session has a name to work on.                   *)
TypeOK ==
  /\ index \subseteq Identities /\ Known \subseteq index
  /\ sessions \subseteq Identities /\ cancelled \subseteq sessions
  /\ loops \in [Identities -> Nat] /\ loop \in [Identities -> LoopStates]
  /\ dials \in [Identities -> Nat]
  /\ open \in [Identities -> SUBSET Nat] /\ \A i \in Identities : open[i] \subseteq 1..dials[i]
  /\ client \in [Identities -> Nat] /\ \A i \in Identities : client[i] \in 0..dials[i]
  /\ connected \in [Identities -> BOOLEAN] /\ record \in [Identities -> BOOLEAN]
  /\ initResult \in [Identities -> {"unset", "ok", "error"}]
  /\ at \in [Callers -> CallerStates]
  /\ target \in [Callers -> Identities \union {NoIdentity}]
  /\ \A c \in Callers : at[c] \notin {"idle", "listing", "scanning", "returned"}
                        => target[c] # NoIdentity
  /\ todo \subseteq Identities /\ starting \in BOOLEAN
  /\ stop \in {"no", "requested", "closed"}
  /\ ack \in [Acks -> {"none", "inactive", "queued", "handled", "network"}]
  /\ failures \in 0..MaxFailures

(* However many commands and watch passes ask for an identity at the same    *)
(* time, it has one session with one loop, and the loop of a session that is *)
(* not cancelled is alive: it can still reconnect.                           *)
OneLiveLoop ==
  \A i \in Identities :
    /\ loops[i] = IF i \in sessions THEN 1 ELSE 0
    /\ loop[i] = "none" <=> i \notin sessions
    /\ loop[i] = "ended" => i \in cancelled

(* An identity never holds two connections to the message service, however   *)
(* reconnects, late bootstrap errors and a stop interleave: with two, every  *)
(* message would be pushed and notified twice.                               *)
OneSocket == \A i \in Identities : Cardinality(open[i]) <= 1

(* What the status file and handleBridgeRequest go by is what the loop has:  *)
(* a session that is connected offers the client its loop consumes from, and *)
(* a loop that consumes from an open connection has a session that says so.  *)
ConnectedMeansServed ==
  \A i \in Identities :
    /\ connected[i] => loop[i] \in {"marked", "consuming"} /\ client[i] = dials[i]
    /\ loop[i] = "consuming" /\ dials[i] \in open[i] => connected[i]

(* Until the service is stopped, every registered identity is in the end     *)
(* connected for good once the network stops failing: also one that a        *)
(* command registers later, one that a bridge request named before it        *)
(* existed, and one whose connection a late recordSessionError closed.       *)
Reconnects ==
  \A i \in Identities :
    <>[](stop # "no" \/ i \notin index \/ (connected[i] /\ loop[i] = "consuming"))

(* ensureSession returns to each of its callers, also when the session is    *)
(* cancelled before its loop had anything to report.                         *)
CallersReturn ==
  \A c \in Callers : at[c] \in {"ensuring", "waiting"} ~> at[c] \notin {"ensuring", "waiting"}

(* A session that Close cancelled ends and leaves no connection behind, even *)
(* when its loop was in the middle of a dial.                                *)
CancelledEnds ==
  \A i \in Identities : i \in cancelled ~> [](loop[i] = "ended" /\ open[i] = {})
=============================================================================
