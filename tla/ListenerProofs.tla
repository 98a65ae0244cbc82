--------------------------- MODULE ListenerProofs ---------------------------
(***************************************************************************)
(* Proofs about the listener's connections.                                 *)
(*                                                                          *)
(* ListenerSessions, for any identities, requests, acks and failures: one   *)
(* loop and one connection per identity, and what the session says of its   *)
(* connection is what the loop has.                                         *)
(*                                                                          *)
(* WSClient, for any set of calls, any capacity of the notification channel *)
(* and any number of failures: its types and PatientCallsNeverBlock.  The   *)
(* latter is not inductive: that the reader meets a full channel only where *)
(* a call has given up depends on what is in the channels before            *)
(* failPending starts.  BlockInv says so for each stage of the reader.      *)
(***************************************************************************)
EXTENDS ListenerSessions, WSClient, FiniteSetTheorems, TLAPS

-----------------------------------------------------------------------------
(* Types. *)

LEMMA TypeInit == ASSUME Init PROVE TypeOK
  BY SessionConstants DEF Init, TypeOK, LoopStates, CallerStates, Callers

(* Main's list of identities, commands that register one, requests.          *)
LEMMA TypeAsk ==
  ASSUME TypeOK,
         \/ ListIdentities \/ FinishPass
         \/ \E i \in Identities : ScanIdentity(i) \/ Register(i)
         \/ \E r \in Requests : AnswerRequest(r) \/ \E i \in Identities : AcceptRequest(r, i)
  PROVE  TypeOK'
<1> USE SessionConstants DEF TypeOK, CallerStates, LoopStates, Callers, session, socket, caller
<1>1. CASE ListIdentities
  BY <1>1 DEF ListIdentities
<1>2. CASE FinishPass
  BY <1>2 DEF FinishPass
<1>3. ASSUME NEW i \in Identities, ScanIdentity(i) PROVE TypeOK'
  BY <1>3 DEF ScanIdentity
<1>4. ASSUME NEW i \in Identities, Register(i) PROVE TypeOK'
  BY <1>4 DEF Register
<1>5. ASSUME NEW r \in Requests, AnswerRequest(r) PROVE TypeOK'
  BY <1>5 DEF AnswerRequest
<1>6. ASSUME NEW r \in Requests, NEW i \in Identities, AcceptRequest(r, i) PROVE TypeOK'
  BY <1>6 DEF AcceptRequest
<1> QED
  BY <1>1, <1>2, <1>3, <1>4, <1>5, <1>6

(* ensureSession and what its callers do with the result.                    *)
LEMMA TypeEnsure ==
  ASSUME TypeOK, RecordSessionError \/ \E c \in Callers : CallerNext(c)
  PROVE  TypeOK'
<1> USE SessionConstants DEF TypeOK, CallerStates, LoopStates, Returned
<1>1. ASSUME NEW c \in Callers, EnsureSession(c) PROVE TypeOK'
  <2>1. target[c] \in Identities
    BY <1>1 DEF EnsureSession
  <2>2. CASE target[c] \in sessions
    BY <1>1, <2>1, <2>2 DEF EnsureSession, session
  <2>3. CASE target[c] \notin sessions
    BY <1>1, <2>1, <2>3 DEF EnsureSession
  <2> QED
    BY <2>2, <2>3
<1>2. ASSUME NEW c \in Callers, AwaitInitial(c) \/ BootstrapTimeout(c) PROVE TypeOK'
  BY <1>2 DEF AwaitInitial, BootstrapTimeout, session, socket
<1>3. CASE RecordSessionError
  <2>1. Main \in Callers /\ target[Main] \in Identities
    BY <1>3 DEF RecordSessionError, Callers
  <2> QED
    BY <1>3, <2>1 DEF RecordSessionError, CloseClient
<1> QED
  BY <1>1, <1>2, <1>3 DEF CallerNext

(* A session loop, the network, the acks and the stop.                       *)
LEMMA TypeLoop ==
  ASSUME TypeOK, NEW i \in Identities, LoopNext(i) \/ GiveUp(i) \/ LoseConnection(i)
  PROVE  TypeOK'
<1> USE SessionConstants DEF TypeOK, LoopStates, session, caller
<1>1. CASE CheckContext(i)
  <2>1. CASE i \in cancelled
    <3>1. /\ loop' = [loop EXCEPT ![i] = "ended"] /\ open' = [open EXCEPT ![i] = @ \ {client[i]}]
          /\ client' = [client EXCEPT ![i] = 0] /\ connected' = [connected EXCEPT ![i] = FALSE]
      BY <1>1, <2>1 DEF CheckContext, CloseClient
    <3>2. \A j \in Identities : open'[j] \subseteq open[j] /\ client'[j] \in {0, client[j]}
      BY <3>1
    <3> QED
      BY <1>1, <3>1, <3>2 DEF CheckContext
  <2>2. CASE i \notin cancelled
    BY <1>1, <2>2 DEF CheckContext
  <2> QED
    BY <2>1, <2>2
<1>2. CASE ConnectFails(i)
  BY <1>2 DEF ConnectFails, CloseClient, SignalInitial
<1>3. CASE ConnectSucceeds(i)
  BY <1>3 DEF ConnectSucceeds
<1>4. CASE MarkConnected(i)
  BY <1>4 DEF MarkConnected, SignalInitial
<1>5. CASE FlushQueued(i)
  BY <1>5 DEF FlushQueued
<1>6. CASE Disconnect(i)
  BY <1>6 DEF Disconnect, LeaveConnection
<1>7. CASE GiveUp(i)
  BY <1>7 DEF GiveUp, LeaveConnection
<1>8. CASE Wake(i)
  BY <1>8 DEF Wake
<1>9. CASE LoseConnection(i)
  BY <1>9 DEF LoseConnection
<1> QED
  BY <1>1, <1>2, <1>3, <1>4, <1>5, <1>6, <1>7, <1>8, <1>9 DEF LoopNext

LEMMA TypeRest ==
  ASSUME TypeOK, RequestStop \/ Close \/ \E a \in Acks : LookUpRecipient(a) \/ QueueAck(a)
  PROVE  TypeOK'
<1> USE SessionConstants DEF TypeOK, session, socket, caller
<1>1. CASE RequestStop
  BY <1>1 DEF RequestStop
<1>2. CASE Close
  <2>1. \A i \in Identities : open'[i] \subseteq open[i] /\ client'[i] \in {0, client[i]}
    BY <1>2 DEF Close
  <2>2. /\ open' \in [Identities -> SUBSET Nat] /\ client' \in [Identities -> Nat]
        /\ connected' \in [Identities -> BOOLEAN]
    BY <1>2 DEF Close
  <2>3. \A i \in Identities : open'[i] \subseteq 1..dials[i] /\ client'[i] \in 0..dials[i]
    BY <2>1
  <2> QED
    BY <1>2, <2>2, <2>3 DEF Close
<1>3. ASSUME NEW a \in Acks, LookUpRecipient(a) PROVE TypeOK'
  <2>1. PICK result \in {"network", "handled", "inactive"} : ack' = [ack EXCEPT ![a] = result]
    BY <1>3 DEF LookUpRecipient
  <2> QED
    BY <1>3, <2>1 DEF LookUpRecipient
<1>4. ASSUME NEW a \in Acks, QueueAck(a) PROVE TypeOK'
  BY <1>4 DEF QueueAck
<1> QED
  BY <1>1, <1>2, <1>3, <1>4

LEMMA TypeStep == ASSUME TypeOK, [Next]_vars PROVE TypeOK'
<1>1. CASE UNCHANGED vars
  BY <1>1 DEF TypeOK, vars, session, socket, caller
<1> QED
  BY <1>1, TypeAsk, TypeEnsure, TypeLoop, TypeRest
  DEF Next, MainNext, RequestNext, CallerNext, Callers

(* Types of the variables; sockets are numbered by dials, and a caller that  *)
(* works on a session has a name.                                            *)
THEOREM TypeCorrect == Spec => []TypeOK
<1>1. Init => TypeOK
  BY TypeInit
<1>2. TypeOK /\ [Next]_vars => TypeOK'
  BY TypeStep
<1> QED
  BY <1>1, <1>2, PTL DEF Spec
-----------------------------------------------------------------------------
(* Sessions and loops. *)

(* A caller that waits for a session, or is about to record its error, works *)
(* on one that is in the map: recordSessionError adds none without a loop.   *)
CallersHaveSessions ==
  \A c \in Callers : at[c] \in {"waiting", "recording"} => target[c] \in sessions

LoopInv == TypeOK /\ OneLiveLoop /\ CallersHaveSessions

(* What a step does to the session map and the loops.                        *)
LoopsKept == UNCHANGED <<sessions, loops, loop, cancelled>>

LEMMA LoopFrame ==
  ASSUME LoopInv, LoopsKept, TypeOK', CallersHaveSessions'
  PROVE  LoopInv'
  BY DEF LoopInv, LoopsKept, OneLiveLoop

LEMMA CallerFrame ==
  ASSUME CallersHaveSessions, UNCHANGED caller, sessions \subseteq sessions'
  PROVE  CallersHaveSessions'
  BY DEF CallersHaveSessions, caller

LEMMA LoopAsk ==
  ASSUME LoopInv, TypeOK',
         \/ ListIdentities \/ FinishPass
         \/ \E i \in Identities : ScanIdentity(i) \/ Register(i)
         \/ \E r \in Requests : AnswerRequest(r) \/ \E i \in Identities : AcceptRequest(r, i)
  PROVE  LoopInv'
<1> USE DEF LoopInv, LoopsKept, CallersHaveSessions, session, socket, caller, TypeOK, Callers
<1>1. LoopsKept
  BY DEF ListIdentities, FinishPass, ScanIdentity, Register, AnswerRequest, AcceptRequest
<1>2. CASE ListIdentities
  BY <1>1, <1>2, LoopFrame DEF ListIdentities
<1>3. CASE FinishPass
  BY <1>1, <1>3, LoopFrame DEF FinishPass
<1>4. ASSUME NEW i \in Identities, ScanIdentity(i) PROVE LoopInv'
  BY <1>1, <1>4, LoopFrame DEF ScanIdentity
<1>5. ASSUME NEW i \in Identities, Register(i) PROVE LoopInv'
  BY <1>1, <1>5, LoopFrame DEF Register
<1>6. ASSUME NEW r \in Requests, AnswerRequest(r) PROVE LoopInv'
  BY <1>1, <1>6, LoopFrame DEF AnswerRequest
<1>7. ASSUME NEW r \in Requests, NEW i \in Identities, AcceptRequest(r, i) PROVE LoopInv'
  BY <1>1, <1>7, LoopFrame DEF AcceptRequest
<1> QED
  BY <1>2, <1>3, <1>4, <1>5, <1>6, <1>7

LEMMA LoopEnsure ==
  ASSUME LoopInv, TypeOK', RecordSessionError \/ \E c \in Callers : CallerNext(c)
  PROVE  LoopInv'
<1> USE DEF LoopInv, LoopsKept, CallersHaveSessions, session, socket, TypeOK
<1>1. ASSUME NEW c \in Callers, EnsureSession(c) PROVE LoopInv'
  <2> DEFINE i == target[c]
  <2>1. i \in Identities
    BY <1>1 DEF EnsureSession
  <2>2. CASE i \in sessions
    BY <1>1, <2>2, LoopFrame DEF EnsureSession, Returned
  <2>3. CASE i \notin sessions
    <3>1. /\ sessions' = sessions \union {i} /\ cancelled' = cancelled
          /\ loops' = [loops EXCEPT ![i] = @ + 1] /\ loop' = [loop EXCEPT ![i] = "top"]
          /\ at' = [at EXCEPT ![c] = "waiting"] /\ target' = target
      BY <1>1, <2>3 DEF EnsureSession
    <3>2. OneLiveLoop'
      BY <2>1, <2>3, <3>1 DEF OneLiveLoop
    <3> QED
      BY <3>1, <3>2
  <2> QED
    BY <2>2, <2>3
<1>2. ASSUME NEW c \in Callers, AwaitInitial(c) \/ BootstrapTimeout(c) PROVE LoopInv'
  BY <1>2, LoopFrame DEF AwaitInitial, BootstrapTimeout, Returned
<1>3. CASE RecordSessionError
  <2>1. target[Main] \in sessions
    BY <1>3 DEF RecordSessionError, Callers
  <2>2. LoopsKept
    BY <1>3, <2>1 DEF RecordSessionError
  <2> QED
    BY <1>3, <2>1, <2>2, LoopFrame DEF RecordSessionError
<1> QED
  BY <1>1, <1>2, <1>3 DEF CallerNext

(* A step of a loop that exists, to a place of its own or, in a cancelled    *)
(* session, to its end.                                                      *)
LEMMA LoopMoves ==
  ASSUME LoopInv, TypeOK', NEW i \in Identities, loop[i] # "none",
         NEW place \in LoopStates \ {"none"}, place = "ended" => i \in cancelled,
         loop' = [loop EXCEPT ![i] = place], UNCHANGED <<session, caller>>
  PROVE  LoopInv'
  BY CallerFrame DEF LoopInv, OneLiveLoop, TypeOK, session, caller

LEMMA LoopSteps ==
  ASSUME LoopInv, TypeOK', NEW i \in Identities, LoopNext(i) \/ GiveUp(i) \/ LoseConnection(i)
  PROVE  LoopInv'
<1> USE DEF LoopStates
<1>1. CASE LoseConnection(i)
  BY <1>1, LoopFrame, CallerFrame DEF LoseConnection, LoopsKept, session, LoopInv
<1>2. CASE CheckContext(i)
  <2>1. PICK place \in {"ended", "dialing"} :
          loop' = [loop EXCEPT ![i] = place] /\ (place = "ended" => i \in cancelled)
    BY <1>2 DEF CheckContext
  <2> QED
    BY <1>2, <2>1, LoopMoves DEF CheckContext
<1>3. CASE Disconnect(i) \/ GiveUp(i)
  <2>1. PICK place \in {"ended", "sleeping"} :
          loop' = [loop EXCEPT ![i] = place] /\ (place = "ended" => i \in cancelled)
    BY <1>3 DEF Disconnect, GiveUp, LeaveConnection
  <2> QED
    BY <1>3, <2>1, LoopMoves DEF Disconnect, GiveUp, LeaveConnection
<1>4. CASE Wake(i)
  <2>1. PICK place \in {"ended", "top"} :
          loop' = [loop EXCEPT ![i] = place] /\ (place = "ended" => i \in cancelled)
    BY <1>4 DEF Wake
  <2> QED
    BY <1>4, <2>1, LoopMoves DEF Wake
<1>5. CASE ConnectFails(i)
  BY <1>5, LoopMoves DEF ConnectFails
<1>6. CASE ConnectSucceeds(i)
  BY <1>6, LoopMoves DEF ConnectSucceeds
<1>7. CASE MarkConnected(i)
  BY <1>7, LoopMoves DEF MarkConnected
<1>8. CASE FlushQueued(i)
  BY <1>8, LoopMoves DEF FlushQueued
<1> QED
  BY <1>1, <1>2, <1>3, <1>4, <1>5, <1>6, <1>7, <1>8 DEF LoopNext

(* Close cancels the sessions there are, those cancelled before included.    *)
LEMMA LoopRest ==
  ASSUME LoopInv, TypeOK',
         RequestStop \/ Close \/ \E a \in Acks : LookUpRecipient(a) \/ QueueAck(a)
  PROVE  LoopInv'
<1>1. CASE Close
  BY <1>1, CallerFrame DEF Close, LoopInv, OneLiveLoop, TypeOK
<1>2. CASE ~Close
  <2>1. LoopsKept /\ UNCHANGED caller
    BY <1>2 DEF RequestStop, LookUpRecipient, QueueAck, LoopsKept, session, socket
  <2> QED
    BY <2>1, LoopFrame, CallerFrame DEF LoopInv, LoopsKept
<1> QED
  BY <1>1, <1>2

LEMMA LoopStep == ASSUME LoopInv, [Next]_vars PROVE LoopInv'
<1>1. TypeOK'
  BY TypeStep DEF LoopInv
<1>2. CASE UNCHANGED vars
  BY <1>1, <1>2, LoopFrame, CallerFrame DEF vars, session, socket, LoopsKept, LoopInv
<1> QED
  BY <1>1, <1>2, LoopAsk, LoopEnsure, LoopSteps, LoopRest
  DEF Next, MainNext, RequestNext, CallerNext, Callers

LEMMA LoopInit == ASSUME Init PROVE LoopInv
  BY TypeInit, SessionConstants
  DEF Init, LoopInv, OneLiveLoop, CallersHaveSessions, Callers, TypeOK

LEMMA AlwaysLoopInv == Spec => []LoopInv
<1>1. Init => LoopInv
  BY LoopInit
<1>2. LoopInv /\ [Next]_vars => LoopInv'
  BY LoopStep
<1> QED
  BY <1>1, <1>2, PTL DEF Spec

(* ensureSession: one session with one loop per identity, and the loop of a  *)
(* session that is not cancelled is alive.                                   *)
THEOREM OneLoopPerIdentity == Spec => []OneLiveLoop
<1>1. LoopInv => OneLiveLoop
  BY DEF LoopInv
<1> QED
  BY <1>1, AlwaysLoopInv, PTL
-----------------------------------------------------------------------------
(* Connections. *)

(* The connection of an identity is the last one dialed.  While the loop has *)
(* not got as far, the session has no client; then it has the one the loop   *)
(* has, unless somebody closed it.                                           *)
Idle(i) == client[i] = 0 /\ ~connected[i] /\ open[i] = {}
Fresh(i) == client[i] = 0 /\ ~connected[i] /\ open[i] \subseteq {dials[i]}
Live(i) == client[i] = dials[i] /\ connected[i] /\ open[i] \subseteq {dials[i]}

SocketInv(i) ==
  /\ loop[i] = "dialed" => Fresh(i)
  /\ loop[i] \in {"marked", "consuming"} => Idle(i) \/ Live(i)
  /\ loop[i] \notin {"dialed", "marked", "consuming"} => Idle(i)

ConnInv == LoopInv /\ \A i \in Identities : SocketInv(i)

(* A step that leaves the loop and the connection of an identity alone.      *)
SocketKept(i) ==
  /\ loop'[i] = loop[i] /\ dials'[i] = dials[i] /\ open'[i] = open[i]
  /\ client'[i] = client[i] /\ connected'[i] = connected[i]

LEMMA SocketFrame ==
  ASSUME NEW i \in Identities, SocketInv(i), SocketKept(i)
  PROVE  SocketInv(i)'
  BY DEF SocketInv, SocketKept, Idle, Fresh, Live

(* Whoever closes the client of a session leaves no connection, unless the   *)
(* loop has just dialed another one.                                         *)
LEMMA SocketClosed ==
  ASSUME NEW i \in Identities, SocketInv(i), TypeOK,
         loop'[i] = loop[i], dials'[i] = dials[i], open'[i] = open[i] \ {client[i]},
         client'[i] = 0, connected'[i] = FALSE
  PROVE  SocketInv(i)'
<1>1. dials[i] \in Nat /\ open[i] \subseteq 1..dials[i]
  BY DEF TypeOK
<1>2. CASE Live(i)
  BY <1>1, <1>2 DEF SocketInv, Idle, Fresh, Live
<1>3. CASE Idle(i) \/ Fresh(i)
  <2>1. open[i] \ {client[i]} = open[i]
    BY <1>1, <1>3 DEF Idle, Fresh
  <2> QED
    BY <1>3, <2>1 DEF SocketInv, Idle, Fresh, Live
<1> QED
  BY <1>2, <1>3 DEF SocketInv

(* The steps of callers, commands and acks.                                  *)
LEMMA SocketAsk ==
  ASSUME ConnInv,
         \/ MainNext \/ RequestStop
         \/ \E r \in Requests : RequestNext(r)
         \/ \E i \in Identities : Register(i)
         \/ \E a \in Acks : LookUpRecipient(a) \/ QueueAck(a),
         NEW j \in Identities
  PROVE  SocketInv(j)'
<1>1. SocketInv(j) /\ TypeOK /\ OneLiveLoop /\ CallersHaveSessions
  BY DEF ConnInv, LoopInv
<1>2. ASSUME NEW c \in Callers, EnsureSession(c) PROVE SocketInv(j)'
  <2>1. /\ UNCHANGED <<dials, open, client, connected>>
        /\ \/ loop' = loop
           \/ target[c] \notin sessions /\ loop' = [loop EXCEPT ![target[c]] = "top"]
    BY <1>2 DEF EnsureSession
  <2>2. CASE loop'[j] = loop[j]
    BY <1>1, <2>1, <2>2, SocketFrame DEF SocketKept
  <2>3. CASE loop'[j] # loop[j]
    <3>1. loop[j] = "none" /\ loop'[j] = "top"
      BY <1>1, <2>1, <2>3 DEF OneLiveLoop, TypeOK
    <3> QED
      BY <1>1, <2>1, <3>1 DEF SocketInv, Idle
  <2> QED
    BY <2>2, <2>3
<1>3. CASE RecordSessionError
  <2>1. /\ UNCHANGED <<loop, dials>>
        /\ open' = [open EXCEPT ![target[Main]] = @ \ {client[target[Main]]}]
        /\ client' = [client EXCEPT ![target[Main]] = 0]
        /\ connected' = [connected EXCEPT ![target[Main]] = FALSE]
    BY <1>3 DEF RecordSessionError, CloseClient
  <2>2. CASE j = target[Main]
    BY <1>1, <2>1, <2>2, SocketClosed DEF TypeOK
  <2>3. CASE j # target[Main]
    BY <1>1, <2>1, <2>3, SocketFrame DEF SocketKept, TypeOK
  <2> QED
    BY <2>2, <2>3
<1>4. CASE UNCHANGED socket
  BY <1>1, <1>4, SocketFrame DEF SocketKept, socket
<1>5. \A c \in Callers : AwaitInitial(c) \/ BootstrapTimeout(c) => UNCHANGED socket
  BY DEF AwaitInitial, BootstrapTimeout
<1>6. ListIdentities \/ FinishPass \/ RequestStop => UNCHANGED socket
  BY DEF ListIdentities, FinishPass, RequestStop
<1>7. \A i \in Identities : ScanIdentity(i) \/ Register(i) => UNCHANGED socket
  BY DEF ScanIdentity, Register
<1>8. \A r \in Requests :
        AnswerRequest(r) \/ (\E i \in Identities : AcceptRequest(r, i)) => UNCHANGED socket
  BY DEF AnswerRequest, AcceptRequest
<1>9. \A a \in Acks : LookUpRecipient(a) \/ QueueAck(a) => UNCHANGED socket
  BY DEF LookUpRecipient, QueueAck
<1>10. Main \in Callers /\ Requests \subseteq Callers
  BY DEF Callers
<1> QED
  BY <1>2, <1>3, <1>4, <1>5, <1>6, <1>7, <1>8, <1>9, <1>10 DEF MainNext, RequestNext, CallerNext

(* The steps of a loop and of its network, for its own identity.             *)
LEMMA SocketOwn ==
  ASSUME ConnInv, NEW i \in Identities, LoopNext(i) \/ GiveUp(i) \/ LoseConnection(i)
  PROVE  SocketInv(i)'
<1> USE DEF Idle, Fresh, Live
<1>1. /\ SocketInv(i)
      /\ loop \in [Identities -> LoopStates] /\ dials \in [Identities -> Nat]
      /\ open \in [Identities -> SUBSET Nat] /\ open[i] \subseteq 1..dials[i]
      /\ client \in [Identities -> Nat] /\ connected \in [Identities -> BOOLEAN]
  BY DEF ConnInv, LoopInv, TypeOK
<1>2. CASE CheckContext(i)
  BY <1>1, <1>2 DEF CheckContext, CloseClient, SocketInv
<1>3. CASE ConnectFails(i)
  BY <1>1, <1>3 DEF ConnectFails, CloseClient, SocketInv
<1>4. CASE ConnectSucceeds(i)
  BY <1>1, <1>4 DEF ConnectSucceeds, SocketInv
<1>5. CASE MarkConnected(i)
  BY <1>1, <1>5 DEF MarkConnected, SocketInv
<1>6. CASE FlushQueued(i)
  BY <1>1, <1>6 DEF FlushQueued, SocketInv
<1>7. CASE Disconnect(i) \/ GiveUp(i)
  <2>1. LeaveConnection(i)
    BY <1>7 DEF Disconnect, GiveUp
  <2> QED
    BY <1>1, <2>1 DEF LeaveConnection, SocketInv
<1>8. CASE Wake(i)
  BY <1>1, <1>8 DEF Wake, SocketInv
<1>9. CASE LoseConnection(i)
  BY <1>1, <1>9 DEF LoseConnection, SocketInv
<1> QED
  BY <1>2, <1>3, <1>4, <1>5, <1>6, <1>7, <1>8, <1>9 DEF LoopNext

LEMMA SocketOthers ==
  ASSUME ConnInv, NEW i \in Identities, LoopNext(i) \/ GiveUp(i) \/ LoseConnection(i),
         NEW j \in Identities \ {i}
  PROVE  SocketInv(j)'
<1>1. /\ loop \in [Identities -> LoopStates] /\ dials \in [Identities -> Nat]
      /\ open \in [Identities -> SUBSET Nat]
      /\ client \in [Identities -> Nat] /\ connected \in [Identities -> BOOLEAN]
  BY DEF ConnInv, LoopInv, TypeOK
<1>2. SocketKept(j)
  BY <1>1
  DEF SocketKept, LoopNext, CheckContext, ConnectFails, ConnectSucceeds, MarkConnected,
      FlushQueued, Disconnect, GiveUp, LeaveConnection, Wake, LoseConnection, CloseClient
<1> QED
  BY <1>2, SocketFrame DEF ConnInv

LEMMA SocketClose ==
  ASSUME ConnInv, Close, NEW j \in Identities
  PROVE  SocketInv(j)'
<1>1. SocketInv(j) /\ TypeOK
  BY DEF ConnInv, LoopInv
<1>2. CASE j \in sessions
  BY <1>1, <1>2, SocketClosed DEF Close
<1>3. CASE j \notin sessions
  BY <1>1, <1>3, SocketFrame DEF Close, SocketKept, TypeOK
<1> QED
  BY <1>2, <1>3

LEMMA ConnStep == ASSUME ConnInv, [Next]_vars PROVE ConnInv'
<1>1. LoopInv'
  BY LoopStep DEF ConnInv
<1>2. ASSUME NEW j \in Identities PROVE SocketInv(j)'
  <2>1. CASE UNCHANGED vars
    BY <2>1, SocketFrame DEF ConnInv, SocketKept, vars, socket
  <2>2. ASSUME NEW i \in Identities, LoopNext(i) \/ GiveUp(i) \/ LoseConnection(i)
        PROVE  SocketInv(j)'
    BY <2>2, SocketOwn, SocketOthers
  <2> QED
    BY <2>1, <2>2, SocketAsk, SocketClose DEF Next
<1> QED
  BY <1>1, <1>2 DEF ConnInv

LEMMA AlwaysConnInv == Spec => []ConnInv
<1>1. Init => ConnInv
  BY LoopInit DEF Init, ConnInv, SocketInv, Idle
<1>2. ConnInv /\ [Next]_vars => ConnInv'
  BY ConnStep
<1> QED
  BY <1>1, <1>2, PTL DEF Spec

(* No identity ever has two connections, whatever reconnects, late errors    *)
(* and stops there are (runSessionLoop, recordSessionError, Close).          *)
THEOREM OneConnection == Spec => []OneSocket
<1>1. ConnInv => OneSocket
  <2>1. SUFFICES ASSUME ConnInv, NEW i \in Identities
                 PROVE  Cardinality(open[i]) <= 1
    BY DEF OneSocket
  <2>2. open[i] = {} \/ open[i] = {dials[i]}
    BY <2>1 DEF ConnInv, SocketInv, Idle, Fresh, Live
  <2>3. Cardinality({}) = 0 /\ Cardinality({dials[i]}) = 1
    BY FS_EmptySet, FS_Singleton
  <2> QED
    BY <2>2, <2>3
<1> QED
  BY <1>1, AlwaysConnInv, PTL

(* What the status file and bridge requests go by is what the loop has.      *)
THEOREM ServedIfConnected == Spec => []ConnectedMeansServed
<1>1. ConnInv => ConnectedMeansServed
  <2>1. SUFFICES ASSUME ConnInv, NEW i \in Identities
                 PROVE  /\ connected[i] => loop[i] \in {"marked", "consuming"} /\ client[i] = dials[i]
                        /\ loop[i] = "consuming" /\ dials[i] \in open[i] => connected[i]
    BY DEF ConnectedMeansServed
  <2>2. SocketInv(i)
    BY <2>1 DEF ConnInv
  <2> QED
    BY <2>2 DEF SocketInv, Idle, Fresh, Live
<1> QED
  BY <1>1, AlwaysConnInv, PTL

-----------------------------------------------------------------------------
(* The websocket client. *)

Taking == {"waiting", "expired", "returned"}

(* Before failPending only answers are in channels, one per request, and     *)
(* nobody who has yet to write or has left with a result has one.            *)
AnswersInv ==
  \A k \in Calls :
    /\ channel[k] # "empty" => stage[k] \in Taking
    /\ k \in requests => channel[k] = "empty" /\ stage[k] \in Taking

BlockInv ==
  /\ reader \in {"reading", "failed", "ended"} => current = NoCall
  /\ reader = "delivering" => /\ current \in Calls /\ current \notin requests
                              /\ channel[current] = "empty" /\ stage[current] \in Taking
  /\ reader \in {"reading", "delivering", "failed"} => AnswersInv
  /\ reader = "failing" =>
       /\ current \notin toFail
       /\ \A k \in Calls : (k \in toFail \/ k = current) /\ channel[k] # "empty"
                           => stage[k] \in {"waiting", "expired"}
  /\ \A k \in Calls : stage[k] = "expired" => Cancellable(k)

ClientInv == WSTypeOK /\ BlockInv

(* What each group of actions does to the variables BlockInv is about. *)
CallStep == \E k \in Calls : RegisterCall(k) \/ CallNext(k)
ReaderStep == ReaderNext \/ ReadPush \/ ReadUnreadable
OtherStep == ConsumerNext \/ Break \/ Stop

LEMMA ClientSteps == WSNext => CallStep \/ ReaderStep \/ OtherStep
  BY DEF WSNext, CallStep, ReaderStep, OtherStep

LEMMA ClientInitInv == WSInit => ClientInv
<1> SUFFICES ASSUME WSInit PROVE ClientInv
  OBVIOUS
<1>1. WSTypeOK
  <2>1. Active(Calls) = {}
    BY DEF WSInit, Active
  <2>2. pushed \in 0..MaxPushes /\ faults \in 0..MaxFaults /\ notifications \in 0..Capacity
    BY ClientConstants DEF WSInit
  <2>3. unreadable \in BOOLEAN /\ stopped \in BOOLEAN
    BY DEF WSInit
  <2>4. /\ stage \in [Calls -> {"new", "registered", "waiting", "answered", "failed", "expired",
                            "returned"}]
        /\ channel \in [Calls -> {"empty", "answer", "error"}]
    BY DEF WSInit
  <2> QED
    BY <2>1, <2>2, <2>3, <2>4 DEF WSInit, WSTypeOK
<1>2. BlockInv
  BY DEF WSInit, BlockInv, AnswersInv
<1> QED
  BY <1>1, <1>2 DEF ClientInv

(* Every action keeps the types and the agreement of pending with the calls  *)
(* under way.                                                                *)
LEMMA CallTypes == WSTypeOK /\ CallStep => WSTypeOK'
<1> SUFFICES ASSUME WSTypeOK, NEW k \in Calls, RegisterCall(k) \/ CallNext(k) PROVE WSTypeOK'
  BY DEF CallStep
<1>1. CASE RegisterCall(k)
  BY <1>1 DEF WSTypeOK, RegisterCall, network, readLoop, Active
<1>2. CASE Write(k)
  BY <1>2 DEF WSTypeOK, Write, network, readLoop, Active
<1>3. CASE WriteExpires(k)
  BY <1>3, ClientConstants DEF WSTypeOK, WriteExpires, network, readLoop, Active
<1>4. CASE Receive(k)
  BY <1>4 DEF WSTypeOK, Receive, network, readLoop, Active
<1>5. CASE Expire(k)
  BY <1>5 DEF WSTypeOK, Expire, network, readLoop, Active
<1>6. CASE Unregister(k)
  BY <1>6 DEF WSTypeOK, Unregister, Leaving, network, readLoop, Active
<1> QED
  BY <1>1, <1>2, <1>3, <1>4, <1>5, <1>6 DEF CallNext

LEMMA ReaderTypes == WSTypeOK /\ ReaderStep => WSTypeOK'
<1> SUFFICES ASSUME WSTypeOK, ReaderStep PROVE WSTypeOK'
  OBVIOUS
<1> USE ClientConstants DEF WSTypeOK, Active, calls, network
<1>1. ASSUME NEW k \in Calls, ReadAnswer(k) PROVE WSTypeOK'
  BY <1>1 DEF ReadAnswer
<1>2. ASSUME NEW k \in Calls, FailNext(k) PROVE WSTypeOK'
  BY <1>2 DEF FailNext
<1>3. CASE Deliver
  BY <1>3 DEF Deliver
<1>4. CASE ReadFails
  BY <1>4 DEF ReadFails
<1>5. CASE FailPending
  BY <1>5 DEF FailPending
<1>6. CASE FailCall
  BY <1>6 DEF FailCall
<1>7. CASE EndReader
  BY <1>7 DEF EndReader
<1>8. CASE ReadPush
  BY <1>8 DEF ReadPush, readLoop
<1>9. CASE ReadUnreadable
  BY <1>9 DEF ReadUnreadable
<1> QED
  BY <1>1, <1>2, <1>3, <1>4, <1>5, <1>6, <1>7, <1>8, <1>9 DEF ReaderStep, ReaderNext

LEMMA OtherTypes == WSTypeOK /\ OtherStep => WSTypeOK'
<1> SUFFICES ASSUME WSTypeOK, OtherStep PROVE WSTypeOK'
  OBVIOUS
<1> USE ClientConstants DEF WSTypeOK, Active, calls, readLoop
<1>1. CASE Take
  BY <1>1 DEF Take, network
<1>2. CASE Handled
  BY <1>2 DEF Handled, network
<1>3. CASE Leave
  BY <1>3 DEF Leave
<1>4. CASE Break
  BY <1>4 DEF Break
<1>5. CASE Stop
  BY <1>5 DEF Stop, network
<1> QED
  BY <1>1, <1>2, <1>3, <1>4, <1>5 DEF OtherStep, ConsumerNext

(* A call changes its own stage and its own channel, which it can only empty. *)
LEMMA CallBlock == ClientInv /\ CallStep => BlockInv'
<1> SUFFICES ASSUME ClientInv, NEW k \in Calls, RegisterCall(k) \/ CallNext(k) PROVE BlockInv'
  BY DEF CallStep
<1> USE DEF ClientInv, WSTypeOK, BlockInv, AnswersInv, Taking, readLoop, Cancellable
<1>1. CASE RegisterCall(k)
  BY <1>1 DEF RegisterCall, network
<1>2. CASE Write(k)
  BY <1>2 DEF Write
<1>3. CASE WriteExpires(k)
  BY <1>3 DEF WriteExpires
<1>4. CASE Receive(k)
  BY <1>4 DEF Receive, network
<1>5. CASE Expire(k)
  BY <1>5 DEF Expire, network
<1>6. CASE Unregister(k)
  BY <1>6 DEF Unregister, Leaving, PendingUnlocked, network
<1> QED
  BY <1>1, <1>2, <1>3, <1>4, <1>5, <1>6 DEF CallNext

(* The reader moves from one stage to the next; what BlockInv says of the    *)
(* old stage gives what it says of the new one.                              *)
LEMMA ReaderBlock == ClientInv /\ ReaderStep => BlockInv'
<1> SUFFICES ASSUME ClientInv, ReaderStep PROVE BlockInv'
  OBVIOUS
<1> USE ClientConstants DEF ClientInv, WSTypeOK, BlockInv, AnswersInv, Taking, calls, Cancellable
<1>1. ASSUME NEW k \in Calls, ReadAnswer(k) PROVE BlockInv'
  BY <1>1 DEF ReadAnswer
<1>2. ASSUME NEW k \in Calls, FailNext(k) PROVE BlockInv'
  BY <1>2 DEF FailNext, network
<1>3. CASE Deliver
  BY <1>3 DEF Deliver, network
<1>4. CASE ReadFails
  BY <1>4 DEF ReadFails, network
<1>5. CASE FailPending
  BY <1>5 DEF FailPending, network, Active
<1>6. CASE FailCall
  BY <1>6 DEF FailCall, network
<1>7. CASE EndReader
  BY <1>7 DEF EndReader, network
<1>8. CASE ReadPush
  BY <1>8 DEF ReadPush, readLoop
<1>9. CASE ReadUnreadable
  BY <1>9 DEF ReadUnreadable
<1> QED
  BY <1>1, <1>2, <1>3, <1>4, <1>5, <1>6, <1>7, <1>8, <1>9 DEF ReaderStep, ReaderNext

(* A stop only makes more calls cancellable. *)
LEMMA OtherBlock == ClientInv /\ OtherStep => BlockInv'
<1> SUFFICES ASSUME ClientInv, OtherStep PROVE BlockInv'
  OBVIOUS
<1> USE DEF ClientInv, WSTypeOK, BlockInv, AnswersInv, Taking, calls, readLoop, Cancellable
<1>1. CASE Take
  BY <1>1 DEF Take, network
<1>2. CASE Handled
  BY <1>2 DEF Handled, network
<1>3. CASE Leave
  BY <1>3 DEF Leave
<1>4. CASE Break
  BY <1>4 DEF Break
<1>5. CASE Stop
  BY <1>5 DEF Stop, network
<1> QED
  BY <1>1, <1>2, <1>3, <1>4, <1>5 DEF OtherStep, ConsumerNext

LEMMA ClientInductive == ClientInv /\ [WSNext]_wsVars => ClientInv'
<1> SUFFICES ASSUME ClientInv, [WSNext]_wsVars PROVE ClientInv'
  OBVIOUS
<1>1. CASE WSNext
  <2>1. CallStep \/ ReaderStep \/ OtherStep
    BY <1>1, ClientSteps
  <2>2. WSTypeOK'
    BY <2>1, CallTypes, ReaderTypes, OtherTypes DEF ClientInv
  <2>3. BlockInv'
    BY <2>1, CallBlock, ReaderBlock, OtherBlock
  <2> QED
    BY <2>2, <2>3 DEF ClientInv
<1>2. CASE UNCHANGED wsVars
  BY <1>2 DEF wsVars, network, calls, readLoop, ClientInv, WSTypeOK, BlockInv, AnswersInv, Active,
              Cancellable
<1> QED
  BY <1>1, <1>2

LEMMA ClientInvHolds == WSSpec => []ClientInv
  BY ClientInitInv, ClientInductive, PTL DEF WSSpec

(* The map of pending calls has exactly the calls under way, and every       *)
(* variable its type.                                                        *)
THEOREM ClientTypeCorrect == WSSpec => []WSTypeOK
<1>1. ClientInv => WSTypeOK
  BY DEF ClientInv
<1> QED
  BY <1>1, ClientInvHolds, PTL

(* Only a call that gave up can leave the reader stuck on its channel:       *)
(* however many calls share the connection, a bridge request, which has no   *)
(* deadline, never blocks the reader or failPending.                         *)
THEOREM PatientNeverBlocks == WSSpec => []PatientCallsNeverBlock
<1>1. ClientInv => PatientCallsNeverBlock
  BY DEF ClientInv, WSTypeOK, BlockInv, AnswersInv, PatientCallsNeverBlock
<1> QED
  BY <1>1, ClientInvHolds, PTL
=============================================================================
