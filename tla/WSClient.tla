------------------------------ MODULE WSClient ------------------------------
(***************************************************************************)
(* One connected WSClient (internal/runtime/listener/wsclient.go) and the   *)
(* goroutines that share it: its read loop, the consumer of notifications   *)
(* (consumeNotifications), and the goroutines that call SendRPC.            *)
(*                                                                          *)
(* A call of SendRPC is one element of Calls, which also stands for its     *)
(* request id: ids are drawn from an atomic counter and never reused.       *)
(* Requests of the bridge pass context.Background and wait without limit;   *)
(* calls of the inbox poll have 15 seconds; the consumer itself calls while *)
(* it handles a secure notification, with the context of the session.       *)
(***************************************************************************)
EXTENDS Naturals, FiniteSets

CONSTANTS
  BridgeCalls, PollCalls, NestedCalls,  \* calls by who makes them
  NoCall,
  Capacity,    \* of the notification channel (128 in the code)
  MaxPushes,   \* bound on notifications the service pushes
  MaxFaults    \* bound on broken connections and unreadable messages

Calls == BridgeCalls \union PollCalls \union NestedCalls

ASSUME ClientConstants ==
  /\ BridgeCalls \intersect PollCalls = {} /\ NestedCalls \intersect PollCalls = {}
  /\ BridgeCalls \intersect NestedCalls = {}
  /\ NoCall \notin Calls
  /\ Capacity \in Nat \ {0} /\ MaxPushes \in Nat /\ MaxFaults \in Nat

VARIABLES
  conn,          \* "open" or "closed"
  requests,      \* requests the service has; their answers can be read at any time
  pushed,        \* notifications read so far (bounds the model)
  faults,        \* faults so far (bounds the model)
  stage,            \* where each call is
  pending,       \* keys of WSClient.pending
  channel,       \* response channel of each call, capacity 1
  reader,        \* where readLoop is
  current,       \* the call whose channel the reader is sending on
  toFail,        \* calls failPending has not looked at yet
  notifications, \* length of the notification channel
  consumer,      \* where consumeNotifications is
  unreadable,    \* history: the reader ended on a message that is not JSON
  stopped           \* the context of the session is cancelled

network == <<conn, requests, pushed, faults>>
calls == <<stage, pending>>
readLoop == <<reader, current, toFail, unreadable>>
wsVars == <<network, calls, channel, readLoop, notifications, consumer, stopped>>

WSInit ==
  /\ conn = "open" /\ requests = {} /\ pushed = 0 /\ faults = 0
  /\ stage = [k \in Calls |-> "new"]
  /\ pending = {} /\ channel = [k \in Calls |-> "empty"]
  /\ reader = "reading" /\ current = NoCall /\ toFail = {} /\ unreadable = FALSE
  /\ notifications = 0 /\ consumer = "selecting" /\ stopped = FALSE

(* failPending keeps pendingMu while it sends; all others hold it for a      *)
(* moment only, so that their critical sections are single steps.            *)
PendingUnlocked == reader # "failing"

(* The call can be given up: its own deadline, or the end of the session.    *)
Cancellable(k) == k \in PollCalls \/ (k \in NestedCalls /\ stopped)

(* The call has its result and is about to run its deferred delete. *)
Leaving(k) == stage[k] \in {"answered", "failed", "expired"}

Active(set) == {k \in set : stage[k] \notin {"new", "returned"}}

-----------------------------------------------------------------------------
(* SendRPC. *)

(* A request id is drawn and its channel entered into pending.  The poll has *)
(* one call at a time and ends with the consumer; the consumer calls only    *)
(* while it handles a notification; a bridge request may have taken the      *)
(* client before the session dropped it.                                     *)
RegisterCall(k) ==
  /\ stage[k] = "new" /\ PendingUnlocked
  /\ k \in PollCalls => Active(PollCalls) = {} /\ consumer # "ended"
  /\ k \in NestedCalls => Active(NestedCalls) = {} /\ consumer = "handling"
  /\ stage' = [stage EXCEPT ![k] = "registered"]
  /\ pending' = pending \union {k}
  /\ UNCHANGED <<network, channel, readLoop, notifications, consumer, stopped>>

(* wsjsonWrite under writeMu: the service gets the request, or the           *)
(* connection is gone and the call fails.                                    *)
Write(k) ==
  /\ stage[k] = "registered"
  /\ IF conn = "open"
     THEN /\ requests' = requests \union {k}
          /\ stage' = [stage EXCEPT ![k] = "waiting"]
     ELSE /\ stage' = [stage EXCEPT ![k] = "failed"]
          /\ UNCHANGED requests
  /\ UNCHANGED <<conn, pushed, faults, pending, channel, readLoop,
                 notifications, consumer, stopped>>

(* The context ends before the write, or during it, which closes the         *)
(* connection.                                                               *)
WriteExpires(k) ==
  /\ stage[k] = "registered" /\ Cancellable(k)
  /\ \/ UNCHANGED <<conn, faults>>
     \/ conn = "open" /\ faults < MaxFaults /\ conn' = "closed" /\ faults' = faults + 1
  /\ stage' = [stage EXCEPT ![k] = "expired"]
  /\ UNCHANGED <<requests, pushed, pending, channel, readLoop, notifications,
                 consumer, stopped>>

(* The select: a response is there. *)
Receive(k) ==
  /\ stage[k] = "waiting" /\ channel[k] # "empty"
  /\ channel' = [channel EXCEPT ![k] = "empty"]
  /\ stage' = [stage EXCEPT ![k] = IF channel[k] = "answer" THEN "answered" ELSE "failed"]
  /\ UNCHANGED <<network, pending, readLoop, notifications, consumer, stopped>>

(* A mutant: every call has a time limit of its own. *)
ExpireAny(k) ==
  /\ stage[k] = "waiting"
  /\ stage' = [stage EXCEPT ![k] = "expired"]
  /\ UNCHANGED <<network, pending, channel, readLoop, notifications, consumer, stopped>>

(* The select: the context is done, whether or not a response is there too.  *)
Expire(k) ==
  /\ stage[k] = "waiting" /\ Cancellable(k)
  /\ stage' = [stage EXCEPT ![k] = "expired"]
  /\ UNCHANGED <<network, pending, channel, readLoop, notifications, consumer, stopped>>

(* The deferred delete needs pendingMu. *)
Unregister(k) ==
  /\ Leaving(k) /\ PendingUnlocked
  /\ pending' = pending \ {k}
  /\ stage' = [stage EXCEPT ![k] = "returned"]
  /\ UNCHANGED <<network, channel, readLoop, notifications, consumer, stopped>>

-----------------------------------------------------------------------------
(* readLoop. *)

(* An answer: its channel is looked up; the answer to a call that is no      *)
(* longer pending is dropped.                                                *)
ReadAnswer(k) ==
  /\ reader = "reading" /\ conn = "open" /\ k \in requests
  /\ requests' = requests \ {k}
  /\ IF k \in pending
     THEN reader' = "delivering" /\ current' = k
     ELSE UNCHANGED <<reader, current>>
  /\ UNCHANGED <<conn, pushed, faults, calls, channel, toFail, unreadable,
                 notifications, consumer, stopped>>

(* responseCh <- message, which blocks on a channel that is full. *)
Deliver ==
  /\ reader = "delivering" /\ channel[current] = "empty"
  /\ channel' = [channel EXCEPT ![current] = "answer"]
  /\ reader' = "reading" /\ current' = NoCall
  /\ UNCHANGED <<network, calls, toFail, unreadable, notifications, consumer, stopped>>

(* A notification is queued, or dropped when the channel is full. *)
ReadPush ==
  /\ reader = "reading" /\ conn = "open" /\ pushed < MaxPushes
  /\ pushed' = pushed + 1
  /\ notifications' = IF notifications < Capacity THEN notifications + 1 ELSE notifications
  /\ UNCHANGED <<conn, requests, faults, calls, channel, readLoop, consumer,
                 stopped>>

(* The read fails: the connection is closed. *)
ReadFails ==
  /\ reader = "reading" /\ conn = "closed"
  /\ reader' = "failed"
  /\ UNCHANGED <<network, calls, channel, current, toFail, unreadable, notifications, consumer,
                 stopped>>

(* A message that is not a JSON object ends the loop; the connection stays   *)
(* open.                                                                     *)
ReadUnreadable ==
  /\ reader = "reading" /\ conn = "open" /\ faults < MaxFaults
  /\ faults' = faults + 1
  /\ unreadable' = TRUE
  /\ reader' = "failed"
  /\ UNCHANGED <<conn, requests, pushed, calls, channel, current, toFail,
                 notifications, consumer, stopped>>

(* A mutant: the calls that wait are not told. *)
FailNothing ==
  /\ reader = "failed"
  /\ reader' = "failing" /\ toFail' = {}
  /\ UNCHANGED <<network, calls, channel, current, unreadable, notifications, consumer, stopped>>

(* failPending takes pendingMu and goes through the map in any order; each   *)
(* send blocks on a channel that is full.                                    *)
FailPending ==
  /\ reader = "failed"
  /\ reader' = "failing" /\ toFail' = pending
  /\ UNCHANGED <<network, calls, channel, current, unreadable, notifications, consumer, stopped>>

FailNext(k) ==
  /\ reader = "failing" /\ current = NoCall /\ k \in toFail
  /\ current' = k /\ toFail' = toFail \ {k}
  /\ UNCHANGED <<network, calls, channel, reader, unreadable, notifications, consumer, stopped>>

FailCall ==
  /\ reader = "failing" /\ current # NoCall /\ channel[current] = "empty"
  /\ channel' = [channel EXCEPT ![current] = "error"]
  /\ current' = NoCall
  /\ UNCHANGED <<network, calls, reader, toFail, unreadable, notifications, consumer, stopped>>

(* failPending returns and the notification channel is closed. *)
EndReader ==
  /\ reader = "failing" /\ current = NoCall /\ toFail = {}
  /\ reader' = "ended"
  /\ UNCHANGED <<network, calls, channel, current, toFail, unreadable, notifications, consumer,
                 stopped>>

-----------------------------------------------------------------------------
(* consumeNotifications. *)

Take ==
  /\ consumer = "selecting" /\ notifications > 0
  /\ notifications' = notifications - 1
  /\ consumer' = "handling"
  /\ UNCHANGED <<network, calls, channel, readLoop, stopped>>

(* handleNotification returns; it waits for the call it made, if any. *)
Handled ==
  /\ consumer = "handling" /\ Active(NestedCalls) = {}
  /\ consumer' = "selecting"
  /\ UNCHANGED <<network, calls, channel, readLoop, notifications, stopped>>

(* The channel is closed and empty, a ping gets no answer because the        *)
(* connection is gone or nobody reads from it, or the session is cancelled:  *)
(* runSessionLoop closes the client.                                         *)
Leave ==
  /\ consumer = "selecting"
  /\ \/ reader = "ended" /\ notifications = 0
     \/ conn = "closed" \/ reader \notin {"reading", "delivering"}
     \/ stopped
  /\ consumer' = "ended"
  /\ conn' = "closed"
  /\ UNCHANGED <<requests, pushed, faults, calls, channel, readLoop,
                 notifications, stopped>>

-----------------------------------------------------------------------------
(* The network, and the stop of the listener. *)

(* The connection breaks, or is silent for 90 seconds. *)
Break ==
  /\ conn = "open" /\ faults < MaxFaults
  /\ conn' = "closed" /\ faults' = faults + 1
  /\ UNCHANGED <<requests, pushed, calls, channel, readLoop, notifications,
                 consumer, stopped>>

Stop ==
  /\ ~stopped /\ stopped' = TRUE
  /\ UNCHANGED <<network, calls, channel, readLoop, notifications, consumer>>

CallNext(k) ==
  Write(k) \/ WriteExpires(k) \/ Receive(k) \/ Expire(k) \/ Unregister(k)

ReaderNext ==
  \/ \E k \in Calls : ReadAnswer(k) \/ FailNext(k)
  \/ Deliver \/ ReadFails \/ FailPending \/ FailCall \/ EndReader

ConsumerNext == Take \/ Handled \/ Leave

WSNext ==
  \/ \E k \in Calls : RegisterCall(k) \/ CallNext(k)
  \/ ReaderNext \/ ReadPush \/ ReadUnreadable \/ ConsumerNext
  \/ Break \/ Stop

WSSpec == WSInit /\ [][WSNext]_wsVars

(***************************************************************************)
(* Fairness: goroutines are scheduled and timers fire, and the service      *)
(* answers a request while the connection lasts.  Nobody has to call, push, *)
(* break the connection or stop.                                            *)
(***************************************************************************)
WSFairSpec ==
  /\ WSSpec
  /\ \A k \in Calls : WF_wsVars(CallNext(k))
  /\ WF_wsVars(ReaderNext)
  /\ WF_wsVars(ConsumerNext)

-----------------------------------------------------------------------------
(* Properties. *)

(* Types, and the map of pending calls: it has the calls that are under way  *)
(* and no others.                                                            *)
WSTypeOK ==
  /\ conn \in {"open", "closed"} /\ requests \subseteq Calls
  /\ pushed \in 0..MaxPushes /\ faults \in 0..MaxFaults
  /\ stage \in [Calls -> {"new", "registered", "waiting", "answered", "failed", "expired",
                     "returned"}]
  /\ channel \in [Calls -> {"empty", "answer", "error"}]
  /\ pending = Active(Calls)
  /\ reader \in {"reading", "delivering", "failed", "failing", "ended"}
  /\ current \in Calls \union {NoCall} /\ toFail \subseteq Calls
  /\ notifications \in 0..Capacity
  /\ consumer \in {"selecting", "handling", "ended"}
  /\ unreadable \in BOOLEAN /\ stopped \in BOOLEAN

(* The reader can only be stuck on the channel of a call that gave up        *)
(* between the arrival of its answer and its deferred delete.  A call        *)
(* without a deadline, as every bridge request makes, takes what is there.   *)
PatientCallsNeverBlock ==
  current # NoCall /\ channel[current] # "empty"
    => stage[current] = "waiting" \/ (stage[current] = "expired" /\ Cancellable(current))

(* failPending is stuck on such a channel and holds pendingMu: no call can   *)
(* enter or leave the map any more.                                          *)
Wedged ==
  /\ reader = "failing" /\ current # NoCall
  /\ channel[current] # "empty" /\ stage[current] = "expired"

(* The reader gave up on an open connection, and the call was registered too *)
(* late for failPending.                                                     *)
Orphaned(k) == unreadable /\ reader = "ended" /\ stage[k] = "waiting" /\ channel[k] = "empty"

(* Every call of SendRPC returns: with its answer, or with an error when the *)
(* connection is lost at any point around it.  There are two exceptions,     *)
(* which wsclient.go does have: a wedged reader, and an orphaned call that   *)
(* nothing cancels.                                                          *)
CallsReturn ==
  \A k \in Calls : stage[k] = "registered" ~> (stage[k] = "returned" \/ Wedged \/ Orphaned(k))

(* However the connection ends, the session loop comes to know and can       *)
(* reconnect, also when it is handling a notification whose handler calls    *)
(* the service over the same connection; the same exceptions apply to that   *)
(* call.                                                                     *)
LossIsNoticed ==
  conn = "closed" \/ reader = "ended"
    ~> consumer = "ended" \/ Wedged \/ (\E k \in NestedCalls : Orphaned(k))
=============================================================================
