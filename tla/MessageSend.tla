---------------------------- MODULE MessageSend ----------------------------
(***************************************************************************)
(* `msg send' and `id refresh-token' (internal/message, internal/authsdk):  *)
(* a send goes over the listener's websocket or over HTTP, is sent again    *)
(* over HTTP when that fails, and renews its token with the identity's key  *)
(* when a service refuses the token.                                        *)
(*                                                                          *)
(* Several commands run at a time and share one token file.  A request may  *)
(* stay without an answer; what it carried may still be accepted later.     *)
(* A service takes a bearer token until it expires, and always takes a      *)
(* signature; the message service and did-auth agree about tokens.          *)
(***************************************************************************)
EXTENDS Naturals, FiniteSets, Sequences

CONSTANTS
  Cmds,         \* commands
  MaxExpiries,  \* tokens that expire in a behaviour
  MaxLost       \* answers that do not arrive in a behaviour

ASSUME SendConstants == MaxExpiries \in Nat /\ MaxLost \in Nat

Legs == {"ws", "first", "second"}  \* over the listener, over HTTP, once more

VARIABLES
  auth,      \* the token file of the identity, 0 for none; the tokens issued
             \* so far, by number, and those that are still valid
  accepted,  \* accepted[c][l]: times the service accepted c's message of leg l
  late,      \* messages of requests the command no longer waits for
  cmd,       \* the commands
  expiries, losses  \* bounds

vars == <<auth, accepted, late, cmd, expiries, losses>>

(***************************************************************************)
(* The requests a command makes                                            *)
(***************************************************************************)
(* The DID of the message service is in the configuration or asked for.     *)
CreateAttachmentSlot(configured) ==
  (IF configured THEN <<>> ELSE <<"capabilities">>) \o <<"create_slot">>

(* A PUT to the object store, with the headers of the slot and no token.    *)
UploadAttachmentObject == <<"upload">>

CommitAttachmentObject == <<"commit">>

prepareAttachmentUpload(configured) ==
  CreateAttachmentSlot(configured) \o UploadAttachmentObject \o CommitAttachmentObject

(* A command that is not running.  For the properties: the calls without a  *)
(* useful answer, lost, the tokens issued before it began, since.           *)
Idle == [kind |-> "none", pc |-> "idle", leg |-> "ws", todo |-> <<>>,
         bearer |-> 0, jwt |-> 0, forced |-> FALSE, renewed |-> FALSE,
         refreshing |-> FALSE, err |-> "none", lost |-> {}, since |-> 0,
         outcome |-> "none"]

(***************************************************************************)
(* Steps of a command                                                      *)
(***************************************************************************)
Set(c, e) == cmd' = [cmd EXCEPT ![c] = e]

(* The command is over.                                                     *)
Finish(c, e, outcome) ==
  Set(c, [Idle EXCEPT !.kind = e.kind, !.pc = "done", !.lost = e.lost,
                      !.since = e.since, !.outcome = outcome])

(* An HTTP session; with no token it signs.                                 *)
NewSession(e, token) ==
  [e EXCEPT !.pc = "exchange", !.todo = <<>>, !.bearer = token, !.forced = FALSE,
            !.renewed = FALSE, !.refreshing = FALSE]

(* An HTTP transport has a session of its own, which starts with the token  *)
(* of the record, however old that is.                                      *)
httpTransport(e, leg, requests) ==
  [NewSession(e, e.jwt) EXCEPT !.leg = leg, !.todo = requests]

(* did-auth is asked for a token, before anything else.                     *)
EnsureJWT(e) == [e EXCEPT !.todo = <<"get_me">> \o @, !.forced = FALSE]

(* The message is sent once more over HTTP.                                 *)
httpFallbackSend(e, err) == [httpTransport(e, "second", <<"send">>) EXCEPT !.err = err]

(* The same, in a new session without the token of the record.              *)
refreshJWT(e, err) ==
  [EnsureJWT(NewSession(e, 0)) EXCEPT !.refreshing = TRUE, !.err = err]

(* The record of the identity, with the token that is in the file now.      *)
requireActiveIdentity(kind) ==
  [Idle EXCEPT !.kind = kind, !.jwt = auth.file, !.since = auth.issued]

Begin(c, e) ==
  /\ cmd[c].pc = "idle"
  /\ Set(c, e)
  /\ UNCHANGED <<auth, accepted, late, expiries, losses>>

(* The listener in websocket mode, else HTTP.                               *)
transportFor(e) == {[e EXCEPT !.pc = "bridge"], httpTransport(e, "first", <<"send">>)}

SendDirect(c) == \E e \in transportFor(requireActiveIdentity("direct")) : Begin(c, e)

SendGroup(c) == \E e \in transportFor(requireActiveIdentity("group")) : Begin(c, e)

(* An attachment, to an agent or a group, goes over HTTP in either mode.    *)
SendAttachment(c) ==
  \E configured \in BOOLEAN :
    Begin(c, httpTransport(requireActiveIdentity("attachment"), "first",
                           prepareAttachmentUpload(configured) \o <<"send">>))

(* did-auth is asked for a token by a session that has none.                *)
RefreshToken(c) ==
  Begin(c, EnsureJWT(NewSession(requireActiveIdentity("refresh"), 0)))

(* A mutant: an error answer of the listener is decoded as a result.        *)
BridgeErrorIsResult(c) ==
  /\ cmd[c].pc = "bridge"
  /\ \E e \in {httpFallbackSend(cmd[c], "transport"), [cmd[c] EXCEPT !.pc = "store"]} : Set(c, e)
  /\ UNCHANGED <<auth, accepted, late, expiries, losses>>

(* CallLocalBridge: the probe, the dial or the write fails, or the listener *)
(* answers with an error.  None of them counts as unauthorized.             *)
BridgeFails(c) ==
  /\ cmd[c].pc = "bridge"
  /\ Set(c, httpFallbackSend(cmd[c], "transport"))
  /\ UNCHANGED <<auth, accepted, late, expiries, losses>>

(* Every SendDirect and SendGroup makes a message id of its own; the calls  *)
(* that repeat a request keep it.                                           *)
MessageOf(c) == <<c, cmd[c].leg>>

Accept(m) == accepted' = [accepted EXCEPT ![m[1]][m[2]] = @ + 1]

(* The listener sends over its websocket and passes the answer on.          *)
BridgeSends(c) ==
  /\ cmd[c].pc = "bridge"
  /\ Accept(MessageOf(c))
  /\ Set(c, [cmd[c] EXCEPT !.pc = "store"])
  /\ UNCHANGED <<auth, late, expiries, losses>>

(* BridgeReadTimeout: the command stops waiting, the listener does not; or  *)
(* the listener answers with an error because it lost its connection.       *)
BridgeTimeout(c) ==
  /\ cmd[c].pc = "bridge" /\ losses < MaxLost
  /\ late' = late \union {MessageOf(c)}
  /\ losses' = losses + 1
  /\ Set(c, [httpFallbackSend(cmd[c], "transport") EXCEPT !.lost = @ \union {"send"}])
  /\ UNCHANGED <<auth, accepted, expiries>>

(* Something a command gave up on reaches the service after all, or never.  *)
LateRequest(m) ==
  /\ m \in late
  /\ late' = late \ {m}
  /\ Accept(m) \/ UNCHANGED accepted
  /\ UNCHANGED <<auth, cmd, expiries, losses>>

(* Send: whatever the mode was and whatever the error, the message is sent  *)
(* over HTTP, after the token was renewed if the error asks for it.  If     *)
(* that fails too the first error is returned.                              *)
SendFailed(c, e, why) ==
  IF e.leg = "second" THEN Finish(c, e, e.err)
  ELSE Set(c, IF why = "unauthorized" THEN refreshJWT(e, why) ELSE httpFallbackSend(e, why))

(* sendGroup renews nothing, and returns the second error.                  *)
SendGroupFailed(c, e, why) ==
  IF e.leg = "second" THEN Finish(c, e, why) ELSE Set(c, httpFallbackSend(e, why))

(* A call over HTTP fails.  An error of refreshJWT is ignored.              *)
CallFailed(c, e, why) ==
  CASE e.refreshing -> Set(c, httpFallbackSend(e, e.err))
    [] ~e.refreshing /\ e.kind = "direct" -> SendFailed(c, e, why)
    [] ~e.refreshing /\ e.kind = "group" -> SendGroupFailed(c, e, why)
    [] e.kind \in {"attachment", "refresh"} -> Finish(c, e, why)

(***************************************************************************)
(* One HTTP exchange                                                       *)
(***************************************************************************)
Exchanging(c, call) == cmd[c].pc = "exchange" /\ Head(cmd[c].todo) = call
Calls == {"capabilities", "create_slot", "upload", "commit", "send", "get_me"}

(* Headers: the bearer of the session, or a signature.                      *)
Signed(c) == cmd[c].forced \/ cmd[c].bearer = 0
Authorized(c, call) == call = "upload" \/ Signed(c) \/ cmd[c].bearer \in auth.valid

(* The token is written over the one in the file.                           *)
UpdateJWT(t) == [auth EXCEPT !.file = t]

(* A new token, t, came with an answer.                                     *)
CaptureToken(t) == [UpdateJWT(t) EXCEPT !.issued = t, !.valid = @ \union {t}]

(* The service answers, perhaps with a token; did-auth gives one to a       *)
(* request that is signed.  The record gets the token of the session.       *)
Answer(c, call) ==
  LET e == cmd[c] IN
  /\ Exchanging(c, call) /\ Authorized(c, call)
  /\ \E given \in BOOLEAN :
       LET t == IF given THEN auth.issued + 1 ELSE e.bearer
           next == [e EXCEPT !.todo = Tail(@), !.bearer = t, !.jwt = t, !.forced = FALSE,
                             !.renewed = (call = "get_me")]
       IN
       /\ (call = "get_me" /\ Signed(c)) => given
       /\ given => call # "upload"
       /\ auth' = IF given THEN CaptureToken(t) ELSE auth
       /\ CASE e.refreshing -> Set(c, httpFallbackSend(next, e.err))
            [] ~e.refreshing /\ e.kind = "refresh" -> Finish(c, next, "refreshed")
            [] ~e.refreshing /\ call = "send" -> Set(c, [next EXCEPT !.pc = "store"])
            [] OTHER -> Set(c, next)
  /\ IF call = "send" THEN Accept(MessageOf(c)) ELSE UNCHANGED accepted
  /\ UNCHANGED <<late, expiries, losses>>

(* doRequest: after a 401 the same request goes out again, signed.  Without *)
(* a challenge in the answer the bearer is forgotten first.                 *)
Unauthorized401(c, call) ==
  /\ Exchanging(c, call) /\ ~Authorized(c, call)
  /\ \E challenge \in BOOLEAN :
       Set(c, [cmd[c] EXCEPT !.forced = TRUE, !.bearer = IF challenge THEN @ ELSE 0])
  /\ UNCHANGED <<auth, accepted, late, expiries, losses>>

(* A call that fails while the token is being renewed leaves the error that *)
(* asked for it.                                                            *)
ErrorOf(c, call, why) == IF call = "get_me" /\ cmd[c].kind # "refresh" THEN "unauthorized" ELSE why

(* A mutant: the answer 1401 is returned without asking did-auth.           *)
Return1401(c, call) ==
  /\ Exchanging(c, call) /\ ~Authorized(c, call) /\ call # "get_me"
  /\ CallFailed(c, cmd[c], "unauthorized")
  /\ UNCHANGED <<auth, accepted, late, expiries, losses>>

(* rpcCall: after the RPC error 1401 the session asks did-auth for a token, *)
(* and the same call is made once more.                                     *)
Unauthorized1401(c, call) ==
  /\ Exchanging(c, call) /\ ~Authorized(c, call) /\ call # "get_me"
  /\ IF cmd[c].renewed THEN CallFailed(c, cmd[c], "unauthorized")
     ELSE Set(c, EnsureJWT(cmd[c]))
  /\ UNCHANGED <<auth, accepted, late, expiries, losses>>

(* Any other error.                                                         *)
Refuse(c, call) ==
  /\ Exchanging(c, call) /\ Authorized(c, call)
  /\ CallFailed(c, [cmd[c] EXCEPT !.lost = @ \union ({call} \intersect {"get_me"})],
                ErrorOf(c, call, "refused"))
  /\ UNCHANGED <<auth, accepted, late, expiries, losses>>

(* A mutant: the request is sent again when there is no answer.             *)
ResendUnanswered(c, call) ==
  /\ Exchanging(c, call) /\ losses < MaxLost
  /\ late' = IF call = "send" THEN late \union {MessageOf(c)} ELSE late
  /\ losses' = losses + 1
  /\ UNCHANGED <<auth, accepted, cmd, expiries>>

(* No answer: the connection breaks or the timeout of the call passes.  A   *)
(* token that was in the answer is lost with it.                            *)
NoAnswer(c, call) ==
  /\ Exchanging(c, call) /\ losses < MaxLost
  /\ late' = IF call = "send" THEN late \union {MessageOf(c)} ELSE late
  /\ losses' = losses + 1
  /\ CallFailed(c, [cmd[c] EXCEPT !.lost = @ \union {call}], ErrorOf(c, call, "lost"))
  /\ UNCHANGED <<auth, accepted, expiries>>

(* Without the store the command returns an error although it has sent; a   *)
(* row that cannot be written is only a warning.                            *)
Persist(c, kind) ==
  /\ cmd[c].pc = "store" /\ cmd[c].kind = kind
  /\ \E outcome \in {"sent", "store_error"} : Finish(c, cmd[c], outcome)
  /\ UNCHANGED <<auth, accepted, late, expiries, losses>>

persistSendResult(c) == Persist(c, "direct")
persistGroupSendResult(c) == Persist(c, "group")
persistAttachmentSendResult(c) == Persist(c, "attachment")

Expire(t) ==
  /\ t \in auth.valid /\ expiries < MaxExpiries
  /\ auth' = [auth EXCEPT !.valid = @ \ {t}]
  /\ expiries' = expiries + 1
  /\ UNCHANGED <<accepted, late, cmd, losses>>

(***************************************************************************)
(* Specification                                                           *)
(***************************************************************************)
(* The identity has a token or none.                                        *)
Init ==
  /\ auth \in {[file |-> n, issued |-> n, valid |-> 1..n] : n \in 0..1}
  /\ accepted = [c \in Cmds |-> [l \in Legs |-> 0]]
  /\ late = {}
  /\ cmd = [c \in Cmds |-> Idle]
  /\ expiries = 0 /\ losses = 0

Exchange(c, call) ==
  \/ Answer(c, call)
  \/ Unauthorized401(c, call)
  \/ Unauthorized1401(c, call)
  \/ Refuse(c, call)
  \/ NoAnswer(c, call)

Next ==
  \/ \E c \in Cmds :
       \/ SendDirect(c)
       \/ SendGroup(c)
       \/ SendAttachment(c)
       \/ RefreshToken(c)
       \/ BridgeFails(c)
       \/ BridgeSends(c)
       \/ BridgeTimeout(c)
       \/ \E call \in Calls : Exchange(c, call)
       \/ persistSendResult(c)
       \/ persistGroupSendResult(c)
       \/ persistAttachmentSendResult(c)
  \/ \E m \in Cmds \X Legs : LateRequest(m)
  \/ \E t \in auth.valid : Expire(t)

Spec == Init /\ [][Next]_vars

(***************************************************************************)
(* Properties                                                              *)
(***************************************************************************)
Kinds == {"direct", "group", "attachment", "refresh"}
Errors == {"none", "transport", "refused", "lost", "unauthorized"}

(* What a command keeps in memory, and what the properties remember of it.  *)
Command ==
  [kind : Kinds \union {"none"}, pc : {"idle", "bridge", "exchange", "store", "done"},
   leg : Legs, todo : Seq(Calls), bearer : Nat, jwt : Nat, forced : BOOLEAN,
   renewed : BOOLEAN, refreshing : BOOLEAN, err : Errors, lost : SUBSET Calls,
   since : Nat, outcome : Errors \union {"sent", "store_error", "refreshed"}]

(* Every variable has its type.                                             *)
TypeOK ==
  /\ auth \in [file : Nat, issued : Nat, valid : SUBSET Nat]
  /\ accepted \in [Cmds -> [Legs -> Nat]]
  /\ late \subseteq Cmds \X Legs
  /\ cmd \in [Cmds -> Command]
  /\ expiries \in Nat /\ losses \in Nat

Copies(c) == accepted[c]["ws"] + accepted[c]["first"] + accepted[c]["second"]

(* The repeats of doRequest and rpcCall never have one message accepted     *)
(* twice, and the fallbacks of Send and sendGroup make a second message of  *)
(* the text only if an answer to the first was lost.                        *)
NoNeedlessDuplicate ==
  \A c \in Cmds :
    /\ \A l \in Legs : accepted[c][l] <= 1
    /\ Copies(c) > 1 => "send" \in cmd[c].lost

(* A send that reports success was accepted, and one that reports an error  *)
(* of the transport was not, unless an answer was lost: an error after the  *)
(* send (persistSendResult) is the one exception.                           *)
AnswerIsTrue ==
  \A c \in Cmds : (cmd[c].pc = "done" /\ cmd[c].kind # "refresh") =>
    IF cmd[c].outcome \in {"sent", "store_error"} THEN Copies(c) >= 1
    ELSE "send" \in cmd[c].lost \/ Copies(c) = 0

(* A send ends as unauthorized only if did-auth did not help, or a token    *)
(* issued while it ran, to it or to another command, expired again: an old  *)
(* token in the file, in the record or in a session never ends it.          *)
AuthHeals ==
  \A c \in Cmds : (cmd[c].pc = "done" /\ cmd[c].outcome = "unauthorized") =>
    \/ "get_me" \in cmd[c].lost
    \/ \E t \in (cmd[c].since + 1)..auth.issued : t \notin auth.valid
=============================================================================
