-------------------------- MODULE MessageSendProofs --------------------------
(***************************************************************************)
(* Proofs about the commands that send.                                     *)
(*                                                                          *)
(* MessageSend, for any number of commands, expired tokens and lost         *)
(* answers: types, that a text is accepted twice only after an answer was   *)
(* lost, that the outcome a command reports is true, and that an old token  *)
(* ends no send.                                                            *)
(*                                                                          *)
(* SecureOutbox, for any messages, workers and bounds: types, and that no   *)
(* message whose command reported success vanishes.                         *)
(***************************************************************************)
EXTENDS MessageSend, SecureOutbox, SequenceTheorems, TLAPS

(* The legs of a command on which something may still arrive late.           *)
LateLegs(c) == {l \in Legs : <<c, l>> \in late}

(* Nothing was sent on leg l: counters a, late legs L.                       *)
Unused(a, L, l) == a[l] = 0 /\ l \notin L

(* A leg carries its message at most once: what arrives late has not arrived *)
(* yet.                                                                      *)
OncePerLeg(a, L) == \A l \in Legs : a[l] <= 1 /\ (l \in L => a[l] = 0)

(* Requests that end in the message itself.                                  *)
EndInSend == {s \in Seq(Calls) : s # <<>> /\ s[Len(s)] = "send"}

(* A command at an HTTP exchange has its second leg before it or is on it,   *)
(* and the leg it is on is unused, unless it only asks for a token.          *)
AtExchange(e, a, L) ==
  /\ e.kind \in Kinds
  /\ Unused(a, L, "second")
  /\ e.refreshing => e.kind = "direct"
  /\ IF e.refreshing \/ e.kind = "refresh" THEN e.todo = <<"get_me">>
     ELSE e.todo \in EndInSend /\ e.leg # "ws" /\ Unused(a, L, e.leg)

(* Without a lost answer nothing is late, and something was accepted only if *)
(* the command has its answer.                                               *)
NothingLost(e, a, L) ==
  /\ L = {}
  /\ e.pc \in {"idle", "bridge", "exchange"} => \A l \in Legs : a[l] = 0
  /\ a["ws"] + a["first"] + a["second"] <= 1

(* A command that has its answer sent something, and so did one that says    *)
(* so; one that reports an error did not, unless an answer was lost.         *)
Truthful(e, a) ==
  /\ e.pc = "store" => a["ws"] + a["first"] + a["second"] >= 1
  /\ e.pc = "done" /\ e.kind # "refresh" =>
       IF e.outcome \in {"sent", "store_error"} THEN a["ws"] + a["first"] + a["second"] >= 1
       ELSE "send" \in e.lost \/ a["ws"] + a["first"] + a["second"] = 0

SendInv(e, a, L) ==
  /\ OncePerLeg(a, L)
  /\ e.pc = "idle" => \A l \in Legs : Unused(a, L, l)
  /\ e.pc = "bridge" => /\ e.kind \in {"direct", "group"} /\ e.leg = "ws"
                        /\ \A l \in Legs : Unused(a, L, l)
  /\ e.pc = "exchange" => AtExchange(e, a, L)
  /\ "send" \notin e.lost => NothingLost(e, a, L)
  /\ Truthful(e, a)

Inv == TypeOK /\ \A c \in Cmds : SendInv(cmd[c], accepted[c], LateLegs(c))
-----------------------------------------------------------------------------
(* Sequences of requests. *)

LEMMA OneRequest ==
  /\ <<>> \in Seq(Calls)
  /\ <<"send">> \in EndInSend /\ Head(<<"send">>) = "send"
  /\ <<"get_me">> \in Seq(Calls) /\ Head(<<"get_me">>) = "get_me"
  /\ <<"get_me">> \o <<>> = <<"get_me">>
<1>1. "send" \in Calls /\ "get_me" \in Calls
  BY DEF Calls
<1>2. <<>> \in Seq(Calls) /\ <<"send">> \in Seq(Calls) /\ <<"get_me">> \in Seq(Calls)
  BY <1>1
<1> QED
  BY <1>2, ConcatEmptySeq DEF EndInSend

(* Whatever requests come first.                                             *)
LEMMA Prefixed ==
  ASSUME NEW r \in Seq(Calls), NEW s \in EndInSend
  PROVE  r \o s \in EndInSend
<1>1. s \in Seq(Calls) /\ Len(s) \in Nat \ {0} /\ Len(r) \in Nat
  BY EmptySeq, LenProperties DEF EndInSend
<1>2. r \o s \in Seq(Calls) /\ Len(r \o s) = Len(r) + Len(s)
  BY <1>1, ConcatProperties
<1>3. (r \o s)[Len(r) + Len(s)] = s[Len(s)]
  BY <1>1, ConcatProperties
<1>4. r \o s # <<>>
  BY <1>1, <1>2, EmptySeq
<1> QED
  BY <1>2, <1>3, <1>4 DEF EndInSend

(* The request that is answered is not the last one.                         *)
LEMMA Rest ==
  ASSUME NEW s \in EndInSend
  PROVE  /\ s \in Seq(Calls) /\ Tail(s) \in Seq(Calls)
         /\ Head(s) # "send" => Tail(s) \in EndInSend
<1>1. s \in Seq(Calls) /\ s # <<>> /\ Len(s) \in Nat \ {0} /\ s[Len(s)] = "send"
  BY EmptySeq DEF EndInSend
<1>2. /\ Tail(s) \in Seq(Calls) /\ Len(Tail(s)) = Len(s) - 1
      /\ \A i \in 1 .. Len(Tail(s)) : Tail(s)[i] = s[i + 1]
  BY <1>1, HeadTailProperties
<1>3. ASSUME Head(s) # "send" PROVE Tail(s) \in EndInSend
  <2>1. Len(s) # 1
    BY <1>1, <1>3
  <2>2. Len(s) - 1 \in Nat \ {0}
    BY <1>1, <2>1
  <2>3. Len(Tail(s)) \in 1 .. Len(Tail(s)) /\ Len(Tail(s)) + 1 = Len(s)
    BY <1>1, <1>2, <2>2
  <2>4. Tail(s)[Len(Tail(s))] = "send"
    BY <1>1, <1>2, <2>3
  <2>5. Tail(s) # <<>>
    BY <1>2, <2>2, EmptySeq
  <2> QED
    BY <1>2, <2>4, <2>5 DEF EndInSend
<1> QED
  BY <1>1, <1>2, <1>3

LEMMA Attachment ==
  ASSUME NEW configured \in BOOLEAN
  PROVE  prepareAttachmentUpload(configured) \o <<"send">> \in EndInSend
<1>1. \A x \in Calls : <<x>> \in Seq(Calls)
  OBVIOUS
<1>2. /\ <<"capabilities">> \in Seq(Calls) /\ <<"create_slot">> \in Seq(Calls)
      /\ <<"upload">> \in Seq(Calls) /\ <<"commit">> \in Seq(Calls) /\ <<>> \in Seq(Calls)
  BY <1>1 DEF Calls
<1>3. CreateAttachmentSlot(configured) \in Seq(Calls)
  BY <1>2, ConcatProperties DEF CreateAttachmentSlot
<1>4. CreateAttachmentSlot(configured) \o <<"upload">> \in Seq(Calls)
  BY <1>2, <1>3, ConcatProperties
<1>5. prepareAttachmentUpload(configured) \in Seq(Calls)
  BY <1>2, <1>4, ConcatProperties
     DEF prepareAttachmentUpload, UploadAttachmentObject, CommitAttachmentObject
<1> QED
  BY <1>5, Prefixed, OneRequest
-----------------------------------------------------------------------------
(* What a command can become. *)

LEMMA IdleTypes == Idle \in Command /\ Idle.lost = {}
  BY OneRequest DEF Idle, Command, Legs, Kinds, Errors, Calls

LEMMA Finished ==
  ASSUME NEW c \in Cmds, NEW e \in Command,
         NEW outcome \in Errors \union {"sent", "store_error", "refreshed"},
         Finish(c, e, outcome)
  PROVE  \E f \in Command : /\ f.pc = "done" /\ f.lost = e.lost /\ f.kind = e.kind
                            /\ f.outcome = outcome /\ Set(c, f)
<1> DEFINE g == [Idle EXCEPT !.kind = e.kind, !.pc = "done", !.lost = e.lost,
                             !.since = e.since, !.outcome = outcome]
<1>1. e.kind \in Kinds \union {"none"} /\ e.lost \in SUBSET Calls /\ e.since \in Nat
  BY DEF Command
<1>2. "none" \in Errors
  BY DEF Errors
<1>3. g \in Command /\ g.pc = "done" /\ g.lost = e.lost /\ g.kind = e.kind
      /\ g.outcome = outcome
  BY <1>1, <1>2, OneRequest DEF Idle, Command, Legs
<1>4. Set(c, g)
  BY DEF Finish
<1> HIDE DEF g
<1> QED
  BY <1>3, <1>4

LEMMA Fallback ==
  ASSUME NEW e \in Command, NEW err \in Errors
  PROVE  LET f == httpFallbackSend(e, err) IN
         /\ f \in Command /\ f.pc = "exchange" /\ f.leg = "second" /\ f.todo = <<"send">>
         /\ ~f.refreshing /\ f.kind = e.kind /\ f.lost = e.lost
<1>1. e.jwt \in Nat
  BY DEF Command
<1> QED
  BY <1>1, OneRequest DEF httpFallbackSend, httpTransport, NewSession, Command, Legs, EndInSend

LEMMA Refreshing ==
  ASSUME NEW e \in Command, NEW err \in Errors
  PROVE  LET f == refreshJWT(e, err) IN
         /\ f \in Command /\ f.pc = "exchange" /\ f.todo = <<"get_me">>
         /\ f.refreshing /\ f.kind = e.kind /\ f.lost = e.lost
<1> DEFINE n == NewSession(e, 0)
           g == EnsureJWT(n)
<1>1. n \in Command /\ n.todo = <<>> /\ n.pc = "exchange" /\ n.kind = e.kind /\ n.lost = e.lost
  BY OneRequest DEF NewSession, Command
<1> HIDE DEF n
<1>2. /\ g \in Command /\ g.todo = <<"get_me">> /\ g.pc = "exchange" /\ g.kind = e.kind
      /\ g.lost = e.lost
  BY <1>1, OneRequest DEF EnsureJWT, Command
<1>3. refreshJWT(e, err) = [g EXCEPT !.refreshing = TRUE, !.err = err]
  BY DEF refreshJWT, n
<1> HIDE DEF g
<1> QED
  BY <1>2, <1>3 DEF Command

(* A call that fails ends the command or leads to an exchange that comes     *)
(* before the second leg; the answers lost stay the same.                    *)
LEMMA Failed ==
  ASSUME NEW c \in Cmds, NEW e \in Command, NEW why \in Errors, e.kind \in Kinds,
         e.refreshing => e.kind = "direct", CallFailed(c, e, why)
  PROVE  \E f \in Command :
           /\ Set(c, f)
           /\ f.lost = e.lost
           /\ \/ f.pc = "done" /\ f.outcome \in Errors
              \/ /\ f.pc = "exchange" /\ (e.refreshing \/ e.leg # "second")
                 /\ \A a, L : Unused(a, L, "second") => AtExchange(f, a, L)
<1> DEFINE Good(f) == /\ f \in Command /\ f.lost = e.lost
                      /\ \/ f.pc = "done" /\ f.outcome \in Errors
                         \/ /\ f.pc = "exchange"
                            /\ \A a, L : Unused(a, L, "second") => AtExchange(f, a, L)
<1> DEFINE Ended(f) == f \in Command /\ f.lost = e.lost /\ f.pc = "done" /\ f.outcome \in Errors
<1>1. e.err \in Errors /\ e.leg \in Legs /\ e.refreshing \in BOOLEAN
  BY DEF Command
<1>2. \A err \in Errors : e.kind # "refresh" => Good(httpFallbackSend(e, err))
  <2> SUFFICES ASSUME NEW err \in Errors, e.kind # "refresh"
               PROVE  Good(httpFallbackSend(e, err))
    OBVIOUS
  <2> QED
    BY Fallback, OneRequest DEF AtExchange
<1>3. \A err \in Errors : e.kind = "direct" => Good(refreshJWT(e, err))
  <2> SUFFICES ASSUME NEW err \in Errors, e.kind = "direct"
               PROVE  Good(refreshJWT(e, err))
    OBVIOUS
  <2> QED
    BY Refreshing DEF AtExchange
<1>4. \A outcome \in Errors : Finish(c, e, outcome) => \E f : Ended(f) /\ Set(c, f)
  BY Finished
<1> HIDE DEF Good, Ended
<1>5. CASE e.refreshing
  BY <1>1, <1>2, <1>5 DEF CallFailed, Good, Ended
<1>6. CASE ~e.refreshing /\ e.kind = "direct"
  <2>1. SendFailed(c, e, why)
    BY <1>6 DEF CallFailed
  <2> QED
    BY <1>1, <1>2, <1>3, <1>4, <1>6, <2>1 DEF SendFailed, Good, Ended
<1>7. CASE ~e.refreshing /\ e.kind = "group"
  <2>1. SendGroupFailed(c, e, why)
    BY <1>7 DEF CallFailed
  <2> QED
    BY <1>1, <1>2, <1>4, <1>7, <2>1 DEF SendGroupFailed, Good, Ended
<1>8. CASE ~e.refreshing /\ e.kind \in {"attachment", "refresh"}
  BY <1>1, <1>4, <1>8 DEF CallFailed, Good, Ended
<1> QED
  BY <1>5, <1>6, <1>7, <1>8 DEF Kinds
-----------------------------------------------------------------------------
(* The steps of a command leave the others alone. *)

SameFor(d) == accepted'[d] = accepted[d] /\ LateLegs(d)' = LateLegs(d)

LEMMA Untouched == UNCHANGED <<accepted, late>> => \A d \in Cmds : SameFor(d)
  BY DEF SameFor, LateLegs

LEMMA Accepting ==
  ASSUME TypeOK, NEW c \in Cmds, NEW l \in Legs, Accept(<<c, l>>)
  PROVE  /\ accepted' \in [Cmds -> [Legs -> Nat]]
         /\ accepted'[c] = [accepted[c] EXCEPT ![l] = @ + 1]
         /\ \A d \in Cmds \ {c} : accepted'[d] = accepted[d]
  BY DEF TypeOK, Accept

LEMMA OneCommand ==
  ASSUME Inv, NEW c \in Cmds, NEW f \in Command, Set(c, f),
         auth' \in [file : Nat, issued : Nat, valid : SUBSET Nat],
         accepted' \in [Cmds -> [Legs -> Nat]], late' \subseteq Cmds \X Legs,
         expiries' \in Nat, losses' \in Nat,
         \A d \in Cmds \ {c} : SameFor(d),
         SendInv(f, accepted'[c], LateLegs(c)')
  PROVE  Inv'
<1>1. TypeOK'
  BY DEF Inv, TypeOK, Set
<1>2. cmd'[c] = f /\ \A d \in Cmds \ {c} : cmd'[d] = cmd[d]
  BY DEF Inv, TypeOK, Set
<1>3. ASSUME NEW d \in Cmds PROVE SendInv(cmd'[d], accepted'[d], LateLegs(d)')
  <2>1. CASE d = c
    BY <1>2, <2>1
  <2>2. CASE d # c
    <3>1. cmd'[d] = cmd[d] /\ accepted'[d] = accepted[d] /\ LateLegs(d)' = LateLegs(d)
      BY <1>2, <2>2 DEF SameFor
    <3>2. SendInv(cmd[d], accepted[d], LateLegs(d))
      BY DEF Inv
    <3> QED
      BY <3>1, <3>2
  <2> QED
    BY <2>1, <2>2
<1> QED
  BY <1>1, <1>3 DEF Inv

(* What a step of a command that sends nothing has to show.                  *)
LEMMA Quiet ==
  ASSUME Inv, NEW c \in Cmds, NEW f \in Command, Set(c, f),
         auth' \in [file : Nat, issued : Nat, valid : SUBSET Nat],
         UNCHANGED <<accepted, late, expiries, losses>>,
         SendInv(f, accepted[c], LateLegs(c))
  PROVE  Inv'
<1>1. SameFor(c) /\ \A d \in Cmds \ {c} : SameFor(d)
  BY Untouched
<1> QED
  BY <1>1, OneCommand DEF SameFor, Inv, TypeOK
-----------------------------------------------------------------------------
(* A command begins. *)

LEMMA BeginStep ==
  ASSUME Inv, NEW c \in Cmds, NEW e \in Command, Begin(c, e), e.lost = {},
         \/ e.pc = "bridge" /\ e.kind \in {"direct", "group"} /\ e.leg = "ws"
         \/ e.pc = "exchange" /\ \A a, L : Unused(a, L, "first") /\ Unused(a, L, "second")
                                          => AtExchange(e, a, L)
  PROVE  Inv'
<1>1. SendInv(cmd[c], accepted[c], LateLegs(c)) /\ cmd[c].pc = "idle"
  BY DEF Inv, Begin
<1>2. \A l \in Legs : Unused(accepted[c], LateLegs(c), l)
  BY <1>1 DEF SendInv
<1>3. LateLegs(c) = {}
  BY <1>2 DEF Unused, LateLegs
<1>4. SendInv(e, accepted[c], LateLegs(c))
  BY <1>1, <1>2, <1>3 DEF SendInv, NothingLost, Unused, Legs, Truthful
<1> QED
  BY <1>4, Quiet DEF Begin, Inv, TypeOK

LEMMA SendDirectStep ==
  ASSUME Inv, NEW c \in Cmds,
         SendDirect(c) \/ SendGroup(c) \/ SendAttachment(c) \/ RefreshToken(c)
  PROVE  Inv'
<1> DEFINE r(kind) == requireActiveIdentity(kind)
<1>1. ASSUME NEW kind \in Kinds
      PROVE  /\ r(kind) \in Command /\ r(kind).lost = {} /\ r(kind).kind = kind
             /\ r(kind).leg = "ws" /\ r(kind).todo = <<>>
  BY IdleTypes DEF Inv, TypeOK, requireActiveIdentity, Command, Idle
<1> HIDE DEF r
<1>2. ASSUME NEW kind \in Kinds \ {"refresh"}, NEW queue \in EndInSend,
             NEW e, e = httpTransport(r(kind), "first", queue), Begin(c, e)
      PROVE  Inv'
  <2> DEFINE n == NewSession(r(kind), r(kind).jwt)
  <2>1. kind \in Kinds /\ queue \in Seq(Calls) /\ r(kind) \in Command /\ r(kind).jwt \in Nat
        /\ r(kind).lost = {} /\ r(kind).kind = kind
    BY <1>1, Rest DEF Kinds, Command
  <2>2. n \in Command /\ n.lost = {} /\ n.kind = kind /\ n.pc = "exchange" /\ ~n.refreshing
    BY <2>1, OneRequest DEF NewSession, Command
  <2>3. e = [n EXCEPT !.leg = "first", !.todo = queue]
    BY <1>2 DEF httpTransport
  <2> HIDE DEF n
  <2>4. /\ e \in Command /\ e.lost = {} /\ e.pc = "exchange" /\ e.kind = kind
        /\ e.leg = "first" /\ e.todo = queue /\ ~e.refreshing
    BY <2>1, <2>2, <2>3 DEF Command, Legs
  <2>5. \A a, L : Unused(a, L, "first") /\ Unused(a, L, "second") => AtExchange(e, a, L)
    BY <2>1, <2>4 DEF AtExchange
  <2> QED
    BY <1>2, <2>4, <2>5, BeginStep
<1>3. ASSUME NEW kind \in {"direct", "group"}, NEW e \in transportFor(r(kind)), Begin(c, e)
      PROVE  Inv'
  <2>1. CASE e = httpTransport(r(kind), "first", <<"send">>)
    BY <1>2, <1>3, <2>1, OneRequest DEF Kinds
  <2>2. CASE e = [r(kind) EXCEPT !.pc = "bridge"]
    <3>0. kind \in Kinds /\ r(kind) \in Command /\ r(kind).lost = {} /\ r(kind).kind = kind
          /\ r(kind).leg = "ws"
      BY <1>1 DEF Kinds
    <3>1. e \in Command /\ e.lost = {} /\ e.pc = "bridge" /\ e.kind = kind /\ e.leg = "ws"
      BY <3>0, <2>2 DEF Command
    <3> QED
      BY <1>3, <3>1, BeginStep
  <2> QED
    BY <1>3, <2>1, <2>2 DEF transportFor
<1>4. CASE SendDirect(c) \/ SendGroup(c)
  BY <1>3, <1>4 DEF SendDirect, SendGroup, r
<1>5. CASE SendAttachment(c)
  BY <1>2, <1>5, Attachment DEF SendAttachment, r, Kinds
<1>6. CASE RefreshToken(c)
  <2> DEFINE n == NewSession(r("refresh"), 0)
             e == EnsureJWT(n)
  <2>1. n \in Command /\ n.todo = <<>> /\ n.lost = {} /\ n.pc = "exchange" /\ n.kind = "refresh"
        /\ ~n.refreshing
    BY <1>1, OneRequest DEF NewSession, Command, Kinds
  <2> HIDE DEF n
  <2>2. e \in Command /\ e.todo = <<"get_me">> /\ e.lost = {} /\ e.pc = "exchange"
        /\ e.kind = "refresh" /\ ~e.refreshing
    BY <2>1, OneRequest DEF EnsureJWT, Command
  <2>3. Begin(c, e)
    BY <1>6 DEF RefreshToken, r, n
  <2> HIDE DEF e
  <2>4. \A a, L : Unused(a, L, "first") /\ Unused(a, L, "second") => AtExchange(e, a, L)
    BY <2>2 DEF AtExchange, Kinds
  <2> QED
    BY <2>2, <2>3, <2>4, BeginStep
<1> QED
  BY <1>4, <1>5, <1>6
-----------------------------------------------------------------------------
(* The bridge to the listener. *)

LEMMA LateGrows ==
  ASSUME NEW c \in Cmds, NEW l \in Legs, late' = late \union {<<c, l>>}
  PROVE  /\ LateLegs(c)' = LateLegs(c) \union {l}
         /\ \A d \in Cmds \ {c} : LateLegs(d)' = LateLegs(d)
  BY DEF LateLegs

LEMMA LateShrinks ==
  ASSUME NEW c \in Cmds, NEW l \in Legs, late' = late \ {<<c, l>>}
  PROVE  /\ LateLegs(c)' = LateLegs(c) \ {l}
         /\ \A d \in Cmds \ {c} : LateLegs(d)' = LateLegs(d)
  BY DEF LateLegs

LEMMA BridgeStep ==
  ASSUME Inv, NEW c \in Cmds, BridgeFails(c) \/ BridgeSends(c) \/ BridgeTimeout(c)
  PROVE  Inv'
<1> DEFINE e == cmd[c]
           a == accepted[c]
           L == LateLegs(c)
           f == httpFallbackSend(e, "transport")
<1>1. /\ e \in Command /\ e.pc = "bridge" /\ e.kind \in {"direct", "group"} /\ e.leg = "ws"
      /\ SendInv(e, a, L) /\ a \in [Legs -> Nat]
  BY DEF Inv, TypeOK, SendInv, BridgeFails, BridgeSends, BridgeTimeout
<1>2. /\ \A l \in Legs : Unused(a, L, l)
      /\ "send" \notin e.lost => L = {}
  BY <1>1 DEF SendInv, NothingLost
<1>3. /\ f \in Command /\ f.pc = "exchange" /\ f.leg = "second" /\ f.todo \in EndInSend
      /\ ~f.refreshing /\ f.kind \in {"direct", "group"} /\ f.lost = e.lost
  BY <1>1, Fallback, OneRequest DEF Errors
<1>4. \A b, K : Unused(b, K, "second") => AtExchange(f, b, K)
  BY <1>3 DEF AtExchange, Kinds
<1>5. "ws" \in Legs /\ "first" \in Legs /\ "second" \in Legs
  BY DEF Legs
<1> HIDE DEF f
<1>6. CASE BridgeFails(c)
  <2>1. SendInv(f, a, L)
    BY <1>1, <1>2, <1>3, <1>4, <1>5 DEF SendInv, NothingLost, Unused, Truthful
  <2> QED
    BY <1>3, <1>6, <2>1, Quiet DEF BridgeFails, Inv, TypeOK, f
<1>7. CASE BridgeSends(c)
  <2> DEFINE g == [e EXCEPT !.pc = "store"]
  <2>1. g \in Command /\ g.pc = "store" /\ g.lost = e.lost
    BY <1>1 DEF Command
  <2>2. Accept(<<c, "ws">>) /\ Set(c, g) /\ UNCHANGED <<auth, late, expiries, losses>>
    BY <1>1, <1>7 DEF BridgeSends, MessageOf
  <2> HIDE DEF g
  <2>3. /\ accepted' \in [Cmds -> [Legs -> Nat]]
        /\ accepted'[c] = [a EXCEPT !["ws"] = @ + 1]
        /\ \A d \in Cmds \ {c} : SameFor(d)
        /\ LateLegs(c)' = L
    BY <1>5, <2>2, Accepting DEF Inv, SameFor, LateLegs
  <2>4. SendInv(g, accepted'[c], L)
    BY <1>1, <1>2, <2>1, <2>3 DEF SendInv, NothingLost, OncePerLeg, Unused, Legs, Truthful
  <2> QED
    BY <2>1, <2>2, <2>3, <2>4, OneCommand DEF Inv, TypeOK
<1>8. CASE BridgeTimeout(c)
  <2> DEFINE g == [f EXCEPT !.lost = @ \union {"send"}]
  <2>1. /\ g \in Command /\ g.pc = "exchange" /\ "send" \in g.lost
        /\ \A b, K : Unused(b, K, "second") => AtExchange(g, b, K)
    BY <1>3 DEF AtExchange, Command, Kinds, Calls
  <2>2. /\ late' = late \union {<<c, "ws">>} /\ Set(c, g)
        /\ losses' = losses + 1 /\ UNCHANGED <<auth, accepted, expiries>>
    BY <1>1, <1>8 DEF BridgeTimeout, MessageOf, f
  <2> HIDE DEF g
  <2>3. LateLegs(c)' = L \union {"ws"} /\ \A d \in Cmds \ {c} : SameFor(d)
    BY <1>5, <2>2, LateGrows DEF SameFor
  <2>4. SendInv(g, a, L \union {"ws"})
    BY <1>1, <1>2, <1>5, <2>1 DEF SendInv, OncePerLeg, Unused, Truthful
  <2>5. /\ auth' \in [file : Nat, issued : Nat, valid : SUBSET Nat]
        /\ accepted' \in [Cmds -> [Legs -> Nat]] /\ late' \subseteq Cmds \X Legs
        /\ expiries' \in Nat /\ losses' \in Nat
    BY <1>5, <2>2 DEF Inv, TypeOK
  <2>6. SendInv(g, accepted'[c], LateLegs(c)')
    BY <2>2, <2>3, <2>4
  <2> HIDE DEF e, a, L
  <2> QED
    BY <2>1, <2>2, <2>3, <2>5, <2>6, OneCommand
<1> QED
  BY <1>6, <1>7, <1>8

(* The command persists what it sent.                                        *)
LEMMA PersistStep ==
  ASSUME Inv, NEW c \in Cmds, NEW kind, Persist(c, kind)
  PROVE  Inv'
<1>1. PICK outcome \in {"sent", "store_error"} : Finish(c, cmd[c], outcome)
  BY DEF Persist
<1>2. cmd[c] \in Command /\ cmd[c].pc = "store" /\ SendInv(cmd[c], accepted[c], LateLegs(c))
  BY DEF Inv, TypeOK, Persist
<1>3. PICK f \in Command : /\ f.pc = "done" /\ f.lost = cmd[c].lost /\ Set(c, f)
                          /\ f.outcome = outcome
  BY <1>1, <1>2, Finished
<1>4. SendInv(f, accepted[c], LateLegs(c))
  BY <1>2, <1>3 DEF SendInv, NothingLost, Truthful
<1> QED
  BY <1>3, <1>4, Quiet DEF Persist, Inv, TypeOK

(* Something late arrives, or never will.                                    *)
LEMMA LateStep ==
  ASSUME Inv, NEW m \in Cmds \X Legs, LateRequest(m)
  PROVE  Inv'
<1>1. PICK c \in Cmds, l \in Legs : m = <<c, l>>
  OBVIOUS
<1>2. /\ SendInv(cmd[c], accepted[c], LateLegs(c)) /\ l \in LateLegs(c)
      /\ accepted[c] \in [Legs -> Nat] /\ cmd[c] \in Command
  BY <1>1 DEF Inv, TypeOK, LateRequest, LateLegs
<1>3. "send" \in cmd[c].lost /\ accepted[c][l] = 0
  BY <1>2 DEF SendInv, NothingLost, OncePerLeg
<1>4. LateLegs(c)' = LateLegs(c) \ {l} /\ \A d \in Cmds \ {c} : LateLegs(d)' = LateLegs(d)
  BY <1>1, LateShrinks DEF LateRequest
<1>5. /\ accepted' \in [Cmds -> [Legs -> Nat]]
      /\ \A d \in Cmds \ {c} : accepted'[d] = accepted[d]
      /\ \/ accepted'[c] = [accepted[c] EXCEPT ![l] = @ + 1]
         \/ accepted'[c] = accepted[c]
  BY <1>1, Accepting DEF LateRequest, Inv, TypeOK
<1>6. \A k \in Legs : Unused(accepted[c], LateLegs(c), k) => k # l
  BY <1>2 DEF Unused
<1>7. \A k \in Legs : Unused(accepted[c], LateLegs(c), k)
                     => Unused(accepted'[c], LateLegs(c)', k)
  BY <1>2, <1>4, <1>5, <1>6 DEF Unused
<1>8. OncePerLeg(accepted'[c], LateLegs(c)')
  BY <1>2, <1>3, <1>4, <1>5 DEF SendInv, OncePerLeg
<1>9. cmd[c].leg \in Legs /\ "second" \in Legs /\ "ws" \in Legs /\ "first" \in Legs
  BY <1>2 DEF Command, Legs
<1>10. SendInv(cmd[c], accepted'[c], LateLegs(c)')
  <2>1. \A k \in Legs : accepted'[c][k] \in Nat /\ accepted'[c][k] >= accepted[c][k]
    <3>1. CASE accepted'[c] = accepted[c]
      BY <1>2, <3>1
    <3>2. CASE accepted'[c] = [accepted[c] EXCEPT ![l] = @ + 1]
      <4>1. accepted'[c][l] = accepted[c][l] + 1
        BY <1>1, <1>2, <3>2
      <4>2. \A k \in Legs \ {l} : accepted'[c][k] = accepted[c][k]
        BY <1>2, <3>2
      <4>3. \A k \in Legs : accepted[c][k] \in Nat
        BY <1>2
      <4> QED
        BY <4>1, <4>2, <4>3
    <3> QED
      BY <1>5, <3>1, <3>2
  <2>2. Truthful(cmd[c], accepted'[c])
    BY <1>2, <1>3, <1>9, <2>1 DEF SendInv, Truthful
  <2> QED
    BY <1>2, <1>3, <1>7, <1>8, <1>9, <2>2 DEF SendInv, AtExchange
<1>11. Set(c, cmd[c])
  BY DEF LateRequest, Set, Inv, TypeOK
<1> QED
  BY <1>2, <1>4, <1>5, <1>10, <1>11, OneCommand DEF LateRequest, SameFor, Inv, TypeOK
-----------------------------------------------------------------------------
(* One HTTP exchange. *)

(* What is known of a command that waits for an answer.                      *)
Waiting(c, call) ==
  /\ cmd[c] \in Command /\ cmd[c].pc = "exchange" /\ Head(cmd[c].todo) = call
  /\ accepted[c] \in [Legs -> Nat]
  /\ OncePerLeg(accepted[c], LateLegs(c))
  /\ AtExchange(cmd[c], accepted[c], LateLegs(c))
  /\ "send" \notin cmd[c].lost => NothingLost(cmd[c], accepted[c], LateLegs(c))

LEMMA WaitingFacts ==
  ASSUME Inv, NEW c \in Cmds, NEW call \in Calls, Exchanging(c, call)
  PROVE  Waiting(c, call)
  BY DEF Inv, TypeOK, SendInv, Exchanging, Waiting

(* Only a command that asks for a token waits for get_me alone.              *)
LEMMA WaitingRequest ==
  ASSUME NEW c \in Cmds, NEW call \in Calls, Waiting(c, call), call # "get_me"
  PROVE  /\ ~cmd[c].refreshing /\ cmd[c].kind # "refresh"
         /\ cmd[c].todo \in EndInSend /\ cmd[c].leg # "ws"
         /\ Unused(accepted[c], LateLegs(c), cmd[c].leg)
  BY OneRequest DEF Waiting, AtExchange

(* A call fails without anything being sent: the command ends, or goes on to *)
(* its second leg.                                                           *)
LEMMA FailedStep ==
  ASSUME Inv, NEW c \in Cmds, NEW call \in Calls, Waiting(c, call),
         NEW e \in Command, e.kind = cmd[c].kind, e.refreshing = cmd[c].refreshing,
         e.lost \subseteq Calls, cmd[c].lost \subseteq e.lost,
         NEW why \in Errors, CallFailed(c, e, why),
         UNCHANGED <<auth, accepted, late, expiries, losses>>
  PROVE  Inv'
<1>1. e.kind \in Kinds /\ (e.refreshing => e.kind = "direct")
  BY DEF Waiting, AtExchange
<1>2. PICK f \in Command :
        /\ Set(c, f)
        /\ f.lost = e.lost
        /\ \/ f.pc = "done" /\ f.outcome \in Errors
           \/ /\ f.pc = "exchange"
              /\ \A a, L : Unused(a, L, "second") => AtExchange(f, a, L)
  BY <1>1, Failed
<1>3. SendInv(f, accepted[c], LateLegs(c))
  BY <1>2 DEF Waiting, AtExchange, SendInv, NothingLost, Truthful, Errors, Legs
<1> QED
  BY <1>2, <1>3, Quiet DEF Inv, TypeOK

LEMMA UnauthorizedStep ==
  ASSUME Inv, NEW c \in Cmds, NEW call \in Calls,
         Unauthorized401(c, call) \/ Unauthorized1401(c, call) \/ Refuse(c, call)
  PROVE  Inv'
<1> DEFINE e == cmd[c]
<1>1. Waiting(c, call)
  BY WaitingFacts DEF Unauthorized401, Unauthorized1401, Refuse
<1>2. e \in Command /\ e.lost \subseteq Calls /\ e.bearer \in Nat /\ e.pc = "exchange"
  BY <1>1 DEF Waiting, Command
<1>3. CASE Unauthorized401(c, call)
  <2>1. PICK challenge \in BOOLEAN :
          Set(c, [e EXCEPT !.forced = TRUE, !.bearer = IF challenge THEN @ ELSE 0])
    BY <1>3 DEF Unauthorized401
  <2> DEFINE f == [e EXCEPT !.forced = TRUE, !.bearer = IF challenge THEN @ ELSE 0]
  <2>2. /\ f \in Command /\ f.pc = "exchange" /\ f.lost = e.lost /\ f.kind = e.kind
        /\ f.refreshing = e.refreshing /\ f.todo = e.todo /\ f.leg = e.leg
    BY <1>2 DEF Command
  <2>3. Set(c, f)
    BY <2>1
  <2> HIDE DEF f
  <2>4. SendInv(f, accepted[c], LateLegs(c))
    BY <1>1, <2>2 DEF Waiting, AtExchange, SendInv, NothingLost, Truthful
  <2> QED
    BY <1>3, <2>2, <2>3, <2>4, Quiet DEF Unauthorized401, Inv, TypeOK
<1>4. CASE Unauthorized1401(c, call) /\ e.renewed
  BY <1>1, <1>2, <1>4, FailedStep DEF Unauthorized1401, Errors
<1>5. CASE Unauthorized1401(c, call) /\ ~e.renewed
  <2> DEFINE f == EnsureJWT(e)
  <2>1. ~e.refreshing /\ e.kind # "refresh" /\ e.todo \in EndInSend
    BY <1>1, <1>5, WaitingRequest DEF Unauthorized1401
  <2>2. <<"get_me">> \o e.todo \in EndInSend
    BY <2>1, Prefixed, OneRequest
  <2>3. /\ f \in Command /\ f.pc = "exchange" /\ f.lost = e.lost /\ f.kind = e.kind
        /\ f.refreshing = e.refreshing /\ f.todo \in EndInSend /\ f.leg = e.leg
    BY <1>2, <2>2, Rest DEF EnsureJWT, Command
  <2>4. Set(c, f)
    BY <1>5 DEF Unauthorized1401
  <2> HIDE DEF f
  <2>5. SendInv(f, accepted[c], LateLegs(c))
    BY <1>1, <2>1, <2>3 DEF Waiting, AtExchange, SendInv, NothingLost, Truthful
  <2> QED
    BY <1>5, <2>3, <2>4, <2>5, Quiet DEF Unauthorized1401, Inv, TypeOK
<1>6. CASE Refuse(c, call)
  <2> DEFINE f == [e EXCEPT !.lost = @ \union ({call} \intersect {"get_me"})]
  <2>1. /\ f \in Command /\ f.kind = e.kind /\ f.refreshing = e.refreshing
        /\ f.lost \subseteq Calls /\ e.lost \subseteq f.lost
    BY <1>2 DEF Command
  <2>2. ErrorOf(c, call, "refused") \in Errors
    BY DEF ErrorOf, Errors
  <2>3. CallFailed(c, f, ErrorOf(c, call, "refused"))
    BY <1>6 DEF Refuse
  <2> HIDE DEF f
  <2> QED
    BY <1>1, <1>6, <2>1, <2>2, <2>3, FailedStep DEF Refuse
<1> QED
  BY <1>3, <1>4, <1>5, <1>6

(* No answer comes: what was sent may still arrive, and the leg it was sent  *)
(* on is not used again.                                                     *)
LEMMA NoAnswerStep ==
  ASSUME Inv, NEW c \in Cmds, NEW call \in Calls, NoAnswer(c, call)
  PROVE  Inv'
<1> DEFINE e == [cmd[c] EXCEPT !.lost = @ \union {call}]
           why == ErrorOf(c, call, "lost")
           l == cmd[c].leg
<1>1. Waiting(c, call)
  BY WaitingFacts DEF NoAnswer
<1>2. /\ e \in Command /\ e.kind = cmd[c].kind /\ e.refreshing = cmd[c].refreshing
      /\ e.leg = l /\ l \in Legs /\ e.lost = cmd[c].lost \union {call}
  BY <1>1 DEF Waiting, Command
<1>3. e.kind \in Kinds /\ (e.refreshing => e.kind = "direct") /\ why \in Errors
  BY <1>1, <1>2 DEF Waiting, AtExchange, ErrorOf, Errors
<1>4. CallFailed(c, e, why) /\ losses' = losses + 1 /\ UNCHANGED <<auth, accepted, expiries>>
  BY DEF NoAnswer
<1> HIDE DEF e, why
<1>5. PICK f \in Command :
        /\ Set(c, f)
        /\ f.lost = e.lost
        /\ \/ f.pc = "done" /\ f.outcome \in Errors
           \/ /\ f.pc = "exchange" /\ (e.refreshing \/ e.leg # "second")
              /\ \A a, L : Unused(a, L, "second") => AtExchange(f, a, L)
  BY <1>2, <1>3, <1>4, Failed
<1>6. CASE call # "send"
  <2>1. UNCHANGED late /\ ("send" \in f.lost <=> "send" \in cmd[c].lost)
    BY <1>2, <1>5, <1>6 DEF NoAnswer
  <2>2. SendInv(f, accepted[c], LateLegs(c))
    BY <1>1, <1>5, <2>1 DEF Waiting, AtExchange, SendInv, NothingLost, Truthful, Errors, Legs
  <2>3. \A d \in Cmds : SameFor(d)
    BY <1>4, <2>1, Untouched
  <2>4. SendInv(f, accepted'[c], LateLegs(c)')
    BY <2>2, <2>3 DEF SameFor
  <2>5. /\ auth' \in [file : Nat, issued : Nat, valid : SUBSET Nat]
        /\ accepted' \in [Cmds -> [Legs -> Nat]] /\ late' \subseteq Cmds \X Legs
        /\ expiries' \in Nat /\ losses' \in Nat
    BY <1>4, <2>1 DEF Inv, TypeOK
  <2> QED
    BY <1>5, <2>3, <2>4, <2>5, OneCommand
<1>7. CASE call = "send"
  <2>1. late' = late \union {<<c, l>>}
    BY <1>7 DEF NoAnswer, MessageOf
  <2>2. /\ LateLegs(c)' = LateLegs(c) \union {l}
        /\ \A d \in Cmds \ {c} : LateLegs(d)' = LateLegs(d)
    BY <1>2, <2>1, LateGrows
  <2>3. /\ ~e.refreshing /\ Unused(accepted[c], LateLegs(c), l)
        /\ Unused(accepted[c], LateLegs(c), "second")
    BY <1>1, <1>2, <1>7, WaitingRequest DEF Waiting, AtExchange
  <2>4. OncePerLeg(accepted[c], LateLegs(c) \union {l})
    BY <1>1, <1>2, <2>3 DEF Waiting, OncePerLeg, Unused
  <2>5. l # "second" => Unused(accepted[c], LateLegs(c) \union {l}, "second")
    BY <2>3 DEF Unused
  <2>6. SendInv(f, accepted[c], LateLegs(c) \union {l})
    BY <1>2, <1>5, <1>7, <2>3, <2>4, <2>5 DEF SendInv, Truthful, Errors
  <2>7. /\ auth' \in [file : Nat, issued : Nat, valid : SUBSET Nat]
        /\ accepted' \in [Cmds -> [Legs -> Nat]] /\ late' \subseteq Cmds \X Legs
        /\ expiries' \in Nat /\ losses' \in Nat
    BY <1>2, <1>4, <2>1 DEF Inv, TypeOK
  <2>8. SendInv(f, accepted'[c], LateLegs(c)') /\ \A d \in Cmds \ {c} : SameFor(d)
    BY <1>4, <2>2, <2>6 DEF SameFor
  <2> QED
    BY <1>5, <2>7, <2>8, OneCommand
<1> QED
  BY <1>6, <1>7

(* The service answers, and has accepted the message if it was one.          *)
LEMMA AnswerStep ==
  ASSUME Inv, NEW c \in Cmds, NEW call \in Calls, Answer(c, call)
  PROVE  Inv'
<1> DEFINE e == cmd[c]
           next(t) == [e EXCEPT !.todo = Tail(@), !.bearer = t, !.jwt = t, !.forced = FALSE,
                                !.renewed = (call = "get_me")]
           To(n) ==
             CASE e.refreshing -> Set(c, httpFallbackSend(n, e.err))
               [] ~e.refreshing /\ e.kind = "refresh" -> Finish(c, n, "refreshed")
               [] ~e.refreshing /\ call = "send" -> Set(c, [n EXCEPT !.pc = "store"])
               [] OTHER -> Set(c, n)
<1>1. Waiting(c, call) /\ e \in Command /\ e.bearer \in Nat /\ e.err \in Errors
  BY WaitingFacts DEF Answer, Waiting, Command
<1>2. PICK t \in Nat :
        /\ auth' \in [file : Nat, issued : Nat, valid : SUBSET Nat]
        /\ To(next(t))
  <2>1. PICK given \in BOOLEAN :
          LET t == IF given THEN auth.issued + 1 ELSE e.bearer IN
          /\ auth' = IF given THEN CaptureToken(t) ELSE auth
          /\ To(next(t))
    BY DEF Answer
  <2> HIDE DEF To, next
  <2>2. CASE given
    <3>1. auth.issued + 1 \in Nat /\ CaptureToken(auth.issued + 1) \in
            [file : Nat, issued : Nat, valid : SUBSET Nat]
      <4> DEFINE t == auth.issued + 1
      <4>1. /\ auth \in [file : Nat, issued : Nat, valid : SUBSET Nat]
            /\ t \in Nat /\ auth.valid \in SUBSET Nat
        BY DEF Inv, TypeOK
      <4> HIDE DEF t
      <4>2. UpdateJWT(t) \in [file : Nat, issued : Nat, valid : SUBSET Nat]
        BY <4>1 DEF UpdateJWT
      <4>3. UpdateJWT(t).valid \union {t} \in SUBSET Nat
        BY <4>1, <4>2
      <4>4. CaptureToken(t) \in [file : Nat, issued : Nat, valid : SUBSET Nat]
        BY <4>1, <4>2, <4>3 DEF CaptureToken
      <4> QED
        BY <4>1, <4>4 DEF t
    <3> QED
      BY <2>1, <2>2, <3>1
  <2>3. CASE ~given
    BY <1>1, <2>1, <2>3 DEF Inv, TypeOK
  <2> QED
    BY <2>2, <2>3
<1> DEFINE n == next(t)
<1>3. e.todo \in Seq(Calls) /\ Tail(e.todo) \in Seq(Calls)
  <2>1. CASE e.refreshing \/ e.kind = "refresh"
    <3>1. e.todo = <<"get_me">>
      BY <1>1, <2>1 DEF Waiting, AtExchange
    <3> QED
      BY <3>1, OneRequest, HeadTailProperties
  <2>2. CASE ~(e.refreshing \/ e.kind = "refresh")
    BY <1>1, <2>2, Rest DEF Waiting, AtExchange
  <2> QED
    BY <2>1, <2>2
<1>4. /\ n \in Command /\ n.todo = Tail(e.todo) /\ n.pc = "exchange" /\ n.kind = e.kind
      /\ n.lost = e.lost /\ n.leg = e.leg /\ n.refreshing = e.refreshing
  BY <1>1, <1>2, <1>3 DEF Waiting, Command
<1>5. To(n)
  BY <1>2
<1>6. UNCHANGED <<late, expiries, losses>> /\ (call # "send" => UNCHANGED accepted)
  BY DEF Answer
<1> HIDE DEF n, next
<1>7. CASE e.refreshing
  <2>1. call # "send" /\ e.kind = "direct"
    BY <1>1, <1>7, OneRequest DEF Waiting, AtExchange
  <2> DEFINE f == httpFallbackSend(n, e.err)
  <2>2. /\ f \in Command /\ f.pc = "exchange" /\ f.leg = "second" /\ f.todo \in EndInSend
        /\ ~f.refreshing /\ f.kind = "direct" /\ f.lost = e.lost
    BY <1>1, <1>4, <2>1, Fallback, OneRequest
  <2>3. Set(c, f)
    BY <1>5, <1>7, <2>1
  <2> HIDE DEF f
  <2>4. SendInv(f, accepted[c], LateLegs(c))
    BY <1>1, <2>2 DEF Waiting, AtExchange, SendInv, NothingLost, Kinds, Truthful
  <2> QED
    BY <1>2, <1>6, <2>1, <2>2, <2>3, <2>4, Quiet
<1>8. CASE ~e.refreshing /\ e.kind = "refresh"
  <2>1. call # "send"
    BY <1>1, <1>8, OneRequest DEF Waiting, AtExchange
  <2>2. Finish(c, n, "refreshed")
    BY <1>5, <1>8, <2>1
  <2>3. PICK f \in Command : f.pc = "done" /\ f.lost = n.lost /\ f.kind = "refresh" /\ Set(c, f)
    BY <1>4, <1>8, <2>2, Finished
  <2>4. SendInv(f, accepted[c], LateLegs(c))
    BY <1>1, <1>4, <2>3 DEF Waiting, SendInv, NothingLost, Truthful
  <2> QED
    BY <1>2, <1>6, <2>1, <2>3, <2>4, Quiet
<1>9. CASE ~e.refreshing /\ e.kind # "refresh" /\ call # "send"
  <2>1. Set(c, n)
    BY <1>5, <1>9
  <2>2. n.todo \in EndInSend
    BY <1>1, <1>4, <1>9, Rest DEF Waiting, AtExchange
  <2>3. SendInv(n, accepted[c], LateLegs(c))
    BY <1>1, <1>4, <1>9, <2>2 DEF Waiting, AtExchange, SendInv, NothingLost, Truthful
  <2> QED
    BY <1>2, <1>4, <1>6, <1>9, <2>1, <2>3, Quiet
<1>10. CASE ~e.refreshing /\ e.kind # "refresh" /\ call = "send"
  <2> DEFINE f == [n EXCEPT !.pc = "store"]
             l == e.leg
  <2>1. f \in Command /\ f.pc = "store" /\ f.lost = e.lost /\ l \in Legs
    BY <1>1, <1>4 DEF Command
  <2>2. Set(c, f)
    BY <1>5, <1>10
  <2> HIDE DEF f
  <2>3. Accept(<<c, l>>)
    BY <1>10 DEF Answer, MessageOf
  <2>4. /\ accepted' \in [Cmds -> [Legs -> Nat]]
        /\ accepted'[c] = [accepted[c] EXCEPT ![l] = @ + 1]
        /\ \A d \in Cmds \ {c} : accepted'[d] = accepted[d]
    BY <2>1, <2>3, Accepting DEF Inv
  <2>5. Unused(accepted[c], LateLegs(c), l)
    BY <1>1, <1>10, WaitingRequest
  <2>6. OncePerLeg(accepted'[c], LateLegs(c))
    BY <1>1, <2>1, <2>4, <2>5 DEF Waiting, OncePerLeg, Unused
  <2>7. "send" \notin f.lost => NothingLost(f, accepted'[c], LateLegs(c))
    BY <1>1, <2>1, <2>4 DEF Waiting, NothingLost, Legs
  <2>8. SendInv(f, accepted'[c], LateLegs(c))
    <3>1. accepted'[c]["ws"] + accepted'[c]["first"] + accepted'[c]["second"] >= 1
      BY <1>1, <2>1, <2>4 DEF Waiting, Legs
    <3> QED
      BY <2>1, <2>6, <2>7, <3>1 DEF SendInv, Truthful
  <2>9. LateLegs(c)' = LateLegs(c) /\ \A d \in Cmds \ {c} : SameFor(d)
    BY <1>6, <2>4 DEF LateLegs, SameFor
  <2>10. late' \subseteq Cmds \X Legs /\ expiries' \in Nat /\ losses' \in Nat
    BY <1>6 DEF Inv, TypeOK
  <2>11. SendInv(f, accepted'[c], LateLegs(c)')
    BY <2>8, <2>9
  <2> HIDE DEF l
  <2> QED
    BY <1>2, <2>1, <2>2, <2>4, <2>9, <2>10, <2>11, OneCommand
<1> QED
  BY <1>7, <1>8, <1>9, <1>10
-----------------------------------------------------------------------------
LEMMA InitInv == Init => Inv
<1> SUFFICES ASSUME Init PROVE Inv
  OBVIOUS
<1>1. auth \in [file : Nat, issued : Nat, valid : SUBSET Nat]
  BY DEF Init
<1>2. TypeOK
  BY <1>1, IdleTypes DEF Init, TypeOK
<1>3. ASSUME NEW c \in Cmds PROVE SendInv(cmd[c], accepted[c], LateLegs(c))
  BY DEF Init, Idle, LateLegs, SendInv, OncePerLeg, Unused, NothingLost, Legs, Truthful
<1> QED
  BY <1>2, <1>3 DEF Inv

LEMMA Inductive == Inv /\ [Next]_vars => Inv'
<1> SUFFICES ASSUME Inv, [Next]_vars PROVE Inv'
  OBVIOUS
<1>1. ASSUME NEW c \in Cmds,
             SendDirect(c) \/ SendGroup(c) \/ SendAttachment(c) \/ RefreshToken(c)
      PROVE  Inv'
  BY <1>1, SendDirectStep
<1>2. ASSUME NEW c \in Cmds, BridgeFails(c) \/ BridgeSends(c) \/ BridgeTimeout(c) PROVE Inv'
  BY <1>2, BridgeStep
<1>3. ASSUME NEW c \in Cmds, NEW call \in Calls, Exchange(c, call) PROVE Inv'
  BY <1>3, AnswerStep, UnauthorizedStep, NoAnswerStep DEF Exchange
<1>4. ASSUME NEW c \in Cmds, \/ persistSendResult(c) \/ persistGroupSendResult(c)
                             \/ persistAttachmentSendResult(c)
      PROVE  Inv'
  BY <1>4, PersistStep
     DEF persistSendResult, persistGroupSendResult, persistAttachmentSendResult
<1>5. ASSUME NEW m \in Cmds \X Legs, LateRequest(m) PROVE Inv'
  BY <1>5, LateStep
<1>6. ASSUME NEW t \in auth.valid, Expire(t) PROVE Inv'
  <2>1. /\ auth' \in [file : Nat, issued : Nat, valid : SUBSET Nat] /\ expiries' \in Nat
        /\ UNCHANGED <<accepted, late, cmd, losses>>
    BY <1>6 DEF Expire, Inv, TypeOK
  <2> QED
    BY <2>1 DEF Inv, TypeOK, LateLegs
<1>7. CASE UNCHANGED vars
  BY <1>7 DEF vars, Inv, TypeOK, LateLegs
<1> QED
  BY <1>1, <1>2, <1>3, <1>4, <1>5, <1>6, <1>7 DEF Next

LEMMA InvHolds == Spec => []Inv
  BY InitInv, Inductive, PTL DEF Spec

(* Every variable keeps its type, in particular what a command has in memory.*)
THEOREM TypeCorrect == Spec => []TypeOK
<1>1. Inv => TypeOK
  BY DEF Inv
<1> QED
  BY <1>1, InvHolds, PTL

(* However many commands share a token, and whatever is refused, repeated,   *)
(* renewed or late: a message is accepted once, and a second message of the  *)
(* same text is made only after an answer was lost.                          *)
THEOREM OnlyLossDuplicates == Spec => []NoNeedlessDuplicate
<1>1. Inv => NoNeedlessDuplicate
  BY DEF Inv, TypeOK, SendInv, OncePerLeg, NothingLost, NoNeedlessDuplicate, Copies, Legs
<1> QED
  BY <1>1, InvHolds, PTL

(* A command that reports success had its message accepted, and one that     *)
(* reports an error had not, unless an answer was lost or the local store    *)
(* failed afterwards.                                                        *)
THEOREM OutcomeIsTrue == Spec => []AnswerIsTrue
<1>1. Inv => AnswerIsTrue
  BY DEF Inv, SendInv, Truthful, AnswerIsTrue, Copies
<1> QED
  BY <1>1, InvHolds, PTL
-----------------------------------------------------------------------------
(* An old token ends no send.  A session asks did-auth only for a token the  *)
(* services no longer take, so what it gets is new; when that is refused as  *)
(* well, a token issued during the command has expired.                      *)

Tokens == [file : Nat, issued : Nat, valid : SUBSET Nat]

(* Only numbers that were given out are tokens.                              *)
Issued(a) == a \in Tokens /\ a.file <= a.issued /\ a.valid \subseteq 1 .. a.issued

(* What AuthHeals excepts.                                                   *)
Excused(e, a) ==
  "get_me" \in e.lost \/ \E t \in (e.since + 1) .. a.issued : t \notin a.valid

(* Requests that do not ask for a token.                                     *)
Plain == {s \in Seq(Calls) : \A i \in 1 .. Len(s) : s[i] # "get_me"}

(* A session that asks for a token without signing has an expired one, and   *)
(* one that has just asked has a token of this command or is signing.        *)
Session(e, a) ==
  /\ Tail(e.todo) \in Plain
  /\ Head(e.todo) # "get_me" => e.todo \in Plain
  /\ e.renewed => e.bearer = 0 \/ e.bearer > e.since
  /\ Head(e.todo) = "get_me" /\ ~e.forced => e.bearer \notin a.valid

(* Everything a command has is a token of before, and its errors are true.   *)
Kept(e, a) ==
  /\ e.since <= a.issued /\ e.bearer <= a.issued /\ e.jwt <= a.issued
  /\ e.err = "unauthorized" \/ e.outcome = "unauthorized" => Excused(e, a)

HealInv(e, a) == Kept(e, a) /\ (e.pc = "exchange" => Session(e, a))

TokenInv == Issued(auth) /\ \A c \in Cmds : HealInv(cmd[c], auth)

LEMMA PlainRequests ==
  /\ <<>> \in Plain /\ <<"send">> \in Plain
  /\ Head(<<"send">>) = "send" /\ Tail(<<"send">>) \in Plain
  /\ Head(<<"get_me">>) = "get_me" /\ Tail(<<"get_me">>) \in Plain
<1>1. <<>> \in Seq(Calls) /\ <<"send">> \in Seq(Calls) /\ Len(<<>>) = 0 /\ Len(<<"send">>) = 1
  BY OneRequest DEF EndInSend
<1>2. <<>> \in Plain /\ <<"send">> \in Plain
  BY <1>1 DEF Plain
<1>3. Tail(<<"send">>) = <<>> /\ Tail(<<"get_me">>) = <<>>
  BY OneRequest
<1> QED
  BY <1>2, <1>3, OneRequest

LEMMA PlainTail ==
  ASSUME NEW s \in Plain, s # <<>>
  PROVE  Tail(s) \in Plain /\ Head(s) # "get_me"
<1>1. s \in Seq(Calls) /\ Len(s) \in Nat \ {0}
  BY EmptySeq DEF Plain
<1>2. /\ Tail(s) \in Seq(Calls) /\ Len(Tail(s)) = Len(s) - 1
      /\ \A i \in 1 .. Len(Tail(s)) : Tail(s)[i] = s[i + 1]
      /\ Head(s) = s[1]
  BY <1>1, HeadTailProperties
<1>3. 1 \in 1 .. Len(s) /\ \A i \in 1 .. Len(s) - 1 : i + 1 \in 1 .. Len(s)
  BY <1>1
<1>4. \A i \in 1 .. Len(Tail(s)) : Tail(s)[i] # "get_me"
  BY <1>2, <1>3 DEF Plain
<1> QED
  BY <1>2, <1>3, <1>4 DEF Plain

LEMMA PlainJoined ==
  ASSUME NEW r \in Plain, NEW s \in Plain
  PROVE  r \o s \in Plain
<1>1. r \in Seq(Calls) /\ s \in Seq(Calls) /\ Len(r) \in Nat /\ Len(s) \in Nat
  BY DEF Plain
<1>2. /\ r \o s \in Seq(Calls) /\ Len(r \o s) = Len(r) + Len(s)
      /\ \A i \in 1 .. Len(r) : (r \o s)[i] = r[i]
      /\ \A i \in 1 .. Len(s) : (r \o s)[Len(r) + i] = s[i]
  BY <1>1, ConcatProperties
<1>3. ASSUME NEW i \in 1 .. Len(r) + Len(s), i \notin 1 .. Len(r)
      PROVE  i - Len(r) \in 1 .. Len(s) /\ i = Len(r) + (i - Len(r))
  BY <1>1, <1>3
<1>4. ASSUME NEW i \in 1 .. Len(r \o s) PROVE (r \o s)[i] # "get_me"
  <2>1. CASE i \in 1 .. Len(r)
    BY <1>2, <2>1 DEF Plain
  <2>2. CASE i \notin 1 .. Len(r)
    <3>1. i - Len(r) \in 1 .. Len(s) /\ (r \o s)[i] = s[i - Len(r)]
      BY <1>2, <1>3, <2>2
    <3> QED
      BY <3>1 DEF Plain
  <2> QED
    BY <2>1, <2>2
<1> QED
  BY <1>2, <1>4 DEF Plain

(* The request for a token, put before requests that do not ask for one.     *)
LEMMA AskedFirst ==
  ASSUME NEW s \in Plain
  PROVE  /\ <<"get_me">> \o s \in Seq(Calls) /\ Head(<<"get_me">> \o s) = "get_me"
         /\ Tail(<<"get_me">> \o s) = s
<1> DEFINE r == <<"get_me">> \o s
<1>1. /\ s \in Seq(Calls) /\ Len(s) \in Nat
      /\ <<"get_me">> \in Seq(Calls) /\ Len(<<"get_me">>) = 1 /\ <<"get_me">>[1] = "get_me"
  BY OneRequest DEF Plain
<1>2. /\ r \in Seq(Calls) /\ Len(r) = 1 + Len(s) /\ r[1] = "get_me"
      /\ \A i \in 1 .. Len(s) : r[1 + i] = s[i]
  BY <1>1, ConcatProperties
<1> HIDE DEF r
<1>3. /\ Head(r) = r[1] /\ Tail(r) \in Seq(Calls) /\ Len(Tail(r)) = Len(s)
      /\ \A i \in 1 .. Len(s) : Tail(r)[i] = r[i + 1]
  BY <1>1, <1>2, EmptySeq, HeadTailProperties
<1>4. \A i \in 1 .. Len(s) : Tail(r)[i] = s[i]
  BY <1>1, <1>2, <1>3
<1>5. Tail(r) = s
  BY <1>1, <1>3, <1>4, SeqEqual
<1> QED
  BY <1>2, <1>3, <1>5 DEF r

LEMMA PlainAttachment ==
  ASSUME NEW configured \in BOOLEAN
  PROVE  prepareAttachmentUpload(configured) \o <<"send">> \in Plain
<1>1. ASSUME NEW x \in Calls \ {"get_me"} PROVE <<x>> \in Plain
  <2>1. <<x>> \in Seq(Calls) /\ Len(<<x>>) = 1 /\ <<x>>[1] = x
    OBVIOUS
  <2> QED
    BY <1>1, <2>1 DEF Plain
<1>2. /\ <<"capabilities">> \in Plain /\ <<"create_slot">> \in Plain
      /\ <<"upload">> \in Plain /\ <<"commit">> \in Plain /\ <<"send">> \in Plain /\ <<>> \in Plain
  BY <1>1, PlainRequests DEF Calls
<1>3. CreateAttachmentSlot(configured) \in Plain
  BY <1>2, PlainJoined DEF CreateAttachmentSlot
<1>4. CreateAttachmentSlot(configured) \o <<"upload">> \in Plain
  BY <1>2, <1>3, PlainJoined
<1>5. prepareAttachmentUpload(configured) \in Plain
  BY <1>2, <1>4, PlainJoined
     DEF prepareAttachmentUpload, UploadAttachmentObject, CommitAttachmentObject
<1> QED
  BY <1>2, <1>5, PlainJoined
-----------------------------------------------------------------------------
(* Sessions, and what the steps of others do to them.                        *)

(* Tokens are given out by number and never become valid again.              *)
Ages(a, b) ==
  /\ Issued(b) /\ a.issued <= b.issued
  /\ \A t \in b.valid : t \in a.valid \/ t > a.issued

LEMMA Aging ==
  ASSUME NEW a, Issued(a), NEW b, Ages(a, b), NEW e \in Command
  PROVE  /\ Excused(e, a) => Excused(e, b)
         /\ HealInv(e, a) => HealInv(e, b)
<1>1. /\ a.issued \in Nat /\ b.issued \in Nat /\ a.issued <= b.issued
      /\ e.since \in Nat /\ e.bearer \in Nat /\ e.jwt \in Nat
  BY DEF Issued, Ages, Tokens, Command
<1>2. Excused(e, a) => Excused(e, b)
  <2>1. ASSUME NEW t \in (e.since + 1) .. a.issued, t \notin a.valid
        PROVE  t \in (e.since + 1) .. b.issued /\ t \notin b.valid
    BY <1>1, <2>1 DEF Ages
  <2> QED
    BY <2>1 DEF Excused
<1>3. e.bearer <= a.issued /\ e.bearer \notin a.valid => e.bearer \notin b.valid
  BY <1>1 DEF Ages
<1>4. e.pc = "exchange" /\ Session(e, a) /\ e.bearer <= a.issued => Session(e, b)
  BY <1>3 DEF Session
<1> QED
  BY <1>1, <1>2, <1>4 DEF HealInv, Kept

(* What a token of the record or none starts.                                *)
LEMMA FallbackHeals ==
  ASSUME NEW a, Issued(a), NEW e \in Command, Kept(e, a),
         NEW err \in Errors, err = "unauthorized" => Excused(e, a)
  PROVE  HealInv(httpFallbackSend(e, err), a)
<1> DEFINE f == httpFallbackSend(e, err)
<1>1. /\ f.since = e.since /\ f.bearer = e.jwt /\ f.jwt = e.jwt /\ f.err = err
      /\ f.outcome = e.outcome /\ f.lost = e.lost /\ f.todo = <<"send">> /\ ~f.renewed
  BY OneRequest DEF httpFallbackSend, httpTransport, NewSession, Command
<1>2. Session(f, a)
  BY <1>1, PlainRequests DEF Session
<1>3. Excused(e, a) <=> Excused(f, a)
  BY <1>1 DEF Excused
<1> HIDE DEF f
<1>4. HealInv(f, a)
  BY <1>1, <1>2, <1>3 DEF HealInv, Kept
<1> QED
  BY <1>4 DEF f

LEMMA RefreshingHeals ==
  ASSUME NEW a, Issued(a), NEW e \in Command, Kept(e, a),
         NEW err \in Errors, err = "unauthorized" => Excused(e, a)
  PROVE  HealInv(refreshJWT(e, err), a)
<1> DEFINE n == NewSession(e, 0)
           g == EnsureJWT(n)
           f == refreshJWT(e, err)
<1>1. /\ n \in Command /\ n.since = e.since /\ n.bearer = 0 /\ n.jwt = e.jwt /\ n.err = e.err
      /\ n.outcome = e.outcome /\ n.lost = e.lost /\ n.todo = <<>> /\ ~n.renewed
  BY OneRequest DEF NewSession, Command
<1> HIDE DEF n
<1>2. /\ g \in Command /\ g.since = e.since /\ g.bearer = 0 /\ g.jwt = e.jwt
      /\ g.outcome = e.outcome /\ g.lost = e.lost /\ g.todo = <<"get_me">> /\ ~g.renewed
  BY <1>1, OneRequest DEF EnsureJWT, Command
<1>3. f = [g EXCEPT !.refreshing = TRUE, !.err = err]
  BY DEF refreshJWT, n
<1> HIDE DEF g
<1>4. /\ f.since = e.since /\ f.bearer = 0 /\ f.jwt = e.jwt /\ f.err = err
      /\ f.outcome = e.outcome /\ f.lost = e.lost /\ f.todo = <<"get_me">> /\ ~f.renewed
  BY <1>2, <1>3 DEF Command
<1> HIDE DEF f
<1>5. 0 \notin a.valid /\ 0 <= a.issued
  BY DEF Issued, Tokens
<1>6. Session(f, a)
  BY <1>4, <1>5, PlainRequests DEF Session
<1>7. Excused(e, a) <=> Excused(f, a)
  BY <1>4 DEF Excused
<1>8. HealInv(f, a)
  BY <1>4, <1>5, <1>6, <1>7 DEF HealInv, Kept
<1> QED
  BY <1>8 DEF f

LEMMA FinishHeals ==
  ASSUME TypeOK, Issued(auth), NEW c \in Cmds, NEW e \in Command, Kept(e, auth),
         NEW outcome, outcome = "unauthorized" => Excused(e, auth), Finish(c, e, outcome)
  PROVE  HealInv(cmd'[c], auth)
<1> DEFINE f == [Idle EXCEPT !.kind = e.kind, !.pc = "done", !.lost = e.lost,
                             !.since = e.since, !.outcome = outcome]
<1>1. cmd'[c] = f
  BY DEF Finish, Set, TypeOK
<1>2. /\ f.since = e.since /\ f.lost = e.lost /\ f.outcome = outcome /\ f.pc = "done"
      /\ f.err = "none" /\ f.bearer = 0 /\ f.jwt = 0
  BY DEF Idle
<1> HIDE DEF f
<1>3. auth.issued \in Nat
  BY DEF Issued, Tokens
<1>4. Excused(e, auth) <=> Excused(f, auth)
  BY <1>2 DEF Excused
<1> QED
  BY <1>1, <1>2, <1>3, <1>4 DEF HealInv, Kept

(* An error that ends a command or its leg is "unauthorized" only if it is   *)
(* excused.                                                                  *)
LEMMA FailedHeals ==
  ASSUME TypeOK, Issued(auth), NEW c \in Cmds, NEW e \in Command, Kept(e, auth), e.kind \in Kinds,
         e.refreshing => e.kind = "direct", NEW why \in Errors, why = "unauthorized" => Excused(e, auth), CallFailed(c, e, why)
  PROVE  HealInv(cmd'[c], auth)
<1>1. e.err \in Errors /\ e.leg \in Legs /\ e.refreshing \in BOOLEAN
      /\ (e.err = "unauthorized" => Excused(e, auth))
  BY DEF Command, HealInv, Kept
<1>2. \A f : Set(c, f) => cmd'[c] = f
  BY DEF Set, TypeOK
<1>3. \A err \in Errors : (err = "unauthorized" => Excused(e, auth)) =>
        /\ HealInv(httpFallbackSend(e, err), auth) /\ HealInv(refreshJWT(e, err), auth)
        /\ Finish(c, e, err) => HealInv(cmd'[c], auth)
  BY FallbackHeals, RefreshingHeals, FinishHeals
<1>4. CASE e.refreshing
  <2>1. Set(c, httpFallbackSend(e, e.err))
    BY <1>4 DEF CallFailed
  <2> QED
    BY <1>1, <1>2, <1>3, <2>1
<1>5. CASE ~e.refreshing /\ e.kind = "direct"
  <2>1. SendFailed(c, e, why)
    BY <1>5 DEF CallFailed
  <2> QED
    BY <1>1, <1>2, <1>3, <2>1 DEF SendFailed
<1>6. CASE ~e.refreshing /\ e.kind = "group"
  <2>1. SendGroupFailed(c, e, why)
    BY <1>6 DEF CallFailed
  <2> QED
    BY <1>1, <1>2, <1>3, <2>1 DEF SendGroupFailed
<1>7. CASE ~e.refreshing /\ e.kind \in {"attachment", "refresh"}
  <2>1. Finish(c, e, why)
    BY <1>7 DEF CallFailed
  <2> QED
    BY <1>1, <1>3, <2>1
<1> QED
  BY <1>1, <1>4, <1>5, <1>6, <1>7 DEF Kinds

(* A step of one command, for the tokens of all.                             *)
LEMMA OneHeals ==
  ASSUME Inv, TokenInv, NEW c \in Cmds, NEW f, Set(c, f),
         Ages(auth, auth'), HealInv(cmd'[c], auth')
  PROVE  TokenInv'
<1>1. ASSUME NEW d \in Cmds PROVE HealInv(cmd'[d], auth')
  <2>1. CASE d = c
    BY <2>1
  <2>2. CASE d # c
    <3>1. cmd'[d] = cmd[d] /\ cmd[d] \in Command /\ HealInv(cmd[d], auth)
      BY <2>2 DEF Set, Inv, TypeOK, TokenInv
    <3>2. Issued(auth)
      BY DEF TokenInv
    <3> QED
      BY <3>1, <3>2, Aging
  <2> QED
    BY <2>1, <2>2
<1>2. Issued(auth)'
  BY DEF Ages, Issued
<1> QED
  BY <1>1, <1>2 DEF TokenInv

LEMMA SameAge == Issued(auth) /\ UNCHANGED auth => Ages(auth, auth')
  BY DEF Ages, Issued, Tokens

LEMMA QuietHeals ==
  ASSUME Inv, TokenInv, NEW c \in Cmds, NEW f, Set(c, f), HealInv(cmd'[c], auth),
         UNCHANGED auth
  PROVE  TokenInv'
<1>1. Ages(auth, auth')
  BY SameAge DEF TokenInv
<1>2. HealInv(cmd'[c], auth')
  OBVIOUS
<1> QED
  BY <1>1, <1>2, OneHeals

LEMMA BeginHeals ==
  ASSUME Inv, TokenInv, NEW c \in Cmds,
         SendDirect(c) \/ SendGroup(c) \/ SendAttachment(c) \/ RefreshToken(c)
  PROVE  TokenInv'
<1> DEFINE r(kind) == requireActiveIdentity(kind)
<1>1. Issued(auth) /\ auth.file \in Nat /\ auth.issued \in Nat /\ auth.file <= auth.issued
      /\ 0 \notin auth.valid
  BY DEF TokenInv, Issued, Tokens
<1>2. ASSUME NEW kind \in Kinds
      PROVE  /\ r(kind) \in Command /\ r(kind).lost = {} /\ r(kind).todo = <<>>
             /\ r(kind).jwt = auth.file /\ r(kind).since = auth.issued /\ r(kind).bearer = 0
             /\ r(kind).err = "none" /\ r(kind).outcome = "none" /\ ~r(kind).renewed
             /\ r(kind).pc = "idle"
  BY IdleTypes DEF Inv, TypeOK, requireActiveIdentity, Command, Idle
<1> HIDE DEF r
<1>3. ASSUME NEW e, Begin(c, e), HealInv(e, auth) PROVE TokenInv'
  <2>1. Set(c, e) /\ UNCHANGED auth /\ cmd'[c] = e
    BY <1>3 DEF Begin, Set, Inv, TypeOK
  <2> QED
    BY <1>3, <2>1, QuietHeals
<1>4. ASSUME NEW kind \in Kinds, NEW queue \in Plain, Tail(queue) \in Plain, Head(queue) # "get_me",
             NEW e, e = httpTransport(r(kind), "first", queue), Begin(c, e)
      PROVE  TokenInv'
  <2>1. /\ e.since = auth.issued /\ e.bearer = auth.file /\ e.jwt = auth.file /\ e.err = "none"
        /\ e.outcome = "none" /\ e.todo = queue /\ ~e.renewed
    BY <1>2, <1>4 DEF httpTransport, NewSession, Command
  <2>2. Session(e, auth)
    BY <1>4, <2>1 DEF Session
  <2>3. HealInv(e, auth)
    BY <1>1, <2>1, <2>2 DEF HealInv, Kept
  <2> QED
    BY <1>3, <1>4, <2>3
<1>5. ASSUME NEW kind \in {"direct", "group"}, NEW e \in transportFor(r(kind)), Begin(c, e)
      PROVE  TokenInv'
  <2>0. kind \in Kinds
    BY DEF Kinds
  <2>1. CASE e = httpTransport(r(kind), "first", <<"send">>)
    BY <1>4, <1>5, <2>0, <2>1, PlainRequests
  <2>2. CASE e = [r(kind) EXCEPT !.pc = "bridge"]
    <3>1. /\ e.since = auth.issued /\ e.bearer = 0 /\ e.jwt = auth.file /\ e.err = "none"
          /\ e.outcome = "none" /\ e.pc = "bridge"
      BY <1>2, <2>0, <2>2 DEF Command
    <3>2. HealInv(e, auth)
      BY <1>1, <3>1 DEF HealInv, Kept
    <3> QED
      BY <1>3, <1>5, <3>2
  <2> QED
    BY <1>5, <2>1, <2>2 DEF transportFor
<1>6. CASE SendDirect(c) \/ SendGroup(c)
  BY <1>5, <1>6 DEF SendDirect, SendGroup, r
<1>7. CASE SendAttachment(c)
  <2>1. PICK configured \in BOOLEAN :
          Begin(c, httpTransport(r("attachment"), "first",
                                 prepareAttachmentUpload(configured) \o <<"send">>))
    BY <1>7 DEF SendAttachment, r
  <2> DEFINE queue == prepareAttachmentUpload(configured) \o <<"send">>
  <2>2. queue \in Plain /\ queue # <<>>
    BY PlainAttachment, Attachment DEF EndInSend
  <2>3. Tail(queue) \in Plain /\ Head(queue) # "get_me"
    BY <2>2, PlainTail
  <2> HIDE DEF queue
  <2> QED
    BY <1>4, <2>1, <2>2, <2>3 DEF queue, Kinds
<1>8. CASE RefreshToken(c)
  <2> DEFINE n == NewSession(r("refresh"), 0)
             e == EnsureJWT(n)
  <2>1. /\ n \in Command /\ n.since = auth.issued /\ n.bearer = 0 /\ n.jwt = auth.file
        /\ n.err = "none" /\ n.outcome = "none" /\ n.todo = <<>> /\ ~n.renewed
    BY <1>2, OneRequest DEF NewSession, Command, Kinds
  <2> HIDE DEF n
  <2>2. /\ e.since = auth.issued /\ e.bearer = 0 /\ e.jwt = auth.file /\ e.err = "none"
        /\ e.outcome = "none" /\ e.todo = <<"get_me">> /\ ~e.renewed
    BY <2>1, OneRequest DEF EnsureJWT, Command
  <2>3. Begin(c, e)
    BY <1>8 DEF RefreshToken, r, n
  <2> HIDE DEF e
  <2>4. Session(e, auth)
    BY <1>1, <2>2, PlainRequests DEF Session
  <2>5. HealInv(e, auth)
    BY <1>1, <2>2, <2>4 DEF HealInv, Kept
  <2> QED
    BY <1>3, <2>3, <2>5
<1> QED
  BY <1>6, <1>7, <1>8

LEMMA BridgeHeals ==
  ASSUME Inv, TokenInv, NEW c \in Cmds, BridgeFails(c) \/ BridgeSends(c) \/ BridgeTimeout(c)
  PROVE  TokenInv'
<1> DEFINE e == cmd[c]
           f == httpFallbackSend(e, "transport")
<1>1. Issued(auth) /\ e \in Command /\ HealInv(e, auth) /\ Kept(e, auth)
  BY DEF Inv, TypeOK, TokenInv, HealInv
<1>2. HealInv(f, auth) /\ f \in Command /\ f.lost = e.lost
  BY <1>1, FallbackHeals, Fallback DEF Errors
<1>3. \A g : Set(c, g) => cmd'[c] = g
  BY DEF Set, Inv, TypeOK
<1> HIDE DEF f
<1>4. CASE BridgeFails(c)
  BY <1>2, <1>3, <1>4, QuietHeals DEF BridgeFails, f
<1>5. CASE BridgeSends(c)
  <2> DEFINE g == [e EXCEPT !.pc = "store"]
  <2>1. /\ g.pc = "store" /\ g.since = e.since /\ g.bearer = e.bearer /\ g.jwt = e.jwt
        /\ g.err = e.err /\ g.outcome = e.outcome /\ g.lost = e.lost
    BY <1>1 DEF Command
  <2>2. Set(c, g) /\ UNCHANGED auth
    BY <1>5 DEF BridgeSends
  <2> HIDE DEF g
  <2>3. HealInv(g, auth)
    BY <1>1, <2>1 DEF HealInv, Kept, Excused
  <2> QED
    BY <1>3, <2>2, <2>3, QuietHeals
<1>6. CASE BridgeTimeout(c)
  <2> DEFINE g == [f EXCEPT !.lost = @ \union {"send"}]
  <2>1. /\ g.pc = f.pc /\ g.since = f.since /\ g.bearer = f.bearer /\ g.jwt = f.jwt
        /\ g.err = f.err /\ g.outcome = f.outcome /\ f.lost \subseteq g.lost
        /\ g.todo = f.todo /\ g.forced = f.forced /\ g.renewed = f.renewed
    BY <1>2 DEF Command
  <2>2. Set(c, g) /\ UNCHANGED auth
    BY <1>6 DEF BridgeTimeout, f
  <2> HIDE DEF g
  <2>3. HealInv(g, auth)
    BY <1>2, <2>1 DEF HealInv, Kept, Excused, Session
  <2> QED
    BY <1>3, <2>2, <2>3, QuietHeals
<1> QED
  BY <1>4, <1>5, <1>6

LEMMA PersistHeals ==
  ASSUME Inv, TokenInv, NEW c \in Cmds, NEW kind, Persist(c, kind)
  PROVE  TokenInv'
<1>1. PICK outcome \in {"sent", "store_error"} : Finish(c, cmd[c], outcome)
  BY DEF Persist
<1>2. TypeOK /\ Issued(auth) /\ cmd[c] \in Command /\ Kept(cmd[c], auth) /\ UNCHANGED auth
  BY DEF Inv, TypeOK, TokenInv, HealInv, Persist
<1>3. HealInv(cmd'[c], auth)
  BY <1>1, <1>2, FinishHeals
<1>4. \E f : Set(c, f)
  BY <1>1 DEF Finish
<1> QED
  BY <1>2, <1>3, <1>4, QuietHeals

LEMMA UnauthorizedHeals ==
  ASSUME Inv, TokenInv, NEW c \in Cmds, NEW call \in Calls,
         Unauthorized401(c, call) \/ Unauthorized1401(c, call)
  PROVE  TokenInv'
<1> DEFINE e == cmd[c]
<1>1. /\ Waiting(c, call) /\ e \in Command /\ e.pc = "exchange" /\ Head(e.todo) = call
      /\ ~Authorized(c, call) /\ UNCHANGED auth
  BY WaitingFacts DEF Unauthorized401, Unauthorized1401, Waiting
<1>2. TypeOK /\ Issued(auth) /\ HealInv(e, auth) /\ Kept(e, auth) /\ Session(e, auth)
  BY <1>1 DEF Inv, TokenInv, HealInv
<1>3. \A g : Set(c, g) => cmd'[c] = g
  BY DEF Set, Inv, TypeOK
<1>4. /\ e.bearer \in Nat /\ e.since \in Nat /\ auth.issued \in Nat
      /\ e.bearer # 0 /\ ~e.forced /\ e.bearer \notin auth.valid
  BY <1>1, <1>2 DEF Command, Issued, Tokens, Authorized, Signed
<1>5. CASE Unauthorized401(c, call)
  <2>1. PICK challenge \in BOOLEAN :
          Set(c, [e EXCEPT !.forced = TRUE, !.bearer = IF challenge THEN @ ELSE 0])
    BY <1>5 DEF Unauthorized401
  <2> DEFINE f == [e EXCEPT !.forced = TRUE, !.bearer = IF challenge THEN @ ELSE 0]
  <2>2. /\ f.pc = e.pc /\ f.since = e.since /\ f.bearer \in {0, e.bearer} /\ f.jwt = e.jwt
        /\ f.err = e.err /\ f.outcome = e.outcome /\ f.lost = e.lost
        /\ f.todo = e.todo /\ f.forced /\ f.renewed = e.renewed
    BY <1>1 DEF Command
  <2>3. Set(c, f)
    BY <2>1
  <2> HIDE DEF f
  <2>4. HealInv(f, auth)
    BY <1>2, <1>4, <2>2 DEF HealInv, Kept, Excused, Session
  <2> QED
    BY <1>1, <1>3, <2>3, <2>4, QuietHeals
<1>6. CASE Unauthorized1401(c, call) /\ e.renewed
  <2>1. e.bearer \in (e.since + 1) .. auth.issued
    BY <1>2, <1>4, <1>6 DEF Session, Kept
  <2>2. Excused(e, auth)
    BY <1>4, <2>1 DEF Excused
  <2>3. e.kind \in Kinds /\ (e.refreshing => e.kind = "direct") /\ "unauthorized" \in Errors
    BY <1>1 DEF Waiting, AtExchange, Errors
  <2>4. CallFailed(c, e, "unauthorized")
    BY <1>6 DEF Unauthorized1401
  <2>5. HealInv(cmd'[c], auth)
    BY <1>1, <1>2, <2>2, <2>3, <2>4, FailedHeals
  <2>6. \E f : Set(c, f)
    BY <1>1, <2>3, <2>4, Failed
  <2> QED
    BY <1>1, <2>5, <2>6, QuietHeals
<1>7. CASE Unauthorized1401(c, call) /\ ~e.renewed
  <2> DEFINE f == EnsureJWT(e)
  <2>1. e.todo \in Plain
    BY <1>1, <1>2, <1>7 DEF Session, Unauthorized1401
  <2>2. Head(<<"get_me">> \o e.todo) = "get_me" /\ Tail(<<"get_me">> \o e.todo) = e.todo
    BY <2>1, AskedFirst
  <2>3. /\ f.pc = e.pc /\ f.since = e.since /\ f.bearer = e.bearer /\ f.jwt = e.jwt
        /\ f.err = e.err /\ f.outcome = e.outcome /\ f.lost = e.lost
        /\ Head(f.todo) = "get_me" /\ Tail(f.todo) \in Plain /\ f.renewed = e.renewed
    BY <1>1, <2>1, <2>2 DEF EnsureJWT, Command
  <2>4. Set(c, f)
    BY <1>7 DEF Unauthorized1401
  <2> HIDE DEF f
  <2>5. HealInv(f, auth)
    BY <1>2, <1>4, <1>7, <2>3 DEF HealInv, Kept, Excused, Session
  <2> QED
    BY <1>1, <1>3, <2>4, <2>5, QuietHeals
<1> QED
  BY <1>5, <1>6, <1>7

(* A refusal or no answer ends a request for a token as unauthorized, and    *)
(* the request goes into lost.                                               *)
LEMMA UnansweredHeals ==
  ASSUME Inv, TokenInv, NEW c \in Cmds, NEW call \in Calls,
         Refuse(c, call) \/ NoAnswer(c, call)
  PROVE  TokenInv'
<1> DEFINE e(given) == [cmd[c] EXCEPT !.lost = @ \union given]
<1>1. /\ Waiting(c, call) /\ cmd[c] \in Command /\ UNCHANGED auth
      /\ TypeOK /\ Issued(auth) /\ Kept(cmd[c], auth)
  BY WaitingFacts DEF Refuse, NoAnswer, Waiting, Inv, TokenInv, HealInv
<1>2. cmd[c].kind \in Kinds /\ (cmd[c].refreshing => cmd[c].kind = "direct")
  BY <1>1 DEF Waiting, AtExchange
<1>3. PICK given \in SUBSET Calls, why \in {"refused", "lost"} :
        /\ CallFailed(c, e(given), ErrorOf(c, call, why))
        /\ call = "get_me" => "get_me" \in given
  <2>1. CASE Refuse(c, call)
    BY <2>1 DEF Refuse
  <2>2. CASE NoAnswer(c, call)
    BY <2>2 DEF NoAnswer
  <2> QED
    BY <2>1, <2>2
<1> DEFINE f == e(given)
<1>4. /\ f \in Command /\ f.since = cmd[c].since /\ f.bearer = cmd[c].bearer /\ f.jwt = cmd[c].jwt
      /\ f.err = cmd[c].err /\ f.outcome = cmd[c].outcome /\ f.lost = cmd[c].lost \union given
      /\ f.kind = cmd[c].kind /\ f.refreshing = cmd[c].refreshing
  BY <1>1 DEF Command
<1>5. CallFailed(c, f, ErrorOf(c, call, why))
  BY <1>3
<1> HIDE DEF f, e
<1>6. Kept(f, auth)
  BY <1>1, <1>4 DEF Kept, Excused
<1>7. /\ ErrorOf(c, call, why) \in Errors
      /\ ErrorOf(c, call, why) = "unauthorized" => Excused(f, auth)
  BY <1>3, <1>4 DEF ErrorOf, Errors, Excused
<1>8. HealInv(cmd'[c], auth)
  BY <1>1, <1>2, <1>4, <1>5, <1>6, <1>7, FailedHeals
<1>9. \E g : Set(c, g)
  BY <1>2, <1>4, <1>5, <1>7, Failed
<1> QED
  BY <1>1, <1>8, <1>9, QuietHeals

(* An answer from did-auth to a session with an expired token comes after a  *)
(* signature, and has a new token.                                           *)
LEMMA AnswerHeals ==
  ASSUME Inv, TokenInv, NEW c \in Cmds, NEW call \in Calls, Answer(c, call)
  PROVE  TokenInv'
<1> DEFINE e == cmd[c]
           next(t) == [e EXCEPT !.todo = Tail(@), !.bearer = t, !.jwt = t, !.forced = FALSE,
                                !.renewed = (call = "get_me")]
           To(n) ==
             CASE e.refreshing -> Set(c, httpFallbackSend(n, e.err))
               [] ~e.refreshing /\ e.kind = "refresh" -> Finish(c, n, "refreshed")
               [] ~e.refreshing /\ call = "send" -> Set(c, [n EXCEPT !.pc = "store"])
               [] OTHER -> Set(c, n)
<1>1. /\ Waiting(c, call) /\ e \in Command /\ e.pc = "exchange" /\ Head(e.todo) = call
      /\ Authorized(c, call)
  BY WaitingFacts DEF Answer, Waiting
<1>2. TypeOK /\ Issued(auth) /\ HealInv(e, auth) /\ Kept(e, auth) /\ Session(e, auth)
  BY <1>1 DEF Inv, TokenInv, HealInv
<1>3. /\ e.bearer \in Nat /\ e.since \in Nat /\ auth.issued \in Nat /\ e.err \in Errors
      /\ e.todo \in Seq(Calls)
  BY <1>1, <1>2 DEF Command, Issued, Tokens
<1>4. PICK given \in BOOLEAN :
        /\ (call = "get_me" /\ Signed(c)) => given
        /\ auth' = IF given THEN CaptureToken(auth.issued + 1) ELSE auth
        /\ To(next(IF given THEN auth.issued + 1 ELSE e.bearer))
  BY DEF Answer
<1> DEFINE t == IF given THEN auth.issued + 1 ELSE e.bearer
           n == next(t)
<1>5. call = "get_me" => given
  BY <1>1, <1>2, <1>4 DEF Session, Authorized, Signed
<1>6. Ages(auth, auth') /\ t \in Nat /\ t <= auth'.issued /\ e.since < auth.issued + 1
  <2>1. CASE given
    <3> DEFINE i == auth.issued + 1
    <3>1. /\ auth.valid \subseteq 1 .. auth.issued /\ auth \in Tokens /\ i \in Nat
          /\ auth.issued <= i /\ e.since < i
      BY <1>2, <1>3 DEF Issued, Kept
    <3>2. auth' = [file |-> i, issued |-> i, valid |-> auth.valid \union {i}]
      BY <1>4, <2>1, <3>1 DEF CaptureToken, UpdateJWT, Tokens
    <3>3. auth.valid \union {i} \subseteq 1 .. i /\ auth.valid \union {i} \in SUBSET Nat
      BY <1>3, <3>1
    <3>4. Issued(auth')
      BY <3>1, <3>2, <3>3 DEF Issued, Tokens
    <3>5. \A x \in auth'.valid : x \in auth.valid \/ x > auth.issued
      BY <1>3, <3>2
    <3> QED
      BY <1>3, <2>1, <3>1, <3>2, <3>4, <3>5 DEF Ages
  <2>2. CASE ~given
    BY <1>2, <1>3, <1>4, <2>2, SameAge DEF Kept
  <2> QED
    BY <2>1, <2>2
<1>7. /\ n.since = e.since /\ n.bearer = t /\ n.jwt = t /\ n.err = e.err /\ n.outcome = e.outcome
      /\ n.lost = e.lost /\ n.todo = Tail(e.todo) /\ n.pc = "exchange" /\ n.kind = e.kind
      /\ n.refreshing = e.refreshing /\ n.renewed = (call = "get_me")
  BY <1>1 DEF Command
<1>8. n \in Command
  <2>1. Tail(e.todo) \in Seq(Calls)
    BY <1>2 DEF Session, Plain
  <2> QED
    BY <1>1, <1>6, <2>1 DEF Command
<1>9. To(n)
  BY <1>4
<1> HIDE DEF n, next
<1>10. Kept(n, auth')
  <2>1. HealInv(e, auth')
    BY <1>1, <1>2, <1>6, Aging
  <2> QED
    BY <1>3, <1>6, <1>7, <2>1 DEF HealInv, Kept, Excused
<1>11. Issued(auth') /\ (e.err = "unauthorized" => Excused(n, auth'))
  BY <1>6, <1>7, <1>10 DEF Ages, Kept
<1>12. \A g : Set(c, g) => cmd'[c] = g
  BY DEF Set, Inv, TypeOK
<1> HIDE DEF t
<1>13. CASE e.refreshing
  <2>1. call # "send" /\ e.kind = "direct"
    BY <1>1, <1>13, OneRequest DEF Waiting, AtExchange
  <2>2. Set(c, httpFallbackSend(n, e.err))
    BY <1>9, <1>13, <2>1
  <2>3. HealInv(httpFallbackSend(n, e.err), auth')
    BY <1>3, <1>8, <1>10, <1>11, FallbackHeals
  <2> QED
    BY <1>6, <1>12, <2>2, <2>3, OneHeals
<1>14. CASE ~e.refreshing /\ e.kind = "refresh"
  <2>1. call # "send"
    BY <1>1, <1>14, OneRequest DEF Waiting, AtExchange
  <2>2. Finish(c, n, "refreshed")
    BY <1>9, <1>14, <2>1
  <2> DEFINE f == [Idle EXCEPT !.kind = n.kind, !.pc = "done", !.lost = n.lost,
                               !.since = n.since, !.outcome = "refreshed"]
  <2>3. Set(c, f)
    BY <2>2 DEF Finish
  <2>4. /\ f.since = e.since /\ f.outcome = "refreshed" /\ f.pc = "done" /\ f.err = "none"
        /\ f.bearer = 0 /\ f.jwt = 0
    BY <1>7 DEF Idle
  <2> HIDE DEF f
  <2>5. HealInv(f, auth')
    BY <1>7, <1>10, <1>11, <2>4 DEF HealInv, Kept, Issued, Tokens
  <2> QED
    BY <1>6, <1>12, <2>3, <2>5, OneHeals
<1>15. CASE ~e.refreshing /\ e.kind # "refresh" /\ call # "send"
  <2>1. Set(c, n)
    BY <1>9, <1>15
  <2>2. n.todo \in EndInSend /\ n.todo \in Plain
    BY <1>1, <1>2, <1>7, <1>15, Rest DEF Waiting, AtExchange, Session
  <2>3. Tail(n.todo) \in Plain /\ Head(n.todo) # "get_me"
    BY <2>2, PlainTail DEF EndInSend
  <2>4. n.renewed => n.bearer > n.since
    BY <1>3, <1>5, <1>6, <1>7 DEF t
  <2>5. HealInv(n, auth')
    BY <1>10, <2>2, <2>3, <2>4 DEF HealInv, Session
  <2> QED
    BY <1>6, <1>12, <2>1, <2>5, OneHeals
<1>16. CASE ~e.refreshing /\ e.kind # "refresh" /\ call = "send"
  <2> DEFINE f == [n EXCEPT !.pc = "store"]
  <2>1. /\ f.since = n.since /\ f.bearer = n.bearer /\ f.jwt = n.jwt /\ f.err = n.err
        /\ f.outcome = n.outcome /\ f.lost = n.lost /\ f.pc = "store"
    BY <1>8 DEF Command
  <2>2. Set(c, f)
    BY <1>9, <1>16
  <2> HIDE DEF f
  <2>3. HealInv(f, auth')
    BY <1>10, <2>1 DEF HealInv, Kept, Excused
  <2> QED
    BY <1>6, <1>12, <2>2, <2>3, OneHeals
<1> QED
  BY <1>13, <1>14, <1>15, <1>16

LEMMA OthersHeal ==
  ASSUME Inv, TokenInv, Ages(auth, auth'), UNCHANGED cmd
  PROVE  TokenInv'
<1>1. ASSUME NEW c \in Cmds PROVE HealInv(cmd'[c], auth')
  BY Aging DEF Inv, TypeOK, TokenInv
<1> QED
  BY <1>1 DEF TokenInv, Ages

LEMMA ExpireHeals ==
  ASSUME Inv, TokenInv, NEW t \in auth.valid, Expire(t)
  PROVE  TokenInv'
<1>1. auth \in Tokens /\ auth' = [auth EXCEPT !.valid = @ \ {t}]
  BY DEF Expire, TokenInv, Issued
<1>2. /\ auth' \in Tokens /\ auth'.file = auth.file /\ auth'.issued = auth.issued
      /\ auth'.valid \subseteq auth.valid
  BY <1>1 DEF Tokens
<1>3. Ages(auth, auth')
  BY <1>1, <1>2 DEF Ages, Issued, TokenInv, Tokens
<1> QED
  BY <1>3, OthersHeal DEF Expire

LEMMA InitTokens == Init => TokenInv
<1> SUFFICES ASSUME Init PROVE TokenInv
  OBVIOUS
<1>1. Issued(auth)
  BY DEF Init, Issued, Tokens
<1>2. ASSUME NEW c \in Cmds PROVE HealInv(cmd[c], auth)
  BY <1>1 DEF Init, Idle, HealInv, Kept, Issued, Tokens
<1> QED
  BY <1>1, <1>2 DEF TokenInv

LEMMA InductiveTokens == Inv /\ TokenInv /\ [Next]_vars => TokenInv'
<1> SUFFICES ASSUME Inv, TokenInv, [Next]_vars PROVE TokenInv'
  OBVIOUS
<1>1. UNCHANGED <<auth, cmd>> => TokenInv'
  BY SameAge, OthersHeal DEF TokenInv
<1>2. ASSUME NEW c \in Cmds,
             SendDirect(c) \/ SendGroup(c) \/ SendAttachment(c) \/ RefreshToken(c)
      PROVE  TokenInv'
  BY <1>2, BeginHeals
<1>3. ASSUME NEW c \in Cmds, BridgeFails(c) \/ BridgeSends(c) \/ BridgeTimeout(c) PROVE TokenInv'
  BY <1>3, BridgeHeals
<1>4. ASSUME NEW c \in Cmds, NEW call \in Calls, Exchange(c, call) PROVE TokenInv'
  BY <1>4, AnswerHeals, UnauthorizedHeals, UnansweredHeals DEF Exchange
<1>5. ASSUME NEW c \in Cmds, \/ persistSendResult(c) \/ persistGroupSendResult(c)
                             \/ persistAttachmentSendResult(c)
      PROVE  TokenInv'
  BY <1>5, PersistHeals
     DEF persistSendResult, persistGroupSendResult, persistAttachmentSendResult
<1>6. ASSUME NEW m \in Cmds \X Legs, LateRequest(m) PROVE TokenInv'
  BY <1>1, <1>6 DEF LateRequest
<1>7. ASSUME NEW t \in auth.valid, Expire(t) PROVE TokenInv'
  BY <1>7, ExpireHeals
<1>8. CASE UNCHANGED vars
  BY <1>1, <1>8 DEF vars
<1> QED
  BY <1>2, <1>3, <1>4, <1>5, <1>6, <1>7, <1>8 DEF Next

(* A token that is old when a command reads it, in the file, the record or a *)
(* session, and whoever else renews it meanwhile, does not end a send: it    *)
(* ends as unauthorized only when did-auth did not answer its request, or a  *)
(* token issued while it ran has expired again.                              *)
THEOREM OldTokensHeal == Spec => []AuthHeals
<1>1. TokenInv => AuthHeals
  BY DEF TokenInv, HealInv, Kept, Excused, AuthHeals
<1> QED
  BY <1>1, InvHolds, InitTokens, InductiveTokens, PTL DEF Spec

(***************************************************************************)
(* SecureOutbox                                                            *)
(***************************************************************************)

(* Each action leaves most variables alone; what the others may become.     *)
LEMMA OutboxTypeInit == ASSUME OutboxInit PROVE OutboxTypeOK
  BY OutboxConstants DEF OutboxInit, OutboxTypeOK, Updating, Statuses

(* SecureDrop and the steps of a sender touch no worker.                     *)
LEMMA OutboxTypeSender ==
  ASSUME OutboxTypeOK, NEW m \in Messages, SenderNext(m) \/ SecureDrop(m)
  PROVE  OutboxTypeOK'
<1>1. CASE SendSecureDirect(m)
  BY <1>1, OutboxConstants DEF OutboxTypeOK, SendSecureDirect, SendText, work, history, bounds, Updating, Statuses
<1>2. CASE SendSecureDirectFails(m)
  BY <1>2, OutboxConstants DEF OutboxTypeOK, SendSecureDirectFails, SendTextFails, Fault, work, history, Updating, Statuses
<1>3. CASE RefuseSecure(m)
  BY <1>3, OutboxConstants DEF OutboxTypeOK, RefuseSecure, work, history, bounds, Updating, Statuses
<1>4. CASE QueueRow(m)
  BY <1>4, OutboxConstants DEF OutboxTypeOK, QueueRow, work, history, bounds, Updating, Statuses
<1>5. CASE QueueRowFails(m)
  BY <1>5, OutboxConstants DEF OutboxTypeOK, QueueRowFails, Fault, work, history, Updating, Statuses
<1>6. CASE SecureDrop(m)
  BY <1>6, OutboxConstants DEF OutboxTypeOK, SecureDrop, OutboxCommand, work, Updating, Statuses
<1> QED BY <1>1, <1>2, <1>3, <1>4, <1>5, <1>6 DEF SenderNext

(* The steps of a flush.                                                     *)
LEMMA OutboxTypeFlush ==
  ASSUME OutboxTypeOK, NEW w \in Workers, FlushNext(w)
  PROVE  OutboxTypeOK'
<1>1. CASE List(w)
  BY <1>1, OutboxConstants DEF OutboxTypeOK, List, Goto, Rows, history, bounds, Updating, Statuses
<1>2. CASE MarkSent(w)
  BY <1>2, OutboxConstants DEF OutboxTypeOK, MarkSent, RowDone, Goto, history, bounds, Updating, Statuses
<1>3. CASE MarkFailed(w)
  BY <1>3, OutboxConstants DEF OutboxTypeOK, MarkFailed, RowDone, Goto, history, bounds, Updating, Statuses
<1>4. CASE MarkFails(w)
  BY <1>4, OutboxConstants DEF OutboxTypeOK, MarkFails, Fault, RowDone, Goto, Updating, Statuses
<1>5. CASE FlushDone(w)
  BY <1>5, OutboxConstants DEF OutboxTypeOK, FlushDone, Goto, history, bounds, Updating, Statuses
<1>6. ASSUME NEW m \in Messages, SendRow(w, m) PROVE OutboxTypeOK'
  BY <1>6, OutboxConstants DEF OutboxTypeOK, SendRow, SendText, Handle, Goto, history, bounds, Updating, Statuses
<1>7. ASSUME NEW m \in Messages, RejectRow(w, m) PROVE OutboxTypeOK'
  BY <1>7, OutboxConstants DEF OutboxTypeOK, RejectRow, Handle, Goto, history, bounds, Updating, Statuses
<1>8. ASSUME NEW m \in Messages, SendRowFails(w, m) PROVE OutboxTypeOK'
  BY <1>8, OutboxConstants DEF OutboxTypeOK, SendRowFails, SendTextFails, Fault, Handle, Goto, history, Updating, Statuses
<1> QED BY <1>1, <1>2, <1>3, <1>4, <1>5, <1>6, <1>7, <1>8 DEF FlushNext

(* Confirmations, commands and interruptions.                                *)
LEMMA OutboxTypeCommand ==
  ASSUME OutboxTypeOK, NEW w \in Workers,
         \/ Confirm(w) \/ RepairNext(w) \/ ResetSession(w) \/ Interrupt(w)
         \/ \E m \in Messages : SecureRetry(w, m)
  PROVE  OutboxTypeOK'
<1>1. CASE Confirm(w)
  BY <1>1, OutboxConstants DEF OutboxTypeOK, Confirm, Goto, history, Updating, Statuses
<1>2. CASE ListFailed(w)
  BY <1>2, OutboxConstants DEF OutboxTypeOK, ListFailed, Goto, Rows, history, bounds, Updating, Statuses
<1>3. CASE SecureInit(w)
  BY <1>3, OutboxConstants DEF OutboxTypeOK, SecureInit, Goto, history, bounds, Updating, Statuses
<1>4. ASSUME NEW m \in Messages, RequeueFailed(w, m) PROVE OutboxTypeOK'
  BY <1>4, OutboxConstants DEF OutboxTypeOK, RequeueFailed, history, bounds, Updating, Statuses
<1>5. CASE ResetSession(w)
  BY <1>5, OutboxConstants DEF OutboxTypeOK, ResetSession, OutboxCommand, Goto, history, Updating, Statuses
<1>6. CASE Interrupt(w)
  BY <1>6, OutboxConstants DEF OutboxTypeOK, Interrupt, Fault, Goto, Rows, Updating, Statuses
<1>7. ASSUME NEW m \in Messages, SecureRetry(w, m) PROVE OutboxTypeOK'
  BY <1>7, OutboxConstants DEF OutboxTypeOK, SecureRetry, OutboxCommand, Goto, Updating, Statuses
<1> QED BY <1>1, <1>2, <1>3, <1>4, <1>5, <1>6, <1>7 DEF RepairNext

LEMMA OutboxTypeStep == ASSUME OutboxTypeOK, [OutboxNext]_outboxVars PROVE OutboxTypeOK'
<1>1. CASE UNCHANGED outboxVars
  BY <1>1 DEF OutboxTypeOK, outboxVars, work, history, bounds, Updating, Statuses
<1>2. CASE OutboxNext
  BY <1>2, OutboxTypeSender, OutboxTypeFlush, OutboxTypeCommand DEF OutboxNext
<1> QED BY <1>1, <1>2

(* The variables keep their types, and a worker has a row in progress        *)
(* exactly while it has a status to write for it.                            *)
THEOREM OutboxTypeCorrect == OutboxSpec => []OutboxTypeOK
<1>1. OutboxInit => OutboxTypeOK
  BY OutboxTypeInit
<1>2. OutboxTypeOK /\ [OutboxNext]_outboxVars => OutboxTypeOK'
  BY OutboxTypeStep
<1> QED BY <1>1, <1>2, PTL DEF OutboxSpec
-----------------------------------------------------------------------------
(* A worker that is about to mark a row sent holds a message the service has *)
(* accepted: only an answer of the service leads there.                      *)
SentIsAccepted == \A w \in Workers : at[w] = "sent" => cur[w] \in atService

LEMMA SentSender ==
  ASSUME SentIsAccepted, NEW m \in Messages, SenderNext(m) \/ SecureDrop(m)
  PROVE  SentIsAccepted'
  BY DEF SentIsAccepted, SenderNext, SendSecureDirect, SendSecureDirectFails, RefuseSecure, QueueRow,
         QueueRowFails, SecureDrop, SendText, SendTextFails, work

LEMMA SentWorker ==
  ASSUME OutboxTypeOK, SentIsAccepted, NEW w \in Workers,
         \/ Confirm(w) \/ FlushNext(w) \/ RepairNext(w) \/ ResetSession(w) \/ Interrupt(w)
         \/ \E m \in Messages : SecureRetry(w, m)
  PROVE  SentIsAccepted'
<1> USE DEF SentIsAccepted, OutboxTypeOK, Goto
<1>1. CASE Confirm(w)
  BY <1>1 DEF Confirm
<1>2. CASE List(w) \/ FlushDone(w)
  BY <1>2 DEF List, FlushDone
<1>3. CASE MarkSent(w) \/ MarkFailed(w) \/ MarkFails(w)
  BY <1>3 DEF MarkSent, MarkFailed, MarkFails, RowDone
<1>4. ASSUME NEW m \in Messages, SendRow(w, m) PROVE SentIsAccepted'
  BY <1>4 DEF SendRow, SendText, Handle
<1>5. ASSUME NEW m \in Messages, RejectRow(w, m) PROVE SentIsAccepted'
  BY <1>5 DEF RejectRow, Handle
<1>6. ASSUME NEW m \in Messages, SendRowFails(w, m) PROVE SentIsAccepted'
  BY <1>6 DEF SendRowFails, SendTextFails, Handle
<1>7. CASE ListFailed(w) \/ SecureInit(w)
  BY <1>7 DEF ListFailed, SecureInit
<1>8. ASSUME NEW m \in Messages, RequeueFailed(w, m) PROVE SentIsAccepted'
  BY <1>8 DEF RequeueFailed
<1>9. CASE ResetSession(w) \/ Interrupt(w)
  BY <1>9 DEF ResetSession, Interrupt
<1>10. ASSUME NEW m \in Messages, SecureRetry(w, m) PROVE SentIsAccepted'
  BY <1>10 DEF SecureRetry
<1> QED BY <1>1, <1>2, <1>3, <1>4, <1>5, <1>6, <1>7, <1>8, <1>9, <1>10 DEF FlushNext, RepairNext

(* A step of a sender promises what it has sent or queued; a drop says so.   *)
LEMMA LossSender ==
  ASSUME OutboxTypeOK, NoSilentLoss, NEW m \in Messages, SenderNext(m) \/ SecureDrop(m)
  PROVE  NoSilentLoss'
<1> USE DEF NoSilentLoss, OutboxTypeOK
<1>1. CASE SendSecureDirect(m) \/ SendSecureDirectFails(m)
  BY <1>1 DEF SendSecureDirect, SendSecureDirectFails, SendText, SendTextFails, history
<1>2. CASE RefuseSecure(m) \/ QueueRow(m) \/ QueueRowFails(m)
  BY <1>2 DEF RefuseSecure, QueueRow, QueueRowFails, history
<1>3. CASE SecureDrop(m)
  BY <1>3 DEF SecureDrop
<1> QED BY <1>1, <1>2, <1>3 DEF SenderNext

(* A worker changes a row to "sent" only with an accepted message in hand,   *)
(* else to "failed" or "queued", whatever the row was.                       *)
LEMMA LossWorker ==
  ASSUME OutboxTypeOK, SentIsAccepted, NoSilentLoss, NEW w \in Workers,
         \/ Confirm(w) \/ FlushNext(w) \/ RepairNext(w) \/ ResetSession(w) \/ Interrupt(w)
         \/ \E m \in Messages : SecureRetry(w, m)
  PROVE  NoSilentLoss'
<1> USE DEF NoSilentLoss, OutboxTypeOK
<1>1. CASE Confirm(w) \/ List(w) \/ FlushDone(w)
  BY <1>1 DEF Confirm, List, FlushDone, history
<1>2. CASE MarkSent(w)
  BY <1>2 DEF MarkSent, history, SentIsAccepted
<1>3. CASE MarkFailed(w) \/ MarkFails(w)
  BY <1>3 DEF MarkFailed, MarkFails, history
<1>4. ASSUME NEW m \in Messages, SendRow(w, m) \/ RejectRow(w, m) \/ SendRowFails(w, m)
      PROVE  NoSilentLoss'
  BY <1>4 DEF SendRow, RejectRow, SendRowFails, SendText, SendTextFails, Handle, history
<1>5. CASE ListFailed(w) \/ SecureInit(w)
  BY <1>5 DEF ListFailed, SecureInit, history
<1>6. ASSUME NEW m \in Messages, RequeueFailed(w, m) PROVE NoSilentLoss'
  BY <1>6 DEF RequeueFailed, history
<1>7. CASE ResetSession(w) \/ Interrupt(w)
  BY <1>7 DEF ResetSession, Interrupt, history
<1>8. ASSUME NEW m \in Messages, SecureRetry(w, m) PROVE NoSilentLoss'
  BY <1>8 DEF SecureRetry
<1> QED BY <1>1, <1>2, <1>3, <1>4, <1>5, <1>6, <1>7, <1>8 DEF FlushNext, RepairNext

LossInv == OutboxTypeOK /\ SentIsAccepted /\ NoSilentLoss

(* Whatever flushes, retries, repairs, drops and interruptions overlap, a    *)
(* message reported sent or queued is at the service, in the outbox where a  *)
(* flush or a retry finds it, or dropped by the user.                        *)
THEOREM NothingVanishes == OutboxSpec => []NoSilentLoss
<1>1. OutboxInit => LossInv
  BY OutboxTypeInit DEF LossInv, OutboxInit, SentIsAccepted, NoSilentLoss
<1>2. LossInv /\ [OutboxNext]_outboxVars => LossInv'
  <2> SUFFICES ASSUME LossInv, [OutboxNext]_outboxVars PROVE LossInv'
    OBVIOUS
  <2>1. OutboxTypeOK'
    BY OutboxTypeStep DEF LossInv
  <2>2. CASE UNCHANGED outboxVars
    BY <2>1, <2>2 DEF LossInv, SentIsAccepted, NoSilentLoss, outboxVars, work, history
  <2>3. ASSUME NEW m \in Messages, SenderNext(m) \/ SecureDrop(m) PROVE LossInv'
    BY <2>1, <2>3, SentSender, LossSender DEF LossInv
  <2>4. ASSUME NEW w \in Workers,
               \/ Confirm(w) \/ FlushNext(w) \/ RepairNext(w) \/ ResetSession(w) \/ Interrupt(w)
               \/ \E m \in Messages : SecureRetry(w, m)
        PROVE  LossInv'
    BY <2>1, <2>4, SentWorker, LossWorker DEF LossInv
  <2> QED BY <2>2, <2>3, <2>4 DEF OutboxNext
<1>3. LossInv => NoSilentLoss
  BY DEF LossInv
<1> QED BY <1>1, <1>2, <1>3, PTL DEF OutboxSpec
=============================================================================
