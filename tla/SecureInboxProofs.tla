------------------------- MODULE SecureInboxProofs -------------------------
(***************************************************************************)
(* The rows of SecureInbox are whole and only improve, and no decrypted text *)
(* is lost but by a fault, for any set of messages and commands and any      *)
(* number of faults.                                                         *)
(*                                                                          *)
(* DecryptedKept needs to know who can hold a text and where its holder is   *)
(* (ActorInv); UnreadUntilStored needs that a command only     *)
(* marks what somebody has tried to decrypt (ServiceInv).                    *)
(***************************************************************************)
EXTENDS SecureInbox, TLAPS

(* Messages that an actor has decrypted or given up. *)
Tried == spent \union stranded

ServiceInv ==
  /\ Tried \subseteq sent
  /\ acked => First \in spent
  /\ \A m \in sent : m = First \/ First \in spent
  /\ sent \ unread \subseteq Tried
  /\ \A m \in Messages : row[m] # NoRow => m \in Tried
  /\ \A a \in Actors : todo[a] \subseteq sent

HandlerOK(h) ==
  /\ at[h] \in {"idle", "scanning", "decrypting", "acking", "storing", "notifying"}
  /\ at[h] \notin {"idle", "scanning"} => message[h] \in sent
  /\ at[h] \in {"idle", "scanning", "decrypting"} => held[h] = {}
  /\ \A m \in held[h] : m = message[h] /\ m \in spent
  /\ at[h] = "acking" => message[h] = First /\ First \in spent
  /\ at[h] \in {"acking", "storing", "notifying"} => message[h] \in Tried
  /\ at[h] = "notifying" => \A m \in held[h] : IsPlain(m) \/ m \in torn

CommandOK(c) ==
  /\ at[c] \in {"idle", "reading", "acking", "shown", "marking"}
  /\ at[c] = "acking" => First \in spent
  /\ listed[c].all \subseteq sent
  /\ at[c] \in {"reading", "acking"} =>
       todo[c] \subseteq listed[c].all /\ listed[c].all \ todo[c] \subseteq Tried
  /\ at[c] \notin {"reading", "acking"} => held[c] = {}
  /\ held[c] \subseteq listed[c].all \intersect spent
  /\ at[c] \in {"shown", "marking"} => todo[c] \subseteq Tried

ActorInv == (\A h \in Handlers : HandlerOK(h)) /\ (\A c \in Commands : CommandOK(c))

Inv == TypeOK /\ RowIsWhole /\ ServiceInv /\ ActorInv /\ DecryptedKept

(* What RowsOnlyImprove says of one row in one step. *)
Improves(old, new) ==
  /\ new # NoRow
  /\ old.content_type = "plain" => new.content_type = "plain"
  /\ old.is_read => new.is_read

RowsImprove == \A m \in Messages : row[m] # NoRow => Improves(row[m], row'[m])

Whole(r) ==
  /\ r.content = r.content_type /\ r.metadata = r.content_type
  /\ r.content_type = "plain" => r.is_e2ee

LEMMA UpsertFacts ==
  \A old \in Row \union {NoRow}, new \in Row :
    Whole(new) /\ (old # NoRow => Whole(old)) =>
      /\ Upsert(old, new) \in Row /\ Whole(Upsert(old, new))
      /\ new.content_type = "plain" => Upsert(old, new).content_type = "plain"
      /\ old # NoRow => Improves(old, Upsert(old, new))
<1> SUFFICES ASSUME NEW old \in Row \union {NoRow}, NEW new \in Row, Whole(new),
                    old # NoRow => Whole(old)
             PROVE  /\ Upsert(old, new) \in Row /\ Whole(Upsert(old, new))
                    /\ new.content_type = "plain" => Upsert(old, new).content_type = "plain"
                    /\ old # NoRow => Improves(old, Upsert(old, new))
  OBVIOUS
<1>1. CASE old = NoRow
  BY <1>1 DEF Upsert
<1>2. CASE old # NoRow
  <2>1. Upsert(old, new) \in Row
    BY <1>2 DEF Upsert, Row
  <2> QED
    BY <1>2, <2>1, NoRowIsNoRow DEF Upsert, Row, Whole, Improves
<1> QED
  BY <1>1, <1>2

LEMMA RecordFacts ==
  \A kind \in {"wire", "plain"}, secure \in BOOLEAN, read \in BOOLEAN :
    (kind = "plain" => secure) =>
      /\ Record(kind, secure, read) \in Row /\ Whole(Record(kind, secure, read))
      /\ Record(kind, secure, read).content_type = kind
  BY DEF Record, Row, Whole

(* Rows change in three actions only, and in each by Upsert or by is_read. *)
LEMMA RowStep ==
  TypeOK /\ RowIsWhole /\ [Next]_vars
    => row' \in [Messages -> Row \union {NoRow}] /\ RowIsWhole' /\ RowsImprove
<1> SUFFICES ASSUME TypeOK, RowIsWhole, [Next]_vars
             PROVE  row' \in [Messages -> Row \union {NoRow}] /\ RowIsWhole' /\ RowsImprove
  OBVIOUS
<1>0. row \in [Messages -> Row \union {NoRow}]
  BY DEF TypeOK
<1>7. \A m \in Messages : row[m] # NoRow => Improves(row[m], row[m])
  BY DEF Improves
<1>1. ASSUME UNCHANGED row PROVE row' \in [Messages -> Row \union {NoRow}] /\ RowIsWhole' /\ RowsImprove
  BY <1>0, <1>1, <1>7 DEF RowIsWhole, RowsImprove
<1>2. ASSUME NEW h \in Handlers, Store(h)
      PROVE row' \in [Messages -> Row \union {NoRow}] /\ RowIsWhole' /\ RowsImprove
  <2> DEFINE m == message[h]
             new == Record(IF m \in held[h] THEN "plain" ELSE "wire", TRUE, FALSE)
  <2>1. m \in Messages
    BY <1>2 DEF TypeOK, Store
  <2>2. new \in Row /\ Whole(new)
    BY RecordFacts
  <2>3. row[m] \in Row \union {NoRow} /\ (row[m] # NoRow => Whole(row[m]))
    BY <1>0, <2>1 DEF RowIsWhole, Whole
  <2>5. /\ UNCHANGED row \/ row' = [row EXCEPT ![m] = Upsert(@, new)]
    BY <1>2 DEF Store
  <2> HIDE DEF m, new
  <2>4. CASE row' = [row EXCEPT ![m] = Upsert(@, new)]
    <3>1. /\ Upsert(row[m], new) \in Row /\ Whole(Upsert(row[m], new))
          /\ row[m] # NoRow => Improves(row[m], Upsert(row[m], new))
      BY <2>2, <2>3, UpsertFacts
    <3>2. row'[m] = Upsert(row[m], new) /\ \A n \in Messages \ {m} : row'[n] = row[n]
      BY <2>4, <2>1, <1>0
    <3>3. row' \in [Messages -> Row \union {NoRow}]
      BY <2>4, <3>1, <1>0
    <3>4. RowIsWhole'
      BY <3>1, <3>2 DEF RowIsWhole, Whole
    <3>5. RowsImprove
      BY <3>1, <3>2, <1>7 DEF RowsImprove
    <3> QED
      BY <3>3, <3>4, <3>5
  <2> QED
    BY <2>4, <1>1, <2>5
<1>3. ASSUME NEW c \in Commands, StoreBatch(c)
      PROVE row' \in [Messages -> Row \union {NoRow}] /\ RowIsWhole' /\ RowsImprove
  <2>1. CASE UNCHANGED row
    BY <2>1, <1>1
  <2>2. ASSUME NEW processed \in SUBSET listed[c].all, held[c] \subseteq processed,
               row' = [m \in Messages |->
                  IF m \notin listed[c].all \ (controls \intersect held[c]) THEN row[m]
                  ELSE Upsert(row[m], Record(IF m \in held[c] THEN "plain" ELSE "wire",
                                             m \in processed, m \in listed[c].read))]
        PROVE row' \in [Messages -> Row \union {NoRow}] /\ RowIsWhole' /\ RowsImprove
    <3> DEFINE new(m) == Record(IF m \in held[c] THEN "plain" ELSE "wire",
                                m \in processed, m \in listed[c].read)
    <3>1. ASSUME NEW m \in Messages PROVE new(m) \in Row /\ Whole(new(m))
      <4>1. m \in held[c] => m \in processed
        BY <2>2
      <4> DEFINE kind == IF m \in held[c] THEN "plain" ELSE "wire"
      <4>2. kind \in {"wire", "plain"} /\ (kind = "plain" => m \in processed)
        BY <4>1
      <4>3. ASSUME NEW secure \in BOOLEAN, NEW read \in BOOLEAN,
                   secure = (m \in processed), read = (m \in listed[c].read)
            PROVE  new(m) \in Row /\ Whole(new(m))
        <5>1. new(m) = Record(kind, secure, read)
          BY <4>3, Zenon
        <5>2. kind = "plain" => secure
          BY <4>2, <4>3
        <5> HIDE DEF new, kind
        <5> QED
          BY <4>2, <5>1, <5>2, RecordFacts
      <4>4. /\ (m \in processed) = TRUE \/ (m \in processed) = FALSE
            /\ (m \in listed[c].read) = TRUE \/ (m \in listed[c].read) = FALSE
        OBVIOUS
      <4> HIDE DEF new
      <4> QED
        BY <4>3, <4>4
    <3>2. \A m \in Messages : row[m] \in Row \union {NoRow} /\ (row[m] # NoRow => Whole(row[m]))
      BY <1>0 DEF RowIsWhole, Whole
    <3>4. \A m \in Messages : row'[m] \in {row[m], Upsert(row[m], new(m))}
      BY <2>2
    <3> HIDE DEF new
    <3>3. \A m \in Messages :
          /\ Upsert(row[m], new(m)) \in Row /\ Whole(Upsert(row[m], new(m)))
          /\ row[m] # NoRow => Improves(row[m], Upsert(row[m], new(m)))
      BY <3>1, <3>2, UpsertFacts
    <3>5. row' \in [Messages -> Row \union {NoRow}]
      <4>1. \A m \in Messages : row'[m] \in Row \union {NoRow}
        BY <3>2, <3>3, <3>4
      <4> QED
        BY <4>1, <2>2
    <3>6. RowIsWhole'
      BY <3>2, <3>3, <3>4 DEF RowIsWhole, Whole
    <3>7. RowsImprove
      BY <3>3, <3>4, <1>7 DEF RowsImprove
    <3> QED
      BY <3>5, <3>6, <3>7
  <2> QED
    BY <2>1, <2>2, <1>3 DEF StoreBatch
<1>4. ASSUME NEW c \in Commands, MarkLocal(c)
      PROVE row' \in [Messages -> Row \union {NoRow}] /\ RowIsWhole' /\ RowsImprove
  <2> DEFINE read(m) == [row[m] EXCEPT !.is_read = TRUE]
  <2>1. \A m \in Messages : row'[m] = row[m] \/ (row[m] # NoRow /\ row'[m] = read(m))
    BY <1>4 DEF MarkLocal
  <2>2. \A m \in Messages : row[m] # NoRow =>
          /\ read(m) \in Row /\ read(m).is_read /\ read(m).content_type = row[m].content_type
          /\ read(m).content = row[m].content /\ read(m).metadata = row[m].metadata
          /\ read(m).is_e2ee = row[m].is_e2ee
    BY <1>0 DEF Row
  <2> HIDE DEF read
  <2>3. row' \in [Messages -> Row \union {NoRow}]
    <3>1. \A m \in Messages : row'[m] \in Row \union {NoRow}
      BY <2>1, <2>2, <1>0
    <3> QED
      BY <3>1, <1>4 DEF MarkLocal
  <2>4. RowIsWhole'
    BY <2>1, <2>2 DEF RowIsWhole
  <2>5. RowsImprove
    BY <2>1, <2>2, <1>7, NoRowIsNoRow DEF RowsImprove, Improves
  <2> QED
    BY <2>3, <2>4, <2>5
<1>5. CASE UNCHANGED vars
  BY <1>5, <1>1 DEF vars
<1>6. CASE Next
  <2>1. ASSUME NEW m \in Messages, Send(m) PROVE UNCHANGED row
    BY <2>1 DEF Send
  <2>2. ASSUME NEW h \in Handlers, HandlerNext(h), ~Store(h) PROVE UNCHANGED row
    BY <2>2 DEF HandlerNext, TakePush, PollUnread, PollEnds, PollNext, Decrypt, Ack, Notify
  <2>3. CASE Restart
    BY <2>3, <1>1 DEF Restart
  <2>4. ASSUME NEW c \in Commands, CommandNext(c) \/ Fetch(c) \/ ReadCache(c) \/ Interrupt(c),
               ~StoreBatch(c), ~MarkLocal(c)
        PROVE UNCHANGED row
    BY <2>4 DEF CommandNext, Fetch, ReadCache, Interrupt, DecryptNext, AckPolling, MarkRemote,
                Return
  <2> QED
    BY <1>1, <1>2, <1>3, <1>4, <1>6, <2>1, <2>2, <2>3, <2>4 DEF Next, HandlerNext, CommandNext
<1> QED
  BY <1>5, <1>6

LEMMA InitInv == Init => Inv
<1> SUFFICES ASSUME Init PROVE Inv
  OBVIOUS
<1>1. TypeOK
  <2>1. controls \subseteq Messages
    BY DEF Init
  <2>2. acked \in BOOLEAN
    BY Zenon DEF Init
  <2>3. row \in [Messages -> Row \union {NoRow}]
    BY DEF Init
  <2>4. listed \in [Commands -> [all : SUBSET Messages, read : SUBSET Messages]]
    BY DEF Init
  <2> QED
    BY <2>1, <2>2, <2>3, <2>4, InboxConstants DEF Init, TypeOK, Handlers, Actors
<1>2. RowIsWhole /\ DecryptedKept
  BY DEF Init, RowIsWhole, DecryptedKept
<1>3. ServiceInv
  BY DEF Init, ServiceInv, Tried
<1>4. ActorInv
  BY DEF Init, ActorInv, HandlerOK, CommandOK, Actors
<1> QED
  BY <1>1, <1>2, <1>3, <1>4 DEF Inv

LEMMA TypeStep == TypeOK /\ RowIsWhole /\ [Next]_vars => TypeOK'
<1> SUFFICES ASSUME TypeOK, RowIsWhole, [Next]_vars PROVE TypeOK'
  OBVIOUS
<1>0. row' \in [Messages -> Row \union {NoRow}]
  BY RowStep
<1> USE InboxConstants DEF Handlers, Actors
<1>1. CASE UNCHANGED vars
  BY <1>1 DEF TypeOK, vars, service, locals, bounds, history
<1>2. ASSUME NEW m \in Messages, Send(m) PROVE TypeOK'
  BY <1>2 DEF TypeOK, Send, locals, bounds, history
<1>3. ASSUME NEW m \in Messages, TakePush(m) PROVE TypeOK'
  BY <1>3 DEF TypeOK, TakePush, bounds, history
<1>4. CASE PollUnread
  BY <1>4 DEF TypeOK, PollUnread, service, bounds, history
<1>5. CASE PollEnds
  BY <1>5 DEF TypeOK, PollEnds, service, bounds, history
<1>6. ASSUME NEW m \in Messages, PollNext(m) PROVE TypeOK'
  BY <1>6 DEF TypeOK, PollNext, service, bounds, history
<1>7. ASSUME NEW h \in Handlers, Decrypt(h) PROVE TypeOK'
  BY <1>7 DEF TypeOK, Decrypt, FailsToDecrypt, Finish, service
<1>a. Acknowledge =>
        acked' \in BOOLEAN /\ faults' \in 0..MaxFaults /\ torn' \subseteq Messages
  <2>1. Acknowledge => acked' \in BOOLEAN
    BY Zenon DEF TypeOK, Acknowledge
  <2> QED
    BY <2>1 DEF TypeOK, Acknowledge
<1>8. ASSUME NEW h \in Handlers, Ack(h) PROVE TypeOK'
  <2>1. acked' \in BOOLEAN /\ faults' \in 0..MaxFaults /\ torn' \subseteq Messages
    BY <1>8, <1>a DEF Ack
  <2> QED
    BY <1>8, <2>1 DEF TypeOK, Ack, Finish, service
<1>9. ASSUME NEW h \in Handlers, Store(h) PROVE TypeOK'
  <2>1. faults' \in 0..MaxFaults /\ torn' \subseteq Messages
    <3>1. \/ UNCHANGED <<faults, torn>>
          \/ faults < MaxFaults /\ faults' = faults + 1 /\ torn' = torn \union held[h]
      BY <1>9 DEF Store
    <3> QED
      BY <3>1 DEF TypeOK
  <2>2. at[h] = "storing" /\ at' = [at EXCEPT ![h] = "notifying"]
    BY <1>9 DEF Store
  <2>3. UNCHANGED <<controls, sent, unread, pushes, spent, acked, told, message, todo, listed,
                    held, commands, stranded>>
    BY <1>9 DEF Store, service
  <2> QED
    <3>1. /\ at' \in [Actors -> {"idle", "scanning", "decrypting", "acking", "storing",
                                "notifying", "reading", "shown", "marking"}]
          /\ \A g \in Handlers : message'[g] = NoMessage <=> at'[g] \in {"idle", "scanning"}
      BY <2>2, <2>3 DEF TypeOK
    <3> QED
      BY <1>0, <2>1, <2>2, <2>3, <3>1 DEF TypeOK
<1>10. ASSUME NEW h \in Handlers, Notify(h) PROVE TypeOK'
  BY <1>10 DEF TypeOK, Notify, Finish, service, bounds, history
<1>11. CASE Restart
  BY <1>11 DEF TypeOK, Restart
<1>12. ASSUME NEW c \in Commands, Fetch(c) PROVE TypeOK'
  BY <1>12 DEF TypeOK, Fetch, service, history
<1>13. ASSUME NEW c \in Commands, NEW m \in Messages, DecryptNext(c, m) PROVE TypeOK'
  BY <1>13 DEF TypeOK, DecryptNext, FailsToDecrypt, service
<1>14. ASSUME NEW c \in Commands, AckPolling(c) PROVE TypeOK'
  <2>1. acked' \in BOOLEAN /\ faults' \in 0..MaxFaults /\ torn' \subseteq Messages
    BY <1>14, <1>a DEF AckPolling
  <2> QED
    BY <1>14, <2>1 DEF TypeOK, AckPolling, service
<1>15. ASSUME NEW c \in Commands, StoreBatch(c) PROVE TypeOK'
  BY <1>15, <1>0 DEF TypeOK, StoreBatch, service
<1>16. ASSUME NEW c \in Commands, ReadCache(c) PROVE TypeOK'
  BY <1>16 DEF TypeOK, ReadCache, service, history
<1>17. ASSUME NEW c \in Commands, Return(c) PROVE TypeOK'
  BY <1>17 DEF TypeOK, Return, Forget, service, bounds, history
<1>18. ASSUME NEW c \in Commands, MarkRemote(c) PROVE TypeOK'
  BY <1>18 DEF TypeOK, MarkRemote, bounds, history
<1>19. ASSUME NEW c \in Commands, MarkLocal(c) PROVE TypeOK'
  BY <1>19, <1>0 DEF TypeOK, MarkLocal, Forget, service, bounds, history
<1>20. ASSUME NEW c \in Commands, Interrupt(c) PROVE TypeOK'
  BY <1>20 DEF TypeOK, Interrupt, Forget, service
<1> QED
  BY <1>1, <1>2, <1>3, <1>4, <1>5, <1>6, <1>7, <1>8, <1>9, <1>10, <1>11, <1>12, <1>13, <1>14,
     <1>15, <1>16, <1>17, <1>18, <1>19, <1>20 DEF Next, HandlerNext, CommandNext

(* Nothing is taken back: what an actor may rely on when another one moves. *)
Grows ==
  /\ sent \subseteq sent' /\ spent \subseteq spent' /\ Tried \subseteq Tried'
  /\ torn \subseteq torn'
  /\ \A m \in Messages : IsPlain(m) => IsPlain(m)'

LEMMA Growth == TypeOK /\ RowIsWhole /\ [Next]_vars => Grows
<1> SUFFICES ASSUME TypeOK, RowIsWhole, [Next]_vars PROVE Grows
  OBVIOUS
<1>1. \A m \in Messages : IsPlain(m) => IsPlain(m)'
  BY RowStep DEF RowsImprove, Improves, IsPlain
<1>2. sent \subseteq sent'
  BY DEF Next, vars, service, Send, HandlerNext, TakePush, PollUnread, PollEnds, PollNext,
         Decrypt, Ack, Store, Notify, Restart, CommandNext, Fetch, ReadCache, DecryptNext,
         AckPolling, StoreBatch, MarkRemote, MarkLocal, Return, Interrupt
<1>3. torn \subseteq torn'
  BY DEF Next, vars, history, Send, HandlerNext, TakePush, PollUnread, PollEnds, PollNext,
         Decrypt, Ack, Acknowledge, Store, Notify, Restart, CommandNext, Fetch, ReadCache,
         DecryptNext, AckPolling, StoreBatch, MarkRemote, MarkLocal, Return, Interrupt
<1>4. spent \subseteq spent' /\ stranded \subseteq stranded'
  BY DEF Next, vars, history, Send, HandlerNext, TakePush, PollUnread, PollEnds, PollNext,
         Decrypt, FailsToDecrypt, Ack, Store, Notify, Restart, CommandNext, Fetch, ReadCache,
         DecryptNext, AckPolling, StoreBatch, MarkRemote, MarkLocal, Return, Interrupt
<1> QED
  BY <1>1, <1>2, <1>3, <1>4 DEF Grows, Tried

(* A message that does not decrypt was decrypted before or is stranded.       *)
LEMMA FailureIsKnown ==
  ASSUME ServiceInv, NEW m \in sent, FailsToDecrypt(m), UNCHANGED spent
  PROVE  m \in Tried'
  BY DEF ServiceInv, FailsToDecrypt, Decrypts, Tried

LEMMA ServiceStep == Inv /\ [Next]_vars => ServiceInv'
<1> SUFFICES ASSUME Inv, [Next]_vars PROVE ServiceInv'
  OBVIOUS
<1> USE DEF Inv
<1>0. Grows
  BY Growth
<1>a. TypeOK'
  BY TypeStep
<1>1. CASE UNCHANGED vars
  BY <1>1 DEF ServiceInv, Tried, vars, service, locals, history
<1>2. ASSUME NEW m \in Messages, Send(m) PROVE ServiceInv'
  BY <1>2 DEF ServiceInv, Tried, Send, locals, history
<1>3. ASSUME NEW m \in Messages, TakePush(m) PROVE ServiceInv'
  BY <1>3 DEF ServiceInv, Tried, TakePush, history
<1>4. CASE PollUnread
  BY <1>4 DEF ServiceInv, Tried, TypeOK, PollUnread, service, history
<1>5. CASE PollEnds
  BY <1>5 DEF ServiceInv, Tried, PollEnds, service, history
<1>6. ASSUME NEW m \in Messages, PollNext(m) PROVE ServiceInv'
  BY <1>6 DEF ServiceInv, Tried, TypeOK, PollNext, service, history
<1>7. ASSUME NEW h \in Handlers, Decrypt(h) PROVE ServiceInv'
  BY <1>7 DEF ServiceInv, ActorInv, HandlerOK, Tried, Decrypt, FailsToDecrypt, Decrypts, service
<1>8. ASSUME NEW h \in Handlers, Ack(h) PROVE ServiceInv'
  BY <1>8 DEF ServiceInv, ActorInv, HandlerOK, Tried, Ack, Acknowledge, service
<1>9. ASSUME NEW h \in Handlers, Store(h) PROVE ServiceInv'
  <2>1. message[h] \in Tried
    BY <1>9 DEF ActorInv, HandlerOK, Store
  <2>2. \A m \in Messages : row'[m] # NoRow => row[m] # NoRow \/ m = message[h]
    <3>1. \/ UNCHANGED row
          \/ \E new : row' = [row EXCEPT ![message[h]] = new]
      BY <1>9 DEF Store
    <3> QED
      BY <3>1 DEF TypeOK
  <2>3. UNCHANGED <<sent, unread, spent, acked, todo, stranded>>
    BY <1>9 DEF Store, service
  <2> QED
    BY <2>1, <2>2, <2>3 DEF ServiceInv, Tried
<1>10. ASSUME NEW h \in Handlers, Notify(h) PROVE ServiceInv'
  BY <1>10 DEF ServiceInv, Tried, Notify, service, history
<1>11. CASE Restart
  BY <1>11 DEF ServiceInv, Tried, Restart
<1>12. ASSUME NEW c \in Commands, Fetch(c) PROVE ServiceInv'
  BY <1>12 DEF ServiceInv, Tried, TypeOK, Fetch, service, history
<1>13. ASSUME NEW c \in Commands, NEW m \in Messages, DecryptNext(c, m) PROVE ServiceInv'
  <2>1. /\ m \in sent /\ todo' = [todo EXCEPT ![c] = @ \ {m}]
        /\ UNCHANGED <<sent, unread, acked, row>>
    BY <1>13 DEF DecryptNext, ServiceInv, service, Actors
  <2>2. /\ spent' \subseteq spent \union {m} /\ stranded' \subseteq stranded \union {m}
    BY <1>13 DEF DecryptNext, FailsToDecrypt
  <2> QED
    BY <1>0, <2>1, <2>2 DEF ServiceInv, Tried, Grows, TypeOK
<1>14. ASSUME NEW c \in Commands, AckPolling(c) PROVE ServiceInv'
  BY <1>14 DEF ServiceInv, ActorInv, CommandOK, Tried, AckPolling, Acknowledge, service
<1>15. ASSUME NEW c \in Commands, StoreBatch(c) PROVE ServiceInv'
  BY <1>15 DEF ServiceInv, ActorInv, CommandOK, TypeOK, Tried, StoreBatch, service
<1>16. ASSUME NEW c \in Commands, ReadCache(c) PROVE ServiceInv'
  BY <1>16 DEF ServiceInv, Tried, TypeOK, ReadCache, service, history
<1>17. ASSUME NEW c \in Commands, Return(c) PROVE ServiceInv'
  BY <1>17 DEF ServiceInv, Tried, Return, Forget, service, history
<1>18. ASSUME NEW c \in Commands, MarkRemote(c) PROVE ServiceInv'
  BY <1>18 DEF ServiceInv, ActorInv, CommandOK, Tried, MarkRemote, history
<1>19. ASSUME NEW c \in Commands, MarkLocal(c) PROVE ServiceInv'
  BY <1>19 DEF ServiceInv, Tried, MarkLocal, Forget, service, history
<1>20. ASSUME NEW c \in Commands, Interrupt(c) PROVE ServiceInv'
  BY <1>20 DEF ServiceInv, Tried, Interrupt, Forget, service
<1> QED
  BY <1>1, <1>2, <1>3, <1>4, <1>5, <1>6, <1>7, <1>8, <1>9, <1>10, <1>11, <1>12, <1>13, <1>14,
     <1>15, <1>16, <1>17, <1>18, <1>19, <1>20 DEF Next, HandlerNext, CommandNext

(* Who does not move stays as it should be. *)
LEMMA OthersHandlers ==
  ASSUME Grows, TypeOK, NEW h \in Handlers, HandlerOK(h),
         at'[h] = at[h], message'[h] = message[h], held'[h] = held[h]
  PROVE  HandlerOK(h)'
<1>1. held[h] \subseteq Messages
  BY DEF TypeOK, Actors
<1> QED
  BY <1>1 DEF HandlerOK, Grows

LEMMA OthersCommands ==
  ASSUME Grows, NEW c \in Commands, CommandOK(c),
         at'[c] = at[c], todo'[c] = todo[c], listed'[c] = listed[c], held'[c] = held[c]
  PROVE  CommandOK(c)'
  BY DEF CommandOK, Grows

(* What a handler stored is in its row, or lost with the statement.           *)
LEMMA StoreKeeps ==
  ASSUME Inv, NEW h \in Handlers, Store(h), NEW m \in held[h], m = message[h]
  PROVE  IsPlain(m)' \/ m \in torn'
<1>0. TypeOK /\ RowIsWhole
  BY DEF Inv
<1>1. m \in Messages
  BY <1>0 DEF TypeOK, Actors
<1>2. CASE torn' = torn \union held[h]
  BY <1>2
<1>3. CASE row' = [row EXCEPT ![m] = Upsert(@, Record("plain", TRUE, FALSE))]
  <2>1. row[m] \in Row \union {NoRow} /\ (row[m] # NoRow => Whole(row[m]))
    BY <1>0, <1>1 DEF TypeOK, RowIsWhole, Whole
  <2> DEFINE new == Record("plain", TRUE, FALSE)
  <2>2. new \in Row /\ Whole(new) /\ new.content_type = "plain"
    BY RecordFacts
  <2>3. row'[m] = Upsert(row[m], new)
    BY <1>0, <1>1, <1>3 DEF TypeOK
  <2> HIDE DEF new
  <2>4. row'[m] \in Row /\ row'[m].content_type = "plain"
    BY <2>1, <2>2, <2>3, UpsertFacts
  <2> QED
    BY <2>4, NoRowIsNoRow DEF IsPlain
<1> QED
  BY <1>2, <1>3, Zenon DEF Store

(* The same of a command and what it decrypted, control messages apart.       *)
LEMMA BatchKeeps ==
  ASSUME Inv, NEW c \in Commands, StoreBatch(c), held[c] \subseteq listed[c].all,
         NEW m \in held[c], m \notin controls
  PROVE  IsPlain(m)' \/ m \in torn'
<1>0. TypeOK /\ RowIsWhole
  BY DEF Inv
<1>1. m \in Messages
  BY <1>0 DEF TypeOK, Actors
<1>2. CASE torn' = torn \union held[c]
  BY <1>2
<1>3. CASE \E read \in BOOLEAN : row'[m] = Upsert(row[m], Record("plain", TRUE, read))
  <2>1. PICK read \in BOOLEAN : row'[m] = Upsert(row[m], Record("plain", TRUE, read))
    BY <1>3
  <2>2. row[m] \in Row \union {NoRow} /\ (row[m] # NoRow => Whole(row[m]))
    BY <1>0, <1>1 DEF TypeOK, RowIsWhole, Whole
  <2> DEFINE new == Record("plain", TRUE, read)
  <2>3. new \in Row /\ Whole(new) /\ new.content_type = "plain"
    BY RecordFacts
  <2>4. row'[m] = Upsert(row[m], new)
    BY <2>1
  <2> HIDE DEF new
  <2>5. row'[m] \in Row /\ row'[m].content_type = "plain"
    BY <2>2, <2>3, <2>4, UpsertFacts
  <2> QED
    BY <2>5, NoRowIsNoRow DEF IsPlain
<1>4. ASSUME NEW processed \in SUBSET listed[c].all, held[c] \subseteq processed,
             row' = [n \in Messages |->
                  IF n \notin listed[c].all \ (controls \intersect held[c]) THEN row[n]
                  ELSE Upsert(row[n], Record(IF n \in held[c] THEN "plain" ELSE "wire",
                                             n \in processed, n \in listed[c].read))]
      PROVE  \E read \in BOOLEAN : row'[m] = Upsert(row[m], Record("plain", TRUE, read))
  <2>1. row'[m] = Upsert(row[m], Record("plain", m \in processed, m \in listed[c].read))
    BY <1>1, <1>4
  <2>2. (m \in processed) = TRUE
    BY <1>4
  <2>3. (m \in listed[c].read) = TRUE \/ (m \in listed[c].read) = FALSE
    OBVIOUS
  <2> QED
    BY <2>1, <2>2, <2>3, Zenon
<1> QED
  BY <1>2, <1>3, <1>4 DEF StoreBatch

LEMMA ActorStep == Inv /\ [Next]_vars => ActorInv'
<1> SUFFICES ASSUME Inv, [Next]_vars PROVE ActorInv'
  OBVIOUS
<1> USE InboxConstants DEF Inv
<1>0. Grows /\ (\A h \in Handlers : HandlerOK(h)) /\ (\A c \in Commands : CommandOK(c))
  BY Growth DEF ActorInv
<1>b. /\ DOMAIN at = Actors /\ DOMAIN held = Actors /\ DOMAIN todo = Actors
      /\ DOMAIN message = Handlers /\ DOMAIN listed = Commands
  BY DEF TypeOK
<1>1. ASSUME UNCHANGED <<at, message, todo, listed, held>> PROVE ActorInv'
  BY <1>0, <1>1, OthersHandlers, OthersCommands DEF ActorInv
(* One handler moves. *)
<1>2. ASSUME NEW h \in Handlers, HandlerNext(h), HandlerOK(h)' PROVE ActorInv'
  <2>1. \A a \in Actors \ {h} : at'[a] = at[a] /\ held'[a] = held[a] /\ todo'[a] = todo[a]
    <3>1. CASE Decrypt(h)
      BY <3>1, <1>b DEF Decrypt, Finish
    <3>2. CASE Ack(h)
      BY <3>2, <1>b DEF Ack, Finish
    <3>3. CASE Store(h)
      BY <3>3, <1>b DEF Store
    <3>4. CASE Notify(h)
      BY <3>4, <1>b DEF Notify, Finish
    <3>5. CASE ~Decrypt(h) /\ ~Ack(h) /\ ~Store(h) /\ ~Notify(h)
      BY <1>2, <3>5, <1>b DEF HandlerNext, TakePush, PollUnread, PollEnds, PollNext
    <3> QED
      BY <3>1, <3>2, <3>3, <3>4, <3>5
  <2>2. UNCHANGED listed /\ \A g \in Handlers \ {h} : message'[g] = message[g]
    BY <1>2, <1>b DEF HandlerNext, TakePush, PollUnread, PollEnds, PollNext, Decrypt, Ack,
                      Store, Notify, Finish
  <2>3. \A g \in Handlers : HandlerOK(g)'
    BY <1>0, <1>2, <2>1, <2>2, OthersHandlers DEF Actors
  <2>4. \A c \in Commands : CommandOK(c)'
    BY <1>0, <2>1, <2>2, OthersCommands DEF Actors
  <2> QED
    BY <2>3, <2>4 DEF ActorInv
(* One command moves. *)
<1>3. ASSUME NEW c \in Commands, CommandOK(c)',
             CommandNext(c) \/ Fetch(c) \/ ReadCache(c) \/ Interrupt(c)
      PROVE  ActorInv'
  <2>1. /\ UNCHANGED message
        /\ \A a \in Actors \ {c} : at'[a] = at[a] /\ held'[a] = held[a] /\ todo'[a] = todo[a]
    BY <1>3, <1>b DEF CommandNext, Fetch, ReadCache, Interrupt, DecryptNext, AckPolling,
                      StoreBatch, MarkRemote, MarkLocal, Return, Forget
  <2>2. \A d \in Commands \ {c} : listed'[d] = listed[d]
    BY <1>3, <1>b DEF CommandNext, Fetch, ReadCache, Interrupt, DecryptNext, AckPolling,
                      StoreBatch, MarkRemote, MarkLocal, Return, Forget
  <2>3. \A g \in Handlers : HandlerOK(g)'
    BY <1>0, <2>1, OthersHandlers DEF Actors
  <2>4. \A d \in Commands : CommandOK(d)'
    BY <1>0, <1>3, <2>1, <2>2, OthersCommands DEF Actors
  <2> QED
    BY <2>3, <2>4 DEF ActorInv
<1>4. CASE UNCHANGED vars
  BY <1>4, <1>1 DEF vars, locals
<1>5. ASSUME NEW m \in Messages, Send(m) PROVE ActorInv'
  BY <1>5, <1>1 DEF Send, locals
<1>6. ASSUME NEW h \in Handlers, HandlerNext(h) PROVE HandlerOK(h)'
  <2>0. HandlerOK(h) /\ h \in Actors
    BY <1>0 DEF Actors
  <2>1. ASSUME NEW m \in Messages, h = Push, TakePush(m) PROVE HandlerOK(h)'
    BY <2>0, <2>1, <1>b DEF HandlerOK, TakePush, TypeOK, Tried, IsPlain
  <2>2. CASE h = Poll /\ (PollUnread \/ PollEnds)
    BY <2>0, <2>2, <1>b DEF HandlerOK, PollUnread, PollEnds
  <2>3. ASSUME NEW m \in Messages, h = Poll, PollNext(m) PROVE HandlerOK(h)'
    BY <2>0, <2>3, <1>b DEF HandlerOK, PollNext, ServiceInv, service
  <2>4. CASE Decrypt(h)
    <3>1. message[h] \in sent
      BY <2>0, <2>4 DEF HandlerOK, Decrypt
    <3>2. CASE FailsToDecrypt(message[h]) /\ UNCHANGED <<spent, message, held>>
               /\ at' = [at EXCEPT ![h] = "storing"]
      <4>1. message[h] \in Tried'
        BY <3>1, <3>2, FailureIsKnown
      <4> QED
        BY <2>0, <2>4, <3>1, <3>2, <4>1, <1>0, <1>b DEF HandlerOK, Decrypt, Grows
    <3>3. CASE /\ spent' = spent \union {message[h]}
               /\ \/ Finish(h)
                  \/ /\ at' = [at EXCEPT ![h] = IF message[h] = First THEN "acking" ELSE "storing"]
                     /\ held' = [held EXCEPT ![h] = {message[h]}]
                     /\ UNCHANGED message
      BY <2>0, <2>4, <3>1, <3>3, <1>0, <1>b DEF HandlerOK, Finish, Grows, Tried
    <3> QED
      BY <2>4, <3>2, <3>3 DEF Decrypt
  <2>5. CASE Ack(h)
    BY <2>0, <2>5, <1>b DEF HandlerOK, Ack, Finish, Tried, service
  <2>6. CASE Store(h)
    <3>1. \A m \in held[h] : IsPlain(m)' \/ m \in torn'
      BY <2>0, <2>6, StoreKeeps DEF HandlerOK
    <3> QED
      BY <2>0, <2>6, <3>1, <1>b DEF HandlerOK, Store, Tried, service
  <2>7. CASE Notify(h)
    BY <2>0, <2>7, <1>b DEF HandlerOK, Notify, Finish
  <2> QED
    BY <1>6, <2>1, <2>2, <2>3, <2>4, <2>5, <2>6, <2>7 DEF HandlerNext
<1>7. CASE Restart
  <2>1. \A h \in Handlers : HandlerOK(h)'
    BY <1>7 DEF Restart, HandlerOK, Actors
  <2>2. \A c \in Commands : CommandOK(c)'
    <3>1. \A c \in Commands : /\ at'[c] = at[c] /\ todo'[c] = todo[c] /\ held'[c] = held[c]
                             /\ listed'[c] = listed[c]
      BY <1>7 DEF Restart, Actors
    <3> QED
      BY <1>0, <3>1, OthersCommands
  <2> QED
    BY <2>1, <2>2 DEF ActorInv
<1>8. ASSUME NEW c \in Commands, CommandNext(c) \/ Fetch(c) \/ ReadCache(c) \/ Interrupt(c)
      PROVE  CommandOK(c)'
  <2>0. CommandOK(c) /\ c \in Actors
    BY <1>0 DEF Actors
  <2>1. ASSUME NEW m \in Messages, DecryptNext(c, m) PROVE CommandOK(c)'
    <3>1. m \in sent
      BY <2>0, <2>1 DEF DecryptNext, ServiceInv
    <3>2. m \in Tried'
      <4>1. CASE spent' = spent \union {m}
        BY <4>1 DEF Tried
      <4>2. CASE FailsToDecrypt(m) /\ UNCHANGED spent
        BY <3>1, <4>2, FailureIsKnown
      <4> QED
        BY <2>1, <4>1, <4>2 DEF DecryptNext
    <3>3. /\ at[c] = "reading" /\ m \in todo[c] /\ todo'[c] = todo[c] \ {m} /\ UNCHANGED listed
          /\ \/ /\ spent' = spent \union {m} /\ held'[c] = held[c] \union {m}
                /\ at'[c] = IF m = First THEN "acking" ELSE "reading"
             \/ held'[c] = held[c] /\ at'[c] = at[c]
      BY <2>0, <2>1, <1>b DEF DecryptNext
    <3> QED
      BY <2>0, <1>0, <3>1, <3>2, <3>3 DEF CommandOK, Grows
  <2>2. CASE AckPolling(c)
    BY <2>0, <2>2, <1>0, <1>b DEF CommandOK, AckPolling, Grows
  <2>3. CASE StoreBatch(c)
    <3>1. /\ at'[c] = "shown" /\ todo'[c] = held[c] \ controls /\ held'[c] = {}
          /\ listed'[c].all = {} /\ UNCHANGED spent
      BY <2>0, <2>3, <1>b DEF StoreBatch
    <3> QED
      BY <2>0, <3>1, <1>0 DEF CommandOK, Grows, Tried
  <2>4. CASE MarkRemote(c)
    BY <2>0, <2>4, <1>0, <1>b DEF CommandOK, MarkRemote, Grows
  <2>5. CASE MarkLocal(c) \/ Return(c) \/ Interrupt(c)
    <3>1. at'[c] = "idle" /\ held'[c] = {} /\ listed'[c].all = {}
      BY <2>0, <2>5, <1>b DEF MarkLocal, Return, Interrupt, Forget
    <3> QED
      BY <3>1 DEF CommandOK
  <2>6. CASE Fetch(c)
    BY <2>0, <2>6, <1>0, <1>b DEF CommandOK, Fetch, Grows, TypeOK, service
  <2>7. CASE ReadCache(c)
    BY <2>0, <2>7, <1>0, <1>b DEF CommandOK, ReadCache, Grows, ServiceInv
  <2> QED
    BY <1>8, <2>1, <2>2, <2>3, <2>4, <2>5, <2>6, <2>7 DEF CommandNext
<1> QED
  BY <1>2, <1>3, <1>4, <1>5, <1>6, <1>7, <1>8 DEF Next

(* A decrypted text stays in the hands of its holder until it is in its row. *)
LEMMA KeptStep == Inv /\ [Next]_vars => DecryptedKept'
<1> SUFFICES ASSUME Inv, [Next]_vars PROVE DecryptedKept'
  OBVIOUS
<1> USE InboxConstants DEF Inv
<1> DEFINE Safe(m) == IsPlain(m) \/ InFlight(m) \/ m \in torn
<1>0. /\ Grows /\ DecryptedKept
      /\ \A h \in Handlers : HandlerOK(h)
      /\ \A c \in Commands : CommandOK(c)
  BY Growth DEF ActorInv
<1>b. DOMAIN at = Actors /\ DOMAIN held = Actors /\ DOMAIN message = Handlers
  BY DEF TypeOK
<1>c. UNCHANGED controls
  BY DEF Next, vars, service, Send, HandlerNext, TakePush, PollUnread, PollEnds, PollNext,
         Decrypt, Ack, Store, Notify, Restart, CommandNext, Fetch, ReadCache, DecryptNext,
         AckPolling, StoreBatch, MarkRemote, MarkLocal, Return, Interrupt
<1>d. SUFFICES ASSUME NEW m \in Texts, m \in spent' PROVE Safe(m)'
  BY <1>c DEF DecryptedKept, Texts
<1>e. m \in Messages /\ m \notin controls
  BY DEF Texts
<1>f. m \in spent => Safe(m)
  BY <1>0 DEF DecryptedKept
<1> DEFINE Holds(a) == m \in held[a] /\ at[a] \in {"acking", "storing", "reading"}
(* It is enough to look at the actor that moves, where it holds m. *)
<1>1. ASSUME UNCHANGED spent, \A a \in Actors : Holds(a) => Holds(a)' \/ Safe(m)' PROVE Safe(m)'
  <2>1. CASE IsPlain(m) \/ m \in torn
    BY <2>1, <1>0, <1>e DEF Grows
  <2>2. ASSUME NEW a \in Actors, Holds(a) PROVE Safe(m)'
    <3>1. CASE Holds(a)'
      BY <3>1 DEF InFlight
    <3> QED
      BY <2>2, <3>1, <1>1
  <2> QED
    BY <2>1, <2>2, <1>1, <1>d, <1>f DEF InFlight
<1>2. CASE UNCHANGED <<spent, at, held>>
  BY <1>1, <1>2
<1>3. ASSUME NEW h \in Handlers, HandlerNext(h) PROVE Safe(m)'
  <2>0. HandlerOK(h) /\ h \in Actors
    BY <1>0 DEF Actors
  <2>1. CASE (\E n \in Messages : TakePush(n)) \/ PollUnread \/ PollEnds \/ \E n \in Messages : PollNext(n)
    <3>1. UNCHANGED <<spent, held>>
      BY <2>1 DEF TakePush, PollUnread, PollEnds, PollNext
    <3>2. \A a \in Actors : Holds(a) => at'[a] = at[a]
      BY <2>1, <1>b DEF TakePush, PollUnread, PollEnds, PollNext
    <3> QED
      BY <3>1, <3>2, <1>1
  <2>2. CASE Decrypt(h)
    <3>1. ~Holds(h) /\ \A a \in Actors \ {h} : at'[a] = at[a] /\ held'[a] = held[a]
      BY <2>2, <1>b DEF Decrypt, Finish
    <3>2. CASE UNCHANGED spent
      BY <3>1, <3>2, <1>1
    <3>3. CASE m \in spent
      BY <3>1, <3>3, <1>0, <1>e, <1>f DEF Grows, InFlight
    <3>4. CASE ~UNCHANGED spent /\ m \notin spent
      <4>1. /\ m = message[h] /\ held' = [held EXCEPT ![h] = {m}]
            /\ at' = [at EXCEPT ![h] = IF m = First THEN "acking" ELSE "storing"]
        BY <2>2, <3>4, <1>d, <1>e DEF Decrypt
      <4> QED
        BY <4>1, <1>b, <2>0 DEF InFlight
    <3> QED
      BY <3>2, <3>3, <3>4
  <2>3. CASE Ack(h)
    <3>1. UNCHANGED spent /\ \A a \in Actors \ {h} : at'[a] = at[a] /\ held'[a] = held[a]
      BY <2>3, <1>b DEF Ack, Finish
    <3>2. Holds(h) => Holds(h)'
      BY <2>0, <2>3, <1>b, <1>e DEF Ack, HandlerOK
    <3> QED
      BY <3>1, <3>2, <1>1
  <2>4. CASE Store(h)
    <3>1. UNCHANGED <<spent, held>> /\ \A a \in Actors \ {h} : at'[a] = at[a]
      BY <2>4, <1>b DEF Store
    <3>2. Holds(h) => Safe(m)'
      BY <2>0, <2>4, StoreKeeps DEF HandlerOK
    <3> QED
      BY <3>1, <3>2, <1>1
  <2>5. CASE Notify(h)
    <3>1. UNCHANGED spent /\ ~Holds(h) /\ \A a \in Actors \ {h} : at'[a] = at[a] /\ held'[a] = held[a]
      BY <2>5, <1>b DEF Notify, Finish
    <3> QED
      BY <3>1, <1>1
  <2> QED
    BY <1>3, <2>1, <2>2, <2>3, <2>4, <2>5 DEF HandlerNext
<1>4. CASE Restart
  <2>1. UNCHANGED spent /\ \A c \in Commands : at'[c] = at[c] /\ held'[c] = held[c]
    BY <1>4 DEF Restart, Actors
  <2>2. \A h \in Handlers : m \in held[h] => m \in torn'
    BY <1>4 DEF Restart, Handlers
  <2> QED
    BY <2>1, <2>2, <1>1 DEF Actors
<1>5. ASSUME NEW c \in Commands, CommandNext(c) \/ Fetch(c) \/ ReadCache(c) \/ Interrupt(c)
      PROVE  Safe(m)'
  <2>0. CommandOK(c) /\ c \in Actors
    BY <1>0 DEF Actors
  <2>1. ASSUME NEW n \in Messages, DecryptNext(c, n) PROVE Safe(m)'
    <3>1. \A a \in Actors \ {c} : at'[a] = at[a] /\ held'[a] = held[a]
      BY <2>1, <1>b DEF DecryptNext
    <3>2. Holds(c) => Holds(c)'
      BY <2>0, <2>1, <1>b DEF DecryptNext
    <3>3. CASE m \in spent
      BY <3>1, <3>2, <3>3, <1>0, <1>e, <1>f DEF Grows, InFlight
    <3>4. CASE m \notin spent
      <4>1. /\ m = n /\ held' = [held EXCEPT ![c] = @ \union {n}]
            /\ at' = [at EXCEPT ![c] = IF n = First THEN "acking" ELSE "reading"]
        BY <2>1, <3>4, <1>d DEF DecryptNext
      <4> QED
        BY <4>1, <1>b, <2>0 DEF InFlight
    <3> QED
      BY <3>3, <3>4
  <2>2. CASE AckPolling(c)
    BY <2>0, <2>2, <1>b, <1>1 DEF AckPolling
  <2>3. CASE StoreBatch(c)
    <3>1. UNCHANGED spent /\ \A a \in Actors \ {c} : at'[a] = at[a] /\ held'[a] = held[a]
      BY <2>3, <1>b DEF StoreBatch
    <3>2. Holds(c) => Safe(m)'
      BY <2>0, <2>3, <1>e, BatchKeeps DEF CommandOK
    <3> QED
      BY <3>1, <3>2, <1>1
  <2>4. CASE MarkRemote(c) \/ MarkLocal(c) \/ Return(c)
    <3>1. /\ UNCHANGED spent /\ ~Holds(c)
          /\ \A a \in Actors \ {c} : at'[a] = at[a] /\ held'[a] = held[a]
      BY <2>4, <1>b DEF MarkRemote, MarkLocal, Return, Forget
    <3> QED
      BY <3>1, <1>1
  <2>5. CASE Interrupt(c)
    <3>1. /\ UNCHANGED spent /\ (m \in held[c] => m \in torn')
          /\ \A a \in Actors \ {c} : at'[a] = at[a] /\ held'[a] = held[a]
      BY <2>5, <1>b DEF Interrupt, Forget
    <3> QED
      BY <3>1, <1>1
  <2>6. CASE Fetch(c) \/ ReadCache(c)
    <3>1. /\ UNCHANGED <<spent, held>> /\ ~Holds(c)
          /\ \A a \in Actors \ {c} : at'[a] = at[a]
      BY <2>6, <1>b DEF Fetch, ReadCache
    <3> QED
      BY <3>1, <1>1
  <2> QED
    BY <1>5, <2>1, <2>2, <2>3, <2>4, <2>5, <2>6 DEF CommandNext
<1>6. CASE UNCHANGED vars
  BY <1>2, <1>6 DEF vars, locals
<1>7. ASSUME NEW n \in Messages, Send(n) PROVE Safe(m)'
  BY <1>2, <1>7 DEF Send, locals
<1> QED
  BY <1>3, <1>4, <1>5, <1>6, <1>7 DEF Next

LEMMA Inductive == Spec => []Inv
<1>1. Inv /\ [Next]_vars => Inv'
  BY TypeStep, RowStep, ServiceStep, ActorStep, KeptStep DEF Inv
<1> QED
  BY InitInv, <1>1, PTL DEF Spec

(* The types of the inbox, and that a handler has a message exactly while it *)
(* is at one, for any messages, commands and bounds.                         *)
THEOREM TypeCorrect == Spec => []TypeOK
<1>1. Inv => TypeOK
  BY DEF Inv
<1> QED
  BY <1>1, Inductive, PTL

(* A row is all ciphertext or all plaintext, whoever upserts what in which   *)
(* order.                                                                    *)
THEOREM RowsWhole == Spec => []RowIsWhole
<1>1. Inv => RowIsWhole
  BY DEF Inv
<1> QED
  BY <1>1, Inductive, PTL

(* No step of anyone takes the plaintext or the read mark from a row.        *)
THEOREM RowsStayImproved == Spec => RowsOnlyImprove
<1>1. Inv /\ Inv' /\ [Next]_vars =>
        [\A m \in Messages : row[m] # NoRow =>
           /\ row'[m] # NoRow
           /\ row[m].content_type = "plain" => row'[m].content = "plain"
           /\ row[m].is_read => row'[m].is_read]_vars
  BY RowStep DEF Inv, RowIsWhole, RowsImprove, Improves
<1> QED
  BY <1>1, Inductive, PTL DEF Spec, RowsOnlyImprove

(* A decrypted text is in its row, in somebody's hands, or lost by a fault.  *)
THEOREM NoTextVanishes == Spec => []DecryptedKept
<1>1. Inv => DecryptedKept
  BY DEF Inv
<1> QED
  BY <1>1, Inductive, PTL

(* No text leaves the unread messages before it is stored or about to be,    *)
(* but by the two exceptions.                                                *)
THEOREM NoTextIsReadUnstored == Spec => []UnreadUntilStored
<1>1. Inv => UnreadUntilStored
  <2> SUFFICES ASSUME Inv, NEW m \in Texts \intersect (sent \ unread)
               PROVE  IsPlain(m) \/ InFlight(m) \/ m \in torn \union stranded
    BY DEF UnreadUntilStored
  <2>1. m \in Tried
    BY DEF Inv, ServiceInv
  <2>2. CASE m \in spent
    BY <2>2 DEF Inv, DecryptedKept
  <2> QED
    BY <2>1, <2>2 DEF Tried
<1> QED
  BY <1>1, Inductive, PTL

=============================================================================
