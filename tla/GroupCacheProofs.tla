-------------------------- MODULE GroupCacheProofs --------------------------
(***************************************************************************)
(* Proofs about GroupCache, for any commands, other agents, changes and     *)
(* lost notifications: the cached members and the owner guard of LeaveGroup *)
(* are right once everything under way has been written.                    *)
(***************************************************************************)
EXTENDS GroupCache, SequenceTheorems, TLAPS

(* Notifications that are not written yet.                                  *)
Queued == {queue[i] : i \in 1..Len(queue)}
Pending == Queued \union ({writing} \ {NoEvent})

(* They come in the order of the changes, each one once.                    *)
QueueInv ==
  /\ \A i \in 1..Len(queue) :
       /\ hist.seen < queue[i].seq /\ queue[i].seq <= srv.seq /\ queue[i].epoch <= srv.epoch
       /\ writing.seq < queue[i].seq
       /\ \A j \in 1..Len(queue) : i < j => queue[i].seq < queue[j].seq
  /\ writing # NoEvent => hist.seen < writing.seq /\ writing.seq <= srv.seq /\ writing.epoch <= srv.epoch
  /\ hist.seen <= srv.seq /\ hist.epoch <= srv.epoch

OwnerInv == srv.owner = Me => Me \in srv.members

(* Steps that save what the step before them fetched.                       *)
Before == [s \in {"persistGroupSnapshot", "persistGroupMembers", "markCachedGroupLeft", "DeleteGroupMembers"} |->
  CASE s = "persistGroupSnapshot" -> "group.get"
    [] s = "persistGroupMembers" -> "group.list_members"
    [] s = "markCachedGroupLeft" -> "group.leave"
    [] s = "DeleteGroupMembers" -> "markCachedGroupLeft"]

Paired(s, from) ==
  \A i \in from..Len(s) : s[i] \in DOMAIN Before => i > 1 /\ s[i - 1] = Before[s[i]]

(* A role of owner that was fetched is right, unless a later change has been *)
(* written or will be.                                                      *)
RoleInv(f) ==
  f.role = "owner" =>
    \/ srv.owner = Me
    \/ f.seq < hist.seen
    \/ writing # NoEvent /\ f.seq < writing.seq
    \/ \E e \in Queued : f.seq < e.seq

(* A list of members is right but for agents a later change is about, as     *)
(* long as none of the later changes has been written.                      *)
ListInv(f) ==
  (f.epoch = srv.epoch /\ Me \in srv.members /\ hist.seen <= f.seq) =>
    \A a \in Agents :
      (\A e \in Pending : e.subject = a => e.seq <= f.seq) => (a \in f.members <=> a \in srv.members)

(* The user left, and is not yet back in the same membership.               *)
LeftInv(f) == f.epoch = srv.epoch => Me \notin srv.members

Command == [todo : Seq(Steps), fetch : Fetched]
Ready(e, step) == e.todo # <<>> /\ Head(e.todo) = step

CmdInv(e) ==
  /\ Paired(e.todo, 2)
  /\ e.fetch.seq <= srv.seq /\ e.fetch.epoch <= srv.epoch
  /\ Ready(e, "persistGroupSnapshot") => RoleInv(e.fetch)
  /\ Ready(e, "persistGroupMembers") => ListInv(e.fetch)
  /\ Ready(e, "markCachedGroupLeft") \/ Ready(e, "DeleteGroupMembers") => LeftInv(e.fetch)

(* The last notification about an agent says what the group is.             *)
LastInv ==
  Me \in srv.members =>
    \A e \in Pending :
      (/\ e.epoch = srv.epoch /\ e.subject \in Agents
       /\ \A d \in Pending : d.subject = e.subject => d.seq <= e.seq) =>
      (membershipStatusFromEvent(e.method) = "active" <=> e.subject \in srv.members)

(* The store is right about the agents no notification is pending for.      *)
StoreInv ==
  (/\ Me \in srv.members /\ hist.epoch = srv.epoch /\ hist.members = {}
   /\ \A e \in Pending : e.epoch = srv.epoch) =>
    \A a \in Agents :
      (\A e \in Pending : e.subject # a) => (members[a] = "active" <=> a \in srv.members)

RowInv == (hist.row = {} /\ isActiveGroupOwner) => srv.owner = Me \/ queue # <<>>

Inv ==
  /\ TypeOK /\ QueueInv /\ OwnerInv /\ LastInv /\ StoreInv /\ RowInv
  /\ \A c \in Cmds : CmdInv(cmd[c])

-----------------------------------------------------------------------------
(* The queue. *)

LEMMA Types ==
  /\ NoEvent \in Event /\ NoFetch \in Fetched /\ NoEvent.seq = 0
  /\ <<>> \in Seq(Steps)
  BY DEF NoEvent, NoFetch, Event, Fetched

LEMMA Added ==
  ASSUME TypeOK, NEW e \in Event, queue' = Append(queue, e)
  PROVE  queue' \in Seq(Event) /\ queue' # <<>> /\ Queued' = Queued \union {e}
<1>1. /\ queue' \in Seq(Event) /\ queue' # <<>> /\ Len(queue') = Len(queue) + 1
      /\ \A i \in 1..Len(queue) : queue'[i] = queue[i]
      /\ queue'[Len(queue) + 1] = e /\ Len(queue) \in Nat
  BY AppendProperties, LenProperties DEF TypeOK
<1> QED
  BY <1>1 DEF Queued

LEMMA Taken ==
  ASSUME TypeOK, QueueInv, queue # <<>>, queue' = Tail(queue)
  PROVE  /\ queue' \in Seq(Event) /\ Head(queue) \in Event
         /\ Queued = Queued' \union {Head(queue)}
         /\ \A d \in Queued' : Head(queue).seq < d.seq
<1>1. /\ queue' \in Seq(Event) /\ Head(queue) = queue[1] /\ Len(queue') = Len(queue) - 1
      /\ \A i \in 1..Len(queue') : queue'[i] = queue[i + 1]
      /\ Len(queue) \in Nat \ {0} /\ Head(queue) \in Event
  BY HeadTailProperties, EmptySeq DEF TypeOK
<1>2. \A i \in 1..Len(queue) : i = 1 \/ (i - 1 \in 1..Len(queue') /\ queue'[i - 1] = queue[i])
  BY <1>1
<1>3. \A i \in 1..Len(queue') : i + 1 \in 1..Len(queue) /\ 1 < i + 1 /\ 1 \in 1..Len(queue)
  BY <1>1
<1> QED
  BY <1>1, <1>2, <1>3 DEF Queued, QueueInv

(* What the order of the queue means for the set of notifications.           *)
LEMMA Order ==
  ASSUME TypeOK, QueueInv
  PROVE  /\ \A e \in Queued : /\ e \in Event /\ hist.seen < e.seq /\ e.seq <= srv.seq
                               /\ e.epoch <= srv.epoch /\ writing.seq < e.seq
         /\ \A e \in Pending : /\ e \in Event /\ hist.seen < e.seq /\ e.seq <= srv.seq
                                /\ e.epoch <= srv.epoch
<1>1. \A i \in 1..Len(queue) : queue[i] \in Event
  BY ElementOfSeq DEF TypeOK
<1> QED
  BY <1>1 DEF Queued, Pending, QueueInv, TypeOK
-----------------------------------------------------------------------------
(* A change of the group. *)

(* Who is in the group afterwards, and what is queued: the new notification  *)
(* comes last and says of its subject what the group is now.                 *)
LEMMA ChangeFacts ==
  ASSUME TypeOK, QueueInv, OwnerInv, NEW method \in Methods, NEW a \in Agents \union {Nobody},
         method = "group.update" <=> a = Nobody, Change(method, a), UNCHANGED writing
  PROVE  /\ srv' \in [members : SUBSET Agents, owner : Agents \union {Nobody}, seq : Nat, epoch : Nat]
         /\ srv'.seq = srv.seq + 1
         /\ srv'.epoch = IF Me \in srv'.members \ srv.members THEN srv.epoch + 1 ELSE srv.epoch
         /\ \A b \in Agents \ {a} : b \in srv'.members <=> b \in srv.members
         /\ srv'.owner # Nobody => srv'.owner \in srv'.members
         /\ srv.owner \in srv'.members => srv'.owner = srv.owner
         /\ IF Me \in srv'.members \union srv.members
            THEN \E e \in Event :
                   /\ e.seq = srv.seq + 1 /\ e.epoch = srv'.epoch /\ e.subject = a
                   /\ a \in Agents =>
                        (membershipStatusFromEvent(e.method) = "active" <=> a \in srv'.members)
                   /\ queue' = Append(queue, e)
            ELSE queue' = queue
<1> DEFINE mem == CASE method \in {"group.create", "group.join", "group.add"} -> srv.members \union {a}
                    [] method \in {"group.leave", "group.remove"} -> srv.members \ {a}
                    [] method = "group.update" -> srv.members
           ep == IF Me \in mem \ srv.members THEN srv.epoch + 1 ELSE srv.epoch
           e == [seq |-> srv.seq + 1, epoch |-> ep, subject |-> a, method |-> method]
<1>1. /\ mem \subseteq Agents
      /\ \A b \in Agents \ {a} : b \in mem <=> b \in srv.members
      /\ a \in Agents => (membershipStatusFromEvent(method) = "active" <=> a \in mem)
  <2>1. CASE method \in {"group.create", "group.join", "group.add"}
    BY <2>1, GroupConstants DEF TypeOK, membershipStatusFromEvent
  <2>2. CASE method \in {"group.leave", "group.remove"}
    BY <2>2, GroupConstants DEF TypeOK, membershipStatusFromEvent
  <2>3. CASE method = "group.update"
    BY <2>3, GroupConstants DEF TypeOK, Agents
  <2> QED
    BY <2>1, <2>2, <2>3 DEF Methods
<1>2. PICK o \in mem \union {Nobody} :
        /\ IF srv.owner \in mem THEN o = srv.owner ELSE (o = Nobody <=> mem = {})
        /\ srv' = [members |-> mem, owner |-> o, seq |-> srv.seq + 1, epoch |-> ep]
  BY Zenon DEF Change
<1>3. queue' = IF Me \in mem \union srv.members THEN Append(queue, e) ELSE queue
  BY Zenon DEF Change
<1> HIDE DEF mem
<1>4. /\ srv'.members = mem /\ srv'.epoch = ep /\ srv'.seq = srv.seq + 1 /\ srv'.owner = o
      /\ ep \in Nat /\ srv.seq \in Nat
  BY <1>2 DEF TypeOK
<1>5. e \in Event /\ e.seq = srv.seq + 1 /\ e.epoch = ep /\ e.subject = a /\ e.method = method
  <2>1. e \in Event
    BY <1>4 DEF Event
  <2> QED
    BY <2>1
<1> HIDE DEF e
<1>6. srv' \in [members : SUBSET Agents, owner : Agents \union {Nobody}, seq : Nat, epoch : Nat]
  BY <1>1, <1>2, <1>4
<1> QED
  BY <1>1, <1>2, <1>3, <1>4, <1>5, <1>6

LEMMA ChangeStep ==
  ASSUME Inv, NEW method \in Methods, NEW a \in Agents \union {Nobody},
         method = "group.update" <=> a = Nobody, Change(method, a),
         UNCHANGED <<writing, row, members, hist>>
  PROVE  /\ QueueInv' /\ OwnerInv' /\ LastInv' /\ StoreInv' /\ RowInv'
         /\ srv' \in [members : SUBSET Agents, owner : Agents \union {Nobody}, seq : Nat, epoch : Nat]
         /\ queue' \in Seq(Event)
         /\ \A x \in Command : CmdInv(x) => CmdInv(x)'
<1> USE DEF Inv
<1>1. UNCHANGED writing /\ UNCHANGED <<row, members, hist>> /\ UNCHANGED <<hist, row>>
  OBVIOUS
<1>2. /\ srv' \in [members : SUBSET Agents, owner : Agents \union {Nobody}, seq : Nat, epoch : Nat]
      /\ srv'.seq = srv.seq + 1
      /\ srv'.epoch = IF Me \in srv'.members \ srv.members THEN srv.epoch + 1 ELSE srv.epoch
      /\ \A b \in Agents \ {a} : b \in srv'.members <=> b \in srv.members
      /\ srv'.owner # Nobody => srv'.owner \in srv'.members
      /\ srv.owner \in srv'.members => srv'.owner = srv.owner
      /\ IF Me \in srv'.members \union srv.members
         THEN \E e \in Event :
                /\ e.seq = srv.seq + 1 /\ e.epoch = srv'.epoch /\ e.subject = a
                /\ a \in Agents =>
                     (membershipStatusFromEvent(e.method) = "active" <=> a \in srv'.members)
                /\ queue' = Append(queue, e)
         ELSE queue' = queue
  BY <1>1, ChangeFacts
<1>3. Me \in Agents /\ Me # Nobody
  BY GroupConstants DEF Agents
<1>4. /\ srv.seq \in Nat /\ srv.epoch \in Nat /\ hist.seen \in Nat /\ hist.epoch \in Nat
      /\ hist.seen <= srv.seq /\ hist.epoch <= srv.epoch /\ writing \in Event /\ writing.seq \in Nat
  BY DEF TypeOK, QueueInv, Event
<1>5. OwnerInv'
  BY <1>2, <1>3 DEF OwnerInv
<1>6. \A x \in Command :
        /\ x.fetch \in Fetched /\ x.fetch.seq \in Nat /\ x.fetch.epoch \in Nat
        /\ CmdInv(x) => x.fetch.seq <= srv.seq /\ x.fetch.epoch <= srv.epoch
  BY DEF Command, Fetched, CmdInv
<1>7. CASE Me \in srv'.members \union srv.members
  <2>1. PICK e \in Event :
          /\ e.seq = srv.seq + 1 /\ e.epoch = srv'.epoch /\ e.subject = a
          /\ a \in Agents =>
               (membershipStatusFromEvent(e.method) = "active" <=> a \in srv'.members)
          /\ queue' = Append(queue, e)
    BY <1>2, <1>7
  <2>2. queue' \in Seq(Event) /\ queue' # <<>> /\ Queued' = Queued \union {e}
    BY <2>1, Added
  <2>3. /\ Len(queue') = Len(queue) + 1 /\ Len(queue) \in Nat
        /\ \A i \in 1..Len(queue) : queue'[i] = queue[i]
        /\ queue'[Len(queue) + 1] = e
    BY <2>1, AppendProperties, LenProperties DEF TypeOK
  <2>4. Pending' = Pending \union {e}
    BY <1>1, <2>2 DEF Pending
  <2>5. /\ \A d \in Pending : d.seq \in Nat /\ d.epoch \in Nat /\ d.seq <= srv.seq /\ d.epoch <= srv.epoch
        /\ \A d \in Queued : d.seq \in Nat /\ d.seq <= srv.seq
    BY Order DEF Event
  <2>6. QueueInv'
    <3>1. \A i \in 1..Len(queue') : i \in 1..Len(queue) \/ (i = Len(queue) + 1 /\ queue'[i] = e)
      BY <2>3
    <3>2. \A i \in 1..Len(queue) : /\ queue[i].seq \in Nat /\ queue[i].epoch \in Nat
                                   /\ queue[i].seq <= srv.seq /\ queue[i].epoch <= srv.epoch
                                   /\ hist.seen < queue[i].seq /\ writing.seq < queue[i].seq
                                   /\ \A j \in 1..Len(queue) : i < j => queue[i].seq < queue[j].seq
      BY <2>5, Order DEF Queued, QueueInv, Event
    <3>3. writing.seq <= srv.seq /\ (writing # NoEvent => hist.seen < writing.seq /\ writing.epoch <= srv.epoch)
      BY Types, <1>4 DEF QueueInv, NoEvent
    <3>4. srv'.epoch \in Nat /\ srv.epoch <= srv'.epoch
      BY <1>2, <1>4
    <3>5. writing.epoch \in Nat
      BY <1>4 DEF Event
    <3>6. \A i \in 1..Len(queue') :
            /\ hist.seen < queue'[i].seq /\ queue'[i].seq <= srv'.seq /\ queue'[i].epoch <= srv'.epoch
            /\ writing.seq < queue'[i].seq
      <4> SUFFICES ASSUME NEW i \in 1..Len(queue')
                   PROVE  /\ hist.seen < queue'[i].seq /\ queue'[i].seq <= srv'.seq
                          /\ queue'[i].epoch <= srv'.epoch /\ writing.seq < queue'[i].seq
        OBVIOUS
      <4>1. CASE i \in 1..Len(queue)
        <5>1. queue'[i] = queue[i] /\ srv'.seq = srv.seq + 1
          BY <1>2, <2>3, <4>1
        <5>2. srv.seq \in Nat /\ srv.epoch \in Nat
          BY <1>4
        <5> QED
          BY <3>2, <3>4, <4>1, <5>1, <5>2
      <4>2. CASE queue'[i] = e
        BY <1>2, <1>4, <2>1, <3>3, <3>4, <4>2
      <4> QED
        BY <3>1, <4>1, <4>2
    <3>7. \A i, j \in 1..Len(queue') : i < j => queue'[i].seq < queue'[j].seq
      <4> SUFFICES ASSUME NEW i \in 1..Len(queue'), NEW j \in 1..Len(queue'), i < j
                   PROVE  queue'[i].seq < queue'[j].seq
        OBVIOUS
      <4>1. i \in 1..Len(queue)
        BY <2>3
      <4>2. CASE j \in 1..Len(queue)
        BY <2>3, <3>2, <4>1, <4>2
      <4>3. CASE queue'[j] = e
        BY <1>4, <2>1, <2>3, <3>2, <4>1, <4>3
      <4> QED
        BY <3>1, <4>2, <4>3
    <3>8. hist.seen <= srv'.seq /\ hist.epoch <= srv'.epoch
      BY <1>2, <1>4, <3>4
    <3>9. writing # NoEvent => hist.seen < writing.seq /\ writing.seq <= srv'.seq /\ writing.epoch <= srv'.epoch
      BY <1>2, <1>4, <3>3, <3>4, <3>5
    <3> QED
      BY <1>1, <3>6, <3>7, <3>8, <3>9 DEF QueueInv
  <2>7. LastInv'
    <3> SUFFICES ASSUME Me \in srv'.members, NEW d \in Pending', d.epoch = srv'.epoch, d.subject \in Agents,
                        \A g \in Pending' : g.subject = d.subject => g.seq <= d.seq
                 PROVE  membershipStatusFromEvent(d.method) = "active" <=> d.subject \in srv'.members
      BY DEF LastInv
    <3>1. CASE d = e
      BY <2>1, <3>1
    <3>2. CASE d # e
      <4>1. d \in Pending /\ d.subject # a /\ Me \in srv.members /\ d.epoch = srv.epoch
        BY <1>2, <1>4, <2>1, <2>4, <2>5, <3>2
      <4> QED
        BY <1>2, <2>4, <4>1 DEF LastInv
    <3> QED
      BY <3>1, <3>2
  <2>8. StoreInv'
    <3> SUFFICES ASSUME Me \in srv'.members, hist.epoch = srv'.epoch, hist.members = {},
                        \A d \in Pending' : d.epoch = srv'.epoch,
                        NEW b \in Agents, \A d \in Pending' : d.subject # b
                 PROVE  members[b] = "active" <=> b \in srv'.members
      BY <1>1 DEF StoreInv
    <3>1. Me \in srv.members /\ srv'.epoch = srv.epoch /\ b # a
      BY <1>2, <1>4, <2>1, <2>4
    <3> QED
      BY <1>2, <2>4, <3>1 DEF StoreInv
  <2>9. RowInv'
    BY <2>2 DEF RowInv
  <2>10. ASSUME NEW x \in Command, CmdInv(x) PROVE CmdInv(x)'
    <3>1. RoleInv(x.fetch) => RoleInv(x.fetch)'
      <4>1. CASE srv.owner = Me /\ Me \notin srv'.members
        BY <1>4, <1>6, <2>1, <2>2, <2>10, <4>1 DEF RoleInv
      <4>2. CASE srv.owner # Me \/ Me \in srv'.members
        BY <1>1, <1>2, <2>2, <4>2 DEF RoleInv
      <4> QED
        BY <4>1, <4>2
    <3>2. ListInv(x.fetch) => ListInv(x.fetch)'
      <4> SUFFICES ASSUME ListInv(x.fetch), x.fetch.epoch = srv'.epoch, Me \in srv'.members, hist.seen <= x.fetch.seq,
                          NEW b \in Agents, \A d \in Pending' : d.subject = b => d.seq <= x.fetch.seq
                   PROVE  b \in x.fetch.members <=> b \in srv'.members
        BY <1>1 DEF ListInv
      <4>1. Me \in srv.members /\ srv'.epoch = srv.epoch /\ b # a
        BY <1>2, <1>4, <1>6, <2>1, <2>4, <2>10
      <4> QED
        BY <1>2, <2>4, <4>1 DEF ListInv
    <3>3. LeftInv(x.fetch) => LeftInv(x.fetch)'
      BY <1>2, <1>4, <1>6, <2>10 DEF LeftInv
    <3>4. x.fetch.seq <= srv'.seq /\ x.fetch.epoch <= srv'.epoch
      BY <1>2, <1>4, <1>6, <2>10
    <3> QED
      BY <2>10, <3>1, <3>2, <3>3, <3>4 DEF CmdInv
  <2> QED
    BY <1>2, <1>5, <2>2, <2>6, <2>7, <2>8, <2>9, <2>10
<1>8. CASE Me \notin srv'.members \union srv.members
  <2>1. queue' = queue /\ srv'.epoch = srv.epoch /\ Me \notin srv.members /\ Me \notin srv'.members
    BY <1>2, <1>8
  <2>2. Queued' = Queued /\ Pending' = Pending
    BY <1>1, <2>1 DEF Queued, Pending
  <2>3. QueueInv'
    <3>1. \A i \in 1..Len(queue) : queue[i].seq \in Nat /\ queue[i].epoch \in Nat
      <4>1. \A i \in 1..Len(queue) : queue[i] \in Event
        BY ElementOfSeq DEF TypeOK
      <4> QED
        BY <4>1 DEF Event
    <3>2. writing.epoch \in Nat
      BY <1>4 DEF Event
    <3> QED
      BY <1>1, <1>2, <1>4, <2>1, <3>1, <3>2 DEF QueueInv
  <2>4. LastInv' /\ StoreInv' /\ (\A x \in Command : ListInv(x.fetch)' /\ LeftInv(x.fetch)')
    BY <2>1 DEF LastInv, StoreInv, ListInv, LeftInv
  <2>5. srv.owner # Me
    BY <2>1 DEF OwnerInv
  <2>6. RowInv'
    BY <1>1, <2>1, <2>5 DEF RowInv, isActiveGroupOwner
  <2>7. \A x \in Command : RoleInv(x.fetch) => RoleInv(x.fetch)'
    BY <1>1, <2>2, <2>5 DEF RoleInv
  <2>8. \A x \in Command : CmdInv(x) => CmdInv(x)'
    <3> SUFFICES ASSUME NEW x \in Command, CmdInv(x) PROVE CmdInv(x)'
      OBVIOUS
    <3>1. x.fetch.seq <= srv'.seq /\ x.fetch.epoch <= srv'.epoch
      BY <1>2, <1>4, <1>6, <2>1
    <3> QED
      BY <2>4, <2>7, <3>1 DEF CmdInv
  <2>9. queue' \in Seq(Event)
    BY <2>1 DEF TypeOK
  <2> QED
    BY <1>2, <1>5, <2>3, <2>4, <2>6, <2>8, <2>9
<1> QED
  BY <1>7, <1>8
-----------------------------------------------------------------------------
(* A step of a command. *)

(* The other commands keep what they hold.                                   *)
LEMMA OneCommand ==
  ASSUME TypeOK, \A d \in Cmds : CmdInv(cmd[d]), NEW c \in Cmds, NEW e \in Command,
         cmd' = [cmd EXCEPT ![c] = e], CmdInv(e)',
         \A x \in Command : CmdInv(x) => CmdInv(x)'
  PROVE  /\ cmd' \in [Cmds -> Command]
         /\ \A d \in Cmds : CmdInv(cmd[d])'
<1>1. cmd \in [Cmds -> Command]
  BY DEF TypeOK, Command
<1>2. ASSUME NEW d \in Cmds PROVE CmdInv(cmd[d])'
  <2>1. CASE d = c
    <3>1. cmd'[d] = e
      BY <1>1, <2>1
    <3> QED
      BY <3>1 DEF CmdInv, RoleInv, ListInv, LeftInv
  <2>2. CASE d # c
    <3>1. PICK x \in Command : cmd[d] = x /\ cmd'[d] = x
      BY <1>1, <2>2
    <3>2. CmdInv(x)
      BY <3>1
    <3>3. CmdInv(x)'
      BY <3>2
    <3> QED
      BY <3>1, <3>3 DEF CmdInv, RoleInv, ListInv, LeftInv
  <2> QED
    BY <2>1, <2>2
<1> QED
  BY <1>1, <1>2

(* What a command holds depends on the group and the notifications.          *)
LEMMA SharedKept ==
  ASSUME UNCHANGED <<srv, queue, writing, hist>>
  PROVE  \A x \in Command : CmdInv(x) => CmdInv(x)'
  BY DEF CmdInv, RoleInv, ListInv, LeftInv, Pending, Queued

(* The steps left, after one of them.                                        *)
LEMMA Rest ==
  ASSUME NEW s \in Seq(Steps), s # <<>>, Paired(s, 2)
  PROVE  /\ Tail(s) \in Seq(Steps) /\ Paired(Tail(s), 2)
         /\ Tail(s) # <<>> => /\ Head(Tail(s)) \in Steps
                              /\ Head(Tail(s)) \in DOMAIN Before => Head(s) = Before[Head(Tail(s))]
<1>1. /\ Tail(s) \in Seq(Steps) /\ Len(Tail(s)) = Len(s) - 1 /\ Len(s) \in Nat \ {0} /\ Head(s) = s[1]
      /\ \A i \in 1..Len(Tail(s)) : Tail(s)[i] = s[i + 1]
  BY HeadTailProperties, EmptySeq
<1>2. Paired(Tail(s), 2)
  <2> SUFFICES ASSUME NEW i \in 2..Len(Tail(s)), Tail(s)[i] \in DOMAIN Before
               PROVE  Tail(s)[i - 1] = Before[Tail(s)[i]]
    BY <1>1 DEF Paired
  <2>1. i + 1 \in 2..Len(s) /\ Tail(s)[i] = s[i + 1] /\ Tail(s)[i - 1] = s[i] /\ i + 1 - 1 = i
    BY <1>1
  <2> QED
    BY <2>1 DEF Paired
<1>3. ASSUME Tail(s) # <<>>
      PROVE  /\ Head(Tail(s)) \in Steps
             /\ Head(Tail(s)) \in DOMAIN Before => Head(s) = Before[Head(Tail(s))]
  <2>1. Len(Tail(s)) \in Nat \ {0} /\ Head(Tail(s)) = Tail(s)[1] /\ Head(Tail(s)) \in Steps
    BY <1>1, <1>3, HeadTailProperties, EmptySeq
  <2>2. Head(Tail(s)) = s[2] /\ 2 \in 2..Len(s) /\ 2 - 1 = 1
    BY <1>1, <2>1
  <2> QED
    BY <1>1, <2>1, <2>2 DEF Paired
<1> QED
  BY <1>1, <1>2, <1>3

(* A command that goes on, with what the step just fetched.                  *)
LEMMA AdvanceStep ==
  ASSUME TypeOK, NEW c \in Cmds, cmd[c].todo # <<>>, CmdInv(cmd[c]), NEW f \in Fetched, Advance(c, f)
  PROVE  \E e \in Command :
           /\ cmd' = [cmd EXCEPT ![c] = e]
           /\ Paired(e.todo, 2)
           /\ e.fetch = f \/ e.fetch = NoFetch
           /\ \A s \in DOMAIN Before : Ready(e, s) => e.fetch = f /\ At(c, Before[s])
<1> DEFINE s == cmd[c].todo
           e == IF Tail(s) = <<>> THEN [todo |-> <<>>, fetch |-> NoFetch]
                ELSE [todo |-> Tail(s), fetch |-> f]
<1>1. s \in Seq(Steps) /\ s # <<>> /\ Paired(s, 2) /\ cmd \in [Cmds -> Command]
  BY DEF TypeOK, CmdInv, Command
<1>2. /\ Tail(s) \in Seq(Steps) /\ Paired(Tail(s), 2)
      /\ Tail(s) # <<>> => (Head(Tail(s)) \in DOMAIN Before => Head(s) = Before[Head(Tail(s))])
  BY <1>1, Rest
<1>3. e \in Command
  BY <1>2, Types DEF Command
<1>4. cmd' = [cmd EXCEPT ![c] = e]
  BY DEF Advance
<1>5. Paired(<<>>, 2)
  BY DEF Paired
<1>6. Paired(e.todo, 2) /\ (e.fetch = f \/ e.fetch = NoFetch)
  BY <1>2, <1>5
<1>7. ASSUME NEW t \in DOMAIN Before, Ready(e, t) PROVE e.fetch = f /\ At(c, Before[t])
  BY <1>1, <1>2, <1>7 DEF Ready, At
<1> HIDE DEF e
<1> QED
  BY <1>3, <1>4, <1>6, <1>7
-----------------------------------------------------------------------------
(* The commands. *)

LEMMA TwoSteps ==
  ASSUME NEW a \in Steps, NEW b \in Steps, b \in DOMAIN Before => a = Before[b], a \notin DOMAIN Before
  PROVE  <<a, b>> \in Seq(Steps) /\ Paired(<<a, b>>, 1)
<1>1. Len(<<a, b>>) = 2 /\ <<a, b>>[1] = a /\ <<a, b>>[2] = b
  OBVIOUS
<1> QED
  BY <1>1 DEF Paired

LEMMA OneStep ==
  ASSUME NEW a \in Steps, a \notin DOMAIN Before
  PROVE  <<a>> \in Seq(Steps) /\ Paired(<<a>>, 1)
<1>1. Len(<<a>>) = 1 /\ <<a>>[1] = a
  OBVIOUS
<1> QED
  BY <1>1 DEF Paired

LEMMA Joined ==
  ASSUME NEW s \in Seq(Steps), NEW t \in Seq(Steps), Paired(s, 1), Paired(t, 1)
  PROVE  s \o t \in Seq(Steps) /\ Paired(s \o t, 1)
<1>1. /\ s \o t \in Seq(Steps) /\ Len(s \o t) = Len(s) + Len(t) /\ Len(s) \in Nat /\ Len(t) \in Nat
      /\ \A i \in 1..(Len(s) + Len(t)) : (s \o t)[i] = IF i <= Len(s) THEN s[i] ELSE t[i - Len(s)]
  BY ConcatProperties, LenProperties
<1>2. ASSUME NEW i \in 1..Len(s \o t), (s \o t)[i] \in DOMAIN Before
      PROVE  i > 1 /\ (s \o t)[i - 1] = Before[(s \o t)[i]]
  <2>1. CASE i <= Len(s)
    <3>1. i \in 1..Len(s) /\ (s \o t)[i] = s[i]
      BY <1>1, <2>1
    <3>2. i > 1 /\ s[i - 1] = Before[s[i]]
      BY <1>2, <3>1 DEF Paired
    <3>3. i - 1 \in 1..(Len(s) + Len(t)) /\ i - 1 <= Len(s)
      BY <1>1, <3>1, <3>2
    <3> QED
      BY <1>1, <3>1, <3>2, <3>3
  <2>2. CASE i > Len(s)
    <3>1. i - Len(s) \in 1..Len(t) /\ (s \o t)[i] = t[i - Len(s)]
      BY <1>1, <2>2
    <3>2. i - Len(s) > 1 /\ t[i - Len(s) - 1] = Before[t[i - Len(s)]]
      BY <1>2, <3>1 DEF Paired
    <3>3. i - 1 \in 1..(Len(s) + Len(t)) /\ ~(i - 1 <= Len(s)) /\ i - 1 - Len(s) = i - Len(s) - 1
      BY <1>1, <3>1, <3>2
    <3>4. (s \o t)[i - 1] = t[i - Len(s) - 1]
      BY <1>1, <3>3
    <3> QED
      BY <1>1, <3>1, <3>2, <3>4
  <2> QED
    BY <1>1, <2>1, <2>2
<1> QED
  BY <1>1, <1>2 DEF Paired

(* The lists of steps that commands begin with.                              *)
LEMMA Lists ==
  /\ <<"group.get", "persistGroupSnapshot">> \in Seq(Steps) /\ Paired(<<"group.get", "persistGroupSnapshot">>, 1)
  /\ \A m \in Methods, all \in BOOLEAN : /\ <<m>> \o syncGroupState(all) \in Seq(Steps)
                                         /\ Paired(<<m>> \o syncGroupState(all), 1)
  /\ \A p \in {<<"group.update">>, <<"group.update", "group.update">>} :
       p \o syncGroupState(FALSE) \in Seq(Steps) /\ Paired(p \o syncGroupState(FALSE), 1)
  /\ \A p \in {<<"group.list_members", "persistGroupMembers">>, <<"group.list_messages", "persistGroupMessages">>,
               <<"group.send", "touchCachedGroup">>,
               <<"group.leave", "markCachedGroupLeft", "DeleteGroupMembers">>} :
       p \in Seq(Steps) /\ Paired(p, 1)
<1> USE DEF Steps, Methods, Before
<1>1. /\ <<"group.get", "persistGroupSnapshot">> \in Seq(Steps) /\ Paired(<<"group.get", "persistGroupSnapshot">>, 1)
      /\ <<"group.list_members", "persistGroupMembers">> \in Seq(Steps)
      /\ Paired(<<"group.list_members", "persistGroupMembers">>, 1)
  BY TwoSteps
<1>2. /\ <<"group.list_messages", "persistGroupMessages">> \in Seq(Steps)
      /\ Paired(<<"group.list_messages", "persistGroupMessages">>, 1)
      /\ <<"group.send", "touchCachedGroup">> \in Seq(Steps) /\ Paired(<<"group.send", "touchCachedGroup">>, 1)
      /\ <<"group.update", "group.update">> \in Seq(Steps) /\ Paired(<<"group.update", "group.update">>, 1)
  BY TwoSteps
<1>3. /\ <<"group.leave", "markCachedGroupLeft", "DeleteGroupMembers">> \in Seq(Steps)
      /\ Paired(<<"group.leave", "markCachedGroupLeft", "DeleteGroupMembers">>, 1)
  <2> DEFINE p == <<"group.leave", "markCachedGroupLeft", "DeleteGroupMembers">>
  <2>1. p \in Seq(Steps) /\ Len(p) = 3 /\ p[1] = "group.leave" /\ p[2] = "markCachedGroupLeft" /\ p[3] = "DeleteGroupMembers"
    OBVIOUS
  <2> HIDE DEF p
  <2>2. Paired(p, 1)
    BY <2>1 DEF Paired
  <2> QED
    BY <2>1, <2>2 DEF p
<1>4. \A m \in Methods : <<m>> \in Seq(Steps) /\ Paired(<<m>>, 1)
  BY OneStep
<1>5. <<>> \in Seq(Steps) /\ Paired(<<>>, 1)
  BY DEF Paired
<1>6. \A all \in BOOLEAN : syncGroupState(all) \in Seq(Steps) /\ Paired(syncGroupState(all), 1)
  BY <1>1, <1>5, Joined, Zenon DEF syncGroupState
<1>7. \A m \in Methods, all \in BOOLEAN : /\ <<m>> \o syncGroupState(all) \in Seq(Steps)
                                         /\ Paired(<<m>> \o syncGroupState(all), 1)
  BY <1>4, <1>6, Joined
<1>8. \A p \in {<<"group.update">>, <<"group.update", "group.update">>} :
       p \o syncGroupState(FALSE) \in Seq(Steps) /\ Paired(p \o syncGroupState(FALSE), 1)
  BY <1>2, <1>4, <1>6, Joined
<1> QED
  BY <1>1, <1>2, <1>3, <1>7, <1>8

(* Only the commands change.                                                 *)
LEMMA CommandOnly ==
  ASSUME Inv, UNCHANGED <<srv, queue, writing, row, members, hist>>, cmd' \in [Cmds -> Command],
         \A d \in Cmds : CmdInv(cmd[d])', begun' \in Nat, drops' \in Nat
  PROVE  Inv'
<1>1. Queued' = Queued /\ Pending' = Pending
  BY DEF Queued, Pending
<1>2. QueueInv' /\ OwnerInv' /\ LastInv' /\ StoreInv' /\ RowInv'
  BY <1>1 DEF Inv, QueueInv, OwnerInv, LastInv, StoreInv, RowInv, isActiveGroupOwner
<1>3. TypeOK'
  BY DEF Inv, TypeOK, Command
<1> QED
  BY <1>2, <1>3 DEF Inv
LEMMA BeginStep ==
  ASSUME Inv, NEW c \in Cmds, NEW s \in Seq(Steps), Paired(s, 1), Begin(c, s)
  PROVE  Inv'
<1> DEFINE e == [todo |-> s, fetch |-> NoFetch]
<1>1. e \in Command
  BY Types DEF Command
<1>2. /\ UNCHANGED <<srv, queue, writing, hist>> /\ cmd' = [cmd EXCEPT ![c] = e]
      /\ UNCHANGED <<srv, queue, writing, row, members, hist>>
      /\ begun' \in Nat /\ drops' \in Nat
  BY DEF Begin, Inv, TypeOK
<1>3. Paired(s, 2)
  BY DEF Paired
<1>4. s # <<>> => Head(s) = s[1] /\ Head(s) \notin DOMAIN Before
  BY EmptySeq DEF Paired
<1>5. \A t \in DOMAIN Before : ~Ready(e, t)
  BY <1>4 DEF Ready
<1>6. CmdInv(e)'
  <2>1. /\ ~Ready(e, "persistGroupSnapshot") /\ ~Ready(e, "persistGroupMembers")
        /\ ~Ready(e, "markCachedGroupLeft") /\ ~Ready(e, "DeleteGroupMembers")
    BY <1>5 DEF Before
  <2>2. e.todo = s /\ e.fetch.seq = 0 /\ e.fetch.epoch = 0
    BY DEF NoFetch
  <2> HIDE DEF e
  <2>3. srv'.seq >= 0 /\ srv'.epoch >= 0
    BY <1>2 DEF Inv, TypeOK
  <2> QED
    BY <1>3, <2>1, <2>2, <2>3 DEF CmdInv
<1> HIDE DEF e
<1>7. cmd' \in [Cmds -> Command] /\ \A d \in Cmds : CmdInv(cmd[d])'
  BY <1>1, <1>2, <1>6, SharedKept, OneCommand DEF Inv
<1> QED
  BY <1>2, <1>7, CommandOnly

LEMMA CommandBegins ==
  ASSUME Inv, NEW c \in Cmds,
         \/ CreateGroup(c) \/ GetGroup(c) \/ JoinGroup(c) \/ mutateGroupMember(c)
         \/ UpdateGroup(c) \/ GroupMembers(c) \/ GroupMessages(c) \/ sendGroup(c) \/ LeaveGroup(c)
  PROVE  Inv'
<1>1. ASSUME NEW s, Begin(c, s), s \in Seq(Steps), Paired(s, 1) PROVE Inv'
  BY <1>1, BeginStep
<1>2. CASE CreateGroup(c) \/ JoinGroup(c) \/ mutateGroupMember(c)
  BY <1>1, <1>2, Lists, Zenon DEF CreateGroup, JoinGroup, mutateGroupMember, Methods
<1>3. CASE GetGroup(c) \/ GroupMembers(c) \/ GroupMessages(c) \/ sendGroup(c) \/ LeaveGroup(c)
  BY <1>1, <1>3, Lists, Zenon DEF GetGroup, GroupMembers, GroupMessages, sendGroup, LeaveGroup
<1>4. CASE UpdateGroup(c)
  BY <1>1, <1>4, Lists, Zenon DEF UpdateGroup
<1> QED
  BY <1>2, <1>3, <1>4

(* An earlier step of the same command has fetched what this one saves.      *)
LEMMA CallReadStep == ASSUME Inv, NEW c \in Cmds, CallRead(c) PROVE Inv'
<1>1. /\ UNCHANGED <<srv, queue, writing, row, members, hist>> /\ UNCHANGED <<srv, queue, writing, hist>>
      /\ begun' \in Nat /\ drops' \in Nat
  BY DEF CallRead, Inv, TypeOK
<1>2. Fetch \in Fetched /\ Fetch.seq = srv.seq /\ Fetch.epoch = srv.epoch /\ Fetch.role = MyRole
      /\ Fetch.members = srv.members
  BY DEF Fetch, Fetched, MyRole, Inv, TypeOK
<1>3. PICK f \in Fetched : f = Fetch /\ f.seq = srv.seq /\ f.epoch = srv.epoch /\ f.role = MyRole
                           /\ f.members = srv.members
  BY <1>2
<1>4. cmd[c].todo # <<>> /\ Advance(c, f) /\ ~At(c, "group.leave") /\ ~At(c, "markCachedGroupLeft")
  BY <1>3 DEF CallRead, At
<1>5. PICK e \in Command : /\ cmd' = [cmd EXCEPT ![c] = e]
                           /\ Paired(e.todo, 2)
                           /\ e.fetch = f \/ e.fetch = NoFetch
                           /\ \A s \in DOMAIN Before : Ready(e, s) => e.fetch = f /\ At(c, Before[s])
  BY <1>4, AdvanceStep DEF Inv
<1>6. ~Ready(e, "markCachedGroupLeft") /\ ~Ready(e, "DeleteGroupMembers")
  BY <1>4, <1>5 DEF Before
<1>7. e.fetch.seq <= srv.seq /\ e.fetch.epoch <= srv.epoch
  BY <1>3, <1>5 DEF NoFetch, Inv, TypeOK
<1>8. Ready(e, "persistGroupSnapshot") => RoleInv(e.fetch)
  BY <1>3, <1>5 DEF RoleInv, MyRole, Before
<1>9. Ready(e, "persistGroupMembers") => ListInv(e.fetch)
  BY <1>3, <1>5 DEF ListInv, Before
<1>10. CmdInv(e)'
  BY <1>1, <1>5, <1>6, <1>7, <1>8, <1>9, SharedKept DEF CmdInv
<1>11. cmd' \in [Cmds -> Command] /\ \A d \in Cmds : CmdInv(cmd[d])'
  BY <1>1, <1>5, <1>10, SharedKept, OneCommand DEF Inv
<1> QED
  BY <1>1, <1>11, CommandOnly

LEMMA GiveUpStep == ASSUME Inv, NEW c \in Cmds, GiveUp(c) PROVE Inv'
<1> DEFINE e == [todo |-> <<>>, fetch |-> NoFetch]
<1>1. e \in Command
  BY Types DEF Command
<1>2. /\ UNCHANGED <<srv, queue, writing, row, members, hist>> /\ UNCHANGED <<srv, queue, writing, hist>>
      /\ begun' \in Nat /\ drops' \in Nat /\ cmd' = [cmd EXCEPT ![c] = e]
  BY DEF GiveUp, Inv, TypeOK
<1>3. CmdInv(e)'
  BY <1>2 DEF CmdInv, NoFetch, Inv, TypeOK, Paired, Ready
<1> HIDE DEF e
<1>4. cmd' \in [Cmds -> Command] /\ \A d \in Cmds : CmdInv(cmd[d])'
  BY <1>1, <1>2, <1>3, SharedKept, OneCommand DEF Inv
<1> QED
  BY <1>2, <1>4, CommandOnly

(* The change of a command, and of the other agents.                         *)
LEMMA CallChangeStep == ASSUME Inv, NEW c \in Cmds, CallChange(c) PROVE Inv'
<1>1. PICK m \in Methods, a \in Agents \union {Nobody} :
        /\ m = "group.update" <=> a = Nobody
        /\ Change(m, a) /\ At(c, m) /\ (m = "group.leave" => a = Me)
  <2>1. Me \in Agents /\ Me # Nobody /\ \A b \in Others : b \in Agents /\ b # Nobody
    BY GroupConstants DEF Agents
  <2> QED
    BY <2>1, Zenon DEF CallChange, Methods
<1>2. /\ UNCHANGED <<writing, row, members, hist>> /\ UNCHANGED writing /\ cmd[c].todo # <<>>
      /\ begun' \in Nat /\ drops' \in Nat
  BY DEF CallChange, Inv, TypeOK, At
<1>3. /\ QueueInv' /\ OwnerInv' /\ LastInv' /\ StoreInv' /\ RowInv'
      /\ srv' \in [members : SUBSET Agents, owner : Agents \union {Nobody}, seq : Nat, epoch : Nat]
      /\ queue' \in Seq(Event)
      /\ \A x \in Command : CmdInv(x) => CmdInv(x)'
  BY <1>1, <1>2, ChangeStep
<1>4. [NoFetch EXCEPT !.seq = srv'.seq, !.epoch = srv'.epoch] \in Fetched
  BY <1>3 DEF NoFetch, Fetched
<1>5. PICK f \in Fetched : f.seq = srv'.seq /\ f.epoch = srv'.epoch /\ Advance(c, f)
  BY <1>3, <1>4, Types DEF CallChange, NoFetch
<1>6. PICK e \in Command : /\ cmd' = [cmd EXCEPT ![c] = e]
                           /\ Paired(e.todo, 2)
                           /\ e.fetch = f \/ e.fetch = NoFetch
                           /\ \A s \in DOMAIN Before : Ready(e, s) => e.fetch = f /\ At(c, Before[s])
  BY <1>2, <1>5, AdvanceStep DEF Inv
<1>7. /\ ~Ready(e, "persistGroupSnapshot") /\ ~Ready(e, "persistGroupMembers") /\ ~Ready(e, "DeleteGroupMembers")
      /\ Ready(e, "markCachedGroupLeft") => m = "group.leave"
  BY <1>1, <1>6 DEF Before, At, Methods
<1>8. m = "group.leave" => Me \notin srv'.members
  BY <1>1, GroupConstants DEF Change, Agents
<1>9. e.fetch.seq <= srv'.seq /\ e.fetch.epoch <= srv'.epoch
  BY <1>3, <1>5, <1>6 DEF NoFetch
<1>10. CmdInv(e)'
  BY <1>6, <1>7, <1>8, <1>9 DEF CmdInv, LeftInv
<1>11. cmd' \in [Cmds -> Command] /\ \A d \in Cmds : CmdInv(cmd[d])'
  BY <1>3, <1>6, <1>10, OneCommand DEF Inv
<1>12. TypeOK'
  BY <1>2, <1>3, <1>11 DEF Inv, TypeOK, Command
<1> QED
  BY <1>3, <1>11, <1>12 DEF Inv

LEMMA OthersChangeStep == ASSUME Inv, OthersChange PROVE Inv'
<1>1. PICK m \in Methods, a \in Agents \union {Nobody} : (m = "group.update" <=> a = Nobody) /\ Change(m, a)
  <2>1. Nobody \notin Agents /\ \A b \in Others : b \in Agents
    BY GroupConstants DEF Agents
  <2> QED
    BY <2>1, Zenon DEF OthersChange, Methods
<1>2. UNCHANGED <<writing, row, members, hist>> /\ UNCHANGED <<cmd, begun, drops>>
  BY DEF OthersChange
<1>3. /\ QueueInv' /\ OwnerInv' /\ LastInv' /\ StoreInv' /\ RowInv'
      /\ srv' \in [members : SUBSET Agents, owner : Agents \union {Nobody}, seq : Nat, epoch : Nat]
      /\ queue' \in Seq(Event)
      /\ \A x \in Command : CmdInv(x) => CmdInv(x)'
  BY <1>1, <1>2, ChangeStep
<1>4. \A d \in Cmds : CmdInv(cmd[d])'
  <2> SUFFICES ASSUME NEW d \in Cmds PROVE CmdInv(cmd[d])'
    OBVIOUS
  <2>1. PICK x \in Command : cmd[d] = x /\ cmd'[d] = x
    BY <1>2 DEF Inv, TypeOK, Command
  <2>2. CmdInv(x)'
    BY <1>3, <2>1 DEF Inv
  <2> QED
    BY <2>1, <2>2 DEF CmdInv, RoleInv, ListInv, LeftInv
<1>5. TypeOK'
  BY <1>2, <1>3 DEF Inv, TypeOK
<1> QED
  BY <1>3, <1>4, <1>5 DEF Inv
-----------------------------------------------------------------------------
(* The saves of the commands. *)

(* A save leaves the group and the notifications alone, and is the last step *)
(* that uses what was fetched, but for a leave.                              *)
LEMMA SaveStep ==
  ASSUME Inv, NEW c \in Cmds, cmd[c].todo # <<>>, NEW f \in Fetched, Advance(c, f),
         f = NoFetch \/ (f = cmd[c].fetch /\ At(c, "markCachedGroupLeft")),
         ~At(c, "group.get"), ~At(c, "group.list_members"), ~At(c, "group.leave"),
         At(c, "markCachedGroupLeft") => f = cmd[c].fetch,
         UNCHANGED <<srv, queue, writing, begun, drops>>,
         row' \in [status : {"none", "active", "left"}, role : {"owner", "member", "none"}],
         members' \in [Agents -> {"none", "active", "left", "removed"}],
         hist' \in [seen : Nat, row : SUBSET Nat, members : SUBSET Nat, epoch : Nat],
         hist'.seen = hist.seen, hist'.epoch <= srv.epoch, StoreInv', RowInv'
  PROVE  Inv'
<1>1. Queued' = Queued /\ Pending' = Pending
  BY DEF Queued, Pending
<1>2. QueueInv' /\ OwnerInv' /\ LastInv'
  BY <1>1 DEF Inv, QueueInv, OwnerInv, LastInv
<1>3. \A x \in Command : CmdInv(x) => CmdInv(x)'
  BY <1>1 DEF CmdInv, RoleInv, ListInv, LeftInv
<1>4. PICK e \in Command : /\ cmd' = [cmd EXCEPT ![c] = e]
                           /\ Paired(e.todo, 2)
                           /\ e.fetch = f \/ e.fetch = NoFetch
                           /\ \A s \in DOMAIN Before : Ready(e, s) => e.fetch = f /\ At(c, Before[s])
  BY AdvanceStep DEF Inv
<1>5. /\ ~Ready(e, "persistGroupSnapshot") /\ ~Ready(e, "persistGroupMembers") /\ ~Ready(e, "markCachedGroupLeft")
      /\ Ready(e, "DeleteGroupMembers") => At(c, "markCachedGroupLeft") /\ e.fetch = cmd[c].fetch
  BY <1>4 DEF Before
<1>6. At(c, "markCachedGroupLeft") => Ready(cmd[c], "markCachedGroupLeft")
  BY DEF At, Ready
<1>7. e.fetch.seq <= srv.seq /\ e.fetch.epoch <= srv.epoch
  <2>1. cmd[c].fetch.seq <= srv.seq /\ cmd[c].fetch.epoch <= srv.epoch
    BY DEF Inv, CmdInv
  <2>2. NoFetch.seq <= srv.seq /\ NoFetch.epoch <= srv.epoch
    BY DEF NoFetch, Inv, TypeOK
  <2>3. e.fetch \in {NoFetch, cmd[c].fetch}
    BY <1>4
  <2> QED
    BY <2>1, <2>2, <2>3
<1>8. Ready(e, "DeleteGroupMembers") => LeftInv(e.fetch)
  BY <1>5, <1>6 DEF Inv, CmdInv
<1>9. CmdInv(e)'
  BY <1>4, <1>5, <1>7, <1>8 DEF CmdInv, LeftInv
<1>10. cmd' \in [Cmds -> Command] /\ \A d \in Cmds : CmdInv(cmd[d])'
  BY <1>3, <1>4, <1>9, OneCommand DEF Inv
<1>11. TypeOK'
  BY <1>10 DEF Inv, TypeOK, Command
<1> QED
  BY <1>2, <1>10, <1>11 DEF Inv

(* The numbers above n up to the last one written are none only if there is  *)
(* none.                                                                    *)
LEMMA NoneAbove ==
  ASSUME NEW n \in Nat, NEW m \in Nat
  PROVE  /\ (n + 1)..m \in SUBSET Nat
         /\ (n + 1)..m = {} => m <= n
<1>1. m > n => m \in (n + 1)..m
  OBVIOUS
<1> QED
  BY <1>1

LEMMA SnapshotStep == ASSUME Inv, NEW c \in Cmds, persistGroupSnapshot(c) PROVE Inv'
<1> DEFINE f == cmd[c].fetch
           last == IF writing = NoEvent THEN hist.seen ELSE writing.seq
<1>1. /\ cmd[c].todo # <<>> /\ Ready(cmd[c], "persistGroupSnapshot") /\ Advance(c, NoFetch)
      /\ ~At(c, "markCachedGroupLeft") /\ ~At(c, "group.get") /\ ~At(c, "group.list_members") /\ ~At(c, "group.leave")
      /\ UNCHANGED <<srv, queue, writing, begun, drops>> /\ UNCHANGED members
      /\ row' = [status |-> "active", role |-> f.role]
      /\ hist' = [hist EXCEPT !.row = (f.seq + 1)..last]
  BY DEF persistGroupSnapshot, At, Ready, UpsertGroup, RowAsOf
<1>2. f \in Fetched /\ f.seq \in Nat /\ f.role \in {"owner", "member", "none"} /\ last \in Nat
      /\ hist.seen \in Nat /\ writing.seq \in Nat
  BY DEF Inv, TypeOK, Command, Fetched, Event
<1>3. RoleInv(f)
  BY <1>1 DEF Inv, CmdInv
<1> HIDE DEF f
<1>4. (f.seq + 1)..last \in SUBSET Nat /\ ((f.seq + 1)..last = {} => last <= f.seq)
  BY <1>2, NoneAbove
<1>5. /\ hist' \in [seen : Nat, row : SUBSET Nat, members : SUBSET Nat, epoch : Nat]
      /\ hist'.seen = hist.seen /\ hist'.epoch = hist.epoch /\ hist'.members = hist.members
      /\ hist'.row = (f.seq + 1)..last
  BY <1>1, <1>4 DEF Inv, TypeOK
<1>6. row' \in [status : {"none", "active", "left"}, role : {"owner", "member", "none"}] /\ row'.role = f.role
  BY <1>1, <1>2
<1>7. StoreInv'
  BY <1>1, <1>5 DEF Inv, StoreInv, Pending, Queued
<1>8. RowInv'
  <2> SUFFICES ASSUME hist'.row = {}, row'.role = "owner", srv.owner # Me
               PROVE  queue # <<>>
    BY <1>1 DEF RowInv, isActiveGroupOwner
  <2>1. last <= f.seq
    BY <1>4, <1>5
  <2>2. ~(f.seq < hist.seen) /\ ~(writing # NoEvent /\ f.seq < writing.seq)
    BY <1>2, <2>1 DEF Inv, QueueInv
  <2>3. \E e \in Queued : TRUE
    BY <1>3, <1>6, <2>2 DEF RoleInv
  <2> QED
    BY <2>3 DEF Queued
<1>9. hist'.epoch <= srv.epoch
  BY <1>5 DEF Inv, QueueInv
<1>10. members' \in [Agents -> {"none", "active", "left", "removed"}]
  BY <1>1 DEF Inv, TypeOK
<1> QED
  BY <1>1, <1>5, <1>6, <1>7, <1>8, <1>9, <1>10, Types, SaveStep

(* Rows without a role.                                                      *)
LEMMA RowStep ==
  ASSUME Inv, NEW c \in Cmds, persistGroupMessages(c) \/ touchCachedGroup(c) \/ markCachedGroupLeft(c)
  PROVE  Inv'
<1> DEFINE f == IF At(c, "markCachedGroupLeft") THEN cmd[c].fetch ELSE NoFetch
<1>1. f \in Fetched /\ cmd[c].fetch.seq \in Nat /\ f = f
  BY Types DEF Inv, TypeOK, Command, Fetched
<1>2. /\ cmd[c].todo # <<>> /\ Advance(c, f)
      /\ ~At(c, "group.get") /\ ~At(c, "group.list_members") /\ ~At(c, "group.leave")
      /\ UNCHANGED <<srv, queue, writing, begun, drops>> /\ UNCHANGED members
      /\ \/ UNCHANGED <<row, hist>>
         \/ /\ row' \in [status : {"active", "left"}, role : {"none"}]
            /\ \/ UNCHANGED hist
               \/ hist' = [hist EXCEPT !.row = (cmd[c].fetch.seq + 1)..(IF writing = NoEvent THEN hist.seen ELSE writing.seq)]
  BY DEF persistGroupMessages, touchCachedGroup, markCachedGroupLeft, At, UpsertGroup, RowAsOf
<1>3. /\ hist' \in [seen : Nat, row : SUBSET Nat, members : SUBSET Nat, epoch : Nat]
      /\ hist'.seen = hist.seen /\ hist'.epoch = hist.epoch /\ hist'.members = hist.members
  <2> DEFINE last == IF writing = NoEvent THEN hist.seen ELSE writing.seq
  <2>1. last \in Nat
    BY DEF Inv, TypeOK, Event
  <2>2. UNCHANGED hist \/ hist' = [hist EXCEPT !.row = (cmd[c].fetch.seq + 1)..last]
    BY <1>2
  <2> HIDE DEF last
  <2>3. (cmd[c].fetch.seq + 1)..last \in SUBSET Nat
    BY <1>1, <2>1, NoneAbove
  <2> QED
    BY <2>2, <2>3 DEF Inv, TypeOK
<1>4. row' \in [status : {"none", "active", "left"}, role : {"owner", "member", "none"}]
  BY <1>2 DEF Inv, TypeOK
<1>5. StoreInv'
  BY <1>2, <1>3 DEF Inv, StoreInv, Pending, Queued
<1>6. RowInv'
  BY <1>2 DEF Inv, RowInv, isActiveGroupOwner
<1>7. hist'.epoch <= srv.epoch /\ members' \in [Agents -> {"none", "active", "left", "removed"}]
  BY <1>2, <1>3 DEF Inv, QueueInv, TypeOK
<1>8. f = NoFetch \/ (f = cmd[c].fetch /\ At(c, "markCachedGroupLeft"))
  OBVIOUS
<1>9. At(c, "markCachedGroupLeft") => f = cmd[c].fetch
  OBVIOUS
<1> HIDE DEF f
<1> QED
  BY <1>1, <1>2, <1>3, <1>4, <1>5, <1>6, <1>7, <1>8, <1>9, SaveStep
(* A list of members replaces the rows.                                      *)
LEMMA MembersStep == ASSUME Inv, NEW c \in Cmds, persistGroupMembers(c) PROVE Inv'
<1> DEFINE f == cmd[c].fetch
<1>1. /\ cmd[c].todo # <<>> /\ Ready(cmd[c], "persistGroupMembers") /\ Advance(c, NoFetch)
      /\ ~At(c, "markCachedGroupLeft") /\ ~At(c, "group.get") /\ ~At(c, "group.list_members") /\ ~At(c, "group.leave")
      /\ UNCHANGED <<srv, queue, writing, begun, drops>> /\ UNCHANGED row
      /\ \/ UNCHANGED <<members, hist>>
         \/ /\ members' = [a \in Agents |-> IF a \in f.members THEN "active" ELSE "none"]
            /\ hist' = [hist EXCEPT !.epoch = f.epoch, !.members = (f.seq + 1)..hist.seen]
  BY DEF persistGroupMembers, At, Ready, ReplaceGroupMembers, ListAsOf
<1>2. f \in Fetched /\ f.seq \in Nat /\ f.epoch \in Nat /\ f.epoch <= srv.epoch /\ hist.seen \in Nat
  BY DEF Inv, TypeOK, Command, Fetched, CmdInv
<1>3. ListInv(f)
  BY <1>1 DEF Inv, CmdInv
<1> HIDE DEF f
<1>4. (f.seq + 1)..hist.seen \in SUBSET Nat /\ ((f.seq + 1)..hist.seen = {} => hist.seen <= f.seq)
  BY <1>2, NoneAbove
<1>5. /\ hist' \in [seen : Nat, row : SUBSET Nat, members : SUBSET Nat, epoch : Nat]
      /\ hist'.seen = hist.seen /\ hist'.row = hist.row
  BY <1>1, <1>2, <1>4 DEF Inv, TypeOK
<1>6. members' \in [Agents -> {"none", "active", "left", "removed"}]
  BY <1>1 DEF Inv, TypeOK
<1>7. hist'.epoch <= srv.epoch
  BY <1>1, <1>2 DEF Inv, QueueInv, TypeOK
<1>8. RowInv'
  BY <1>1, <1>5 DEF Inv, RowInv, isActiveGroupOwner
<1>9. Pending' = Pending
  BY <1>1 DEF Pending, Queued
<1>10. StoreInv'
  <2>1. CASE UNCHANGED <<members, hist>>
    BY <1>1, <1>9, <2>1 DEF Inv, StoreInv
  <2>2. CASE /\ members' = [a \in Agents |-> IF a \in f.members THEN "active" ELSE "none"]
             /\ hist' = [hist EXCEPT !.epoch = f.epoch, !.members = (f.seq + 1)..hist.seen]
    <3>1. hist'.epoch = f.epoch /\ hist'.members = (f.seq + 1)..hist.seen
      BY <2>2 DEF Inv, TypeOK
    <3> SUFFICES ASSUME Me \in srv.members, f.epoch = srv.epoch, hist.seen <= f.seq,
                        NEW a \in Agents, \A e \in Pending : e.subject # a
                 PROVE  members'[a] = "active" <=> a \in srv.members
      BY <1>1, <1>4, <1>9, <3>1 DEF StoreInv
    <3>2. a \in f.members <=> a \in srv.members
      BY <1>3 DEF ListInv
    <3> QED
      BY <2>2, <3>2
  <2> QED
    BY <1>1, <2>1, <2>2
<1>11. row' \in [status : {"none", "active", "left"}, role : {"owner", "member", "none"}]
  BY <1>1 DEF Inv, TypeOK
<1> QED
  BY <1>1, <1>5, <1>6, <1>7, <1>8, <1>10, <1>11, Types, SaveStep

LEMMA ClearStep == ASSUME Inv, NEW c \in Cmds, clearCachedMembers(c) PROVE Inv'
<1> DEFINE f == cmd[c].fetch
<1>1. /\ cmd[c].todo # <<>> /\ Ready(cmd[c], "DeleteGroupMembers") /\ Advance(c, NoFetch)
      /\ ~At(c, "markCachedGroupLeft") /\ ~At(c, "group.get") /\ ~At(c, "group.list_members") /\ ~At(c, "group.leave")
      /\ UNCHANGED <<srv, queue, writing, begun, drops>> /\ UNCHANGED row
      /\ members' = [a \in Agents |-> "none"]
      /\ hist' = [hist EXCEPT !.epoch = f.epoch, !.members = (f.seq + 1)..hist.seen]
  BY DEF clearCachedMembers, At, Ready, DeleteGroupMembers, NoMembers, ListAsOf
<1>2. f \in Fetched /\ f.seq \in Nat /\ f.epoch \in Nat /\ f.epoch <= srv.epoch /\ hist.seen \in Nat
  BY DEF Inv, TypeOK, Command, Fetched, CmdInv
<1>3. LeftInv(f)
  BY <1>1 DEF Inv, CmdInv
<1> HIDE DEF f
<1>4. (f.seq + 1)..hist.seen \in SUBSET Nat
  BY <1>2, NoneAbove
<1>5. /\ hist' \in [seen : Nat, row : SUBSET Nat, members : SUBSET Nat, epoch : Nat]
      /\ hist'.seen = hist.seen /\ hist'.row = hist.row /\ hist'.epoch = f.epoch
  BY <1>1, <1>2, <1>4 DEF Inv, TypeOK
<1>6. members' \in [Agents -> {"none", "active", "left", "removed"}]
  BY <1>1
<1>7. RowInv'
  BY <1>1, <1>5 DEF Inv, RowInv, isActiveGroupOwner
<1>8. StoreInv'
  BY <1>1, <1>3, <1>5 DEF StoreInv, LeftInv
<1>9. row' \in [status : {"none", "active", "left"}, role : {"owner", "member", "none"}]
  BY <1>1 DEF Inv, TypeOK
<1> QED
  BY <1>1, <1>2, <1>5, <1>6, <1>7, <1>8, <1>9, Types, SaveStep

-----------------------------------------------------------------------------
(* The listener. *)

(* The first notification in the queue is taken, and the row replaced.       *)
LEMMA RowOfEvent == ASSUME Inv, handleStateChanged PROVE Inv'
<1>1. /\ writing = NoEvent /\ queue # <<>> /\ writing' = Head(queue) /\ queue' = Tail(queue)
      /\ row' = [status |-> "active", role |-> "none"]
      /\ UNCHANGED <<srv, members, cmd, hist, begun, drops>>
  BY DEF handleStateChanged, UpsertGroup
<1>2. /\ queue' \in Seq(Event) /\ Head(queue) \in Event
      /\ Queued = Queued' \union {Head(queue)}
      /\ \A d \in Queued' : Head(queue).seq < d.seq
  BY <1>1, Taken DEF Inv
<1>3. /\ hist.seen < Head(queue).seq /\ Head(queue).seq <= srv.seq /\ Head(queue).epoch <= srv.epoch
      /\ \A d \in Queued' : hist.seen < d.seq /\ d.seq <= srv.seq /\ d.epoch <= srv.epoch
  BY <1>2, Order DEF Inv
<1>4. Head(queue) # NoEvent
  BY <1>3, Types DEF Inv, TypeOK
<1>5. Pending' = Pending
  BY <1>1, <1>2, <1>4 DEF Pending
<1>6. QueueInv'
  <2>1. /\ Len(queue') = Len(queue) - 1 /\ Len(queue) \in Nat
        /\ \A i \in 1..Len(queue') : queue'[i] = queue[i + 1]
    BY <1>1, HeadTailProperties, EmptySeq DEF Inv, TypeOK
  <2>2. \A i \in 1..Len(queue') : i + 1 \in 1..Len(queue) /\ queue'[i] \in Queued'
    BY <2>1 DEF Queued
  <2>3. \A i, j \in 1..Len(queue') : i < j => queue'[i].seq < queue'[j].seq
    <3> SUFFICES ASSUME NEW i \in 1..Len(queue'), NEW j \in 1..Len(queue'), i < j
                 PROVE  queue'[i].seq < queue'[j].seq
      OBVIOUS
    <3>1. i + 1 < j + 1 /\ i + 1 \in 1..Len(queue) /\ j + 1 \in 1..Len(queue)
      BY <2>2
    <3> QED
      BY <2>1, <3>1 DEF Inv, QueueInv
  <2> QED
    BY <1>1, <1>2, <1>3, <2>2, <2>3 DEF Inv, QueueInv
<1>7. OwnerInv' /\ LastInv' /\ StoreInv' /\ RowInv'
  BY <1>1, <1>5 DEF Inv, OwnerInv, LastInv, StoreInv, RowInv, isActiveGroupOwner
<1>8. ASSUME NEW d \in Cmds PROVE CmdInv(cmd[d])'
  <2>1. RoleInv(cmd[d].fetch) => RoleInv(cmd[d].fetch)'
    BY <1>1, <1>2, <1>4 DEF RoleInv
  <2>2. ListInv(cmd[d].fetch) => ListInv(cmd[d].fetch)'
    BY <1>1, <1>5 DEF ListInv
  <2>3. LeftInv(cmd[d].fetch) => LeftInv(cmd[d].fetch)'
    BY <1>1 DEF LeftInv
  <2> QED
    BY <1>1, <2>1, <2>2, <2>3 DEF Inv, CmdInv
<1>9. TypeOK'
  BY <1>1, <1>2 DEF Inv, TypeOK
<1> QED
  BY <1>6, <1>7, <1>8, <1>9 DEF Inv
(* The earliest notification is written or lost: what was fetched before it  *)
(* is older than what is written, and nothing changes for what came later.   *)
LEMMA EarliestGone ==
  ASSUME Inv, NEW e \in Event, UNCHANGED srv, hist'.seen = e.seq, hist.seen < e.seq, e.seq <= srv.seq,
         Pending = Queued' \union {e}, Queued \subseteq Queued' \union {e},
         \A d \in Queued' : d \in Event /\ e.seq < d.seq,
         writing # NoEvent => writing = e, writing' = NoEvent
  PROVE  LastInv' /\ \A x \in Command : CmdInv(x) => CmdInv(x)'
<1>1. Pending' = Queued' /\ hist.seen \in Nat /\ e.seq \in Nat /\ \A d \in Queued' : d.seq \in Nat
  BY DEF Pending, Inv, TypeOK, Event
<1>2. LastInv'
  <2> SUFFICES ASSUME Me \in srv.members, NEW d \in Queued', d.epoch = srv.epoch, d.subject \in Agents,
                      \A g \in Queued' : g.subject = d.subject => g.seq <= d.seq
               PROVE  membershipStatusFromEvent(d.method) = "active" <=> d.subject \in srv.members
    BY <1>1 DEF LastInv
  <2>1. d \in Pending /\ \A g \in Pending : g.subject = d.subject => g.seq <= d.seq
    BY <1>1
  <2> QED
    BY <2>1 DEF Inv, LastInv
<1>3. ASSUME NEW x \in Command, CmdInv(x) PROVE CmdInv(x)'
  <2>1. x.fetch.seq \in Nat
    BY DEF Command, Fetched
  <2>2. RoleInv(x.fetch) => RoleInv(x.fetch)'
    BY <1>1, <2>1 DEF RoleInv
  <2>3. ListInv(x.fetch) => ListInv(x.fetch)'
    <3> SUFFICES ASSUME ListInv(x.fetch), x.fetch.epoch = srv.epoch, Me \in srv.members, e.seq <= x.fetch.seq,
                        NEW a \in Agents, \A d \in Queued' : d.subject = a => d.seq <= x.fetch.seq
                 PROVE  a \in x.fetch.members <=> a \in srv.members
      BY <1>1 DEF ListInv
    <3>1. hist.seen <= x.fetch.seq /\ \A d \in Pending : d.subject = a => d.seq <= x.fetch.seq
      BY <1>1, <2>1
    <3> QED
      BY <3>1 DEF ListInv
  <2>4. LeftInv(x.fetch) => LeftInv(x.fetch)'
    BY DEF LeftInv
  <2> QED
    BY <1>3, <2>2, <2>3, <2>4 DEF CmdInv
<1> QED
  BY <1>2, <1>3

LEMMA MembersOfEvent == ASSUME Inv, handleMemberChanged PROVE Inv'
<1> DEFINE kept == IF writing.epoch < hist.epoch THEN hist.members \union {writing.seq} ELSE hist.members
<1>1. /\ writing # NoEvent /\ writing' = NoEvent /\ writing \in Event
      /\ UNCHANGED <<srv, queue, row, cmd, begun, drops>>
      /\ hist' = [hist EXCEPT !.seen = writing.seq, !.members = kept]
      /\ IF writing.subject = Nobody THEN UNCHANGED members
         ELSE members' = [members EXCEPT ![writing.subject] = membershipStatusFromEvent(writing.method)]
  BY DEF handleMemberChanged, UpsertGroupMember, Inv, TypeOK
<1>2. /\ writing.seq \in Nat /\ writing.epoch \in Nat /\ writing.subject \in Agents \union {Nobody}
      /\ hist.seen < writing.seq /\ writing.seq <= srv.seq /\ writing.epoch <= srv.epoch
      /\ hist.epoch \in Nat /\ srv.epoch \in Nat /\ hist.epoch <= srv.epoch
  BY <1>1 DEF Inv, TypeOK, Event, QueueInv
<1>3. /\ hist' \in [seen : Nat, row : SUBSET Nat, members : SUBSET Nat, epoch : Nat]
      /\ hist'.seen = writing.seq /\ hist'.members = kept /\ hist'.epoch = hist.epoch /\ hist'.row = hist.row
  BY <1>1, <1>2 DEF Inv, TypeOK
<1>4. Queued' = Queued /\ Pending = Queued \union {writing} /\ Pending' = Queued
  BY <1>1 DEF Queued, Pending
<1>5. \A d \in Queued : d \in Event /\ writing.seq < d.seq /\ d.seq \in Nat
  BY Order DEF Inv, Event
<1>6. LastInv' /\ \A x \in Command : CmdInv(x) => CmdInv(x)'
  BY <1>1, <1>2, <1>3, <1>4, <1>5, EarliestGone
<1>7. QueueInv'
  <2>1. \A i \in 1..Len(queue) : queue[i] \in Queued
    BY DEF Queued
  <2>2. NoEvent.seq = 0
    BY Types
  <2> QED
    BY <1>1, <1>2, <1>3, <1>5, <2>1, <2>2 DEF Inv, QueueInv
<1>8. members' \in [Agents -> {"none", "active", "left", "removed"}]
  BY <1>1 DEF Inv, TypeOK, membershipStatusFromEvent
<1>9. StoreInv'
  <2> SUFFICES ASSUME Me \in srv.members, hist.epoch = srv.epoch, kept = {},
                      \A d \in Queued : d.epoch = srv.epoch,
                      NEW a \in Agents, \A d \in Queued : d.subject # a
               PROVE  members'[a] = "active" <=> a \in srv.members
    BY <1>1, <1>3, <1>4 DEF StoreInv
  <2>1. writing.epoch = srv.epoch /\ hist.members = {}
    BY <1>2
  <2>2. CASE a = writing.subject
    <3>1. a # Nobody
      BY GroupConstants DEF Agents
    <3>2. members'[a] = membershipStatusFromEvent(writing.method)
      BY <1>1, <2>2, <3>1 DEF Inv, TypeOK
    <3>3. writing \in Pending /\ \A d \in Pending : d.subject = writing.subject => d.seq <= writing.seq
      BY <1>2, <1>4, <2>2
    <3>4. membershipStatusFromEvent(writing.method) = "active" <=> a \in srv.members
      BY <2>1, <2>2, <3>3 DEF Inv, LastInv
    <3> QED
      BY <3>2, <3>4
  <2>3. CASE a # writing.subject
    <3>1. members'[a] = members[a]
      BY <1>1, <2>3 DEF Inv, TypeOK
    <3>2. members[a] = "active" <=> a \in srv.members
      BY <1>4, <2>1, <2>3 DEF Inv, StoreInv
    <3> QED
      BY <3>1, <3>2
  <2> QED
    BY <2>2, <2>3
<1>10. OwnerInv' /\ RowInv'
  BY <1>1, <1>3 DEF Inv, OwnerInv, RowInv, isActiveGroupOwner
<1>11. \A d \in Cmds : CmdInv(cmd[d])'
  <2> SUFFICES ASSUME NEW d \in Cmds PROVE CmdInv(cmd[d])'
    OBVIOUS
  <2>1. PICK x \in Command : cmd[d] = x /\ cmd'[d] = x
    BY <1>1 DEF Inv, TypeOK, Command
  <2>2. CmdInv(x)'
    BY <1>6, <2>1 DEF Inv
  <2> QED
    BY <2>1, <2>2 DEF CmdInv, RoleInv, ListInv, LeftInv
<1>12. TypeOK'
  BY <1>1, <1>3, <1>8, Types DEF Inv, TypeOK
<1> QED
  BY <1>6, <1>7, <1>9, <1>10, <1>11, <1>12 DEF Inv

LEMMA DropStep == ASSUME Inv, Drop PROVE Inv'
<1> DEFINE first == IF writing = NoEvent THEN Head(queue) ELSE writing
<1>1. /\ writing # NoEvent \/ queue # <<>>
      /\ hist' = [hist EXCEPT !.seen = first.seq, !.row = @ \union {first.seq}, !.members = @ \union {first.seq}]
      /\ queue' = IF writing = NoEvent THEN Tail(queue) ELSE queue
      /\ writing' = NoEvent /\ drops' = drops + 1
      /\ UNCHANGED <<srv, row, members, cmd, begun>>
  BY DEF Drop
<1>2. PICK e \in Event :
        /\ e = first /\ Pending = Queued' \union {e} /\ Queued \subseteq Queued' \union {e}
        /\ \A d \in Queued' : d \in Queued /\ e.seq < d.seq
        /\ queue' \in Seq(Event)
        /\ writing # NoEvent => writing = e
        /\ e \in Pending
  <2>1. CASE writing = NoEvent
    <3>1. /\ queue' \in Seq(Event) /\ Head(queue) \in Event
          /\ Queued = Queued' \union {Head(queue)}
          /\ \A d \in Queued' : Head(queue).seq < d.seq
      BY <1>1, <2>1, Taken DEF Inv
    <3>2. Pending = Queued
      BY <2>1 DEF Pending
    <3> QED
      BY <2>1, <3>1, <3>2
  <2>2. CASE writing # NoEvent
    <3>1. Queued' = Queued /\ Pending = Queued \union {writing}
      BY <1>1, <2>2 DEF Pending, Queued
    <3>2. \A d \in Queued : writing.seq < d.seq
      BY Order DEF Inv
    <3> QED
      BY <1>1, <2>2, <3>1, <3>2 DEF Inv, TypeOK
  <2> QED
    BY <2>1, <2>2
<1> HIDE DEF first
<1>3. e.seq \in Nat /\ hist.seen < e.seq /\ e.seq <= srv.seq
  BY <1>2, Order DEF Inv, Event
<1>4. /\ hist' \in [seen : Nat, row : SUBSET Nat, members : SUBSET Nat, epoch : Nat]
      /\ hist'.seen = e.seq /\ hist'.epoch = hist.epoch
      /\ hist'.members # {} /\ hist'.row # {}
  BY <1>1, <1>2, <1>3 DEF Inv, TypeOK
<1>5. \A d \in Queued : d \in Event /\ hist.seen < d.seq /\ d.seq <= srv.seq /\ d.epoch <= srv.epoch /\ d.seq \in Nat
  BY Order DEF Inv, Event
<1>6. LastInv' /\ \A x \in Command : CmdInv(x) => CmdInv(x)'
  BY <1>1, <1>2, <1>3, <1>4, <1>5, EarliestGone
<1>7. QueueInv'
  <2>1. \A i \in 1..Len(queue') : queue'[i] \in Queued'
    BY DEF Queued
  <2>2. \A i, j \in 1..Len(queue') : i < j => queue'[i].seq < queue'[j].seq
    <3>1. CASE writing = NoEvent
      <4>1. /\ Len(queue') = Len(queue) - 1 /\ Len(queue) \in Nat
            /\ \A i \in 1..Len(queue') : queue'[i] = queue[i + 1]
        BY <1>1, <3>1, HeadTailProperties, EmptySeq DEF Inv, TypeOK
      <4> SUFFICES ASSUME NEW i \in 1..Len(queue'), NEW j \in 1..Len(queue'), i < j
                   PROVE  queue'[i].seq < queue'[j].seq
        OBVIOUS
      <4>2. i + 1 < j + 1 /\ i + 1 \in 1..Len(queue) /\ j + 1 \in 1..Len(queue)
        BY <4>1
      <4> QED
        BY <4>1, <4>2 DEF Inv, QueueInv
    <3>2. CASE writing # NoEvent
      BY <1>1, <3>2 DEF Inv, QueueInv
    <3> QED
      BY <3>1, <3>2
  <2>3. NoEvent.seq = 0
    BY Types
  <2>4. \A i \in 1..Len(queue') : /\ hist'.seen < queue'[i].seq /\ queue'[i].seq <= srv.seq
                                  /\ queue'[i].epoch <= srv.epoch /\ 0 < queue'[i].seq
    BY <1>2, <1>3, <1>4, <1>5, <2>1
  <2>5. hist'.seen <= srv.seq /\ hist'.epoch <= srv.epoch
    BY <1>3, <1>4 DEF Inv, QueueInv
  <2> QED
    BY <1>1, <2>2, <2>3, <2>4, <2>5 DEF QueueInv
<1>8. OwnerInv' /\ RowInv' /\ StoreInv'
  BY <1>1, <1>4 DEF Inv, OwnerInv, RowInv, StoreInv
<1>9. \A d \in Cmds : CmdInv(cmd[d])'
  <2> SUFFICES ASSUME NEW d \in Cmds PROVE CmdInv(cmd[d])'
    OBVIOUS
  <2>1. PICK x \in Command : cmd[d] = x /\ cmd'[d] = x
    BY <1>1 DEF Inv, TypeOK, Command
  <2>2. CmdInv(x)'
    BY <1>6, <2>1 DEF Inv
  <2> QED
    BY <2>1, <2>2 DEF CmdInv, RoleInv, ListInv, LeftInv
<1>10. TypeOK'
  BY <1>1, <1>2, <1>4, Types DEF Inv, TypeOK
<1> QED
  BY <1>6, <1>7, <1>8, <1>9, <1>10 DEF Inv

-----------------------------------------------------------------------------
(* The theorems. *)

LEMMA InitInv == ASSUME Init PROVE Inv
<1>1. Len(queue) = 0 /\ Queued = {} /\ Pending = {}
  BY DEF Init, Queued, Pending
<1>2. TypeOK
  <2>1. MyRole \in {"owner", "member", "none"}
    BY DEF MyRole
  <2>2. cmd \in [Cmds -> [todo : Seq(Steps), fetch : Fetched]]
    BY Types DEF Init
  <2>3. /\ row \in [status : {"none", "active", "left"}, role : {"owner", "member", "none"}]
        /\ members \in [Agents -> {"none", "active", "left", "removed"}]
    BY <2>1 DEF Init, NoRow, NoMembers
  <2>4. queue \in Seq(Event) /\ writing \in Event
    BY Types DEF Init
  <2>5. srv \in [members : SUBSET Agents, owner : Agents \union {Nobody}, seq : Nat, epoch : Nat]
    BY DEF Init
  <2>6. hist \in [seen : Nat, row : SUBSET Nat, members : SUBSET Nat, epoch : Nat]
    BY DEF Init
  <2> QED
    BY <2>2, <2>3, <2>4, <2>5, <2>6 DEF TypeOK, Init
<1>3. srv.seq = 0 /\ srv.epoch = 1 /\ hist.seen = 0 /\ hist.epoch \in {0, 1}
  BY DEF Init
<1>4. QueueInv /\ LastInv
  BY <1>1, <1>3 DEF QueueInv, LastInv, Init
<1>5. OwnerInv
  BY GroupConstants DEF OwnerInv, Init
<1>6. StoreInv
  BY DEF StoreInv, Init
<1>7. RowInv
  BY DEF RowInv, isActiveGroupOwner, Init, MyRole, NoRow
<1>8. \A c \in Cmds : CmdInv(cmd[c])
  BY <1>3 DEF CmdInv, Init, Ready, NoFetch, Paired
<1> QED
  BY <1>2, <1>4, <1>5, <1>6, <1>7, <1>8 DEF Inv

LEMMA Inductive == ASSUME Inv, [Next]_vars PROVE Inv'
<1>1. CASE UNCHANGED vars
  <2>1. UNCHANGED <<srv, queue, writing, hist>> /\ UNCHANGED <<srv, queue, writing, row, members, hist>>
        /\ UNCHANGED <<cmd, begun, drops>>
    BY <1>1 DEF vars
  <2>2. \A c \in Cmds : CmdInv(cmd[c])'
    BY <2>1 DEF Inv, CmdInv, RoleInv, ListInv, LeftInv, Pending, Queued
  <2> QED
    BY <2>1, <2>2, CommandOnly DEF Inv, TypeOK, Command
<1>2. CASE OthersChange
  BY <1>2, OthersChangeStep
<1>3. ASSUME NEW c \in Cmds,
             \/ CreateGroup(c) \/ GetGroup(c) \/ JoinGroup(c) \/ mutateGroupMember(c)
             \/ UpdateGroup(c) \/ GroupMembers(c) \/ GroupMessages(c) \/ sendGroup(c) \/ LeaveGroup(c)
      PROVE  Inv'
  BY <1>3, CommandBegins
<1>4. ASSUME NEW c \in Cmds, CallChange(c) PROVE Inv'
  BY <1>4, CallChangeStep
<1>5. ASSUME NEW c \in Cmds, CallRead(c) PROVE Inv'
  BY <1>5, CallReadStep
<1>6. ASSUME NEW c \in Cmds, persistGroupSnapshot(c) PROVE Inv'
  BY <1>6, SnapshotStep
<1>7. ASSUME NEW c \in Cmds, persistGroupMembers(c) PROVE Inv'
  BY <1>7, MembersStep
<1>8. ASSUME NEW c \in Cmds, persistGroupMessages(c) \/ touchCachedGroup(c) \/ markCachedGroupLeft(c) PROVE Inv'
  BY <1>8, RowStep
<1>9. ASSUME NEW c \in Cmds, clearCachedMembers(c) PROVE Inv'
  BY <1>9, ClearStep
<1>10. ASSUME NEW c \in Cmds, GiveUp(c) PROVE Inv'
  BY <1>10, GiveUpStep
<1>11. CASE handleStateChanged \/ handleMemberChanged \/ Drop
  BY <1>11, RowOfEvent, MembersOfEvent, DropStep
<1> QED
  BY <1>1, <1>2, <1>3, <1>4, <1>5, <1>6, <1>7, <1>8, <1>9, <1>10, <1>11 DEF Next

LEMMA AlwaysInv == Spec => []Inv
<1>1. Init => Inv
  BY InitInv
<1>2. Inv /\ [Next]_vars => Inv'
  BY Inductive
<1> QED
  BY <1>1, <1>2, PTL DEF Spec

(* Every variable keeps its type.                                           *)
THEOREM TypeCorrect == Spec => []TypeOK
<1>1. Inv => TypeOK
  BY DEF Inv
<1> QED
  BY <1>1, AlwaysInv, PTL

(* Once nothing is under way, a store that was filled in this membership     *)
(* lists the members the group has, unless a change was lost or overtaken    *)
(* (ReplaceGroupMembers, UpsertGroupMember, DeleteGroupMembers in any order).*)
THEOREM MembersConverge == Spec => []MembersCurrent
<1>1. Inv => MembersCurrent
  <2> SUFFICES ASSUME Inv, Quiet, Me \in srv.members, hist.epoch = srv.epoch, hist.members = {}
               PROVE  {a \in Agents : members[a] = "active"} = srv.members
    BY DEF MembersCurrent
  <2>1. Pending = {}
    BY DEF Quiet, Pending, Queued
  <2>2. \A a \in Agents : members[a] = "active" <=> a \in srv.members
    BY <2>1 DEF Inv, StoreInv
  <2>3. srv.members \subseteq Agents
    BY DEF Inv, TypeOK
  <2> QED
    BY <2>2, <2>3
<1> QED
  BY <1>1, AlwaysInv, PTL

(* The guard of LeaveGroup never refuses someone who is not the owner, unless *)
(* the role comes from an overtaken snapshot or a notification was lost.     *)
THEOREM OwnerGuardHolds == Spec => []OwnerGuardTrue
<1>1. Inv => OwnerGuardTrue
  BY DEF Inv, OwnerGuardTrue, RowInv, Quiet
<1> QED
  BY <1>1, AlwaysInv, PTL
=============================================================================
