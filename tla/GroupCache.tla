----------------------------- MODULE GroupCache -----------------------------
(***************************************************************************)
(* The group commands (internal/message/group_service.go) and what they     *)
(* and the listener (internal/runtime/listener/server.go) keep in the local *)
(* store of one group the user may be in: a row of `groups' with the user's *)
(* role, and the rows of `group_members'.                                   *)
(*                                                                          *)
(* The message service owns the group; other agents change it too.  It      *)
(* numbers the changes and notifies those who are members before or after   *)
(* one, in order; a notification may be lost.  A command makes its change,  *)
(* fetches the group and its members, and saves what it fetched: the fetch  *)
(* and the save are steps of their own, and so are the writes of the        *)
(* listener for one notification.                                           *)
(***************************************************************************)
EXTENDS Naturals, FiniteSets, Sequences

CONSTANTS
  Cmds,          \* commands running at the same time
  Others,        \* the other agents
  Me,            \* the user
  Nobody,
  MaxCommands,   \* commands begun in a behaviour
  MaxChanges,    \* changes of the group in a behaviour
  MaxDrops       \* notifications lost in a behaviour

ASSUME GroupConstants ==
  /\ Me \notin Others /\ Nobody \notin Others \union {Me}
  /\ MaxCommands \in Nat /\ MaxChanges \in Nat /\ MaxDrops \in Nat

Agents == Others \union {Me}

VARIABLES
  srv,      \* the group: members, owner, the number of the last change; epoch
            \* counts the times the user became a member
  queue,    \* notifications on their way to the listener
  writing,  \* the notification the listener has written in part, if any
  row,      \* the row of groups: status of the membership, role
  members,  \* the rows of group_members: the status of each agent
  cmd,      \* the commands
  hist,     \* history, for the properties
  begun, drops  \* bounds

vars == <<srv, queue, writing, row, members, cmd, hist, begun, drops>>

NoRow == [status |-> "none", role |-> "none"]
NoMembers == [a \in Agents |-> "none"]
NoEvent == [seq |-> 0, epoch |-> 0, subject |-> Nobody, method |-> "none"]
NoFetch == [seq |-> 0, epoch |-> 0, role |-> "none", members |-> {}]

(***************************************************************************)
(* The message service                                                     *)
(***************************************************************************)
MyRole ==
  IF srv.owner = Me THEN "owner" ELSE IF Me \in srv.members THEN "member" ELSE "none"

(* group.get and group.list_members, for a member or any viewer.            *)
Fetch == [seq |-> srv.seq, epoch |-> srv.epoch, role |-> MyRole, members |-> srv.members]

(* A change by one of the methods; the user is told if it concerns him.     *)
Change(method, subject) ==
  LET mem == CASE method \in {"group.create", "group.join", "group.add"} -> srv.members \union {subject}
               [] method \in {"group.leave", "group.remove"} -> srv.members \ {subject}
               [] method = "group.update" -> srv.members
      ep == IF Me \in mem \ srv.members THEN srv.epoch + 1 ELSE srv.epoch
      event == [seq |-> srv.seq + 1, epoch |-> ep, subject |-> subject, method |-> method]
  IN /\ srv.seq < MaxChanges
     /\ \E o \in mem \union {Nobody} :
          /\ IF srv.owner \in mem THEN o = srv.owner ELSE (o = Nobody <=> mem = {})
          /\ srv' = [members |-> mem, owner |-> o, seq |-> srv.seq + 1, epoch |-> ep]
     /\ queue' = IF Me \in mem \union srv.members THEN Append(queue, event) ELSE queue

(* What the service lets agent a do.                                        *)
MayJoin(a) == srv.members # {} /\ a \notin srv.members
MayAdd(a, m) == a \in srv.members /\ m \notin srv.members
MayRemove(a, m) == a \in srv.members /\ m \in srv.members \ {a, srv.owner}

(* The other agents.                                                        *)
OthersChange ==
  /\ \E a \in Others :
       \/ MayJoin(a) /\ Change("group.join", a)
       \/ a \in srv.members /\ (Change("group.leave", a) \/ Change("group.update", Nobody))
       \/ \E m \in Agents :
            \/ MayAdd(a, m) /\ Change("group.add", m)
            \/ MayRemove(a, m) /\ Change("group.remove", m)
  /\ UNCHANGED <<writing, row, members, cmd, hist, begun, drops>>

(***************************************************************************)
(* The local store                                                         *)
(***************************************************************************)
(* A mutant: a record without a role leaves the one in the row.             *)
UpsertKeepingRole(status, role) ==
  row' = [status |-> status, role |-> IF role = "none" THEN row.role ELSE role]

(* INSERT OR REPLACE: the whole row, with what the record leaves out empty. *)
UpsertGroup(status, role) == row' = [status |-> status, role |-> role]

(* All rows of the group, in one transaction.                               *)
ReplaceGroupMembers(mem) == members' = [a \in Agents |-> IF a \in mem THEN "active" ELSE "none"]

UpsertGroupMember(a, status) == members' = [members EXCEPT ![a] = status]

DeleteGroupMembers == members' = NoMembers

(* History: changes number n+1 to hist.seen were written before a list of   *)
(* members as of change n, or lost, and are not in the store now.  (A       *)
(* change of an earlier membership that is written after the list may undo  *)
(* what happened while the user was away.)                                  *)
ListAsOf(n, epoch) == hist' = [hist EXCEPT !.epoch = epoch, !.members = (n + 1)..hist.seen]

(* The same for the row.                                                    *)
RowAsOf(n) == hist' = [hist EXCEPT !.row = (n + 1)..(IF writing = NoEvent THEN hist.seen ELSE writing.seq)]

(***************************************************************************)
(* The commands                                                            *)
(***************************************************************************)
At(c, step) == cmd[c].todo # <<>> /\ Head(cmd[c].todo) = step

Advance(c, fetch) ==
  cmd' = [cmd EXCEPT ![c] =
    IF Tail(@.todo) = <<>> THEN [todo |-> <<>>, fetch |-> NoFetch]
    ELSE [todo |-> Tail(@.todo), fetch |-> fetch]]

(* A call fails, whether it had its effect or not, or the command is killed.*)
GiveUp(c) ==
  /\ cmd[c].todo # <<>>
  /\ cmd' = [cmd EXCEPT ![c] = [todo |-> <<>>, fetch |-> NoFetch]]
  /\ UNCHANGED <<srv, queue, writing, row, members, hist, begun, drops>>

syncGroupState(includeMembers) ==
  <<"group.get", "persistGroupSnapshot">> \o
  (IF includeMembers THEN <<"group.list_members", "persistGroupMembers">> ELSE <<>>)

Begin(c, todo) ==
  /\ cmd[c].todo = <<>> /\ begun < MaxCommands
  /\ cmd' = [cmd EXCEPT ![c] = [todo |-> todo, fetch |-> NoFetch]]
  /\ begun' = begun + 1
  /\ UNCHANGED <<srv, queue, writing, row, members, hist, drops>>

CreateGroup(c) == Begin(c, <<"group.create">> \o syncGroupState(TRUE))
GetGroup(c) == Begin(c, <<"group.get", "persistGroupSnapshot">>)
JoinGroup(c) == Begin(c, <<"group.join">> \o syncGroupState(TRUE))
mutateGroupMember(c) == \E method \in {"group.add", "group.remove"} :
  Begin(c, <<method>> \o syncGroupState(TRUE))
UpdateGroup(c) == \E patches \in {<<"group.update">>, <<"group.update", "group.update">>} :
  Begin(c, patches \o syncGroupState(FALSE))
GroupMembers(c) == Begin(c, <<"group.list_members", "persistGroupMembers">>)
GroupMessages(c) == Begin(c, <<"group.list_messages", "persistGroupMessages">>)
sendGroup(c) == Begin(c, <<"group.send", "touchCachedGroup">>)

isActiveGroupOwner == row.role = "owner" /\ row.status = "active"

(* The owner may not leave, as far as the row tells.                        *)
LeaveGroup(c) ==
  /\ ~isActiveGroupOwner
  /\ Begin(c, <<"group.leave", "markCachedGroupLeft", "DeleteGroupMembers">>)

(* The call that changes the group.                                         *)
CallChange(c) ==
  /\ \/ At(c, "group.create") /\ srv.seq = 0 /\ srv.members = {} /\ Change("group.create", Me)
     \/ At(c, "group.join") /\ MayJoin(Me) /\ Change("group.join", Me)
     \/ At(c, "group.add") /\ \E m \in Others : MayAdd(Me, m) /\ Change("group.add", m)
     \/ At(c, "group.remove") /\ \E m \in Others : MayRemove(Me, m) /\ Change("group.remove", m)
     \/ At(c, "group.update") /\ Me \in srv.members /\ Change("group.update", Nobody)
     \/ At(c, "group.leave") /\ Me \in srv.members /\ Change("group.leave", Me)
  /\ Advance(c, [NoFetch EXCEPT !.seq = srv'.seq, !.epoch = srv'.epoch])
  /\ UNCHANGED <<writing, row, members, hist, begun, drops>>

(* The calls that only read, and group.send.                                *)
CallRead(c) ==
  /\ \E step \in {"group.get", "group.list_members", "group.list_messages", "group.send"} : At(c, step)
  /\ Advance(c, Fetch)
  /\ UNCHANGED <<srv, queue, writing, row, members, hist, begun, drops>>

(* A snapshot without a status of the viewer counts as active.              *)
persistGroupSnapshot(c) ==
  /\ At(c, "persistGroupSnapshot")
  /\ UpsertGroup("active", cmd[c].fetch.role)
  /\ RowAsOf(cmd[c].fetch.seq)
  /\ Advance(c, NoFetch)
  /\ UNCHANGED <<srv, queue, writing, members, begun, drops>>

(* An empty list is not saved.                                              *)
persistGroupMembers(c) ==
  LET f == cmd[c].fetch IN
  /\ At(c, "persistGroupMembers")
  /\ IF f.members = {} THEN UNCHANGED <<members, hist>>
     ELSE ReplaceGroupMembers(f.members) /\ ListAsOf(f.seq, f.epoch)
  /\ Advance(c, NoFetch)
  /\ UNCHANGED <<srv, queue, writing, row, begun, drops>>

(* The row is replaced by one that knows the last message and nothing else; *)
(* without messages it stays.                                               *)
persistGroupMessages(c) ==
  /\ At(c, "persistGroupMessages")
  /\ UpsertGroup("active", "none") \/ UNCHANGED row
  /\ Advance(c, NoFetch)
  /\ UNCHANGED <<srv, queue, writing, members, hist, begun, drops>>

touchCachedGroup(c) ==
  /\ At(c, "touchCachedGroup")
  /\ UpsertGroup("active", "none")
  /\ Advance(c, NoFetch)
  /\ UNCHANGED <<srv, queue, writing, members, hist, begun, drops>>

(* The row first ...                                                        *)
markCachedGroupLeft(c) ==
  /\ At(c, "markCachedGroupLeft")
  /\ UpsertGroup("left", "none")
  /\ RowAsOf(cmd[c].fetch.seq)
  /\ Advance(c, cmd[c].fetch)
  /\ UNCHANGED <<srv, queue, writing, members, begun, drops>>

(* ... then the members.                                                    *)
clearCachedMembers(c) ==
  /\ At(c, "DeleteGroupMembers")
  /\ DeleteGroupMembers
  /\ ListAsOf(cmd[c].fetch.seq, cmd[c].fetch.epoch)
  /\ Advance(c, NoFetch)
  /\ UNCHANGED <<srv, queue, writing, row, begun, drops>>

(***************************************************************************)
(* The listener                                                            *)
(***************************************************************************)
(* A mutant: only a leave ends a membership.                                *)
StatusOfLeaveOnly(method) == IF method = "group.leave" THEN "left" ELSE "active"

membershipStatusFromEvent(method) ==
  CASE method = "group.leave" -> "left"
    [] method = "group.remove" -> "removed"
    [] OTHER -> "active"

(* group.state_changed: the row ...                                         *)
handleStateChanged ==
  /\ writing = NoEvent /\ queue # <<>>
  /\ writing' = Head(queue)
  /\ queue' = Tail(queue)
  /\ UpsertGroup("active", "none")
  /\ UNCHANGED <<srv, members, cmd, hist, begun, drops>>

(* ... then the member it is about, if it is about one.                     *)
handleMemberChanged ==
  /\ writing # NoEvent
  /\ IF writing.subject = Nobody THEN UNCHANGED members
     ELSE UpsertGroupMember(writing.subject, membershipStatusFromEvent(writing.method))
  /\ hist' = [hist EXCEPT !.seen = writing.seq,
                          !.members = IF writing.epoch < hist.epoch THEN @ \union {writing.seq} ELSE @]
  /\ writing' = NoEvent
  /\ UNCHANGED <<srv, queue, row, cmd, begun, drops>>

(* The listener is down, its buffer of notifications is full, or it dies    *)
(* between the two writes.                                                  *)
Drop ==
  /\ drops < MaxDrops /\ drops' = drops + 1
  /\ LET e == IF writing = NoEvent THEN Head(queue) ELSE writing IN
       /\ writing # NoEvent \/ queue # <<>>
       /\ hist' = [hist EXCEPT !.seen = e.seq, !.row = @ \union {e.seq},
                               !.members = @ \union {e.seq}]
  /\ queue' = IF writing = NoEvent THEN Tail(queue) ELSE queue
  /\ writing' = NoEvent
  /\ UNCHANGED <<srv, row, members, cmd, begun>>

(***************************************************************************)
(* Specification                                                           *)
(***************************************************************************)
(* There is no group yet, or one with any members, which the store knows if *)
(* the user is one of them.                                                 *)
Init ==
  /\ srv \in [members : SUBSET Agents, owner : Agents \union {Nobody}, seq : {0}, epoch : {1}]
  /\ IF srv.members = {} THEN srv.owner = Nobody ELSE srv.owner \in srv.members
  /\ queue = <<>> /\ writing = NoEvent
  /\ IF Me \in srv.members
     THEN /\ row = [status |-> "active", role |-> MyRole]
          /\ members = [a \in Agents |-> IF a \in srv.members THEN "active" ELSE "none"]
     ELSE row = NoRow /\ members = NoMembers
  /\ cmd = [c \in Cmds |-> [todo |-> <<>>, fetch |-> NoFetch]]
  /\ hist = [seen |-> 0, row |-> {}, members |-> {}, epoch |-> IF row = NoRow THEN 0 ELSE 1]
  /\ begun = 0 /\ drops = 0

Next ==
  \/ OthersChange
  \/ \E c \in Cmds :
       \/ CreateGroup(c) \/ GetGroup(c) \/ JoinGroup(c) \/ mutateGroupMember(c)
       \/ UpdateGroup(c) \/ GroupMembers(c) \/ GroupMessages(c) \/ sendGroup(c)
       \/ LeaveGroup(c)
       \/ CallChange(c) \/ CallRead(c)
       \/ persistGroupSnapshot(c) \/ persistGroupMembers(c)
       \/ persistGroupMessages(c) \/ touchCachedGroup(c)
       \/ markCachedGroupLeft(c) \/ clearCachedMembers(c)
       \/ GiveUp(c)
  \/ handleStateChanged
  \/ handleMemberChanged
  \/ Drop

Spec == Init /\ [][Next]_vars

(***************************************************************************)
(* Properties                                                              *)
(***************************************************************************)
Methods == {"group.create", "group.join", "group.add", "group.leave", "group.remove", "group.update"}

Steps == Methods \union
  {"group.get", "group.list_members", "group.list_messages", "group.send",
   "persistGroupSnapshot", "persistGroupMembers", "persistGroupMessages",
   "touchCachedGroup", "markCachedGroupLeft", "DeleteGroupMembers"}

Event == [seq : Nat, epoch : Nat, subject : Agents \union {Nobody}, method : Methods \union {"none"}]
Fetched == [seq : Nat, epoch : Nat, role : {"owner", "member", "none"}, members : SUBSET Agents]

(* Every variable has its type.                                             *)
TypeOK ==
  /\ srv \in [members : SUBSET Agents, owner : Agents \union {Nobody}, seq : Nat, epoch : Nat]
  /\ queue \in Seq(Event) /\ writing \in Event
  /\ row \in [status : {"none", "active", "left"}, role : {"owner", "member", "none"}]
  /\ members \in [Agents -> {"none", "active", "left", "removed"}]
  /\ cmd \in [Cmds -> [todo : Seq(Steps), fetch : Fetched]]
  /\ hist \in [seen : Nat, row : SUBSET Nat, members : SUBSET Nat, epoch : Nat]
  /\ begun \in Nat /\ drops \in Nat

Quiet ==
  /\ queue = <<>> /\ writing = NoEvent
  /\ \A c \in Cmds : cmd[c].todo = <<>>

(* A store that was filled since the user became a member lists the members *)
(* the group has, once everything under way has been written: what it can   *)
(* lack is a change whose notification was lost, or was written before a    *)
(* list that was fetched earlier, or comes from an earlier membership, and  *)
(* a later list makes up for it (persistGroupMembers, UpsertGroupMember,    *)
(* DeleteGroupMembers in any order).                                        *)
MembersCurrent ==
  (Quiet /\ Me \in srv.members /\ hist.epoch = srv.epoch /\ hist.members = {}) =>
    {a \in Agents : members[a] = "active"} = srv.members

(* LeaveGroup is refused only to an owner: a role of owner in the row that  *)
(* no longer holds comes from a snapshot that was overtaken, or from a lost *)
(* notification.                                                            *)
OwnerGuardTrue ==
  (Quiet /\ hist.row = {} /\ isActiveGroupOwner) => srv.owner = Me
=============================================================================
