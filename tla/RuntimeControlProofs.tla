------------------------ MODULE RuntimeControlProofs ------------------------
(***************************************************************************)
(* Proofs about RuntimeControl, for any number of commands of any kinds,    *)
(* secrets and faults.                                                      *)
(*                                                                          *)
(* A command's steps are known by what may follow each of them (After).     *)
(* With that, each property is a statement about the commands on their way: *)
(* a notify command that is past the stop of the listener has left none     *)
(* with an older configuration (NotifyInv), one that waits for a listener   *)
(* to be ready found none, so that its boot id is written by a later one    *)
(* only (ReadyInv), a setup that is past the stop of the bridge left none   *)
(* with another secret (BridgeInv), and whatever the listener does not have *)
(* of config.yaml, a command that has yet to stop it has written (ForceInv). *)
(***************************************************************************)
EXTENDS RuntimeControl, SequenceTheorems, TLAPS

Listener == inst["listener"]

(* The last step of a command of class cl is "end"; `hermes setup' goes on  *)
(* with the bridge.                                                         *)
LastOf(cl) == IF cl = "hermes" THEN "bridge" ELSE "end"

(* What may follow the step op in a command of class cl.                    *)
After(cl, op) ==
  IF cl = "restart"
  THEN CASE op = "resolve" -> {"restart"}
         [] op = "prepare" -> {"halt"}
         [] op = "halt" -> {"launch"}
         [] op = "launch" -> {"ready"}
         [] op \in {"restart", "ready"} -> {"end"}
         [] OTHER -> {}
  ELSE CASE op \in {"read", "write"} -> {"resolve"}
         [] op = "resolve" ->
              IF cl = "plain" THEN {"apply", "start", "stop", "ensure", "uninstall", "end"}
              ELSE IF cl = "notify" THEN {"refresh"} ELSE {"route"}
         [] op = "route" -> {"refresh"}
         [] op \in {"refresh", "apply", "start", "startAgain", "ready", "uninstall"} -> {LastOf(cl)}
         [] op \in {"stop", "clean"} -> {"apply", LastOf(cl)}
         [] op = "halt" -> {"clean", "remove"}
         [] op = "remove" -> {"clean"}
         [] op = "ensure" -> {"start", "startAgain", LastOf(cl)}
         [] op = "prepare" -> {"launch"}
         [] op = "launch" -> {"ready"}
         [] op \in {"bridge", "bridgeStart", "bridgeLaunch"} -> {"end"}
         [] op = "bridgeEnsure" -> {"bridgeStart", "bridgeLaunch"}
         [] op = "bridgeStop" -> {"bridgeLaunch"}
         [] OTHER -> {}

Linked(cl, s) ==
  /\ \A k \in 1..(Len(s) - 1) : s[k + 1] \in After(cl, s[k])
  /\ s # <<>> => "end" \in After(cl, s[Len(s)])

(* The steps `more' may take the place of op. *)
Replaces(cl, more, op) ==
  /\ \A k \in 1..(Len(more) - 1) : more[k + 1] \in After(cl, more[k])
  /\ more # <<>> => After(cl, op) \subseteq After(cl, more[Len(more)])

FirstOf(s) == IF s = <<>> THEN "end" ELSE Head(s)

LEMMA Table ==
  ASSUME NEW cl, cl # "restart"
  PROVE  /\ After(cl, "read") = {"resolve"} /\ After(cl, "write") = {"resolve"}
         /\ cl = "plain" => After(cl, "resolve") = {"apply", "start", "stop", "ensure", "uninstall", "end"}
         /\ cl = "notify" => After(cl, "resolve") = {"refresh"}
         /\ cl = "hermes" => After(cl, "resolve") = {"route"}
         /\ After(cl, "route") = {"refresh"}
         /\ After(cl, "refresh") = {LastOf(cl)} /\ After(cl, "apply") = {LastOf(cl)}
         /\ After(cl, "start") = {LastOf(cl)} /\ After(cl, "startAgain") = {LastOf(cl)}
         /\ After(cl, "ready") = {LastOf(cl)} /\ After(cl, "uninstall") = {LastOf(cl)}
         /\ After(cl, "stop") = {"apply", LastOf(cl)} /\ After(cl, "clean") = {"apply", LastOf(cl)}
         /\ After(cl, "halt") = {"clean", "remove"} /\ After(cl, "remove") = {"clean"}
         /\ After(cl, "ensure") = {"start", "startAgain", LastOf(cl)}
         /\ After(cl, "prepare") = {"launch"} /\ After(cl, "launch") = {"ready"}
         /\ After(cl, "bridge") = {"end"} /\ After(cl, "bridgeStart") = {"end"}
         /\ After(cl, "bridgeLaunch") = {"end"}
         /\ After(cl, "bridgeEnsure") = {"bridgeStart", "bridgeLaunch"}
         /\ After(cl, "bridgeStop") = {"bridgeLaunch"}
         /\ After(cl, "restart") = {} /\ After(cl, "end") = {}
  BY DEF After

LEMMA RestartTable ==
  /\ After("restart", "resolve") = {"restart"} /\ After("restart", "restart") = {"end"}
  /\ After("restart", "prepare") = {"halt"} /\ After("restart", "halt") = {"launch"}
  /\ After("restart", "launch") = {"ready"} /\ After("restart", "ready") = {"end"}
  /\ \A op : op \notin {"resolve", "restart", "prepare", "halt", "launch", "ready"}
               => After("restart", op) = {}
  BY DEF After

(* A command goes on with a step that may follow the one it ends.           *)
LEMMA Follows ==
  ASSUME NEW cl, NEW s \in Seq(Ops), s # <<>>, Linked(cl, s)
  PROVE  Linked(cl, Tail(s)) /\ FirstOf(Tail(s)) \in After(cl, Head(s))
<1> DEFINE t == Tail(s)
<1>1. /\ Len(s) \in Nat \ {0} /\ t \in Seq(Ops) /\ Len(t) = Len(s) - 1 /\ Head(s) = s[1]
      /\ \A k \in 1..Len(t) : t[k] = s[k + 1]
  BY EmptySeq, HeadTailProperties
<1>2. t = <<>> => Len(s) = 1
  BY <1>1, EmptySeq
<1>3. t # <<>> => Len(t) \in Nat \ {0} /\ Head(t) = t[1]
  BY <1>1, EmptySeq
<1>4. FirstOf(t) \in After(cl, Head(s))
  <2>1. CASE t = <<>>
    BY <2>1, <1>1, <1>2 DEF FirstOf, Linked
  <2>2. CASE t # <<>>
    <3>1. 1 \in 1..(Len(s) - 1) /\ t[1] = s[1 + 1]
      BY <2>2, <1>1, <1>3
    <3>2. s[1 + 1] \in After(cl, s[1])
      BY <3>1 DEF Linked
    <3> QED
      BY <3>1, <3>2, <2>2, <1>1, <1>3 DEF FirstOf
  <2> QED
    BY <2>1, <2>2
<1>5. ASSUME NEW k \in 1..(Len(t) - 1) PROVE t[k + 1] \in After(cl, t[k])
  <2>1. k + 1 \in 1..(Len(s) - 1) /\ t[k] = s[k + 1] /\ t[k + 1] = s[(k + 1) + 1]
    BY <1>1, <1>5
  <2> QED
    BY <2>1 DEF Linked
<1>6. t # <<>> => "end" \in After(cl, t[Len(t)])
  <2> SUFFICES ASSUME t # <<>> PROVE "end" \in After(cl, t[Len(t)])
    OBVIOUS
  <2>1. t[Len(t)] = s[Len(s)]
    BY <1>1, <1>3
  <2> QED
    BY <2>1 DEF Linked
<1> QED
  BY <1>4, <1>5, <1>6 DEF Linked

LEMMA Joined ==
  ASSUME NEW cl, NEW more \in Seq(Ops), more # <<>>,
         \A k \in 1..(Len(more) - 1) : more[k + 1] \in After(cl, more[k]),
         NEW t \in Seq(Ops), Linked(cl, t), FirstOf(t) \in After(cl, more[Len(more)])
  PROVE  /\ Linked(cl, more \o t) /\ more \o t # <<>> /\ more \o t \in Seq(Ops)
         /\ Head(more \o t) = more[1]
<1> DEFINE n == Len(more)  r == more \o t
<1>1. n \in Nat \ {0} /\ Len(t) \in Nat
  BY EmptySeq, LenProperties
<1>2. /\ r \in Seq(Ops) /\ Len(r) = n + Len(t)
      /\ \A k \in 1..n : r[k] = more[k]
      /\ \A k \in 1..Len(t) : r[n + k] = t[k]
  BY <1>1
<1>3. r # <<>> /\ Head(r) = more[1]
  <2>1. r # <<>>
    BY <1>1, <1>2, EmptySeq
  <2>2. Head(r) = r[1]
    BY <2>1, <1>2
  <2> QED
    BY <2>1, <2>2, <1>1, <1>2
<1>4. r[n] = more[n]
  BY <1>1, <1>2
<1>5. t # <<>> => Len(t) # 0 /\ Head(t) = t[1]
  <2>1. t # <<>> => Len(t) # 0
    BY <1>1, EmptySeq
  <2> QED
    BY <2>1, <1>1
<1>6. t = <<>> => Len(t) = 0
  BY EmptySeq
<1>7. ASSUME NEW k \in 1..(Len(r) - 1) PROVE r[k + 1] \in After(cl, r[k])
  <2>1. CASE k < n
    <3>1. k \in 1..(n - 1) /\ r[k] = more[k] /\ r[k + 1] = more[k + 1]
      BY <2>1, <1>1, <1>2
    <3> QED
      BY <3>1
  <2>2. CASE k = n
    <3>1. t # <<>> /\ 1 \in 1..Len(t)
      BY <2>2, <1>1, <1>2, <1>6
    <3>2. r[k + 1] = t[1]
      BY <3>1, <2>2, <1>2
    <3> QED
      BY <3>1, <3>2, <2>2, <1>4, <1>5 DEF FirstOf
  <2>3. CASE k > n
    <3> DEFINE j == k - n
    <3>1. j \in 1..(Len(t) - 1) /\ n + j = k /\ n + (j + 1) = k + 1
      BY <2>3, <1>1, <1>2
    <3>2. r[n + j] = t[j] /\ r[n + (j + 1)] = t[j + 1]
      BY <3>1, <1>1, <1>2
    <3>3. t[j + 1] \in After(cl, t[j])
      BY <3>1 DEF Linked
    <3> QED
      BY <3>1, <3>2, <3>3
  <2> QED
    BY <1>1, <1>2, <2>1, <2>2, <2>3
<1>8. "end" \in After(cl, r[Len(r)])
  <2>1. CASE t = <<>>
    BY <2>1, <1>1, <1>2, <1>4, <1>6 DEF FirstOf
  <2>2. CASE t # <<>>
    <3>1. r[Len(r)] = t[Len(t)]
      BY <2>2, <1>1, <1>2, <1>5
    <3> QED
      BY <3>1, <2>2 DEF Linked
  <2> QED
    BY <2>1, <2>2
<1> QED
  BY <1>2, <1>3, <1>7, <1>8 DEF Linked

LEMMA Prefixed ==
  ASSUME NEW cl, NEW s \in Seq(Ops), s # <<>>, Linked(cl, s),
         NEW more \in Seq(Ops), more # <<>>, Replaces(cl, more, Head(s))
  PROVE  /\ Linked(cl, more \o Tail(s)) /\ more \o Tail(s) # <<>>
         /\ Head(more \o Tail(s)) = more[1]
<1>1. Tail(s) \in Seq(Ops)
  BY HeadTailProperties
<1>2. Linked(cl, Tail(s)) /\ FirstOf(Tail(s)) \in After(cl, Head(s))
  BY Follows
<1>3. /\ \A k \in 1..(Len(more) - 1) : more[k + 1] \in After(cl, more[k])
      /\ FirstOf(Tail(s)) \in After(cl, more[Len(more)])
  BY <1>2 DEF Replaces
<1> QED
  BY <1>1, <1>2, <1>3, Joined

(***************************************************************************)
(* The invariant                                                           *)
(***************************************************************************)
Bridge == inst["bridge"]
Bridging == {"bridge", "bridgeEnsure", "bridgeStart", "bridgeStop", "bridgeLaunch"}
Early == {"read", "write", "resolve", "route", "refresh"}
Classes == {"plain", "restart", "notify", "hermes"}
Notifying(m) == m.class \in {"notify", "hermes"}
HostSettings == {"on", "sink", "secret"}

(* No listener runs with a configuration older than rev.                    *)
Fresh(rev) == Listener.st # "none" => Listener.cfg.rev >= rev

BridgeCurrent == Bridge.st = "up" => Bridge.cfg.secret = config.secret

Draft(m, op) == op = "write" /\ m.draft.rev = config.rev => m.draft = config

(* Only a command that is on its way to its end has an outcome.             *)
Undecided(m, op) == m.outcome # "none" /\ m.class # "restart" => op \in Bridging \union {"end"}

NotifyInv(m, op) ==
  Notifying(m) /\ ~detached /\ m.outcome # "off" /\ op \notin Early \union {"stop", "halt"}
    => Fresh(m.seen.rev)

BridgeInv(m, op) ==
  /\ m.class = "hermes" /\ m.seen.rev = config.rev
  /\ op \in (Bridging \ {"bridge", "bridgeStop"}) \union {"end"}
  => BridgeCurrent

ReadyInv(m, op) ==
  m.class # "restart" =>
    /\ op \in {"prepare", "launch", "ready"} =>
         /\ Fresh(m.seen.rev)
         /\ files.status.boot = m.boot => files.status.rev >= m.seen.rev
    /\ op \notin {"launch", "ready", "end"} \union Bridging =>
         files.boot # m.boot /\ files.status.boot # m.boot /\ Listener.boot # m.boot
    /\ m.outcome = "ready" => m.got >= m.seen.rev

(* What holds of a command m when op is the step it does next, or "end".    *)
Does(m, op) ==
  Draft(m, op) /\ Undecided(m, op) /\ NotifyInv(m, op) /\ BridgeInv(m, op) /\ ReadyInv(m, op)

Steady(m) ==
  /\ m.class \in Classes /\ m.outcome \in {"none", "off", "ready"} /\ m.boot # 0
  /\ m.class = "plain" => m.change.of \intersect HostSettings = {}

Busy(m) == Steady(m) /\ Linked(m.class, m.todo) /\ Does(m, Head(m.todo))

(* What a command leaves behind.                                            *)
Idle(m) ==
  /\ m.class # "restart" /\ m.boot = 0 /\ m.asked <= config.rev
  /\ Notifying(m) /\ ~detached => Fresh(m.asked)
  /\ m.class = "hermes" /\ m.asked = config.rev => BridgeCurrent
  /\ m.outcome = "ready" => m.got >= m.asked

CommandInv(c) ==
  /\ cmd[c].todo # <<>> => Busy(cmd[c])
  /\ cmd[c].todo = <<>> => Idle(cmd[c])

Distinct ==
  \A c, d \in Cmds : c # d /\ cmd[c].todo # <<>> /\ cmd[d].todo # <<>> => cmd[c].boot # cmd[d].boot

(* A process belongs to a service that was started and is installed; a      *)
(* listener with the settings of config.yaml has its secret.                *)
SvcInv ==
  /\ \A s \in Services : inst[s].st # "none" => svc[s].wanted
  /\ Bridge.st # "none" => svc["bridge"].installed
  /\ Listener.st # "none" => svc["listener"].installed \/ detached
  /\ Listener.st # "none" /\ Listener.cfg.rev = config.rev => Listener.cfg.secret = config.secret

Agrees ==
  /\ Listener.cfg.on = config.on /\ Listener.cfg.sink = config.sink
  /\ Listener.cfg.on /\ Listener.cfg.sink = "hermes" => Listener.cfg.secret = config.secret

Lacking == ~waived /\ ~detached /\ Listener.st # "none" /\ ~Agrees

(* A notify command at one of these steps has the listener yet to stop.     *)
Halting == {"resolve", "route", "refresh", "stop", "halt"}
Pending(c) == cmd[c].todo # <<>> /\ Notifying(cmd[c]) /\ Head(cmd[c].todo) \in Halting

ForceInv == Lacking => \E c \in Cmds : Pending(c)

Inv == TypeOK /\ Distinct /\ SvcInv /\ ForceInv /\ \A c \in Cmds : CommandInv(c)

(***************************************************************************)
(* A step of a command with boot id b, or of nobody (0), to the others      *)
(***************************************************************************)
Frame(b) ==
  /\ config'.rev >= config.rev /\ (config'.rev = config.rev => config' = config)
  /\ detached => detached'
  /\ Listener'.st # "none" => \/ Listener.st # "none" /\ Listener'.cfg.rev = Listener.cfg.rev
                              \/ Listener'.cfg.rev = config'.rev
  /\ Bridge'.st = "up" => \/ Bridge.st = "up" /\ Bridge'.cfg.secret = Bridge.cfg.secret
                          \/ Bridge'.cfg.secret = config'.secret
  /\ files'.boot \in {files.boot, 0, b}
  /\ \/ files'.status = files.status
     \/ files'.status.boot = 0
     \/ /\ Listener.st # "none"
        /\ files'.status.boot = Listener.boot /\ files'.status.rev = Listener.cfg.rev
  /\ Listener'.boot \in {Listener.boot, 0, files.boot}

World ==
  /\ config \in Configs /\ route \in BOOLEAN
  /\ svc \in [Services -> [installed : BOOLEAN, wanted : BOOLEAN]]
  /\ inst \in [Services -> Instances]
  /\ files \in [status : [boot : Nat, rev : Nat], socket : BOOLEAN, boot : Nat]
  /\ waived \in BOOLEAN /\ detached \in BOOLEAN
  /\ begun \in 0..MaxCommands /\ faults \in 0..MaxFaults
  /\ \A s \in Services : inst[s].cfg.rev <= config.rev /\ inst[s].boot <= begun
  /\ files.status.boot <= begun /\ files.boot <= begun

Bounded(m) == m.seen.rev <= config.rev /\ m.draft.rev <= config.rev /\ m.boot <= begun

LEMMA Types ==
  TypeOK <=> World /\ cmd \in [Cmds -> Commands] /\ \A c \in Cmds : Bounded(cmd[c])
BY DEF TypeOK, World, Bounded

(* A step keeps what holds of a command that did not make it.               *)
LEMMA KeptDoes ==
  ASSUME World, World', NEW b, Frame(b), NEW m \in Commands, NEW op, Bounded(m),
         m.boot # 0, b # m.boot, Does(m, op)
  PROVE  Does(m, op)'
<1>1. m.seen.rev \in Nat /\ m.draft.rev \in Nat /\ m.boot \in Nat /\ m.got \in Nat
  BY DEF Commands, Configs
<1>2. /\ config.rev \in Nat /\ config'.rev \in Nat
      /\ Listener.cfg.rev \in Nat /\ Listener'.cfg.rev \in Nat
      /\ files.status.rev \in Nat /\ files'.status.rev \in Nat
  BY DEF World, Configs, Instances, Services, Listener
<1>3. Fresh(m.seen.rev) => Fresh(m.seen.rev)'
  BY <1>1, <1>2 DEF Frame, Fresh, Bounded
<1>4. m.seen.rev = config'.rev /\ BridgeCurrent /\ m.seen.rev <= config.rev => BridgeCurrent'
  BY <1>1, <1>2 DEF Frame, BridgeCurrent
<1>5. Draft(m, op)'
  BY <1>1, <1>2 DEF Frame, Draft, Bounded, Does
<1>6. NotifyInv(m, op)'
  BY <1>3 DEF NotifyInv, Does, Frame
<1>7. BridgeInv(m, op)'
  BY <1>1, <1>2, <1>4 DEF BridgeInv, Does, Frame, Bounded
<1>8. ReadyInv(m, op)'
  <2> SUFFICES ASSUME m.class # "restart" PROVE ReadyInv(m, op)'
    BY DEF ReadyInv
  <2>1. ASSUME op \in {"prepare", "launch", "ready"}, files'.status.boot = m.boot
        PROVE  files'.status.rev >= m.seen.rev
    BY <1>1, <1>2, <2>1 DEF Frame, Does, ReadyInv, Fresh
  <2>2. ASSUME op \notin {"launch", "ready", "end"} \union Bridging
        PROVE  files'.boot # m.boot /\ files'.status.boot # m.boot /\ Listener'.boot # m.boot
    BY <2>2 DEF Frame, Does, ReadyInv
  <2> QED
    BY <1>3, <2>1, <2>2 DEF ReadyInv, Does
<1> QED
  BY <1>5, <1>6, <1>7, <1>8 DEF Does, Undecided

LEMMA KeptIdle ==
  ASSUME World, World', NEW b, Frame(b), NEW m \in Commands, Idle(m)
  PROVE  Idle(m)'
<1>1. m.asked \in Nat
  BY DEF Commands
<1>2. /\ config.rev \in Nat /\ config'.rev \in Nat
      /\ Listener.cfg.rev \in Nat /\ Listener'.cfg.rev \in Nat
  BY DEF World, Configs, Instances, Services, Listener
<1>3. m.asked <= config'.rev
  BY <1>1, <1>2 DEF Frame, Idle
<1>4. Notifying(m) /\ ~detached' => Fresh(m.asked)'
  BY <1>1, <1>2 DEF Frame, Fresh, Idle
<1>5. m.class = "hermes" /\ m.asked = config'.rev => BridgeCurrent'
  BY <1>1, <1>2 DEF Frame, BridgeCurrent, Idle
<1> QED
  BY <1>3, <1>4, <1>5 DEF Idle

(***************************************************************************)
(* The command that makes a step                                           *)
(***************************************************************************)
Acted(c) ==
  /\ cmd' \in [Cmds -> Commands] /\ Bounded(cmd[c])'
  /\ \A d \in Cmds : d # c => cmd'[d] = cmd[d]
  /\ cmd'[c].todo # <<>> => cmd'[c].boot = cmd[c].boot
  /\ CommandInv(c)'

LEMMA Nothing ==
  /\ Over \in Commands
  /\ Over.todo = <<>> /\ Over.boot = 0 /\ Over.seen.rev = 0 /\ Over.draft.rev = 0
  /\ Over.class = "none" /\ Over.asked = 0 /\ Over.outcome = "none"
<1>1. Over \in Commands
  BY EmptySeq DEF Over, NoChange, Setting, Resolve, Policy, Commands, Configs, Modes, Sinks, Secret
<1> QED
  BY <1>1 DEF Over, Resolve, Policy

(* A command that goes on as e keeps the invariant if what holds of e fits  *)
(* the step it does next.                                                   *)
LEMMA Moves ==
  ASSUME cmd \in [Cmds -> Commands], NEW c \in Cmds, NEW m, m = cmd[c], m.todo # <<>>, Busy(m),
         config'.rev \in Nat, begun' \in Nat, m.boot <= begun',
         NEW e \in Commands, e.class = m.class, e.boot = m.boot, Steady(e), Bounded(e)',
         NEW more \in Seq(Ops), Advance(c, more, e),
         more # <<>> => Replaces(m.class, more, Head(m.todo)),
         \A op : op \in (IF more = <<>> THEN After(m.class, Head(m.todo)) ELSE {more[1]})
                   => Does(e, op)'
  PROVE  Acted(c)
<1> DEFINE rest == more \o Tail(m.todo)
<1>1. m \in Commands /\ m.todo \in Seq(Ops)
  BY DEF Commands
<1>2. Linked(m.class, rest) /\ rest \in Seq(Ops) /\ Does(e, FirstOf(rest))'
  <2>0. Linked(m.class, m.todo) /\ Tail(m.todo) \in Seq(Ops)
    <3>1. Tail(m.todo) \in Seq(Ops)
      BY <1>1, HeadTailProperties
    <3> QED
      BY <3>1 DEF Busy
  <2>1. CASE more = <<>>
    <3>1. rest = Tail(m.todo)
      BY <2>0, <2>1
    <3>2. Linked(m.class, rest) /\ FirstOf(rest) \in After(m.class, Head(m.todo))
      BY <3>1, <2>0, <1>1, Follows
    <3> QED
      BY <3>1, <3>2, <2>0, <2>1
  <2>2. CASE more # <<>>
    <3>1. Linked(m.class, rest) /\ rest # <<>> /\ Head(rest) = more[1]
      BY <2>0, <2>2, <1>1, Prefixed
    <3>2. rest \in Seq(Ops)
      BY <2>0
    <3> QED
      BY <3>1, <3>2, <2>2 DEF FirstOf
  <2> QED
    BY <2>1, <2>2
<1> HIDE DEF rest
<1>3. CASE rest # <<>>
  <2> DEFINE n == [e EXCEPT !.todo = rest]
  <2>1. cmd' = [cmd EXCEPT ![c] = n]
    BY <1>3 DEF Advance, rest
  <2>2. /\ n \in Commands /\ n.todo = rest /\ n.class = e.class /\ n.boot = e.boot
        /\ n.outcome = e.outcome /\ n.change = e.change /\ n.seen = e.seen
        /\ n.draft = e.draft /\ n.got = e.got
    BY <1>2 DEF Commands
  <2> HIDE DEF n
  <2>3. cmd'[c] = n /\ cmd' \in [Cmds -> Commands] /\ \A d \in Cmds : d # c => cmd'[d] = cmd[d]
    BY <2>1, <2>2
  <2>4. Bounded(n)'
    BY <2>2 DEF Bounded
  <2>5. Does(n, Head(rest))'
    BY <2>2, <1>2, <1>3
       DEF Does, Draft, Undecided, NotifyInv, Notifying, BridgeInv, ReadyInv, FirstOf
  <2>6. Busy(n)'
    BY <2>2, <2>5, <1>2 DEF Busy, Steady
  <2> QED
    BY <2>2, <2>3, <2>4, <2>6, <1>3 DEF Acted, CommandInv, Bounded
<1>4. CASE rest = <<>>
  <2>1. PICK n \in Commands :
          /\ cmd' = [cmd EXCEPT ![c] = n] /\ n.todo = <<>> /\ n.boot = 0
          /\ n.seen.rev = 0 /\ n.draft.rev = 0
          /\ \/ n.class = "none" /\ n.asked = 0 /\ n.outcome = "none"
             \/ /\ n.class = e.class /\ n.asked = e.seen.rev /\ n.got = e.got
                /\ e.class # "restart" /\ e.outcome # "off"
                /\ n.outcome = "ready" => e.outcome = "ready"
    <3>1. CASE \/ e.class = "plain" /\ e.outcome = "none"
               \/ e.class = "restart" \/ e.outcome = "off"
      <4>1. cmd' = [cmd EXCEPT ![c] = Over]
        BY <1>4, <3>1 DEF Advance, rest
      <4> QED
        BY <4>1, Nothing
    <3>2. CASE ~(\/ e.class = "plain" /\ e.outcome = "none"
                 \/ e.class = "restart" \/ e.outcome = "off")
      <4> DEFINE n == [Over EXCEPT !.class = e.class, !.asked = e.seen.rev, !.got = e.got,
                         !.outcome = IF e.outcome = "none" THEN "done" ELSE e.outcome]
      <4>1. cmd' = [cmd EXCEPT ![c] = n]
        BY <1>4, <3>2 DEF Advance, rest
      <4>3. n \in Commands
        BY Nothing DEF Commands
      <4>4. /\ n.todo = <<>> /\ n.boot = 0 /\ n.seen.rev = 0 /\ n.draft.rev = 0
            /\ n.class = e.class /\ n.asked = e.seen.rev /\ n.got = e.got
            /\ n.outcome = (IF e.outcome = "none" THEN "done" ELSE e.outcome)
        BY DEF Over, Resolve, Policy
      <4> HIDE DEF n
      <4> QED
        BY <4>1, <4>3, <4>4, <3>2
    <3> QED
      BY <3>1, <3>2
  <2>2. cmd'[c] = n /\ cmd' \in [Cmds -> Commands] /\ \A d \in Cmds : d # c => cmd'[d] = cmd[d]
    BY <2>1
  <2>3. Does(e, "end")'
    BY <1>2, <1>4 DEF FirstOf
  <2>4. Idle(n)'
    <3>1. CASE n.class = "none" /\ n.asked = 0 /\ n.outcome = "none"
      BY <2>1, <3>1 DEF Idle, Notifying
    <3>2. CASE /\ n.class = e.class /\ n.asked = e.seen.rev /\ n.got = e.got
               /\ e.class # "restart" /\ e.outcome # "off"
               /\ n.outcome = "ready" => e.outcome = "ready"
      <4>1. Notifying(e) /\ ~detached' => Fresh(e.seen.rev)'
        BY <2>3, <3>2 DEF Does, NotifyInv, Early, Notifying
      <4>2. e.class = "hermes" /\ e.seen.rev = config'.rev => BridgeCurrent'
        BY <2>3 DEF Does, BridgeInv
      <4>3. e.outcome = "ready" => e.got >= e.seen.rev
        BY <2>3, <3>2 DEF Does, ReadyInv
      <4> QED
        BY <2>1, <3>2, <4>1, <4>2, <4>3 DEF Idle, Notifying, Bounded
    <3> QED
      BY <2>1, <3>1, <3>2
  <2>5. Bounded(n)'
    BY <2>1 DEF Bounded
  <2> QED
    BY <2>1, <2>2, <2>4, <2>5 DEF Acted, CommandInv, Bounded
<1> QED
  BY <1>3, <1>4

(* A command that is given up leaves nothing to keep.                       *)
LEMMA Fails ==
  ASSUME cmd \in [Cmds -> Commands], NEW c \in Cmds, Fail(c),
         config'.rev \in Nat, begun' \in Nat
  PROVE  Acted(c)
<1>1. cmd'[c] = Over /\ cmd' \in [Cmds -> Commands] /\ \A d \in Cmds : d # c => cmd'[d] = cmd[d]
  BY Nothing DEF Fail
<1>2. Idle(Over)'
  BY Nothing DEF Idle, Notifying
<1> QED
  BY <1>1, <1>2, Nothing DEF Acted, CommandInv, Bounded

(* The invariant after a step of c: what the step does to the world, and    *)
(* what becomes of c.                                                       *)
LEMMA Settles ==
  ASSUME Inv, World', SvcInv', ForceInv', begun' = begun,
         NEW c \in Cmds, NEW b \in {0, cmd[c].boot}, cmd[c].todo # <<>>, Frame(b), Acted(c)
  PROVE  Inv'
<1>1. World /\ cmd \in [Cmds -> Commands] /\ \A d \in Cmds : Bounded(cmd[d])
  BY Types DEF Inv
<1>2. config.rev \in Nat /\ config'.rev \in Nat
  BY <1>1 DEF World, Configs
<1>3. ASSUME NEW d \in Cmds PROVE Bounded(cmd[d])'
  <2>1. CASE d = c
    BY <2>1 DEF Acted
  <2>2. CASE d # c
    <3>1. cmd'[d] = cmd[d] /\ cmd[d] \in Commands
      BY <2>2, <1>1 DEF Acted
    <3>2. cmd[d].seen.rev \in Nat /\ cmd[d].draft.rev \in Nat
      BY <3>1 DEF Commands, Configs
    <3> QED
      BY <3>1, <3>2, <1>1, <1>2 DEF Bounded, Frame
  <2> QED
    BY <2>1, <2>2
<1>4. TypeOK'
  BY <1>3 DEF TypeOK, World, Acted, Bounded
<1>5. Distinct'
  BY DEF Distinct, Inv, Acted
<1>6. ASSUME NEW d \in Cmds PROVE CommandInv(d)'
  <2>1. CASE d = c
    BY <2>1 DEF Acted
  <2>2. CASE d # c
    <3>1. PICK m : m = cmd[d]
      OBVIOUS
    <3>2. cmd'[d] = m /\ m \in Commands /\ Bounded(m)
      BY <2>2, <1>1, <3>1 DEF Acted
    <3>3. CASE m.todo = <<>>
      <4>1. Idle(m)
        BY <3>1, <3>3 DEF Inv, CommandInv
      <4>2. Idle(m)'
        BY <4>1, <3>2, <1>1, KeptIdle
      <4> QED
        BY <3>2, <3>3, <4>2 DEF CommandInv
    <3>4. CASE m.todo # <<>>
      <4>1. Busy(m)
        BY <3>1, <3>4 DEF Inv, CommandInv
      <4>2. m.boot # 0 /\ b # m.boot
        BY <4>1, <3>1, <3>4, <2>2 DEF Busy, Steady, Inv, Distinct
      <4>3. Does(m, Head(m.todo))'
        BY <4>1, <4>2, <3>2, <1>1, KeptDoes DEF Busy
      <4>4. Busy(m)'
        BY <4>1, <4>3 DEF Busy, Steady
      <4> QED
        BY <3>2, <3>4, <4>4 DEF CommandInv
    <3> QED
      BY <3>3, <3>4
  <2> QED
    BY <2>1, <2>2
<1> QED
  BY <1>4, <1>5, <1>6 DEF Inv

(* What the listener lacks of config.yaml stays with a command that has yet *)
(* to stop it.                                                              *)
LEMMA ForceKept ==
  ASSUME ForceInv, NEW c \in Cmds, \A d \in Cmds : d # c => cmd'[d] = cmd[d],
         Lacking' => Lacking \/ Pending(c)', Lacking' /\ Pending(c) => Pending(c)'
  PROVE  ForceInv'
BY DEF ForceInv, Pending, Notifying

LEMMA Acting ==
  ASSUME Inv, NEW c \in Cmds, NEW op, At(c, op)
  PROVE  /\ World /\ cmd \in [Cmds -> Commands] /\ config.rev \in Nat /\ begun \in Nat
         /\ cmd[c] \in Commands /\ cmd[c].todo # <<>> /\ Head(cmd[c].todo) = op
         /\ Busy(cmd[c]) /\ Bounded(cmd[c]) /\ Does(cmd[c], op)
<1>1. World /\ cmd \in [Cmds -> Commands] /\ Bounded(cmd[c])
  BY Types DEF Inv
<1>2. config.rev \in Nat /\ begun \in Nat
  BY <1>1 DEF World, Configs
<1>3. cmd[c].todo # <<>> /\ Head(cmd[c].todo) = op
  BY DEF At
<1> QED
  BY <1>1, <1>2, <1>3 DEF Inv, CommandInv, Busy

(* The steps of `listener restart'.                                         *)
LEMMA Restarting ==
  ASSUME Inv, NEW c \in Cmds, NEW op, At(c, op), cmd[c].class = "restart"
  PROVE  op \in {"resolve", "restart", "prepare", "halt", "launch", "ready"}
<1>1. FirstOf(Tail(cmd[c].todo)) \in After("restart", op)
  <2>1. cmd[c].todo \in Seq(Ops) /\ cmd[c].todo # <<>> /\ Head(cmd[c].todo) = op
        /\ Linked("restart", cmd[c].todo)
    BY Acting DEF Commands, Busy
  <2> QED
    BY <2>1, Follows
<1> QED
  BY <1>1, RestartTable

LEMMA One ==
  ASSUME NEW cl, NEW S, NEW a \in S
  PROVE  /\ <<a>> \in Seq(S) /\ <<a>> # <<>> /\ <<a>>[1] = a
         /\ \A op : After(cl, op) \subseteq After(cl, a) => Replaces(cl, <<a>>, op)
<1> DEFINE s == <<a>>
<1>1. s \in Seq(S) /\ Len(s) = 1 /\ s[1] = a
  OBVIOUS
<1>2. s # <<>>
  OBVIOUS
<1> HIDE DEF s
<1>3. \A k \in 1..(Len(s) - 1) : s[k + 1] \in After(cl, s[k])
  <2>1. Len(s) - 1 = 0 /\ 1..0 = {}
    BY <1>1
  <2> QED
    BY <2>1
<1>4. \A op : After(cl, op) \subseteq After(cl, a) => Replaces(cl, s, op)
  BY <1>1, <1>3 DEF Replaces
<1> QED
  BY <1>1, <1>2, <1>4 DEF s

LEMMA Two ==
  ASSUME NEW cl, NEW S, NEW a \in S, NEW b \in S, b \in After(cl, a)
  PROVE  /\ <<a, b>> \in Seq(S) /\ <<a, b>> # <<>> /\ <<a, b>>[1] = a
         /\ \A op : After(cl, op) \subseteq After(cl, b) => Replaces(cl, <<a, b>>, op)
<1> DEFINE s == <<a, b>>
<1>1. s \in Seq(S) /\ Len(s) = 2 /\ s[1] = a /\ s[2] = b
  OBVIOUS
<1>2. s # <<>>
  OBVIOUS
<1> HIDE DEF s
<1>3. \A k \in 1..(Len(s) - 1) : s[k + 1] \in After(cl, s[k])
  <2>1. Len(s) - 1 = 1 /\ 1..1 = {1}
    BY <1>1
  <2>2. s[1 + 1] \in After(cl, s[1])
    BY <1>1
  <2> QED
    BY <2>1, <2>2
<1>4. \A op : After(cl, op) \subseteq After(cl, b) => Replaces(cl, s, op)
  BY <1>1, <1>3 DEF Replaces
<1> QED
  BY <1>1, <1>2, <1>4 DEF s

LEMMA Three ==
  ASSUME NEW cl, NEW S, NEW a \in S, NEW b \in S, NEW d \in S,
         b \in After(cl, a), d \in After(cl, b)
  PROVE  /\ <<a, b, d>> \in Seq(S) /\ <<a, b, d>> # <<>> /\ <<a, b, d>>[1] = a
         /\ \A op : After(cl, op) \subseteq After(cl, d) => Replaces(cl, <<a, b, d>>, op)
<1> DEFINE s == <<a, b, d>>
<1>1. s \in Seq(S) /\ Len(s) = 3 /\ s[1] = a /\ s[2] = b /\ s[3] = d
  OBVIOUS
<1>2. s # <<>>
  OBVIOUS
<1> HIDE DEF s
<1>3. \A k \in 1..(Len(s) - 1) : s[k + 1] \in After(cl, s[k])
  <2>1. Len(s) - 1 = 2 /\ 1..2 = {1, 2}
    BY <1>1
  <2>2. s[1 + 1] \in After(cl, s[1]) /\ s[2 + 1] \in After(cl, s[2])
    BY <1>1
  <2> QED
    BY <2>1, <2>2
<1>4. \A op : After(cl, op) \subseteq After(cl, d) => Replaces(cl, s, op)
  BY <1>1, <1>3 DEF Replaces
<1> QED
  BY <1>1, <1>2, <1>4 DEF s

(* A step that changes nothing but the command that makes it.               *)
LEMMA Stays ==
  ASSUME Inv, UNCHANGED <<config, route, svc, inst, files, detached, bounds>>,
         waived' \in BOOLEAN, waived => waived',
         NEW c \in Cmds, cmd[c].todo # <<>>, Acted(c),
         Lacking' /\ Pending(c) => Pending(c)'
  PROVE  Inv'
<1>1. World' /\ World
  BY Types DEF Inv, World, bounds
<1>2. SvcInv'
  BY DEF Inv, SvcInv, Listener, Bridge
<1>3. ForceInv'
  <2>1. Lacking' => Lacking
    BY DEF Lacking, Agrees, Listener
  <2>2. \A d \in Cmds : d # c => cmd'[d] = cmd[d]
    BY DEF Acted
  <2> QED
    BY <2>1, <2>2, ForceKept DEF Inv
<1>4. Frame(0)
  BY <1>1 DEF Frame, World, Configs, Listener, Bridge
<1>5. begun' = begun
  BY DEF bounds
<1> QED
  BY <1>1, <1>2, <1>3, <1>4, <1>5, Settles

LEMMA Becomes ==
  ASSUME Inv, UNCHANGED <<config, route, svc, inst, files, detached, bounds>>,
         waived' \in BOOLEAN, waived => waived',
         NEW c \in Cmds, NEW op, At(c, op),
         NEW e \in Commands, e.class = cmd[c].class, e.boot = cmd[c].boot, Steady(e), Bounded(e),
         NEW more \in Seq(Ops), Advance(c, more, e),
         more # <<>> => Replaces(cmd[c].class, more, op),
         \A next : next \in (IF more = <<>> THEN After(cmd[c].class, op) ELSE {more[1]})
                     => Does(e, next),
         Lacking' /\ Pending(c) => Pending(c)'
  PROVE  Inv'
<1>1. PICK m : m = cmd[c]
  OBVIOUS
<1>2. /\ World /\ cmd \in [Cmds -> Commands] /\ config.rev \in Nat /\ begun \in Nat
      /\ m \in Commands /\ m.todo # <<>> /\ Head(m.todo) = op
      /\ Busy(m) /\ Bounded(m)
  BY <1>1, Acting
<1>3. config' = config /\ begun' = begun
  BY DEF bounds
<1>4. Bounded(e)' /\ m.boot <= begun'
  BY <1>2, <1>3 DEF Bounded
<1>5. ASSUME NEW next, next \in (IF more = <<>> THEN After(m.class, op) ELSE {more[1]})
      PROVE  Does(e, next)'
  <2>1. Does(e, next)
    BY <1>1, <1>5
  <2> QED
    BY <2>1 DEF Does, Draft, Undecided, NotifyInv, BridgeInv, ReadyInv, Fresh, BridgeCurrent,
         Listener, Bridge
<1>6. Acted(c)
  BY <1>1, <1>2, <1>3, <1>4, <1>5, Moves
<1> QED
  BY <1>1, <1>2, <1>6, Stays

LEMMA Skips ==
  ASSUME Inv, UNCHANGED <<config, route, svc, inst, files, history, bounds>>,
         NEW c \in Cmds, NEW op, At(c, op), NEW more \in Seq(Ops), Skip(c, more),
         more # <<>> => Replaces(cmd[c].class, more, op),
         \A next : next \in (IF more = <<>> THEN After(cmd[c].class, op) ELSE {more[1]})
                     => Does(cmd[c], next),
         Lacking' /\ Pending(c) => Pending(c)'
  PROVE  Inv'
<1>1. PICK m : m = cmd[c]
  OBVIOUS
<1>2. World /\ m \in Commands /\ Busy(m) /\ Bounded(m)
  BY <1>1, Acting
<1>3. Advance(c, more, m) /\ Steady(m)
  BY <1>1, <1>2 DEF Skip, Busy
<1>4. waived' \in BOOLEAN /\ (waived => waived') /\ UNCHANGED detached
  BY <1>2 DEF World, history
<1> QED
  BY <1>1, <1>2, <1>3, <1>4, Becomes

(* ... or that gives the command up.                                        *)
LEMMA GivesUp ==
  ASSUME Inv, UNCHANGED <<config, route, svc, inst, files, history, bounds>>,
         NEW c \in Cmds, NEW op, At(c, op), Fail(c),
         op \notin Halting
  PROVE  Inv'
<1>1. /\ World /\ cmd \in [Cmds -> Commands] /\ config.rev \in Nat /\ begun \in Nat
      /\ cmd[c].todo # <<>> /\ Head(cmd[c].todo) = op
  BY Acting
<1>2. waived' = waived /\ detached' = detached /\ waived \in BOOLEAN /\ config'.rev \in Nat /\ begun' \in Nat
  BY <1>1 DEF history, bounds, World
<1>3. Acted(c)
  BY <1>1, <1>2, Fails
<1>4. ~Pending(c)
  BY <1>1 DEF Pending
<1> QED
  BY <1>1, <1>2, <1>3, <1>4, Stays

(* Steps that may take the place of op, none of them missing.               *)
Fits(cl, more, op) == more \in Seq(Ops) /\ more # <<>> /\ Replaces(cl, more, op)

LEMMA FitOne ==
  ASSUME NEW cl, NEW op, NEW a \in Ops, After(cl, op) \subseteq After(cl, a)
  PROVE  Fits(cl, <<a>>, op) /\ <<a>>[1] = a
BY One DEF Fits

LEMMA FitTwo ==
  ASSUME NEW cl, NEW op, NEW a \in Ops, NEW b \in Ops, b \in After(cl, a),
         After(cl, op) \subseteq After(cl, b)
  PROVE  Fits(cl, <<a, b>>, op) /\ <<a, b>>[1] = a
BY Two DEF Fits

LEMMA FitThree ==
  ASSUME NEW cl, NEW op, NEW a \in Ops, NEW b \in Ops, NEW d \in Ops,
         b \in After(cl, a), d \in After(cl, b), After(cl, op) \subseteq After(cl, d)
  PROVE  Fits(cl, <<a, b, d>>, op) /\ <<a, b, d>>[1] = a
BY Three DEF Fits

LEMMA ListenerSteps ==
  ASSUME NEW cl, cl # "restart"
  PROVE  /\ Fits(cl, <<"write">>, "read")
         /\ Fits(cl, <<"stop">>, "apply") /\ Fits(cl, <<"ensure">>, "apply")
         /\ Fits(cl, <<"start">>, "apply") /\ Fits(cl, <<"ensure", "start">>, "apply")
         /\ Fits(cl, <<"ensure", "startAgain">>, "start")
         /\ Fits(cl, <<"prepare", "launch", "ready">>, "start")
         /\ Fits(cl, <<"prepare", "launch", "ready">>, "startAgain")
         /\ Fits(cl, <<"clean">>, "stop") /\ Fits(cl, <<"halt", "clean">>, "stop")
         /\ Fits(cl, <<"clean">>, "uninstall") /\ Fits(cl, <<"remove", "clean">>, "uninstall")
         /\ Fits(cl, <<"halt", "remove", "clean">>, "uninstall")
         /\ Fits(cl, <<"stop", "apply">>, "refresh")
<1>1. Fits(cl, <<"write">>, "read")
  BY Table, FitOne DEF Ops
<1>2. Fits(cl, <<"stop">>, "apply")
  BY Table, FitOne DEF Ops
<1>3. Fits(cl, <<"ensure">>, "apply")
  BY Table, FitOne DEF Ops
<1>4. Fits(cl, <<"start">>, "apply")
  BY Table, FitOne DEF Ops
<1>5. Fits(cl, <<"ensure", "start">>, "apply")
  <2>1. "start" \in After(cl, "ensure") /\ After(cl, "apply") \subseteq After(cl, "start")
    BY Table
  <2>2. "ensure" \in Ops /\ "start" \in Ops
    BY DEF Ops
  <2> QED
    BY <2>1, <2>2, FitTwo
<1>6. Fits(cl, <<"ensure", "startAgain">>, "start")
  <2>1. "startAgain" \in After(cl, "ensure") /\ After(cl, "start") \subseteq After(cl, "startAgain")
    BY Table
  <2>2. "ensure" \in Ops /\ "startAgain" \in Ops
    BY DEF Ops
  <2> QED
    BY <2>1, <2>2, FitTwo
<1>7. Fits(cl, <<"prepare", "launch", "ready">>, "start")
  <2>1. "launch" \in After(cl, "prepare") /\ "ready" \in After(cl, "launch") /\ After(cl, "start") \subseteq After(cl, "ready")
    BY Table
  <2>2. "prepare" \in Ops /\ "launch" \in Ops /\ "ready" \in Ops
    BY DEF Ops
  <2> QED
    BY <2>1, <2>2, FitThree
<1>8. Fits(cl, <<"prepare", "launch", "ready">>, "startAgain")
  <2>1. "launch" \in After(cl, "prepare") /\ "ready" \in After(cl, "launch") /\ After(cl, "startAgain") \subseteq After(cl, "ready")
    BY Table
  <2>2. "prepare" \in Ops /\ "launch" \in Ops /\ "ready" \in Ops
    BY DEF Ops
  <2> QED
    BY <2>1, <2>2, FitThree
<1>9. Fits(cl, <<"clean">>, "stop")
  BY Table, FitOne DEF Ops
<1>10. Fits(cl, <<"halt", "clean">>, "stop")
  <2>1. "clean" \in After(cl, "halt") /\ After(cl, "stop") \subseteq After(cl, "clean")
    BY Table
  <2>2. "halt" \in Ops /\ "clean" \in Ops
    BY DEF Ops
  <2> QED
    BY <2>1, <2>2, FitTwo
<1>11. Fits(cl, <<"clean">>, "uninstall")
  BY Table, FitOne DEF Ops
<1>12. Fits(cl, <<"remove", "clean">>, "uninstall")
  <2>1. "clean" \in After(cl, "remove") /\ After(cl, "uninstall") \subseteq After(cl, "clean")
    BY Table
  <2>2. "remove" \in Ops /\ "clean" \in Ops
    BY DEF Ops
  <2> QED
    BY <2>1, <2>2, FitTwo
<1>13. Fits(cl, <<"halt", "remove", "clean">>, "uninstall")
  <2>1. "remove" \in After(cl, "halt") /\ "clean" \in After(cl, "remove") /\ After(cl, "uninstall") \subseteq After(cl, "clean")
    BY Table
  <2>2. "halt" \in Ops /\ "remove" \in Ops /\ "clean" \in Ops
    BY DEF Ops
  <2> QED
    BY <2>1, <2>2, FitThree
<1>14. Fits(cl, <<"stop", "apply">>, "refresh")
  <2>1. "apply" \in After(cl, "stop") /\ After(cl, "refresh") \subseteq After(cl, "apply")
    BY Table
  <2>2. "stop" \in Ops /\ "apply" \in Ops
    BY DEF Ops
  <2> QED
    BY <2>1, <2>2, FitTwo
<1> QED
  BY <1>1, <1>2, <1>3, <1>4, <1>5, <1>6, <1>7, <1>8, <1>9, <1>10, <1>11, <1>12, <1>13, <1>14

LEMMA BridgeSteps ==
  ASSUME NEW cl, cl # "restart"
  PROVE  /\ Fits(cl, <<"bridgeEnsure", "bridgeStart">>, "bridge")
         /\ Fits(cl, <<"bridgeStop", "bridgeLaunch">>, "bridge")
         /\ Fits(cl, <<"bridgeStart">>, "bridge")
         /\ Fits(cl, <<"bridgeEnsure", "bridgeLaunch">>, "bridgeStart")
         /\ Fits(cl, <<"bridgeLaunch">>, "bridgeStart")
<1>1. Fits(cl, <<"bridgeEnsure", "bridgeStart">>, "bridge")
  <2>1. "bridgeStart" \in After(cl, "bridgeEnsure") /\ After(cl, "bridge") \subseteq After(cl, "bridgeStart")
    BY Table
  <2>2. "bridgeEnsure" \in Ops /\ "bridgeStart" \in Ops
    BY DEF Ops
  <2> QED
    BY <2>1, <2>2, FitTwo
<1>2. Fits(cl, <<"bridgeStop", "bridgeLaunch">>, "bridge")
  <2>1. "bridgeLaunch" \in After(cl, "bridgeStop") /\ After(cl, "bridge") \subseteq After(cl, "bridgeLaunch")
    BY Table
  <2>2. "bridgeStop" \in Ops /\ "bridgeLaunch" \in Ops
    BY DEF Ops
  <2> QED
    BY <2>1, <2>2, FitTwo
<1>3. Fits(cl, <<"bridgeStart">>, "bridge")
  BY Table, FitOne DEF Ops
<1>4. Fits(cl, <<"bridgeEnsure", "bridgeLaunch">>, "bridgeStart")
  <2>1. "bridgeLaunch" \in After(cl, "bridgeEnsure") /\ After(cl, "bridgeStart") \subseteq After(cl, "bridgeLaunch")
    BY Table
  <2>2. "bridgeEnsure" \in Ops /\ "bridgeLaunch" \in Ops
    BY DEF Ops
  <2> QED
    BY <2>1, <2>2, FitTwo
<1>5. Fits(cl, <<"bridgeLaunch">>, "bridgeStart")
  BY Table, FitOne DEF Ops
<1> QED
  BY <1>1, <1>2, <1>3, <1>4, <1>5

LEMMA RestartSteps ==
  Fits("restart", <<"prepare", "halt", "launch", "ready">>, "restart")
<1> DEFINE s == <<"prepare", "halt", "launch", "ready">>
<1>1. s \in Seq(Ops)
  BY DEF Ops
<1>2. Len(s) = 4 /\ s[1] = "prepare" /\ s[2] = "halt" /\ s[3] = "launch" /\ s[4] = "ready"
  OBVIOUS
<1>3. s # <<>>
  OBVIOUS
<1> HIDE DEF s
<1>4. \A k \in 1..(Len(s) - 1) : s[k + 1] \in After("restart", s[k])
  <2>1. Len(s) - 1 = 3 /\ 1..3 = {1, 2, 3}
    BY <1>2
  <2>2. /\ s[1 + 1] \in After("restart", s[1]) /\ s[2 + 1] \in After("restart", s[2])
        /\ s[3 + 1] \in After("restart", s[3])
    BY <1>2, RestartTable
  <2> QED
    BY <2>1, <2>2
<1>5. After("restart", "restart") \subseteq After("restart", s[Len(s)])
  BY <1>2, RestartTable
<1> QED
  BY <1>1, <1>3, <1>4, <1>5 DEF Fits, Replaces, s

(***************************************************************************)
(* The steps of a command that change nothing else                         *)
(***************************************************************************)
(* What holds at one step of what holds at the next.                        *)
LEMMA Passes ==
  ASSUME NEW m, NEW op, NEW next, Does(m, op),
         next # "write", m.outcome # "none" /\ m.class # "restart" => next \in Bridging \union {"end"},
         \/ op \notin Early \union {"stop", "halt"}
         \/ next \in Early \union {"stop", "halt"}
         \/ ~(Notifying(m) /\ ~detached /\ m.outcome # "off")
         \/ Fresh(m.seen.rev),
         \/ op \in (Bridging \ {"bridge", "bridgeStop"})
         \/ next \notin (Bridging \ {"bridge", "bridgeStop"}) \union {"end"}
         \/ m.class # "hermes"
         \/ BridgeCurrent,
         \/ op \in {"prepare", "launch", "ready"}
         \/ next \notin {"prepare", "launch", "ready"}
         \/ m.class = "restart"
         \/ Fresh(m.seen.rev) /\ files.status.boot # m.boot,
         \/ op \notin {"launch", "ready", "end"} \union Bridging
         \/ next \in {"launch", "ready", "end"} \union Bridging
  PROVE  Does(m, next)
<1>1. Draft(m, next) /\ Undecided(m, next)
  BY DEF Draft, Undecided
<1>2. NotifyInv(m, next)
  BY DEF Does, NotifyInv
<1>3. BridgeInv(m, next)
  BY DEF Does, BridgeInv
<1>4. ReadyInv(m, next)
  BY DEF Does, ReadyInv
<1> QED
  BY <1>1, <1>2, <1>3, <1>4 DEF Does

Quiet == UNCHANGED <<config, route, svc, inst, files, history, bounds>>

(* A command puts other steps in the place of its first one.                *)
LEMMA Turns ==
  ASSUME Inv, Quiet, NEW c \in Cmds, NEW op, At(c, op), NEW more, Skip(c, more),
         Fits(cmd[c].class, more, op), Does(cmd[c], more[1]), op \notin Halting
  PROVE  Inv'
<1>1. ~Pending(c)
  BY Acting DEF Pending, Halting
<1> QED
  BY <1>1, Skips DEF Fits, Quiet

(* ... or goes on to the next one.                                          *)
LEMMA GoesOn ==
  ASSUME Inv, Quiet, NEW c \in Cmds, NEW op, At(c, op), Skip(c, <<>>),
         \A next \in After(cmd[c].class, op) : Does(cmd[c], next), op \notin Halting
  PROVE  Inv'
<1>1. ~Pending(c)
  BY Acting DEF Pending, Halting
<1>2. <<>> \in Seq(Ops)
  OBVIOUS
<1> QED
  BY <1>1, <1>2, Skips DEF Quiet

LEMMA Applies ==
  ASSUME Inv, NEW c \in Cmds, ApplyRuntimePolicy(c)
  PROVE  Inv'
<1>1. At(c, "apply") /\ Quiet /\ "apply" \notin Halting
  BY DEF ApplyRuntimePolicy, Quiet, Halting
<1>2. PICK m : m = cmd[c]
  OBVIOUS
<1>3. Does(m, "apply") /\ m.class # "restart"
  BY <1>1, <1>2, Acting, Restarting
<1>4. ASSUME NEW next \in {"stop", "ensure", "start", LastOf(m.class)} PROVE Does(m, next)
  BY <1>3, <1>4, Passes DEF Early, Bridging, Does, Undecided, LastOf
<1>5. \/ Skip(c, <<>>) \/ Skip(c, <<"stop">>) \/ Skip(c, <<"ensure">>)
      \/ Skip(c, <<"ensure", "start">>) \/ Skip(c, <<"start">>)
  BY DEF ApplyRuntimePolicy
<1>6. CASE Skip(c, <<>>)
  BY <1>1, <1>2, <1>3, <1>4, <1>6, GoesOn, Table
<1>7. CASE Skip(c, <<"stop">>)
  BY <1>1, <1>2, <1>3, <1>4, <1>7, Turns, ListenerSteps
<1>8. CASE Skip(c, <<"ensure">>)
  BY <1>1, <1>2, <1>3, <1>4, <1>8, Turns, ListenerSteps
<1>9. CASE Skip(c, <<"ensure", "start">>)
  BY <1>1, <1>2, <1>3, <1>4, <1>9, Turns, ListenerSteps
<1>10. CASE Skip(c, <<"start">>)
  BY <1>1, <1>2, <1>3, <1>4, <1>10, Turns, ListenerSteps
<1> QED
  BY <1>5, <1>6, <1>7, <1>8, <1>9, <1>10

LEMMA StaysPending ==
  ASSUME Inv, NEW c \in Cmds, NEW op, At(c, op),
         NEW e \in Commands, e.class = cmd[c].class, NEW more \in Seq(Ops), Advance(c, more, e),
         more # <<>> => Replaces(cmd[c].class, more, op),
         \A next : next \in (IF more = <<>> THEN After(cmd[c].class, op) ELSE {more[1]})
                     => next \in Halting
  PROVE  (Notifying(cmd[c]) => Pending(c)') /\ (Pending(c) => Pending(c)')
<1>1. PICK m : m = cmd[c]
  OBVIOUS
<1> DEFINE rest == more \o Tail(m.todo)
<1>2. /\ cmd \in [Cmds -> Commands] /\ m \in Commands /\ m.todo \in Seq(Ops) /\ m.todo # <<>>
      /\ Head(m.todo) = op /\ Linked(m.class, m.todo)
  BY <1>1, Acting DEF Commands, Busy
<1>3. Tail(m.todo) \in Seq(Ops)
  BY <1>2, HeadTailProperties
<1>4. FirstOf(rest) \in Halting
  <2>1. CASE more = <<>>
    <3>1. rest = Tail(m.todo)
      BY <1>3, <2>1
    <3>2. FirstOf(rest) \in After(m.class, op)
      BY <3>1, <1>2, Follows
    <3> QED
      BY <3>2, <2>1, <1>1
  <2>2. CASE more # <<>>
    <3>1. rest # <<>> /\ Head(rest) = more[1]
      BY <2>2, <1>1, <1>2, Prefixed
    <3> QED
      BY <3>1, <2>2 DEF FirstOf
  <2> QED
    BY <2>1, <2>2
<1>5. rest # <<>> /\ Head(rest) \in Halting
  BY <1>4 DEF FirstOf, Halting
<1>6. cmd' = [cmd EXCEPT ![c] = [e EXCEPT !.todo = rest]]
  BY <1>1, <1>5 DEF Advance
<1>7. cmd'[c].todo = rest /\ cmd'[c].class = m.class
  BY <1>1, <1>2, <1>6 DEF Commands
<1> HIDE DEF rest
<1> QED
  BY <1>1, <1>5, <1>7 DEF Pending, Notifying

LEMMA Starts ==
  ASSUME Inv, NEW c \in Cmds, StartService(c)
  PROVE  Inv'
<1>1. PICK op \in {"start", "startAgain"} :
        /\ At(c, op) /\ Quiet
        /\ \/ Fail(c)
           \/ op = "start" /\ Skip(c, <<"ensure", "startAgain">>)
           \/ svc["listener"].installed /\ Running("listener") /\ Skip(c, <<>>)
           \/ svc["listener"].installed /\ ~Running("listener") /\ Skip(c, <<"prepare", "launch", "ready">>)
  BY DEF StartService, Quiet
<1>2. PICK m : m = cmd[c]
  OBVIOUS
<1>3. Does(m, op) /\ m.class # "restart" /\ op \notin Halting
  BY <1>1, <1>2, Acting, Restarting DEF Halting
<1>4. ASSUME NEW next \in {"ensure", LastOf(m.class)} PROVE Does(m, next)
  BY <1>1, <1>3, <1>4, Passes DEF Early, Bridging, Does, Undecided, LastOf
<1>5. CASE Fail(c)
  BY <1>1, <1>3, <1>5, GivesUp DEF Halting, Quiet
<1>6. CASE op = "start" /\ Skip(c, <<"ensure", "startAgain">>)
  BY <1>1, <1>2, <1>3, <1>4, <1>6, Turns, ListenerSteps
<1>7. CASE Skip(c, <<>>)
  BY <1>1, <1>2, <1>3, <1>4, <1>7, GoesOn, Table
<1>8. CASE svc["listener"].installed /\ ~Running("listener") /\ Skip(c, <<"prepare", "launch", "ready">>)
  <2>1. Fresh(m.seen.rev)
    BY <1>8 DEF Inv, SvcInv, Services, Running, Fresh, Listener
  <2>2. files.status.boot # m.boot
    BY <1>1, <1>3 DEF Does, ReadyInv, Bridging
  <2>3. Does(m, "prepare")
    BY <1>1, <1>3, <2>1, <2>2, Passes DEF Early, Bridging, Does, Undecided
  <2> QED
    BY <1>1, <1>2, <1>3, <1>8, <2>3, Turns, ListenerSteps
<1> QED
  BY <1>1, <1>5, <1>6, <1>7, <1>8

(* A listener that is not installed, or not wanted, does not run, unless    *)
(* its unit was removed under it.                                           *)
LEMMA NotRunning ==
  ASSUME Inv, ~Running("listener"), ~detached
  PROVE  Listener.st = "none"
BY DEF Inv, SvcInv, Services, Running, Listener

LEMMA Stops ==
  ASSUME Inv, NEW c \in Cmds, StopService(c)
  PROVE  Inv'
<1>1. /\ At(c, "stop") /\ Quiet
      /\ \/ ~Running("listener") /\ Skip(c, <<>>)
         \/ Running("listener") /\ Skip(c, <<"halt", "clean">>)
         \/ ~Running("listener") /\ Skip(c, <<"clean">>)
  BY DEF StopService, Quiet, Running
<1>2. PICK m : m = cmd[c]
  OBVIOUS
<1>3. /\ Does(m, "stop") /\ m.class # "restart" /\ m.todo # <<>> /\ Head(m.todo) = "stop"
      /\ m \in Commands /\ cmd \in [Cmds -> Commands]
  BY <1>1, <1>2, Acting, Restarting
<1>4. CASE ~Running("listener")
  <2>1. ASSUME NEW next \in {"apply", "clean", LastOf(m.class)} PROVE Does(m, next)
    <3>1. ~detached => Fresh(m.seen.rev)
      BY <1>4, NotRunning DEF Fresh
    <3> QED
      BY <1>3, <2>1, <3>1, Passes DEF Early, Bridging, Does, Undecided, LastOf
  <2>2. ~Lacking'
    <3>1. Listener.st # "none" => detached
      BY <1>4, NotRunning
    <3> QED
      BY <1>1, <3>1 DEF Lacking, Quiet, history, Listener
  <2>3. CASE Skip(c, <<>>)
    <3>1. <<>> \in Seq(Ops) /\ After(m.class, "stop") = {"apply", LastOf(m.class)}
      BY <1>3, Table
    <3> QED
      BY <1>1, <1>2, <2>1, <2>2, <2>3, <3>1, Skips DEF Quiet
  <2>4. CASE Skip(c, <<"clean">>)
    BY <1>1, <1>2, <1>3, <2>1, <2>2, <2>4, Skips, ListenerSteps DEF Quiet, Fits
  <2> QED
    BY <1>1, <1>4, <2>3, <2>4
<1>5. CASE Running("listener") /\ Skip(c, <<"halt", "clean">>)
  <2>1. Does(m, "halt")
    BY <1>3, Passes DEF Early, Bridging, Does, Undecided
  <2>2. Pending(c) => Pending(c)'
    BY <1>1, <1>2, <1>3, <1>5, StaysPending, ListenerSteps DEF Skip, Fits, Halting
  <2> QED
    BY <1>1, <1>2, <1>3, <1>5, <2>1, <2>2, Skips, ListenerSteps DEF Quiet, Fits
<1> QED
  BY <1>1, <1>4, <1>5

LEMMA Restarts ==
  ASSUME Inv, NEW c \in Cmds, RestartService(c)
  PROVE  Inv'
<1>1. At(c, "restart") /\ Quiet /\ "restart" \notin Halting
  BY DEF RestartService, Quiet, Halting
<1>2. PICK m : m = cmd[c]
  OBVIOUS
<1>3. /\ m.todo \in Seq(Ops) /\ m.todo # <<>> /\ Linked(m.class, m.todo)
      /\ Head(m.todo) = "restart" /\ Does(m, "restart")
  BY <1>1, <1>2, Acting DEF Commands, Busy
<1>4. m.class = "restart"
  <2>1. FirstOf(Tail(m.todo)) \in After(m.class, "restart")
    BY <1>3, Follows
  <2> QED
    BY <2>1, Table
<1>5. CASE Fail(c)
  BY <1>1, <1>5, GivesUp DEF Halting, Quiet
<1>6. CASE Skip(c, <<"prepare", "halt", "launch", "ready">>)
  <2>1. Does(m, "prepare")
    BY <1>3, <1>4, Passes DEF Notifying, Bridging, Early
  <2> QED
    BY <1>1, <1>2, <1>4, <1>6, <2>1, Turns, RestartSteps
<1> QED
  BY <1>5, <1>6 DEF RestartService

LEMMA Uninstalls ==
  ASSUME Inv, NEW c \in Cmds, Uninstall(c)
  PROVE  Inv'
<1>1. At(c, "uninstall") /\ Quiet /\ "uninstall" \notin Halting
  BY DEF Uninstall, Quiet, Halting
<1>2. PICK m : m = cmd[c]
  OBVIOUS
<1>3. Does(m, "uninstall") /\ m.class # "restart"
  BY <1>1, <1>2, Acting, Restarting
<1>4. ASSUME NEW next \in {"clean", "halt", "remove"} PROVE Does(m, next)
  BY <1>3, <1>4, Passes DEF Early, Bridging, Does, Undecided
<1>5. \/ Skip(c, <<"clean">>) \/ Skip(c, <<"halt", "remove", "clean">>) \/ Skip(c, <<"remove", "clean">>)
  BY DEF Uninstall
<1>6. CASE Skip(c, <<"clean">>)
  BY <1>1, <1>2, <1>3, <1>4, <1>6, Turns, ListenerSteps
<1>7. CASE Skip(c, <<"halt", "remove", "clean">>)
  BY <1>1, <1>2, <1>3, <1>4, <1>7, Turns, ListenerSteps
<1>8. CASE Skip(c, <<"remove", "clean">>)
  BY <1>1, <1>2, <1>3, <1>4, <1>8, Turns, ListenerSteps
<1> QED
  BY <1>5, <1>6, <1>7, <1>8

LEMMA BridgeApplies ==
  ASSUME Inv, NEW c \in Cmds, BridgeApply(c)
  PROVE  Inv'
<1>1. /\ At(c, "bridge") /\ Quiet /\ "bridge" \notin Halting
      /\ \/ Fail(c)
         \/ ~Running("bridge") /\ Skip(c, <<"bridgeEnsure", "bridgeStart">>)
         \/ Skip(c, <<"bridgeStop", "bridgeLaunch">>)
         \/ ~Running("bridge") /\ Skip(c, <<"bridgeStart">>)
  BY DEF BridgeApply, Quiet, Halting, Running
<1>2. PICK m : m = cmd[c]
  OBVIOUS
<1>3. Does(m, "bridge") /\ m.class # "restart"
  BY <1>1, <1>2, Acting, Restarting
<1>4. CASE Fail(c)
  BY <1>1, <1>4, GivesUp DEF Quiet
<1>5. CASE Skip(c, <<"bridgeStop", "bridgeLaunch">>)
  <2>1. Does(m, "bridgeStop")
    BY <1>3, Passes DEF Early, Bridging
  <2> QED
    BY <1>1, <1>2, <1>3, <1>5, <2>1, Turns, BridgeSteps
<1>6. CASE ~Running("bridge")
  <2>1. BridgeCurrent
    BY <1>6 DEF Inv, SvcInv, Services, Running, BridgeCurrent, Bridge
  <2>2. ASSUME NEW next \in {"bridgeEnsure", "bridgeStart"} PROVE Does(m, next)
    BY <1>3, <2>1, <2>2, Passes DEF Early, Bridging
  <2>3. CASE Skip(c, <<"bridgeEnsure", "bridgeStart">>)
    BY <1>1, <1>2, <1>3, <2>2, <2>3, Turns, BridgeSteps
  <2>4. CASE Skip(c, <<"bridgeStart">>)
    BY <1>1, <1>2, <1>3, <2>2, <2>4, Turns, BridgeSteps
  <2> QED
    BY <1>1, <1>4, <1>5, <1>6, <2>3, <2>4
<1> QED
  BY <1>1, <1>4, <1>5, <1>6

LEMMA BridgeStarts ==
  ASSUME Inv, NEW c \in Cmds, BridgeStartService(c)
  PROVE  Inv'
<1>1. /\ At(c, "bridgeStart") /\ Quiet /\ "bridgeStart" \notin Halting
      /\ \/ Fail(c) \/ Skip(c, <<"bridgeEnsure", "bridgeLaunch">>)
         \/ Skip(c, <<>>) \/ Skip(c, <<"bridgeLaunch">>)
  BY DEF BridgeStartService, Quiet, Halting
<1>2. PICK m : m = cmd[c]
  OBVIOUS
<1>3. Does(m, "bridgeStart") /\ m.class # "restart"
  BY <1>1, <1>2, Acting, Restarting
<1>4. ASSUME NEW next \in {"bridgeEnsure", "bridgeLaunch", "end"} PROVE Does(m, next)
  BY <1>3, <1>4, Passes DEF Early, Bridging
<1>5. CASE Fail(c)
  BY <1>1, <1>5, GivesUp DEF Quiet
<1>6. CASE Skip(c, <<"bridgeEnsure", "bridgeLaunch">>)
  BY <1>1, <1>2, <1>3, <1>4, <1>6, Turns, BridgeSteps
<1>7. CASE Skip(c, <<>>)
  <2>1. After(m.class, "bridgeStart") = {"end"}
    BY <1>3, Table
  <2> QED
    BY <1>1, <1>2, <1>4, <1>7, <2>1, GoesOn
<1>8. CASE Skip(c, <<"bridgeLaunch">>)
  BY <1>1, <1>2, <1>3, <1>4, <1>8, Turns, BridgeSteps
<1> QED
  BY <1>1, <1>5, <1>6, <1>7, <1>8

LEMMA Waits ==
  ASSUME Inv, NEW c \in Cmds, waitForServiceStatus(c)
  PROVE  Inv'
<1>1. /\ At(c, "ready") /\ Quiet /\ "ready" \notin Halting
      /\ \/ /\ files.status.boot = cmd[c].boot
            /\ Advance(c, <<>>, [cmd[c] EXCEPT !.got = files.status.rev, !.outcome = "ready"])
         \/ Skip(c, <<>>)
  BY DEF waitForServiceStatus, serviceStatusReady, StatusFor, Quiet, Halting
<1>2. PICK m : m = cmd[c]
  OBVIOUS
<1>3. /\ World /\ m \in Commands /\ Busy(m) /\ Bounded(m) /\ Does(m, "ready")
      /\ m.todo # <<>> /\ Head(m.todo) = "ready"
  BY <1>1, <1>2, Acting
<1>4. After(m.class, "ready") \subseteq {"bridge", "end"} /\ (m.class = "hermes" => "end" \notin After(m.class, "ready"))
  BY Table, RestartTable DEF LastOf
<1>5. CASE Skip(c, <<>>)
  <2>1. ASSUME NEW next \in After(m.class, "ready") PROVE Does(m, next)
    BY <1>3, <1>4, <2>1, Passes DEF Early, Bridging
  <2> QED
    BY <1>1, <1>2, <1>5, <2>1, GoesOn
<1>6. CASE /\ files.status.boot = m.boot
           /\ Advance(c, <<>>, [m EXCEPT !.got = files.status.rev, !.outcome = "ready"])
  <2>1. PICK e : e = [m EXCEPT !.got = files.status.rev, !.outcome = "ready"]
    OBVIOUS
  <2>2. /\ e \in Commands /\ e.class = m.class /\ e.boot = m.boot /\ e.seen = m.seen
        /\ e.draft = m.draft /\ e.change = m.change /\ e.outcome = "ready" /\ e.got = files.status.rev
    BY <1>3, <2>1 DEF Commands, World
  <2>3. Steady(e) /\ Bounded(e)
    BY <1>3, <2>2 DEF Steady, Bounded, Busy
  <2>4. ASSUME NEW next \in After(m.class, "ready") PROVE Does(e, next)
    <3>1. next \in {"bridge", "end"} /\ (next = "end" => m.class # "hermes")
      BY <1>4, <2>4
    <3>2. m.outcome # "none" => m.class = "restart"
      BY <1>3 DEF Does, Undecided, Bridging
    <3>3. Notifying(e) /\ ~detached => Fresh(e.seen.rev)
      BY <1>3, <2>2, <3>2 DEF Does, NotifyInv, Notifying, Early
    <3>4. e.class # "restart" => e.got >= e.seen.rev
      BY <1>3, <1>6, <2>2 DEF Does, ReadyInv
    <3> QED
      BY <2>2, <3>1, <3>3, <3>4
         DEF Does, Draft, Undecided, NotifyInv, BridgeInv, ReadyInv, Bridging, Early
  <2>5. ~Pending(c)
    BY <1>1, <1>2, <1>3 DEF Pending
  <2>6. <<>> \in Seq(Ops) /\ (waived' \in BOOLEAN /\ (waived => waived') /\ UNCHANGED detached)
    BY <1>1, <1>3 DEF Quiet, history, World
  <2>7. Advance(c, <<>>, e)
    BY <1>6, <2>1
  <2> QED
    BY <1>1, <1>2, <2>2, <2>3, <2>4, <2>5, <2>6, <2>7, Becomes DEF Quiet
<1> QED
  BY <1>1, <1>2, <1>5, <1>6

LEMMA Reads ==
  ASSUME Inv, NEW c \in Cmds, ReadFileConfig(c)
  PROVE  Inv'
<1>1. At(c, "read") /\ Quiet /\ Advance(c, <<"write">>, [cmd[c] EXCEPT !.draft = config])
  BY DEF ReadFileConfig, Quiet
<1>2. PICK m : m = cmd[c]
  OBVIOUS
<1>3. /\ World /\ m \in Commands /\ Busy(m) /\ Bounded(m) /\ Does(m, "read") /\ m.class # "restart"
      /\ m.todo # <<>> /\ Head(m.todo) = "read"
  BY <1>1, <1>2, Acting, Restarting
<1>4. PICK e : e = [m EXCEPT !.draft = config]
  OBVIOUS
<1>5. /\ e \in Commands /\ e.class = m.class /\ e.boot = m.boot /\ e.seen = m.seen
      /\ e.draft = config /\ e.change = m.change /\ e.outcome = m.outcome /\ e.got = m.got
  BY <1>3, <1>4 DEF Commands, World
<1>6. Steady(e) /\ Bounded(e)
  BY <1>3, <1>5 DEF Steady, Bounded, Busy, World, Configs
<1>7. Does(e, "write")
  BY <1>3, <1>5 DEF Does, Draft, Undecided, NotifyInv, Notifying, BridgeInv, ReadyInv, Bridging, Early
<1>8. ~Pending(c)
  BY <1>2, <1>3 DEF Pending, Halting
<1>9. waived' \in BOOLEAN /\ (waived => waived') /\ UNCHANGED detached
  BY <1>1, <1>3 DEF Quiet, history, World
<1>10. Fits(m.class, <<"write">>, "read") /\ <<"write">>[1] = "write"
  BY <1>3, ListenerSteps
<1>11. Advance(c, <<"write">>, e)
  BY <1>1, <1>2, <1>4
<1> QED
  BY <1>1, <1>2, <1>5, <1>6, <1>7, <1>8, <1>9, <1>10, <1>11, Becomes DEF Quiet, Fits

LEMMA Resolves ==
  ASSUME Inv, NEW c \in Cmds, resolveConfigForWorkspace(c)
  PROVE  Inv'
<1>1. At(c, "resolve") /\ Quiet /\ Advance(c, <<>>, [cmd[c] EXCEPT !.seen = Policy(config)])
  BY DEF resolveConfigForWorkspace, Quiet
<1>2. PICK m : m = cmd[c]
  OBVIOUS
<1>3. /\ World /\ m \in Commands /\ Busy(m) /\ Bounded(m) /\ Does(m, "resolve")
      /\ m.todo # <<>> /\ Head(m.todo) = "resolve"
  BY <1>1, <1>2, Acting
<1>4. PICK e : e = [m EXCEPT !.seen = Policy(config)]
  OBVIOUS
<1>5. /\ e \in Commands /\ e.class = m.class /\ e.boot = m.boot /\ e.seen.rev = config.rev
      /\ e.draft = m.draft /\ e.change = m.change /\ e.outcome = m.outcome /\ e.got = m.got
  BY <1>3, <1>4 DEF Commands, World, Policy, Configs
<1>6. Steady(e) /\ Bounded(e)
  BY <1>3, <1>5 DEF Steady, Bounded, Busy, World, Configs
<1>7. After(m.class, "resolve") \subseteq
        IF m.class = "restart" THEN {"restart"}
        ELSE IF m.class = "plain" THEN {"apply", "start", "stop", "ensure", "uninstall", "end"}
        ELSE {"refresh", "route"}
  BY <1>3, Table, RestartTable DEF Busy, Steady, Classes
<1>8. ASSUME NEW next \in After(m.class, "resolve") PROVE Does(e, next)
  BY <1>3, <1>5, <1>7, <1>8
     DEF Does, Draft, Undecided, NotifyInv, Notifying, BridgeInv, ReadyInv, Bridging, Early
<1>9. Pending(c) => Pending(c)'
  <2>1. SUFFICES ASSUME Notifying(m) PROVE Pending(c) => Pending(c)'
    BY <1>2 DEF Pending
  <2>2. \A next \in After(m.class, "resolve") : next \in Halting
    BY <1>7, <2>1 DEF Notifying, Halting
  <2>3. <<>> \in Seq(Ops) /\ Advance(c, <<>>, e)
    BY <1>1, <1>2, <1>4
  <2> QED
    BY <1>1, <1>2, <1>5, <2>2, <2>3, StaysPending
<1>10. waived' \in BOOLEAN /\ (waived => waived') /\ UNCHANGED detached
  BY <1>1, <1>3 DEF Quiet, history, World
<1>11. <<>> \in Seq(Ops) /\ Advance(c, <<>>, e)
  BY <1>1, <1>2, <1>4
<1> QED
  BY <1>1, <1>2, <1>5, <1>6, <1>8, <1>9, <1>10, <1>11, Becomes DEF Quiet

(* A listener that runs is stopped; one that does not has read nothing, and *)
(* where the policy is off the change is left for later.                    *)
LEMMA Refreshes ==
  ASSUME Inv, NEW c \in Cmds, refreshListenerForHostNotifyChange(c)
  PROVE  Inv'
<1>1. /\ At(c, "refresh") /\ UNCHANGED <<config, route, svc, inst, files, detached, bounds>>
      /\ waived' = (waived \/ ~PolicyOn(cmd[c].seen))
      /\ \/ ~PolicyOn(cmd[c].seen) /\ Advance(c, <<>>, [cmd[c] EXCEPT !.outcome = "off"])
         \/ ~Running("listener") /\ Skip(c, <<>>)
         \/ Skip(c, <<"stop", "apply">>)
  BY DEF refreshListenerForHostNotifyChange
<1>2. PICK m : m = cmd[c]
  OBVIOUS
<1>3. /\ World /\ m \in Commands /\ Busy(m) /\ Bounded(m) /\ Does(m, "refresh") /\ m.class # "restart"
      /\ m.todo # <<>> /\ Head(m.todo) = "refresh"
  BY <1>1, <1>2, Acting, Restarting
<1>4. Steady(m) /\ waived \in BOOLEAN
  BY <1>3 DEF Busy, World
<1>5. waived' \in BOOLEAN /\ (waived => waived')
  BY <1>1, <1>4
<1>6. /\ After(m.class, "refresh") = {LastOf(m.class)} /\ <<>> \in Seq(Ops)
      /\ Fits(m.class, <<"stop", "apply">>, "refresh") /\ <<"stop", "apply">>[1] = "stop"
  BY <1>3, Table, ListenerSteps
<1>7. CASE ~PolicyOn(m.seen) /\ Advance(c, <<>>, [m EXCEPT !.outcome = "off"])
  <2>1. PICK e : e = [m EXCEPT !.outcome = "off"]
    OBVIOUS
  <2>2. /\ e \in Commands /\ e.class = m.class /\ e.boot = m.boot /\ e.seen = m.seen
        /\ e.draft = m.draft /\ e.change = m.change /\ e.outcome = "off" /\ e.got = m.got
    BY <1>3, <2>1 DEF Commands
  <2>3. Steady(e) /\ Bounded(e)
    BY <1>3, <1>4, <2>2 DEF Steady, Bounded
  <2>4. Does(e, LastOf(m.class))
    BY <1>3, <2>2 DEF Does, Draft, Undecided, NotifyInv, BridgeInv, ReadyInv, Bridging, LastOf
  <2>5. ~Lacking'
    BY <1>1, <1>2, <1>4, <1>7 DEF Lacking
  <2>6. Advance(c, <<>>, e)
    BY <1>7, <2>1
  <2> QED
    BY <1>1, <1>2, <1>5, <1>6, <2>2, <2>3, <2>4, <2>5, <2>6, Becomes
<1>8. CASE ~Running("listener") /\ Skip(c, <<>>)
  <2>1. Listener.st # "none" => detached
    BY <1>8, NotRunning
  <2>2. Does(m, LastOf(m.class))
    <3>1. ~detached => Fresh(m.seen.rev)
      BY <2>1 DEF Fresh
    <3> QED
      BY <1>3, <3>1, Passes DEF Early, Bridging, Does, Undecided, LastOf
  <2>3. ~Lacking'
    BY <1>1, <2>1 DEF Lacking, Listener
  <2>4. Advance(c, <<>>, m)
    BY <1>2, <1>8 DEF Skip
  <2> QED
    BY <1>1, <1>2, <1>3, <1>4, <1>5, <1>6, <2>2, <2>3, <2>4, Becomes
<1>9. CASE Skip(c, <<"stop", "apply">>)
  <2>1. Does(m, "stop")
    BY <1>3, Passes DEF Early, Bridging, Does, Undecided
  <2>2. Advance(c, <<"stop", "apply">>, m)
    BY <1>2, <1>9 DEF Skip
  <2>3. Pending(c) => Pending(c)'
    BY <1>1, <1>2, <1>3, <1>6, <2>2, StaysPending DEF Fits, Halting
  <2> QED
    BY <1>1, <1>2, <1>3, <1>4, <1>5, <1>6, <2>1, <2>2, <2>3, Becomes DEF Fits
<1> QED
  BY <1>1, <1>2, <1>7, <1>8, <1>9

(***************************************************************************)
(* The steps of a command that change the world                            *)
(***************************************************************************)
(* A step after which what holds of its command is what the next step asks. *)
LEMMA Ends ==
  ASSUME Inv, World', NEW c \in Cmds, NEW op, At(c, op), Skip(c, <<>>), begun' = begun,
         config'.rev = config.rev,
         NEW m, m = cmd[c], \A next \in After(m.class, op) : Does(m, next)'
  PROVE  Acted(c)
<1>1. /\ World /\ cmd \in [Cmds -> Commands] /\ config.rev \in Nat /\ begun \in Nat
      /\ m \in Commands /\ m.todo # <<>> /\ Head(m.todo) = op
      /\ Busy(m) /\ Bounded(m)
  BY Acting
<1>2. Bounded(m)' /\ m.boot <= begun' /\ config'.rev \in Nat /\ begun' \in Nat /\ Steady(m)
  BY <1>1 DEF Bounded, Busy
<1>3. <<>> \in Seq(Ops) /\ Advance(c, <<>>, m)
  BY DEF Skip
<1> QED
  BY <1>1, <1>2, <1>3, Moves

(* The service of the listener is installed, or started.                    *)
LEMMA Serves ==
  ASSUME Inv, NEW c \in Cmds, NEW op \in {"ensure", "launch", "bridgeEnsure", "bridgeLaunch"},
         At(c, op), NEW s \in Services, NEW f \in {"installed", "wanted"},
         svc' = [svc EXCEPT ![s][f] = TRUE], Skip(c, <<>>),
         UNCHANGED <<config, route, inst, files, history, bounds>>
  PROVE  Inv'
<1>1. PICK m : m = cmd[c]
  OBVIOUS
<1>2. World /\ Does(m, op) /\ m.todo # <<>> /\ Head(m.todo) = op
  BY <1>1, Acting
<1>3. /\ svc' \in [Services -> [installed : BOOLEAN, wanted : BOOLEAN]]
      /\ \A t \in Services : /\ svc[t].installed => svc'[t].installed
                             /\ svc[t].wanted => svc'[t].wanted
  BY <1>2 DEF World
<1>4. World'
  BY <1>2, <1>3 DEF World, history, bounds
<1>5. SvcInv'
  BY <1>2, <1>3 DEF Inv, SvcInv, Services, Listener, Bridge, history
<1>6. ForceInv'
  <2>1. (Lacking' => Lacking) /\ ~Pending(c)
    BY <1>1, <1>2 DEF Lacking, Agrees, Listener, history, Pending, Halting
  <2>2. \A d \in Cmds : d # c => cmd'[d] = cmd[d]
    BY <1>2, <1>1, Acting DEF Skip, Advance
  <2> QED
    BY <2>1, <2>2, ForceKept DEF Inv
<1>7. Frame(0)
  BY <1>2 DEF Frame, World, Configs, Listener, Bridge, history
<1>8. \A next \in After(m.class, op) : Does(m, next)'
  <2> SUFFICES ASSUME NEW next \in After(m.class, op) PROVE Does(m, next)'
    OBVIOUS
  <2>1. Does(m, next)
    <3>1. CASE op = "ensure"
      <4>1. m.class # "restart" /\ next \in {"start", "startAgain", LastOf(m.class)}
        BY <1>1, <3>1, Restarting, Table
      <4> QED
        BY <1>2, <3>1, <4>1, Passes DEF Early, Bridging, Does, Undecided, LastOf
    <3>2. CASE op = "launch"
      <4>1. next = "ready"
        BY <3>2, Table, RestartTable
      <4> QED
        BY <1>2, <3>2, <4>1, Passes DEF Early, Bridging, Does, Undecided
    <3>3. CASE op = "bridgeEnsure"
      <4>1. m.class # "restart" /\ next \in {"bridgeStart", "bridgeLaunch"}
        BY <1>1, <3>3, Restarting, Table
      <4> QED
        BY <1>2, <3>3, <4>1, Passes DEF Early, Bridging
    <3>4. CASE op = "bridgeLaunch"
      <4>1. m.class # "restart" /\ next = "end"
        BY <1>1, <3>4, Restarting, Table
      <4> QED
        BY <1>2, <3>4, <4>1, Passes DEF Early, Bridging
    <3> QED
      BY <3>1, <3>2, <3>3, <3>4
  <2> QED
    BY <2>1 DEF Does, Draft, Undecided, NotifyInv, BridgeInv, ReadyInv, Fresh, BridgeCurrent,
         Listener, Bridge, history
<1>9. Acted(c)
  <2>1. begun' = begun /\ config' = config /\ config.rev \in Nat
    BY <1>2 DEF bounds, World, Configs
  <2> QED
    BY <1>1, <1>4, <1>8, <2>1, Ends
<1>10. begun' = begun
  BY DEF bounds
<1> QED
  BY <1>1, <1>2, <1>4, <1>5, <1>6, <1>7, <1>9, <1>10, Settles

LEMMA Installs ==
  ASSUME Inv, NEW c \in Cmds, EnsureInstalled(c)
  PROVE  Inv'
BY Serves DEF EnsureInstalled, Services

LEMMA Launches ==
  ASSUME Inv, NEW c \in Cmds, Launch(c)
  PROVE  Inv'
<1>1. At(c, "launch") /\ UNCHANGED <<config, route, inst, files, history, bounds>>
  BY DEF Launch
<1>2. CASE svc' = [svc EXCEPT !["listener"].wanted = TRUE] /\ Skip(c, <<>>)
  BY <1>1, <1>2, Serves DEF Services
<1>3. CASE Fail(c) /\ UNCHANGED svc
  BY <1>1, <1>3, GivesUp DEF Halting
<1> QED
  BY <1>2, <1>3 DEF Launch, Started

LEMMA BridgeInstalls ==
  ASSUME Inv, NEW c \in Cmds, BridgeEnsureInstalled(c)
  PROVE  Inv'
<1>1. At(c, "bridgeEnsure") /\ UNCHANGED <<config, route, inst, files, history, bounds>>
  BY DEF BridgeEnsureInstalled
<1>2. CASE svc' = [svc EXCEPT !["bridge"].installed = TRUE] /\ Skip(c, <<>>)
  BY <1>1, <1>2, Serves DEF Services
<1>3. CASE Fail(c) /\ UNCHANGED svc
  BY <1>1, <1>3, GivesUp DEF Halting
<1> QED
  BY <1>2, <1>3 DEF BridgeEnsureInstalled

LEMMA BridgeLaunches ==
  ASSUME Inv, NEW c \in Cmds, BridgeLaunch(c)
  PROVE  Inv'
BY Serves DEF BridgeLaunch, Started, Services

(* The others' steps stay as they are.                                      *)
LEMMA OthersStay ==
  ASSUME Inv, NEW c \in Cmds, Skip(c, <<>>)
  PROVE  \A d \in Cmds : d # c => cmd'[d] = cmd[d]
BY DEF Skip, Advance, Inv, TypeOK

LEMMA Removes ==
  ASSUME Inv, NEW c \in Cmds, Remove(c)
  PROVE  Inv'
<1>1. /\ At(c, "remove") /\ svc' = [svc EXCEPT !["listener"].installed = FALSE] /\ Skip(c, <<>>)
      /\ detached' = (detached \/ svc["listener"].wanted)
      /\ UNCHANGED <<config, route, inst, files, waived, begun, faults>>
  BY DEF Remove, bounds
<1>2. PICK m : m = cmd[c]
  OBVIOUS
<1>3. World /\ Does(m, "remove") /\ m.class # "restart" /\ m.todo # <<>> /\ Head(m.todo) = "remove"
  BY <1>1, <1>2, Acting, Restarting
<1>4. /\ svc' \in [Services -> [installed : BOOLEAN, wanted : BOOLEAN]]
      /\ \A s \in Services : svc'[s].wanted = svc[s].wanted
      /\ svc'["bridge"] = svc["bridge"] /\ (detached => detached') /\ detached' \in BOOLEAN
  BY <1>1, <1>3 DEF World, Services
<1>5. World'
  BY <1>1, <1>3, <1>4 DEF World
<1>6. SvcInv'
  BY <1>1, <1>4 DEF Inv, SvcInv, Services, Listener, Bridge
<1>7. ForceInv'
  <2>1. (Lacking' => Lacking) /\ ~Pending(c)
    BY <1>1, <1>2, <1>3, <1>4 DEF Lacking, Agrees, Listener, Pending, Halting
  <2> QED
    BY <1>1, <2>1, OthersStay, ForceKept DEF Inv
<1>8. Frame(0)
  BY <1>1, <1>3, <1>4 DEF Frame, World, Configs, Listener, Bridge
<1>9. \A next \in After(m.class, "remove") : Does(m, next)'
  <2>1. After(m.class, "remove") = {"clean"}
    BY <1>3, Table
  <2>2. Does(m, "clean")
    BY <1>3, Passes DEF Early, Bridging, Does, Undecided
  <2>3. Does(m, "clean")'
    BY <1>1, <1>4, <2>2 DEF Does, Draft, Undecided, NotifyInv, BridgeInv, ReadyInv, Fresh,
         BridgeCurrent, Listener, Bridge
  <2> QED
    BY <2>1, <2>3
<1>10. Acted(c)
  BY <1>1, <1>2, <1>5, <1>9, Ends
<1> QED
  BY <1>1, <1>2, <1>3, <1>5, <1>6, <1>7, <1>8, <1>10, Settles

(* The listener is stopped, and its files are left or removed.              *)
LEMMA Halts ==
  ASSUME Inv, NEW c \in Cmds, Halt(c)
  PROVE  Inv'
<1>1. /\ At(c, "halt") /\ svc' = [svc EXCEPT !["listener"].wanted = FALSE] /\ Skip(c, <<>>)
      /\ inst' = [inst EXCEPT !["listener"] = NoProcess]
      /\ files' = files \/ files' = NoFiles
      /\ UNCHANGED <<config, route, waived, detached, begun, faults>>
  BY DEF Halt, serviceProgramStop, bounds, history
<1>2. PICK m : m = cmd[c]
  OBVIOUS
<1>3. World /\ Does(m, "halt") /\ m.todo # <<>> /\ Head(m.todo) = "halt" /\ Busy(m)
  BY <1>1, <1>2, Acting
<1>4. /\ NoProcess \in Instances /\ NoProcess.st = "none" /\ NoProcess.boot = 0 /\ NoProcess.cfg.rev = 0
      /\ NoFiles.boot = 0 /\ NoFiles.status = [boot |-> 0, rev |-> 0]
      /\ NoFiles \in [status : [boot : Nat, rev : Nat], socket : BOOLEAN, boot : Nat]
  BY DEF NoProcess, NoFiles, Instances, Loaded, Resolve, Modes, Sinks, Secret
<1>5. /\ inst' \in [Services -> Instances] /\ inst'["listener"] = NoProcess
      /\ inst'["bridge"] = inst["bridge"]
      /\ svc' \in [Services -> [installed : BOOLEAN, wanted : BOOLEAN]]
      /\ svc'["bridge"] = svc["bridge"]
      /\ files' \in [status : [boot : Nat, rev : Nat], socket : BOOLEAN, boot : Nat]
  BY <1>1, <1>3, <1>4 DEF World, Services
<1>6. World'
  BY <1>1, <1>3, <1>4, <1>5 DEF World, Services, Configs
<1>7. SvcInv'
  BY <1>1, <1>4, <1>5 DEF Inv, SvcInv, Services, Listener, Bridge
<1>8. ForceInv'
  BY <1>4, <1>5 DEF ForceInv, Lacking, Listener
<1>9. Frame(0)
  BY <1>1, <1>3, <1>4, <1>5 DEF Frame, World, Configs, Listener, Bridge
<1>10. \A next \in After(m.class, "halt") : Does(m, next)'
  <2> SUFFICES ASSUME NEW next \in After(m.class, "halt") PROVE Does(m, next)'
    OBVIOUS
  <2>1. (m.class = "restart" /\ next = "launch") \/ (m.class # "restart" /\ next \in {"clean", "remove"})
    <3>1. CASE m.class = "restart"
      <4>1. After(m.class, "halt") = {"launch"}
        BY <3>1, RestartTable
      <4> QED
        BY <3>1, <4>1
    <3>2. CASE m.class # "restart"
      <4>1. After(m.class, "halt") = {"clean", "remove"}
        BY <3>2, Table
      <4> QED
        BY <3>2, <4>1
    <3> QED
      BY <3>1, <3>2
  <2>2. m.boot # 0
    BY <1>3 DEF Busy, Steady
  <2>3. Fresh(m.seen.rev)'
    BY <1>4, <1>5 DEF Fresh, Listener
  <2> QED
    BY <1>1, <1>3, <1>4, <1>5, <2>1, <2>2, <2>3
       DEF Does, Draft, Undecided, NotifyInv, Notifying, BridgeInv, ReadyInv, Early, Bridging, Listener
<1>11. Acted(c)
  BY <1>1, <1>2, <1>6, <1>10, Ends
<1> QED
  BY <1>1, <1>2, <1>3, <1>6, <1>7, <1>8, <1>9, <1>11, Settles

LEMMA BridgeStops ==
  ASSUME Inv, NEW c \in Cmds, bridgeProgramStop(c)
  PROVE  Inv'
<1>1. /\ At(c, "bridgeStop") /\ svc' = [svc EXCEPT !["bridge"].wanted = FALSE] /\ Skip(c, <<>>)
      /\ inst' = [inst EXCEPT !["bridge"] = NoProcess]
      /\ UNCHANGED <<config, route, files, waived, detached, begun, faults>>
  BY DEF bridgeProgramStop, bounds, history
<1>2. PICK m : m = cmd[c]
  OBVIOUS
<1>3. World /\ Does(m, "bridgeStop") /\ m.todo # <<>> /\ Head(m.todo) = "bridgeStop" /\ m.class # "restart"
  BY <1>1, <1>2, Acting, Restarting
<1>4. NoProcess \in Instances /\ NoProcess.st = "none" /\ NoProcess.boot = 0 /\ NoProcess.cfg.rev = 0
  BY DEF NoProcess, Instances, Loaded, Resolve, Modes, Sinks, Secret
<1>5. /\ inst' \in [Services -> Instances] /\ inst'["bridge"] = NoProcess
      /\ inst'["listener"] = inst["listener"]
      /\ svc' \in [Services -> [installed : BOOLEAN, wanted : BOOLEAN]]
      /\ svc'["listener"] = svc["listener"]
  BY <1>1, <1>3, <1>4 DEF World, Services
<1>6. World'
  BY <1>1, <1>3, <1>4, <1>5 DEF World, Services, Configs
<1>7. SvcInv'
  BY <1>1, <1>4, <1>5 DEF Inv, SvcInv, Services, Listener, Bridge
<1>8. ForceInv'
  <2>1. (Lacking' => Lacking) /\ ~Pending(c)
    BY <1>1, <1>2, <1>3, <1>5 DEF Lacking, Agrees, Listener, Pending, Halting
  <2> QED
    BY <1>1, <2>1, OthersStay, ForceKept DEF Inv
<1>9. Frame(0)
  BY <1>1, <1>3, <1>4, <1>5 DEF Frame, World, Configs, Listener, Bridge
<1>10. \A next \in After(m.class, "bridgeStop") : Does(m, next)'
  <2>1. After(m.class, "bridgeStop") = {"bridgeLaunch"}
    BY <1>3, Table
  <2>2. BridgeCurrent' /\ (Fresh(m.seen.rev) => Fresh(m.seen.rev)')
    BY <1>1, <1>4, <1>5 DEF BridgeCurrent, Bridge, Fresh, Listener
  <2>3. Does(m, "bridgeLaunch")'
    BY <1>1, <1>3, <2>2
       DEF Does, Draft, Undecided, NotifyInv, Notifying, BridgeInv, ReadyInv, Early, Bridging
  <2> QED
    BY <2>1, <2>3
<1>11. Acted(c)
  BY <1>1, <1>2, <1>6, <1>10, Ends
<1> QED
  BY <1>1, <1>2, <1>3, <1>6, <1>7, <1>8, <1>9, <1>11, Settles

(* A step that changes files, and what it makes of them.                    *)
LEMMA Prepares ==
  ASSUME Inv, NEW c \in Cmds, prepareExpectedBootID(c)
  PROVE  Inv'
<1>1. /\ At(c, "prepare") /\ files' = [files EXCEPT !.boot = cmd[c].boot] /\ Skip(c, <<>>)
      /\ UNCHANGED <<config, route, svc, inst, waived, detached, begun, faults>>
  BY DEF prepareExpectedBootID, bounds, history
<1>2. PICK m : m = cmd[c]
  OBVIOUS
<1>3. /\ World /\ Does(m, "prepare") /\ m.todo # <<>> /\ Head(m.todo) = "prepare" /\ Bounded(m)
      /\ m \in Commands
  BY <1>1, <1>2, Acting
<1>4. /\ files' \in [status : [boot : Nat, rev : Nat], socket : BOOLEAN, boot : Nat]
      /\ files'.boot = m.boot /\ files'.status = files.status
  BY <1>1, <1>2, <1>3 DEF World, Commands
<1>5. World'
  BY <1>1, <1>3, <1>4 DEF World, Bounded
<1>6. SvcInv'
  BY <1>1 DEF Inv, SvcInv, Services, Listener, Bridge
<1>7. ForceInv'
  <2>1. (Lacking' => Lacking) /\ ~Pending(c)
    BY <1>1, <1>2, <1>3 DEF Lacking, Agrees, Listener, Pending, Halting
  <2> QED
    BY <1>1, <2>1, OthersStay, ForceKept DEF Inv
<1>8. Frame(m.boot)
  BY <1>1, <1>3, <1>4 DEF Frame, World, Configs, Listener, Bridge
<1>9. \A next \in After(m.class, "prepare") : Does(m, next)'
  <2> SUFFICES ASSUME NEW next \in After(m.class, "prepare") PROVE Does(m, next)'
    OBVIOUS
  <2>1. (m.class = "restart" /\ next = "halt") \/ (m.class # "restart" /\ next = "launch")
    <3>1. CASE m.class = "restart"
      <4>1. After(m.class, "prepare") = {"halt"}
        BY <3>1, RestartTable
      <4> QED
        BY <3>1, <4>1
    <3>2. CASE m.class # "restart"
      <4>1. After(m.class, "prepare") = {"launch"}
        BY <3>2, Table
      <4> QED
        BY <3>2, <4>1
    <3> QED
      BY <3>1, <3>2
  <2>2. Fresh(m.seen.rev) => Fresh(m.seen.rev)'
    BY <1>1 DEF Fresh, Listener
  <2> QED
    BY <1>1, <1>3, <1>4, <2>1, <2>2
       DEF Does, Draft, Undecided, NotifyInv, Notifying, BridgeInv, ReadyInv, Early, Bridging
<1>10. Acted(c)
  BY <1>1, <1>2, <1>5, <1>9, Ends
<1> QED
  BY <1>1, <1>2, <1>3, <1>5, <1>6, <1>7, <1>8, <1>10, Settles

LEMMA Cleans ==
  ASSUME Inv, NEW c \in Cmds, cleanupRuntimeArtifacts(c)
  PROVE  Inv'
<1>1. /\ At(c, "clean") /\ files' = NoFiles /\ Skip(c, <<>>)
      /\ UNCHANGED <<config, route, svc, inst, waived, detached, begun, faults>>
  BY DEF cleanupRuntimeArtifacts, bounds, history
<1>2. PICK m : m = cmd[c]
  OBVIOUS
<1>3. /\ World /\ Does(m, "clean") /\ m.todo # <<>> /\ Head(m.todo) = "clean" /\ Busy(m)
      /\ m.class # "restart"
  BY <1>1, <1>2, Acting, Restarting
<1>4. /\ files' \in [status : [boot : Nat, rev : Nat], socket : BOOLEAN, boot : Nat]
      /\ files'.boot = 0 /\ files'.status.boot = 0
  BY <1>1 DEF NoFiles
<1>5. World'
  BY <1>1, <1>3, <1>4 DEF World
<1>6. SvcInv'
  BY <1>1 DEF Inv, SvcInv, Services, Listener, Bridge
<1>7. ForceInv'
  <2>1. (Lacking' => Lacking) /\ ~Pending(c)
    BY <1>1, <1>2, <1>3 DEF Lacking, Agrees, Listener, Pending, Halting
  <2> QED
    BY <1>1, <2>1, OthersStay, ForceKept DEF Inv
<1>8. Frame(0)
  BY <1>1, <1>3, <1>4 DEF Frame, World, Configs, Listener, Bridge
<1>9. \A next \in After(m.class, "clean") : Does(m, next)'
  <2>1. After(m.class, "clean") = {"apply", LastOf(m.class)} /\ m.boot # 0
    BY <1>3, Table DEF Busy, Steady
  <2>2. Fresh(m.seen.rev) => Fresh(m.seen.rev)'
    BY <1>1 DEF Fresh, Listener
  <2>3. ASSUME NEW next \in {"apply", LastOf(m.class)} PROVE Does(m, next)'
    BY <1>1, <1>3, <1>4, <2>1, <2>2, <2>3
       DEF Does, Draft, Undecided, NotifyInv, Notifying, BridgeInv, ReadyInv, Early, Bridging, LastOf,
           Listener
  <2> QED
    BY <2>1, <2>3
<1>10. Acted(c)
  BY <1>1, <1>2, <1>5, <1>9, Ends
<1> QED
  BY <1>1, <1>2, <1>3, <1>5, <1>6, <1>7, <1>8, <1>10, Settles

LEMMA Routes ==
  ASSUME Inv, NEW c \in Cmds, EnsureRoute(c)
  PROVE  Inv'
<1>1. /\ At(c, "route") /\ route' = TRUE /\ Skip(c, <<>>)
      /\ UNCHANGED <<config, svc, inst, files, waived, detached, begun, faults>>
  BY DEF EnsureRoute, bounds, history
<1>2. PICK m : m = cmd[c]
  OBVIOUS
<1>3. /\ World /\ Does(m, "route") /\ m.todo # <<>> /\ Head(m.todo) = "route" /\ Busy(m)
      /\ m.class # "restart" /\ m \in Commands
  BY <1>1, <1>2, Acting, Restarting
<1>4. World'
  BY <1>1, <1>3 DEF World
<1>5. SvcInv'
  BY <1>1 DEF Inv, SvcInv, Services, Listener, Bridge
<1>6. After(m.class, "route") = {"refresh"}
  BY <1>3, Table
<1>7. ForceInv'
  <2>1. Lacking' => Lacking
    BY <1>1 DEF Lacking, Agrees, Listener
  <2>2. Pending(c) => Pending(c)'
    <3>1. <<>> \in Seq(Ops) /\ Advance(c, <<>>, m)
      BY <1>1, <1>2 DEF Skip
    <3> QED
      BY <1>1, <1>2, <1>3, <1>6, <3>1, StaysPending DEF Halting
  <2> QED
    BY <1>1, <2>1, <2>2, OthersStay, ForceKept DEF Inv
<1>8. Frame(0)
  BY <1>1, <1>3 DEF Frame, World, Configs, Listener, Bridge
<1>9. Does(m, "refresh")'
  <2>1. Does(m, "refresh")
    BY <1>3, Passes DEF Early, Bridging, Does, Undecided
  <2> QED
    BY <1>1, <2>1 DEF Does, Draft, Undecided, NotifyInv, BridgeInv, ReadyInv, Fresh, BridgeCurrent,
         Listener, Bridge
<1>10. Acted(c)
  BY <1>1, <1>2, <1>4, <1>6, <1>9, Ends
<1> QED
  BY <1>1, <1>2, <1>3, <1>4, <1>5, <1>7, <1>8, <1>10, Settles

(* A write of config.yaml changes what the listener should have of it only  *)
(* for a command that goes on to stop the listener, unless it undoes the    *)
(* write of another.                                                        *)
LEMMA Writes ==
  ASSUME Inv, NEW c \in Cmds, WriteFileConfig(c)
  PROVE  Inv'
<1>1. PICK m : m = cmd[c]
  OBVIOUS
<1>2. /\ At(c, "write") /\ config' = Changed(m.change, m.draft)
      /\ waived' = (waived \/ m.draft.rev # config.rev)
      /\ Advance(c, <<>>, [m EXCEPT !.draft = Resolve, !.change = NoChange])
      /\ UNCHANGED <<route, svc, inst, files, detached, begun, faults>>
  BY <1>1 DEF WriteFileConfig, bounds
<1>3. /\ World /\ m \in Commands /\ Busy(m) /\ Bounded(m) /\ Does(m, "write") /\ m.class # "restart"
      /\ m.todo # <<>> /\ Head(m.todo) = "write" /\ config.rev \in Nat /\ cmd \in [Cmds -> Commands]
  BY <1>1, <1>2, Acting, Restarting
<1>4. config' \in Configs /\ config'.rev = config.rev + 1
  <2>1. m.draft \in Configs /\ m.change.to \in Configs
    BY <1>3 DEF Commands
  <2> QED
    BY <1>2, <1>3, <2>1 DEF Changed, Configs
<1>5. World'
  <2>1. \A s \in Services : inst[s].cfg.rev \in Nat
    BY <1>3 DEF World, Instances
  <2> QED
    BY <1>2, <1>3, <1>4, <2>1 DEF World
<1>6. PICK e : e = [m EXCEPT !.draft = Resolve, !.change = NoChange]
  OBVIOUS
<1>7. Resolve \in Configs /\ Resolve.rev = 0 /\ NoChange.of = {} /\ NoChange.to \in Configs
  BY DEF Resolve, Configs, Modes, Sinks, Secret, NoChange, Setting
<1>8. /\ e \in Commands /\ e.class = m.class /\ e.boot = m.boot /\ e.seen = m.seen
      /\ e.draft = Resolve /\ e.change = NoChange /\ e.outcome = m.outcome /\ e.got = m.got
  BY <1>3, <1>6, <1>7 DEF Commands, NoChange, Setting
<1>9. Steady(e) /\ Bounded(e)' /\ m.boot <= begun' /\ begun' \in Nat /\ config'.rev \in Nat
  <2>1. m.seen.rev \in Nat /\ begun \in Nat
    BY <1>3 DEF Commands, World
  <2> QED
    BY <1>2, <1>3, <1>4, <1>7, <1>8, <2>1 DEF Steady, Bounded, Busy
<1>10. After(m.class, "write") = {"resolve"} /\ <<>> \in Seq(Ops) /\ Advance(c, <<>>, e)
  BY <1>2, <1>3, <1>6, Table
<1>11. Does(e, "resolve")'
  BY <1>2, <1>3, <1>8
     DEF Does, Draft, Undecided, NotifyInv, Notifying, BridgeInv, ReadyInv, Early, Bridging, Listener
<1>12. Acted(c)
  BY <1>1, <1>3, <1>8, <1>9, <1>10, <1>11, Moves
<1>13. SvcInv'
  <2>1. Listener.cfg.rev \in Nat /\ Listener.cfg.rev <= config.rev
    BY <1>3 DEF World, Instances, Listener, Services
  <2> QED
    BY <1>2, <1>3, <1>4, <2>1 DEF Inv, SvcInv, Services, Listener, Bridge
<1>14. Frame(0)
  BY <1>2, <1>3, <1>4 DEF Frame, World, Configs, Listener, Bridge
<1>15. ForceInv'
  <2>1. CASE Notifying(m)
    <3>1. Pending(c)'
      BY <1>1, <1>2, <1>8, <1>10, <2>1, StaysPending DEF Halting
    <3> QED
      BY <3>1 DEF ForceInv
  <2>2. CASE ~Notifying(m)
    <3>1. m.change.of \intersect HostSettings = {}
      BY <1>3, <2>2 DEF Busy, Steady, Classes, Notifying
    <3>2. Lacking' => Lacking
      <4>1. Lacking' => ~waived /\ m.draft = config
        BY <1>2, <1>3 DEF Lacking, Does, Draft, World
      <4>2. m.draft = config => config'.on = config.on /\ config'.sink = config.sink /\ config'.secret = config.secret
        BY <1>2, <3>1 DEF Changed, HostSettings
      <4> QED
        BY <1>2, <4>1, <4>2 DEF Lacking, Agrees, Listener
    <3>3. ~Pending(c)
      BY <1>1, <1>3 DEF Pending, Halting
    <3>4. \A d \in Cmds : d # c => cmd'[d] = cmd[d]
      BY <1>12 DEF Acted
    <3> QED
      BY <3>2, <3>3, <3>4, ForceKept DEF Inv
  <2> QED
    BY <2>1, <2>2
<1> QED
  BY <1>1, <1>2, <1>3, <1>5, <1>12, <1>13, <1>14, <1>15, Settles

(***************************************************************************)
(* Steps of the services                                                   *)
(***************************************************************************)
LEMMA Unasked ==
  ASSUME Inv, World', SvcInv', ForceInv', Frame(0), UNCHANGED <<cmd, begun>>
  PROVE  Inv'
<1>1. World /\ cmd \in [Cmds -> Commands] /\ \A d \in Cmds : Bounded(cmd[d])
  BY Types DEF Inv
<1>2. config.rev \in Nat /\ config'.rev \in Nat
  BY <1>1 DEF World, Configs
<1>3. ASSUME NEW d \in Cmds PROVE Bounded(cmd[d])'
  <2>1. cmd[d].seen.rev \in Nat /\ cmd[d].draft.rev \in Nat
    BY <1>1 DEF Commands, Configs
  <2> QED
    BY <2>1, <1>1, <1>2 DEF Bounded, Frame
<1>4. TypeOK'
  BY <1>1, <1>3 DEF TypeOK, World, Bounded
<1>5. Distinct'
  BY DEF Distinct, Inv
<1>6. ASSUME NEW d \in Cmds PROVE CommandInv(d)'
  <2>1. PICK m : m = cmd[d]
    OBVIOUS
  <2>2. cmd'[d] = m /\ m \in Commands /\ Bounded(m)
    BY <1>1, <2>1
  <2>3. CASE m.todo = <<>>
    <3>1. Idle(m)
      BY <2>1, <2>3 DEF Inv, CommandInv
    <3>2. Idle(m)'
      BY <3>1, <2>2, <1>1, KeptIdle
    <3> QED
      BY <2>2, <2>3, <3>2 DEF CommandInv
  <2>4. CASE m.todo # <<>>
    <3>1. Busy(m)
      BY <2>1, <2>4 DEF Inv, CommandInv
    <3>2. Does(m, Head(m.todo))'
      BY <3>1, <2>2, <1>1, KeptDoes DEF Busy, Steady
    <3>3. Busy(m)'
      BY <3>1, <3>2 DEF Busy, Steady
    <3> QED
      BY <2>2, <2>4, <3>3 DEF CommandInv
  <2> QED
    BY <2>3, <2>4
<1> QED
  BY <1>4, <1>5, <1>6 DEF Inv

(* The listener's process becomes i.                                        *)
LEMMA Becoming ==
  ASSUME Inv, NEW i \in Instances, inst' = [inst EXCEPT !["listener"] = i],
         \/ files' = files \/ files' = NoFiles \/ files' = [files EXCEPT !.socket = TRUE]
         \/ /\ files' = [files EXCEPT !.status = [boot |-> Listener.boot, rev |-> Listener.cfg.rev]]
            /\ Listener.st # "none",
         UNCHANGED <<config, route, svc, cmd, history, begun>>, faults' \in 0..MaxFaults,
         i.cfg.rev <= config.rev, i.boot \in {Listener.boot, 0, files.boot},
         i.st # "none" => /\ svc["listener"].wanted
                          /\ svc["listener"].installed \/ detached
                          /\ i.cfg.rev = config.rev => i.cfg.secret = config.secret
                          /\ i.cfg.rev = config.rev \/ (Listener.st # "none" /\ i.cfg.rev = Listener.cfg.rev),
         Lacking' => Lacking
  PROVE  Inv'
<1>1. World
  BY Types DEF Inv
<1>2. /\ Listener.cfg.rev \in Nat /\ Listener.boot \in Nat /\ Listener.boot <= begun
      /\ files.boot \in Nat /\ files.boot <= begun /\ begun \in Nat /\ i.boot \in Nat /\ i.cfg.rev \in Nat
  BY <1>1 DEF World, Instances, Listener, Services
<1>3. /\ inst' \in [Services -> Instances] /\ inst'["listener"] = i /\ inst'["bridge"] = inst["bridge"]
      /\ \A s \in Services : inst'[s].cfg.rev <= config'.rev /\ inst'[s].boot <= begun'
  BY <1>1, <1>2 DEF World, Services
<1>4. /\ files' \in [status : [boot : Nat, rev : Nat], socket : BOOLEAN, boot : Nat]
      /\ files'.status.boot <= begun' /\ files'.boot <= begun'
      /\ files'.boot \in {files.boot, 0}
      /\ \/ files'.status = files.status \/ files'.status.boot = 0
         \/ /\ Listener.st # "none"
            /\ files'.status.boot = Listener.boot /\ files'.status.rev = Listener.cfg.rev
  <2>0. files \in [status : [boot : Nat, rev : Nat], socket : BOOLEAN, boot : Nat] /\ files.status.boot <= begun
    BY <1>1 DEF World
  <2>1. CASE files' = files
    BY <1>2, <2>0, <2>1
  <2>2. CASE files' = NoFiles
    BY <1>2, <2>0, <2>2 DEF NoFiles
  <2>3. CASE files' = [files EXCEPT !.socket = TRUE]
    BY <1>2, <2>0, <2>3
  <2>4. CASE /\ files' = [files EXCEPT !.status = [boot |-> Listener.boot, rev |-> Listener.cfg.rev]]
             /\ Listener.st # "none"
    BY <1>2, <2>0, <2>4
  <2> QED
    BY <2>1, <2>2, <2>3, <2>4
<1>5. World'
  BY <1>1, <1>3, <1>4 DEF World, history
<1>6. SvcInv'
  BY <1>3 DEF Inv, SvcInv, Services, Listener, Bridge, history
<1>7. ForceInv'
  BY DEF Inv, ForceInv, Pending, Notifying
<1>8. Frame(0)
  BY <1>1, <1>2, <1>3, <1>4 DEF Frame, World, Configs, Listener, Bridge, history
<1> QED
  BY <1>5, <1>6, <1>7, <1>8, Unasked

(* What is known of the process of the listener.                            *)
LEMMA Serving ==
  ASSUME Inv
  PROVE  /\ World /\ Listener \in Instances /\ Listener.cfg.rev <= config.rev /\ config \in Configs
         /\ Listener.st # "none" => /\ svc["listener"].wanted
                                    /\ svc["listener"].installed \/ detached
                                    /\ Listener.cfg.rev = config.rev => Listener.cfg.secret = config.secret
         /\ svc["listener"].wanted \in BOOLEAN /\ faults \in 0..MaxFaults
<1>1. World
  BY Types DEF Inv
<1>2. SvcInv
  BY DEF Inv
<1> QED
  BY <1>1, <1>2 DEF World, SvcInv, Services, Listener

LEMMA Runs ==
  ASSUME Inv, RunService
  PROVE  Inv'
<1>0. /\ svc["listener"].wanted /\ svc["listener"].installed /\ config.rev \in Nat
      /\ UNCHANGED <<config, route, svc, files, cmd, history, begun, faults>>
  BY Serving DEF RunService, Kept, bounds, Configs
<1>1. PICK i : i = [Listener EXCEPT !.st = "config", !.cfg = Loaded(config)]
  OBVIOUS
<1>2. /\ i \in Instances /\ i.st = "config" /\ i.cfg = Loaded(config) /\ i.boot = Listener.boot
      /\ i.cfg.rev = config.rev /\ i.cfg.secret = config.secret /\ i.cfg.on = config.on
      /\ i.cfg.sink = config.sink
  BY <1>1, Serving DEF Instances, Configs, Loaded
<1>3. inst' = [inst EXCEPT !["listener"] = i]
  BY <1>1, Serving DEF RunService, Listener, World
<1>4. inst'["listener"] = i
  BY <1>3, Serving DEF World, Services
<1>5. ~Lacking'
  BY <1>2, <1>4 DEF Lacking, Agrees, Listener, RunService
<1>6. /\ i.cfg.rev <= config.rev /\ faults' \in 0..MaxFaults
      /\ i.boot \in {Listener.boot, 0, files.boot}
  BY <1>0, <1>2, Serving
<1> QED
  BY <1>0, <1>2, <1>3, <1>5, <1>6, Becoming

LEMMA Builds ==
  ASSUME Inv, NewSupervisor
  PROVE  Inv'
<1>1. Listener.st = "config" /\ UNCHANGED <<config, route, svc, files, cmd, history, begun, faults>>
  BY DEF NewSupervisor, Listener, bounds
<1>2. CASE newHostNotifySink(Listener.cfg)
  <2>1. PICK i : i = [Listener EXCEPT !.st = "built", !.boot = resolveRuntimeBootID, !.cfg.secret = config.secret]
    OBVIOUS
  <2>2. files.boot \in Nat /\ config.secret \in Secret /\ config.rev \in Nat
    BY Serving DEF World, Configs
  <2>3. /\ i \in Instances /\ i.st = "built" /\ i.boot = files.boot /\ i.cfg.rev = Listener.cfg.rev
        /\ i.cfg.secret = config.secret /\ i.cfg.on = Listener.cfg.on /\ i.cfg.sink = Listener.cfg.sink
    BY <2>1, <2>2, Serving DEF Instances, resolveRuntimeBootID
  <2>4. inst' = [inst EXCEPT !["listener"] = i]
    BY <1>2, <2>1, Serving DEF NewSupervisor, Listener, World, Services
  <2>5. inst'["listener"] = i
    BY <2>4, Serving DEF World, Services
  <2>6. Lacking' => Lacking
    BY <1>1, <2>3, <2>5 DEF Lacking, Agrees, Listener, history
  <2> QED
    BY <1>1, <2>3, <2>4, <2>6, Serving, Becoming
<1>3. CASE ~newHostNotifySink(Listener.cfg)
  <2>1. PICK i : i = NoProcess
    OBVIOUS
  <2>2. i \in Instances /\ i.st = "none" /\ i.boot = 0 /\ i.cfg.rev = 0
    BY <2>1 DEF NoProcess, Instances, Loaded, Resolve, Modes, Sinks, Secret
  <2>3. inst' = [inst EXCEPT !["listener"] = i]
    BY <1>3, <2>1, Serving DEF NewSupervisor, Listener, World, Services
  <2>4. ~Lacking'
    BY <2>2, <2>3, Serving DEF Lacking, Listener, World, Services
  <2>5. 0 <= config.rev
    BY Serving DEF Configs
  <2> QED
    BY <1>1, <2>2, <2>3, <2>4, <2>5, Serving, Becoming
<1> QED
  BY <1>2, <1>3

LEMMA Supervises ==
  ASSUME Inv, SupervisorRun
  PROVE  Inv'
<1>1. PICK st \in {"idle", "status", "up"} :
        /\ Listener.st # "none" /\ inst' = [inst EXCEPT !["listener"].st = st]
        /\ \/ files' = NoFiles \/ files' = [files EXCEPT !.socket = TRUE]
           \/ files' = [files EXCEPT !.status = [boot |-> Listener.boot, rev |-> Listener.cfg.rev]]
        /\ UNCHANGED <<config, route, svc, cmd, history, begun, faults>>
  BY DEF SupervisorRun, Listener, bounds
<1>2. PICK i : i = [Listener EXCEPT !.st = st]
  OBVIOUS
<1>3. i \in Instances /\ i.st # "none" /\ i.boot = Listener.boot /\ i.cfg = Listener.cfg
  BY <1>1, <1>2, Serving DEF Instances
<1>4. inst' = [inst EXCEPT !["listener"] = i]
  BY <1>1, <1>2, Serving DEF Listener, World
<1>5. inst'["listener"] = i
  BY <1>4, Serving DEF World, Services
<1>6. Lacking' => Lacking
  BY <1>1, <1>3, <1>5 DEF Lacking, Agrees, Listener, history
<1> QED
  BY <1>1, <1>3, <1>4, <1>6, Serving, Becoming

LEMMA BridgeServes ==
  ASSUME Inv, bridgeProgramStart
  PROVE  Inv'
<1>0. inst' = [inst EXCEPT !["bridge"].st = "up", !["bridge"].cfg =
                [Loaded(Resolve) EXCEPT !.secret = config.secret]]
  BY DEF bridgeProgramStart
<1>1. Kept("bridge") /\ UNCHANGED <<config, route, svc, files, cmd, history, begun, faults>>
  BY DEF bridgeProgramStart, bounds
<1>2. World
  BY Serving
<1>3. /\ inst' \in [Services -> Instances] /\ inst'["listener"] = inst["listener"]
      /\ inst'["bridge"].st = "up" /\ inst'["bridge"].cfg.secret = config.secret
      /\ inst'["bridge"].cfg.rev = 0 /\ inst'["bridge"].boot = inst["bridge"].boot
  BY <1>0, <1>1, <1>2 DEF World, Services, Instances, Loaded, Resolve, Configs, Modes, Sinks, Secret
<1>4. World'
  <2>1. \A s \in Services : inst'[s].cfg.rev <= config'.rev /\ inst'[s].boot <= begun'
    <3>1. config' = config /\ begun' = begun /\ config.rev \in Nat
      BY <1>1, <1>2 DEF World, Configs
    <3>2. \A s \in Services : inst[s].cfg.rev <= config.rev /\ inst[s].boot <= begun
      BY <1>2 DEF World
    <3> QED
      BY <1>3, <3>1, <3>2 DEF Services
  <2> QED
    BY <1>1, <1>2, <1>3, <2>1 DEF World, history
<1>5. SvcInv'
  BY <1>1, <1>3 DEF Inv, SvcInv, Services, Listener, Bridge, history, Kept
<1>6. ForceInv'
  BY <1>1, <1>3 DEF Inv, ForceInv, Lacking, Agrees, Listener, Pending, Notifying, history
<1>7. Frame(0)
  BY <1>1, <1>2, <1>3 DEF Frame, World, Configs, Listener, Bridge, history
<1> QED
  BY <1>1, <1>4, <1>5, <1>6, <1>7, Unasked

LEMMA Crashes ==
  ASSUME Inv, NEW s \in Services, Crash(s)
  PROVE  Inv'
<1>1. /\ inst' = [inst EXCEPT ![s] = NoProcess] /\ faults < MaxFaults /\ faults' = faults + 1
      /\ UNCHANGED <<config, route, svc, files, cmd, history, begun>>
  BY DEF Crash
<1>2. World
  BY Serving
<1>3. NoProcess \in Instances /\ NoProcess.st = "none" /\ NoProcess.boot = 0 /\ NoProcess.cfg.rev = 0
  BY DEF NoProcess, Instances, Loaded, Resolve, Modes, Sinks, Secret
<1>4. /\ inst' \in [Services -> Instances]
      /\ \A t \in Services : inst'[t] = inst[t] \/ inst'[t] = NoProcess
  BY <1>1, <1>2, <1>3 DEF World
<1>5. faults' \in 0..MaxFaults
  BY <1>1, <1>2, RuntimeConstants DEF World
<1>6. World'
  <2>1. \A t \in Services : inst'[t].cfg.rev <= config'.rev /\ inst'[t].boot <= begun'
    BY <1>1, <1>2, <1>3, <1>4 DEF World, Configs
  <2> QED
    BY <1>1, <1>2, <1>4, <1>5, <2>1 DEF World, history
<1>7. SvcInv'
  BY <1>1, <1>3, <1>4 DEF Inv, SvcInv, Services, Listener, Bridge, history
<1>8. ForceInv'
  BY <1>1, <1>3, <1>4 DEF Inv, ForceInv, Lacking, Agrees, Listener, Pending, Notifying, history, Services
<1>9. Frame(0)
  BY <1>1, <1>2, <1>3, <1>4 DEF Frame, World, Configs, Listener, Bridge, history, Services
<1> QED
  BY <1>1, <1>6, <1>7, <1>8, <1>9, Unasked

LEMMA Aborts ==
  ASSUME Inv, NEW c \in Cmds, Abort(c)
  PROVE  Inv'
<1>1. /\ cmd[c].todo # <<>> /\ Fail(c) /\ faults < MaxFaults /\ faults' = faults + 1 /\ waived' = TRUE
      /\ UNCHANGED <<config, route, svc, inst, files, detached, begun>>
  BY DEF Abort
<1>2. World /\ cmd \in [Cmds -> Commands] /\ config'.rev \in Nat /\ begun' \in Nat
  BY <1>1, Types DEF Inv, World, Configs
<1>3. World'
  <2>1. faults' \in 0..MaxFaults
    BY <1>1, <1>2, RuntimeConstants DEF World
  <2> QED
    BY <1>1, <1>2, <2>1 DEF World
<1>4. SvcInv'
  BY <1>1 DEF Inv, SvcInv, Listener, Bridge
<1>5. ForceInv'
  BY <1>1 DEF ForceInv, Lacking
<1>6. Frame(0)
  BY <1>1, <1>2 DEF Frame, World, Configs, Listener, Bridge
<1>7. Acted(c)
  BY <1>1, <1>2, Fails
<1> QED
  BY <1>1, <1>3, <1>4, <1>5, <1>6, <1>7, Settles

LEMMA Reboots ==
  ASSUME Inv, Reboot
  PROVE  Inv'
<1>1. World /\ cmd \in [Cmds -> Commands] /\ \A d \in Cmds : Bounded(cmd[d])
  BY Types DEF Inv
<1>2. NoProcess \in Instances /\ NoProcess.st = "none" /\ NoProcess.boot = 0 /\ NoProcess.cfg.rev = 0
  BY DEF NoProcess, Instances, Loaded, Resolve, Modes, Sinks, Secret
<1>3. /\ inst' \in [Services -> Instances] /\ \A s \in Services : inst'[s] = NoProcess
      /\ faults' \in 0..MaxFaults /\ UNCHANGED <<config, route, files, detached, begun>>
  BY <1>1, <1>2, RuntimeConstants DEF Reboot, World
<1>4. /\ svc' \in [Services -> [installed : BOOLEAN, wanted : BOOLEAN]] /\ waived' \in BOOLEAN
  BY <1>1 DEF Reboot, World
<1>5. World'
  BY <1>1, <1>2, <1>3, <1>4 DEF World, Configs
<1>6. /\ cmd' \in [Cmds -> Commands]
      /\ \A d \in Cmds : \/ cmd[d].todo = <<>> /\ cmd'[d] = cmd[d]
                         \/ cmd'[d] = Over
  BY <1>1, Nothing DEF Reboot
<1>7. Frame(0)
  BY <1>1, <1>2, <1>3 DEF Frame, World, Configs, Listener, Bridge, Services
<1>8. SvcInv' /\ ForceInv' /\ Distinct'
  BY <1>2, <1>3, <1>6, Nothing DEF SvcInv, ForceInv, Lacking, Listener, Bridge, Services, Distinct
<1>9. ASSUME NEW d \in Cmds PROVE CommandInv(d)' /\ Bounded(cmd[d])'
  <2>1. CASE cmd'[d] = Over
    <3>1. Idle(Over)' /\ Bounded(Over)'
      BY <1>1, <1>3, Nothing DEF Idle, Notifying, Bounded, World, Configs
    <3> QED
      BY <2>1, <3>1, Nothing DEF CommandInv, Bounded
  <2>2. CASE cmd[d].todo = <<>> /\ cmd'[d] = cmd[d]
    <3>1. PICK m : m = cmd[d]
      OBVIOUS
    <3>2. m \in Commands /\ Idle(m) /\ Bounded(m)
      BY <1>1, <2>2, <3>1 DEF Inv, CommandInv
    <3>3. Idle(m)' /\ Bounded(m)'
      BY <1>1, <1>3, <1>5, <1>7, <3>2, KeptIdle DEF Bounded
    <3> QED
      BY <2>2, <3>1, <3>3 DEF CommandInv, Bounded
  <2> QED
    BY <1>6, <2>1, <2>2
<1>10. TypeOK'
  BY <1>5, <1>6, <1>9 DEF TypeOK, World, Bounded
<1> QED
  BY <1>8, <1>9, <1>10 DEF Inv

(***************************************************************************)
(* A command begins                                                        *)
(***************************************************************************)
Changes ==
  [of : SUBSET {"mode", "enabled", "autoInstall", "autoStart", "on", "sink", "secret"}, to : Configs]

(* The change a command of class cl may make.                               *)
Permitted(cl, change) ==
  change \in Changes /\ (cl = "plain" => change.of \intersect HostSettings = {})

LEMMA Begins ==
  ASSUME Inv, NEW c \in Cmds, NEW kind, NEW cl \in Classes, NEW change, Permitted(cl, change),
         NEW todo \in Seq(Ops), todo # <<>>, Linked(cl, todo), Head(todo) \in {"read", "resolve"},
         Begin(c, kind, cl, change, todo)
  PROVE  Inv'
<1>1. World /\ cmd \in [Cmds -> Commands] /\ \A d \in Cmds : Bounded(cmd[d])
  BY Types DEF Inv
<1>2. PICK n : n = [Over EXCEPT !.class = cl, !.change = change, !.todo = todo, !.boot = begun + 1]
  OBVIOUS
<1>3. /\ begun \in Nat /\ begun' = begun + 1 /\ begun' \in 0..MaxCommands /\ cmd[c].todo = <<>>
      /\ UNCHANGED <<config, route, svc, inst, files, waived, detached, faults>>
      /\ cmd' = [cmd EXCEPT ![c] = n]
  BY <1>1, <1>2, RuntimeConstants DEF Begin, World, history
<1>4. /\ n.class = cl /\ n.change = change /\ n.todo = todo /\ n.boot = begun + 1
      /\ n.seen.rev = 0 /\ n.draft.rev = 0 /\ n.outcome = "none"
  BY <1>2 DEF Over, Resolve, Policy
<1>5. n \in Commands
  <2>1. cl \in {"none", "plain", "restart", "notify", "hermes"} /\ change \in Changes /\ begun + 1 \in Nat
    BY <1>3 DEF Permitted, Classes
  <2>2. Over \in Commands
    BY Nothing
  <2> QED
    BY <1>2, <2>1, <2>2 DEF Commands, Changes
<1>6. /\ cmd' \in [Cmds -> Commands] /\ cmd'[c] = n /\ \A d \in Cmds : d # c => cmd'[d] = cmd[d]
  BY <1>1, <1>3, <1>5
<1>7. World'
  BY <1>1, <1>3 DEF World, Instances
<1>8. Frame(0)
  BY <1>1, <1>3 DEF Frame, World, Configs, Listener, Bridge
<1>9. SvcInv' /\ (Lacking' => Lacking) /\ ~Pending(c)
  BY <1>3 DEF Inv, SvcInv, Listener, Bridge, Lacking, Agrees, Pending
<1>10. ForceInv'
  BY <1>6, <1>9, ForceKept DEF Inv
<1>11. Distinct'
  <2>1. \A d \in Cmds : cmd[d].boot \in Nat /\ cmd[d].boot < begun + 1
    BY <1>1, <1>3 DEF Commands, Bounded
  <2> QED
    BY <1>4, <1>6, <2>1 DEF Inv, Distinct
<1>12. Busy(n)'
  <2>1. Head(todo) \in Early /\ Head(todo) # "write"
    BY DEF Early
  <2>2. /\ files'.boot # n.boot /\ files'.status.boot # n.boot /\ Listener'.boot # n.boot
    BY <1>1, <1>3, <1>4 DEF World, Listener, Services, Instances
  <2>3. Does(n, Head(todo))'
    BY <1>4, <2>1, <2>2 DEF Does, Draft, Undecided, NotifyInv, BridgeInv, ReadyInv, Early, Bridging
  <2> QED
    BY <1>3, <1>4, <2>3 DEF Busy, Steady, Permitted
<1>13. ASSUME NEW d \in Cmds PROVE Bounded(cmd[d])' /\ CommandInv(d)'
  <2>1. CASE d = c
    <3>1. Bounded(n)'
      BY <1>1, <1>3, <1>4 DEF Bounded, World, Configs
    <3> QED
      BY <1>4, <1>6, <1>12, <2>1, <3>1 DEF Bounded, CommandInv
  <2>2. CASE d # c
    <3>1. PICK m : m = cmd[d]
      OBVIOUS
    <3>2. cmd'[d] = m /\ m \in Commands /\ Bounded(m) /\ Bounded(m)'
      <4>1. m \in Commands /\ Bounded(m) /\ cmd'[d] = m
        BY <1>1, <1>6, <2>2, <3>1
      <4>2. m.boot \in Nat
        BY <4>1 DEF Commands
      <4> QED
        BY <1>3, <4>1, <4>2 DEF Bounded
    <3>3. CASE m.todo = <<>>
      <4>1. Idle(m)'
        BY <1>1, <1>7, <1>8, <3>1, <3>2, <3>3, KeptIdle DEF Inv, CommandInv
      <4> QED
        BY <3>2, <3>3, <4>1 DEF CommandInv, Bounded
    <3>4. CASE m.todo # <<>>
      <4>1. Busy(m)
        BY <3>1, <3>4 DEF Inv, CommandInv
      <4>2. Does(m, Head(m.todo))'
        BY <1>1, <1>7, <1>8, <3>2, <4>1, KeptDoes DEF Busy, Steady
      <4>3. Busy(m)'
        BY <4>1, <4>2 DEF Busy, Steady
      <4> QED
        BY <3>2, <3>4, <4>3 DEF CommandInv, Bounded
    <3> QED
      BY <3>3, <3>4
  <2> QED
    BY <2>1, <2>2
<1>14. TypeOK'
  BY <1>6, <1>7, <1>13 DEF TypeOK, World, Bounded
<1> QED
  BY <1>9, <1>10, <1>11, <1>13, <1>14 DEF Inv

(* The steps the commands begin with.                                       *)
LEMMA FitsLinks ==
  ASSUME NEW cl, NEW more, NEW op, Fits(cl, more, op), "end" \in After(cl, op)
  PROVE  Linked(cl, more) /\ more \in Seq(Ops) /\ more # <<>>
BY DEF Fits, Replaces, Linked

LEMMA Edits ==
  ASSUME NEW cl, cl # "restart", NEW t \in Seq(Ops), Linked(cl, t),
         FirstOf(t) \in After(cl, "resolve")
  PROVE  /\ Linked(cl, Edit \o t) /\ Edit \o t # <<>> /\ Edit \o t \in Seq(Ops)
         /\ Head(Edit \o t) = "read"
<1>1. "read" \in Ops /\ "resolve" \in Ops /\ "resolve" \in After(cl, "read")
  BY Table DEF Ops
<1>2. Edit \in Seq(Ops) /\ Edit # <<>> /\ Edit[1] = "read" /\ Edit[2] = "resolve" /\ Len(Edit) = 2
  BY <1>1 DEF Edit
<1>3. \A k \in 1..(Len(Edit) - 1) : Edit[k + 1] \in After(cl, Edit[k])
  <2>1. Len(Edit) - 1 = 1 /\ 1..1 = {1}
    BY <1>2
  <2>2. Edit[1 + 1] \in After(cl, Edit[1])
    BY <1>1, <1>2
  <2> QED
    BY <2>1, <2>2
<1>4. FirstOf(t) \in After(cl, Edit[Len(Edit)])
  BY <1>2
<1> QED
  BY <1>2, <1>3, <1>4, Joined

LEMMA FirstSteps ==
  /\ \A x \in {"apply", "start", "stop", "ensure", "uninstall"} :
       /\ <<"resolve", x>> \in Seq(Ops) /\ <<"resolve", x>> # <<>>
       /\ Linked("plain", <<"resolve", x>>) /\ Head(<<"resolve", x>>) = "resolve"
  /\ /\ <<"resolve", "restart">> \in Seq(Ops) /\ <<"resolve", "restart">> # <<>>
     /\ Linked("restart", <<"resolve", "restart">>) /\ Head(<<"resolve", "restart">>) = "resolve"
<1>1. ASSUME NEW cl, NEW x \in Ops, x \in After(cl, "resolve"), "end" \in After(cl, x)
      PROVE  /\ <<"resolve", x>> \in Seq(Ops) /\ <<"resolve", x>> # <<>>
             /\ Linked(cl, <<"resolve", x>>) /\ Head(<<"resolve", x>>) = "resolve"
  <2>1. "resolve" \in Ops
    BY DEF Ops
  <2>2. Fits(cl, <<"resolve", x>>, x) /\ <<"resolve", x>>[1] = "resolve"
    BY <1>1, <2>1, FitTwo
  <2>3. Linked(cl, <<"resolve", x>>)
    BY <1>1, <2>2, FitsLinks
  <2>4. Head(<<"resolve", x>>) = <<"resolve", x>>[1]
    BY <2>2 DEF Fits
  <2> QED
    BY <2>2, <2>3, <2>4 DEF Fits
<1>2. ASSUME NEW x \in {"apply", "start", "stop", "ensure", "uninstall"}
      PROVE  x \in Ops /\ x \in After("plain", "resolve") /\ "end" \in After("plain", x)
  <2>1. x \in Ops
    BY <1>2 DEF Ops
  <2>2. x \in After("plain", "resolve")
    BY <1>2, Table
  <2>3. LastOf("plain") = "end"
    BY DEF LastOf
  <2>4. "end" \in After("plain", x)
    BY <1>2, <2>3, Table
  <2> QED
    BY <2>1, <2>2, <2>4
<1>3. "restart" \in Ops /\ "restart" \in After("restart", "resolve") /\ "end" \in After("restart", "restart")
  BY RestartTable DEF Ops
<1> QED
  BY <1>1, <1>2, <1>3

(* ... after an edit of config.yaml.                                        *)
LEMMA EditSteps ==
  /\ \A t \in {<<>>, <<"apply">>} :
       /\ Edit \o t \in Seq(Ops) /\ Edit \o t # <<>>
       /\ Linked("plain", Edit \o t) /\ Head(Edit \o t) = "read"
  /\ LET t == <<"refresh">> IN
       /\ Edit \o t \in Seq(Ops) /\ Edit \o t # <<>>
       /\ Linked("notify", Edit \o t) /\ Head(Edit \o t) = "read"
  /\ LET t == <<"route", "refresh", "bridge">> IN
       /\ Edit \o t \in Seq(Ops) /\ Edit \o t # <<>>
       /\ Linked("hermes", Edit \o t) /\ Head(Edit \o t) = "read"
<1>1. LastOf("plain") = "end" /\ LastOf("notify") = "end" /\ LastOf("hermes") = "bridge"
  BY DEF LastOf
<1>2. ASSUME NEW cl, NEW more, NEW op, NEW a, cl # "restart", Fits(cl, more, op),
             "end" \in After(cl, op), more[1] = a, a \in After(cl, "resolve")
      PROVE  /\ Edit \o more \in Seq(Ops) /\ Edit \o more # <<>>
             /\ Linked(cl, Edit \o more) /\ Head(Edit \o more) = "read"
  <2>1. Linked(cl, more) /\ more \in Seq(Ops) /\ more # <<>>
    BY <1>2, FitsLinks
  <2>2. Head(more) = more[1]
    BY <2>1
  <2>3. FirstOf(more) = a
    BY <1>2, <2>1, <2>2 DEF FirstOf
  <2> QED
    BY <1>2, <2>1, <2>3, Edits
<1>3. /\ Edit \o <<>> \in Seq(Ops) /\ Edit \o <<>> # <<>>
      /\ Linked("plain", Edit \o <<>>) /\ Head(Edit \o <<>>) = "read"
  <2>1. <<>> \in Seq(Ops) /\ Linked("plain", <<>>) /\ FirstOf(<<>>) = "end"
    <3>1. Len(<<>>) = 0 /\ \A k \in 1..(0 - 1) : FALSE
      OBVIOUS
    <3> QED
      BY <3>1 DEF Linked, FirstOf
  <2>2. "end" \in After("plain", "resolve")
    BY Table
  <2> QED
    BY <2>1, <2>2, Edits
<1>4. /\ Edit \o <<"apply">> \in Seq(Ops) /\ Edit \o <<"apply">> # <<>>
      /\ Linked("plain", Edit \o <<"apply">>) /\ Head(Edit \o <<"apply">>) = "read"
  <2>1. "apply" \in Ops
    BY DEF Ops
  <2>2. Fits("plain", <<"apply">>, "apply") /\ <<"apply">>[1] = "apply"
    BY <2>1, FitOne
  <2>3. "end" \in After("plain", "apply") /\ "apply" \in After("plain", "resolve")
    BY <1>1, Table
  <2> QED
    BY <1>2, <2>2, <2>3
<1>5. /\ Edit \o <<"refresh">> \in Seq(Ops) /\ Edit \o <<"refresh">> # <<>>
      /\ Linked("notify", Edit \o <<"refresh">>) /\ Head(Edit \o <<"refresh">>) = "read"
  <2>1. "refresh" \in Ops
    BY DEF Ops
  <2>2. Fits("notify", <<"refresh">>, "refresh") /\ <<"refresh">>[1] = "refresh"
    BY <2>1, FitOne
  <2>3. "end" \in After("notify", "refresh") /\ "refresh" \in After("notify", "resolve")
    BY <1>1, Table
  <2> QED
    BY <1>2, <2>2, <2>3
<1>6. LET t == <<"route", "refresh", "bridge">> IN
        /\ Edit \o t \in Seq(Ops) /\ Edit \o t # <<>>
        /\ Linked("hermes", Edit \o t) /\ Head(Edit \o t) = "read"
  <2>1. "route" \in Ops /\ "refresh" \in Ops /\ "bridge" \in Ops
    BY DEF Ops
  <2>2. "refresh" \in After("hermes", "route") /\ "bridge" \in After("hermes", "refresh")
    BY <1>1, Table
  <2>3. /\ Fits("hermes", <<"route", "refresh", "bridge">>, "bridge")
        /\ <<"route", "refresh", "bridge">>[1] = "route"
    BY <2>1, <2>2, FitThree
  <2>4. "end" \in After("hermes", "bridge") /\ "route" \in After("hermes", "resolve")
    BY Table
  <2> QED
    BY <1>2, <2>3, <2>4
<1> QED
  BY <1>3, <1>4, <1>5, <1>6

(* What the commands change in config.yaml, and which commands may.         *)
LEMMA Permits ==
  /\ \A m \in {"http", "websocket"} : Permitted("plain", UpdateRuntimeSettings(m))
  /\ \A flag \in {"enabled", "autoInstall", "autoStart"}, b \in BOOLEAN :
       Permitted("plain", UpdateRuntimeListenerSettings(flag, b))
  /\ \A cl \in Classes : Permitted(cl, NoChange)
  /\ \A sink \in {"log", "hermes"} : Permitted("notify", UpdateHostNotifySink(sink))
  /\ \A b \in BOOLEAN : Permitted("notify", UpdateHostNotifyEnabled(b))
  /\ \A s \in Secret : Permitted("notify", SetHermesSecret(s))
  /\ \A s \in Secrets : Permitted("hermes", ConfigureHermesHostNotify(s))
<1>1. Resolve \in Configs
  BY DEF Resolve, Configs, Modes, Sinks, Secret
<1>2. \A m \in {"http", "websocket"} : Permitted("plain", UpdateRuntimeSettings(m))
  BY <1>1 DEF Permitted, UpdateRuntimeSettings, Setting, Changes, HostSettings, Configs, Modes
<1>3. ASSUME NEW flag \in {"enabled", "autoInstall", "autoStart"}, NEW b \in BOOLEAN
      PROVE  Permitted("plain", UpdateRuntimeListenerSettings(flag, b))
  BY <1>1 DEF Permitted, UpdateRuntimeListenerSettings, Setting, Changes, HostSettings, Configs
<1>4. ASSUME NEW cl \in Classes PROVE Permitted(cl, NoChange)
  BY <1>1 DEF Permitted, NoChange, Setting, Changes, HostSettings
<1>5. ASSUME NEW sink \in {"log", "hermes"} PROVE Permitted("notify", UpdateHostNotifySink(sink))
  BY <1>1 DEF Permitted, UpdateHostNotifySink, Setting, Changes, Configs, Sinks
<1>6. ASSUME NEW b \in BOOLEAN PROVE Permitted("notify", UpdateHostNotifyEnabled(b))
  BY <1>1 DEF Permitted, UpdateHostNotifyEnabled, Setting, Changes, Configs
<1>7. ASSUME NEW s \in Secret PROVE Permitted("notify", SetHermesSecret(s))
  BY <1>1 DEF Permitted, SetHermesSecret, Setting, Changes, Configs
<1>8. ASSUME NEW s \in Secrets PROVE Permitted("hermes", ConfigureHermesHostNotify(s))
  BY <1>1 DEF Permitted, ConfigureHermesHostNotify, Setting, Changes, Configs, Sinks, Secret
<1> QED
  BY <1>2, <1>3, <1>4, <1>5, <1>6, <1>7, <1>8

(* Every command begins as its class allows.                                *)
LEMMA Commanded ==
  ASSUME Inv, NEW c \in Cmds, Command(c)
  PROVE  Inv'
<1>1. ASSUME NEW kind, NEW x \in {"apply", "start", "stop", "ensure", "uninstall"},
             Begin(c, kind, "plain", NoChange, <<"resolve", x>>)
      PROVE  Inv'
  <2>1. "plain" \in Classes /\ Permitted("plain", NoChange)
    BY Permits DEF Classes
  <2>2. /\ <<"resolve", x>> \in Seq(Ops) /\ <<"resolve", x>> # <<>>
        /\ Linked("plain", <<"resolve", x>>) /\ Head(<<"resolve", x>>) = "resolve"
    BY FirstSteps
  <2> QED
    BY <1>1, <2>1, <2>2, Begins
<1>2. ASSUME NEW kind, NEW change, Permitted("plain", change), NEW t \in {<<>>, <<"apply">>},
             Begin(c, kind, "plain", change, Edit \o t)
      PROVE  Inv'
  <2>1. "plain" \in Classes
    BY DEF Classes
  <2>2. /\ Edit \o t \in Seq(Ops) /\ Edit \o t # <<>>
        /\ Linked("plain", Edit \o t) /\ Head(Edit \o t) = "read"
    BY EditSteps
  <2> QED
    BY <1>2, <2>1, <2>2, Begins
<1>3. ASSUME NEW kind, NEW change, Permitted("notify", change),
             Begin(c, kind, "notify", change, Edit \o <<"refresh">>)
      PROVE  Inv'
  <2>1. "notify" \in Classes
    BY DEF Classes
  <2>2. /\ Edit \o <<"refresh">> \in Seq(Ops) /\ Edit \o <<"refresh">> # <<>>
        /\ Linked("notify", Edit \o <<"refresh">>) /\ Head(Edit \o <<"refresh">>) = "read"
    BY EditSteps
  <2> QED
    BY <1>3, <2>1, <2>2, Begins
<1>4. Edit \o <<>> = Edit
  <2>1. Edit \in Seq({"read", "resolve"})
    BY DEF Edit
  <2> QED
    BY <2>1, ConcatEmptySeq
<1>5. CASE runRuntimeSetup(c) \/ runRuntimeModeSet(c)
  <2>1. PICK m \in {"http", "websocket"}, kind \in {"setup", "modeSet"} :
          Begin(c, kind, "plain", UpdateRuntimeSettings(m), Edit \o <<"apply">>)
    BY <1>5 DEF runRuntimeSetup, runRuntimeModeSet
  <2>2. Permitted("plain", UpdateRuntimeSettings(m))
    BY Permits
  <2> QED
    BY <1>2, <2>1, <2>2
<1>6. CASE runRuntimeApply(c)
  BY <1>1, <1>6 DEF runRuntimeApply
<1>7. CASE runRuntimeListenerStart(c)
  BY <1>1, <1>7 DEF runRuntimeListenerStart
<1>8. CASE runRuntimeListenerStop(c)
  BY <1>1, <1>8 DEF runRuntimeListenerStop
<1>9. CASE runRuntimeListenerInstall(c)
  BY <1>1, <1>9 DEF runRuntimeListenerInstall
<1>10. CASE runRuntimeListenerUninstall(c)
  BY <1>1, <1>10 DEF runRuntimeListenerUninstall
<1>11. CASE runRuntimeListenerRestart(c)
  <2>1. "restart" \in Classes /\ Permitted("restart", NoChange)
    BY Permits DEF Classes
  <2>2. Begin(c, "restart", "restart", NoChange, <<"resolve", "restart">>)
    BY <1>11 DEF runRuntimeListenerRestart
  <2> QED
    BY <2>1, <2>2, FirstSteps, Begins
<1>12. CASE runRuntimeListenerConfigSet(c)
  <2>1. PICK flag \in {"enabled", "autoInstall", "autoStart"}, b \in BOOLEAN :
          Begin(c, "configSet", "plain", UpdateRuntimeListenerSettings(flag, b), Edit)
    BY <1>12 DEF runRuntimeListenerConfigSet
  <2>2. Permitted("plain", UpdateRuntimeListenerSettings(flag, b))
    BY Permits
  <2>3. Begin(c, "configSet", "plain", UpdateRuntimeListenerSettings(flag, b), Edit \o <<>>)
    BY <1>4, <2>1
  <2> QED
    BY <1>2, <2>2, <2>3
<1>13. CASE setRuntimeListenerEnabled(c)
  <2>1. PICK b \in BOOLEAN :
          Begin(c, "enable", "plain", UpdateRuntimeListenerSettings("enabled", b), Edit \o <<"apply">>)
    BY <1>13 DEF setRuntimeListenerEnabled
  <2>2. Permitted("plain", UpdateRuntimeListenerSettings("enabled", b))
    BY Permits
  <2> QED
    BY <1>2, <2>1, <2>2
<1>14. CASE runRuntimeHostNotifyConfigSet(c)
  <2>1. PICK sink \in {"log", "hermes"} :
          Begin(c, "sinkSet", "notify", UpdateHostNotifySink(sink), Edit \o <<"refresh">>)
    BY <1>14 DEF runRuntimeHostNotifyConfigSet
  <2>2. Permitted("notify", UpdateHostNotifySink(sink))
    BY Permits
  <2> QED
    BY <1>3, <2>1, <2>2
<1>15. CASE setRuntimeHostNotifyEnabled(c)
  <2>1. PICK b \in BOOLEAN :
          Begin(c, "notifyEnable", "notify", UpdateHostNotifyEnabled(b), Edit \o <<"refresh">>)
    BY <1>15 DEF setRuntimeHostNotifyEnabled
  <2>2. Permitted("notify", UpdateHostNotifyEnabled(b))
    BY Permits
  <2> QED
    BY <1>3, <2>1, <2>2
<1>16. CASE runRuntimeHostNotifyOpenClawSet(c) \/ runRuntimeHostNotifyHermesSet(c)
  <2>1. PICK kind \in {"openclaw", "hermesSet"} :
          Begin(c, kind, "notify", NoChange, Edit \o <<"refresh">>)
    BY <1>16 DEF runRuntimeHostNotifyOpenClawSet, runRuntimeHostNotifyHermesSet
  <2>2. Permitted("notify", NoChange)
    BY Permits DEF Classes
  <2> QED
    BY <1>3, <2>1, <2>2
<1>17. CASE runRuntimeHostNotifyHermesSetSecret(c) \/ runRuntimeHostNotifyHermesClearSecret(c)
  <2>1. PICK s \in Secret, kind \in {"setSecret", "clearSecret"} :
          Begin(c, kind, "notify", SetHermesSecret(s), Edit \o <<"refresh">>)
    BY <1>17 DEF runRuntimeHostNotifyHermesSetSecret, runRuntimeHostNotifyHermesClearSecret, Secret
  <2>2. Permitted("notify", SetHermesSecret(s))
    BY Permits
  <2> QED
    BY <1>3, <2>1, <2>2
<1>18. CASE runRuntimeHostNotifyHermesSetup(c)
  <2>1. PICK s \in Secrets :
          Begin(c, "hermesSetup", "hermes", ConfigureHermesHostNotify(s),
                Edit \o <<"route", "refresh", "bridge">>)
    BY <1>18 DEF runRuntimeHostNotifyHermesSetup
  <2>2. "hermes" \in Classes /\ Permitted("hermes", ConfigureHermesHostNotify(s))
    BY Permits DEF Classes
  <2>3. LET t == <<"route", "refresh", "bridge">> IN
          /\ Edit \o t \in Seq(Ops) /\ Edit \o t # <<>>
          /\ Linked("hermes", Edit \o t) /\ Head(Edit \o t) = "read"
    BY EditSteps
  <2> QED
    BY <2>1, <2>2, <2>3, Begins
<1> QED
  BY <1>5, <1>6, <1>7, <1>8, <1>9, <1>10, <1>11, <1>12, <1>13, <1>14, <1>15, <1>16,
     <1>17, <1>18 DEF Command

(***************************************************************************)
(* The invariant is one                                                    *)
(***************************************************************************)
LEMMA Initially == Init => Inv
<1> SUFFICES ASSUME Init PROVE Inv
  OBVIOUS
<1>1. PICK hermes \in BOOLEAN, serving \in BOOLEAN :
        /\ hermes => serving
        /\ config \in (IF hermes THEN {[Resolve EXCEPT !.sink = "hermes", !.secret = s] : s \in Secrets}
                        ELSE {Resolve})
        /\ route = hermes
        /\ svc = [s \in Services |-> IF s = "bridge" THEN [installed |-> hermes, wanted |-> hermes]
                                     ELSE [installed |-> serving, wanted |-> serving]]
        /\ inst = [s \in Services |->
                     IF (IF s = "bridge" THEN hermes ELSE serving)
                     THEN [NoProcess EXCEPT !.st = "up", !.cfg = Loaded(config)] ELSE NoProcess]
        /\ files = IF serving THEN [NoFiles EXCEPT !.socket = TRUE] ELSE NoFiles
  BY DEF Init
<1>2. /\ cmd = [c \in Cmds |-> Over] /\ begun = 0 /\ faults = 0
      /\ waived = FALSE /\ detached = FALSE
  BY DEF Init
<1>3. config \in Configs /\ config.rev = 0
  <2>1. Resolve \in Configs /\ Resolve.rev = 0
    BY DEF Resolve, Configs, Modes, Sinks, Secret
  <2>2. CASE hermes
    <3>1. PICK s \in Secrets : config = [Resolve EXCEPT !.sink = "hermes", !.secret = s]
      BY <1>1, <2>2
    <3> QED
      BY <2>1, <3>1 DEF Configs, Sinks, Secret
  <2>3. CASE ~hermes
    BY <1>1, <2>1, <2>3
  <2> QED
    BY <2>2, <2>3
<1>4. PICK i, j : /\ i = NoProcess /\ j = [NoProcess EXCEPT !.st = "up", !.cfg = Loaded(config)]
  OBVIOUS
<1>5. /\ i \in Instances /\ i.st = "none" /\ i.cfg.rev = 0 /\ i.boot = 0
  BY <1>4 DEF NoProcess, Loaded, Resolve, Instances, Modes, Sinks, Secret
<1>6. j.st = "up" /\ j.cfg = Loaded(config) /\ j.boot = 0 /\ j \in Instances
  BY <1>3, <1>4 DEF NoProcess, Loaded, Instances, Configs
<1>7. j.cfg.rev = 0 /\ j.cfg.on = config.on /\ j.cfg.sink = config.sink /\ j.cfg.secret = config.secret
  BY <1>3, <1>6 DEF Loaded
<1>8. /\ "bridge" \in Services /\ "listener" \in Services
      /\ Bridge \in {i, j} /\ (Bridge = j => hermes)
      /\ Listener \in {i, j} /\ (Listener = j => serving)
      /\ inst \in [Services -> {i, j}]
  <2>1. i # j
    BY <1>5, <1>6
  <2> QED
    BY <1>1, <1>4, <2>1 DEF Services, Bridge, Listener
<1>9. \A s \in Services : inst[s].st # "none" => svc[s].wanted /\ svc[s].installed
  BY <1>1, <1>4, <1>5
<1>10. files.status.boot = 0 /\ files.boot = 0
       /\ files \in [status : [boot : Nat, rev : Nat], socket : BOOLEAN, boot : Nat]
  BY <1>1 DEF NoFiles
<1>11. Over \in Commands /\ Over.todo = <<>> /\ Over.boot = 0 /\ Over.asked = 0
       /\ Over.seen.rev = 0 /\ Over.draft.rev = 0 /\ Over.class = "none" /\ Over.outcome = "none"
  BY Nothing
<1>12. World
  <2>1. svc \in [Services -> [installed : BOOLEAN, wanted : BOOLEAN]]
    BY <1>1
  <2>2. inst \in [Services -> Instances]
    BY <1>5, <1>6, <1>8
  <2>3. \A s \in Services : inst[s].cfg.rev = 0 /\ inst[s].boot = 0
    BY <1>5, <1>6, <1>7, <1>8
  <2>4. begun \in 0..MaxCommands /\ faults \in 0..MaxFaults
    BY <1>2, RuntimeConstants
  <2>5. route \in BOOLEAN /\ waived \in BOOLEAN /\ detached \in BOOLEAN
    BY <1>1, <1>2
  <2> QED
    BY <1>2, <1>3, <1>10, <2>1, <2>2, <2>3, <2>4, <2>5 DEF World
<1>13. TypeOK
  <2>1. \A c \in Cmds : cmd[c] = Over
    BY <1>2
  <2>2. cmd \in [Cmds -> Commands]
    BY <1>2, <1>11
  <2>3. ASSUME NEW c \in Cmds PROVE Bounded(cmd[c])
    <3>1. /\ cmd[c].seen.rev = 0 /\ cmd[c].draft.rev = 0 /\ cmd[c].boot = 0
          /\ config.rev = 0 /\ begun = 0
      BY <1>2, <1>3, <1>11, <2>1
    <3> QED
      BY <3>1 DEF Bounded
  <2> QED
    BY <1>12, <2>2, <2>3, Types
<1>14. Distinct
  BY <1>2, <1>11 DEF Distinct
<1>15. SvcInv
  BY <1>5, <1>6, <1>7, <1>8, <1>9 DEF SvcInv, Listener, Bridge
<1>16. ~Lacking
  BY <1>5, <1>6, <1>7, <1>8 DEF Lacking, Agrees
<1>17. ASSUME NEW c \in Cmds PROVE CommandInv(c)
  <2>1. BridgeCurrent
    BY <1>5, <1>6, <1>7, <1>8 DEF BridgeCurrent
  <2>2. Idle(Over)
    BY <1>3, <1>11, <2>1 DEF Idle, Notifying
  <2>3. cmd[c] = Over
    BY <1>2
  <2> QED
    BY <1>11, <2>2, <2>3 DEF CommandInv
<1> QED
  BY <1>13, <1>14, <1>15, <1>16, <1>17 DEF Inv, ForceInv

LEMMA Stutters ==
  ASSUME Inv, UNCHANGED vars
  PROVE  Inv'
<1>1. UNCHANGED <<config, route, svc, inst, files, cmd, waived, detached, begun, faults>>
  BY DEF vars, history, bounds
<1>2. World' /\ SvcInv' /\ ForceInv' /\ World
  <2>1. World
    BY Types DEF Inv
  <2>2. World'
    BY <1>1, <2>1 DEF World
  <2>3. SvcInv'
    BY <1>1 DEF Inv, SvcInv, Listener, Bridge
  <2>4. ForceInv'
    BY <1>1 DEF Inv, ForceInv, Lacking, Agrees, Listener, Pending
  <2> QED
    BY <2>1, <2>2, <2>3, <2>4
<1>3. Frame(0)
  BY <1>1, <1>2 DEF Frame, World, Configs, Listener, Bridge
<1> QED
  BY <1>1, <1>2, <1>3, Unasked

LEMMA Inductive == Inv /\ [Next]_vars => Inv'
<1> SUFFICES ASSUME Inv, [Next]_vars PROVE Inv'
  OBVIOUS
<1>1. ASSUME NEW c \in Cmds, Command(c) PROVE Inv'
  BY <1>1, Commanded
<1>2. ASSUME NEW c \in Cmds, Step(c) PROVE Inv'
  <2>1. CASE \/ ReadFileConfig(c) \/ WriteFileConfig(c) \/ resolveConfigForWorkspace(c)
             \/ refreshListenerForHostNotifyChange(c) \/ EnsureRoute(c)
    BY <2>1, Reads, Writes, Resolves, Refreshes, Routes
  <2>2. CASE ApplyRuntimePolicy(c) \/ StartService(c) \/ StopService(c) \/ RestartService(c) \/ Uninstall(c)
    BY <2>2, Applies, Starts, Stops, Restarts, Uninstalls
  <2>3. CASE EnsureInstalled(c) \/ Launch(c) \/ Halt(c) \/ Remove(c)
    BY <2>3, Installs, Launches, Halts, Removes
  <2>4. CASE prepareExpectedBootID(c) \/ cleanupRuntimeArtifacts(c) \/ waitForServiceStatus(c)
    BY <2>4, Prepares, Cleans, Waits
  <2>5. CASE BridgeApply(c) \/ BridgeEnsureInstalled(c) \/ BridgeStartService(c)
             \/ bridgeProgramStop(c) \/ BridgeLaunch(c)
    BY <2>5, BridgeApplies, BridgeInstalls, BridgeStarts, BridgeStops, BridgeLaunches
  <2> QED
    BY <1>2, <2>1, <2>2, <2>3, <2>4, <2>5 DEF Step
<1>3. ASSUME NEW c \in Cmds, Abort(c) PROVE Inv'
  BY <1>3, Aborts
<1>4. CASE Process
  BY <1>4, Runs, Builds, Supervises, BridgeServes DEF Process
<1>5. ASSUME NEW s \in Services, Crash(s) PROVE Inv'
  BY <1>5, Crashes
<1>6. CASE Reboot
  BY <1>6, Reboots
<1>7. CASE UNCHANGED vars
  BY <1>7, Stutters
<1> QED
  BY <1>1, <1>2, <1>3, <1>4, <1>5, <1>6, <1>7 DEF Next

LEMMA Always == Spec => []Inv
<1>1. Init => Inv
  BY Initially
<1>2. Inv /\ [Next]_vars => Inv'
  BY Inductive
<1> QED
  BY <1>1, <1>2, PTL DEF Spec

(***************************************************************************)
(* The properties                                                          *)
(***************************************************************************)
(* Every variable has its type, a revision of config.yaml that a command, a *)
(* service or a file knows is one config.yaml has had, and a boot id is     *)
(* that of a command that began.                                            *)
THEOREM TypeCorrect == Spec => []TypeOK
<1>1. Inv => TypeOK
  BY DEF Inv
<1> QED
  BY <1>1, Always, PTL

(* A host-notify command that ended well leaves no listener running with a  *)
(* configuration older than its change, whatever the other commands did,    *)
(* crashed or restarted meanwhile (refreshListenerForHostNotifyChange),     *)
(* unless the unit of a listener was removed under it.                      *)
THEOREM NotifyAlwaysApplied == Spec => []NotifyApplied
<1>1. Inv => NotifyApplied
  <2> SUFFICES ASSUME Inv, ~detached, NEW c \in Cmds, Ended(c), cmd[c].class \in {"notify", "hermes"},
                      HasConfig("listener")
               PROVE  inst["listener"].cfg.rev >= cmd[c].asked
    BY DEF NotifyApplied
  <2>1. Idle(cmd[c])
    BY DEF Inv, CommandInv, Ended
  <2> QED
    BY <2>1 DEF Idle, Notifying, Fresh, Listener, HasConfig
<1> QED
  BY <1>1, Always, PTL

(* The listener a start waited for and found ready has the configuration    *)
(* that start read, or a later one: the boot id tells its files from those  *)
(* of every earlier process (serviceStatusReady).                           *)
THEOREM ReadyAlwaysHasChange == Spec => []ReadyHasChange
<1>1. Inv => ReadyHasChange
  BY DEF ReadyHasChange, Inv, CommandInv, Ended, Idle
<1> QED
  BY <1>1, Always, PTL

(* After `hermes setup' the listener signs with the secret the bridge       *)
(* verifies with until config.yaml is written again, through every crash    *)
(* and restart of both.                                                     *)
THEOREM SetupAlwaysAgrees == Spec => []SetupAgrees
<1>1. Inv => SetupAgrees
  <2> SUFFICES ASSUME Inv, ~detached, NEW c \in Cmds, Ended(c), cmd[c].class = "hermes",
                      config.rev = cmd[c].asked, \A s \in Services : inst[s].st = "up"
               PROVE  inst["listener"].cfg.secret = inst["bridge"].cfg.secret
    BY DEF SetupAgrees
  <2>1. Idle(cmd[c])
    BY DEF Inv, CommandInv, Ended
  <2>2. Listener.st = "up" /\ Bridge.st = "up"
    BY DEF Listener, Bridge, Services
  <2>3. Listener.cfg.rev >= config.rev /\ BridgeCurrent
    BY <2>1, <2>2 DEF Idle, Notifying, Fresh
  <2>4. Listener.cfg.rev \in Nat /\ config.rev \in Nat /\ Listener.cfg.rev <= config.rev
    BY DEF Inv, TypeOK, Listener, Services, Instances, Configs
  <2>5. Listener.cfg.rev = config.rev
    BY <2>3, <2>4
  <2> QED
    BY <2>2, <2>3, <2>5 DEF Inv, SvcInv, BridgeCurrent, Listener, Bridge
<1> QED
  BY <1>1, Always, PTL

(* When no command runs and none was interrupted, overwritten or left its   *)
(* change for later, the listener that runs notifies the host as            *)
(* config.yaml says: every other difference is a command's to come.         *)
THEOREM ConfigAlwaysInForce == Spec => []ConfigInForce
<1>1. Inv => ConfigInForce
  <2> SUFFICES ASSUME Inv, ~waived, ~detached, HasConfig("listener"),
                      \A c \in Cmds : cmd[c].todo = <<>>
               PROVE  Agrees
    BY DEF ConfigInForce, Agrees, Listener
  <2>1. ~Lacking
    BY DEF Inv, ForceInv, Pending
  <2> QED
    BY <2>1 DEF Lacking, HasConfig, Listener
<1> QED
  BY <1>1, Always, PTL
=============================================================================
