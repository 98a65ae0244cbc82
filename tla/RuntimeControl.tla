--------------------------- MODULE RuntimeControl ---------------------------
(***************************************************************************)
(* The runtime and host-notify commands (internal/cli/runtime.go), the      *)
(* config.yaml they edit (internal/config/write.go), and the two system     *)
(* services they control: the listener (internal/runtime/listener) and the  *)
(* local Hermes bridge (internal/runtime/hermesbridge).                     *)
(*                                                                          *)
(* A command is a process with a list of steps still to do.  It edits       *)
(* config.yaml without a lock, reads it again, and stops, starts or         *)
(* restarts a service with what it read.  A service instance is a process   *)
(* of its own: it reads config.yaml once, when it boots, and tells the      *)
(* commands about itself through files (a status with a boot id, the        *)
(* socket of the message bridge).  The service manager is systemd's: a      *)
(* service that was started is kept alive, stopping waits for the process.  *)
(***************************************************************************)
EXTENDS Naturals, Sequences

CONSTANTS
  Cmds,         \* commands running at the same time
  Secrets,      \* Hermes notify secrets
  Unset,
  Allowed,      \* the kinds of command that are run
  Exclusive,    \* kinds of which one command of the class runs at a time
  MaxCommands,  \* commands begun in a behaviour
  MaxFaults     \* commands and processes killed, and reboots, in a behaviour

Services == {"listener", "bridge"}
Kinds == {"setup", "modeSet", "apply", "start", "stop", "restart", "install",
          "uninstall", "configSet", "enable", "sinkSet", "notifyEnable",
          "openclaw", "hermesSet", "setSecret", "clearSecret", "hermesSetup"}

ASSUME RuntimeConstants ==
  /\ Unset \notin Secrets /\ Secrets # {}
  /\ Allowed \subseteq Kinds
  /\ MaxCommands \in Nat /\ MaxFaults \in Nat

VARIABLES
  config,   \* config.yaml; rev, for the properties, counts its writes
  route,    \* ~/.hermes/config.yaml has the notify route and its secret
  svc,      \* what the service manager knows of each service
  inst,     \* the process of each service
  files,    \* listener.status.json, the socket, the expected boot id
  cmd,      \* the commands
  waived,   \* history: a change was undone by a command that had not read
            \* it, a command was interrupted, or its change waits for later
  detached, \* history: a service was removed that another command had started
            \* since this one stopped it, so that its process runs without a unit
  begun, faults  \* bounds

history == <<waived, detached>>
bounds == <<begun, faults>>
vars == <<config, route, svc, inst, files, cmd, history, bounds>>

(* Resolve with nothing in config.yaml. *)
Resolve ==
  [mode |-> "websocket", enabled |-> TRUE, autoInstall |-> TRUE,
   autoStart |-> TRUE, on |-> TRUE, sink |-> "log", secret |-> Unset, rev |-> 0]

(* The part of it a command decides by.                                     *)
Policy(cfg) ==
  [mode |-> cfg.mode, enabled |-> cfg.enabled, autoInstall |-> cfg.autoInstall,
   autoStart |-> cfg.autoStart, rev |-> cfg.rev]

(* The part a service goes by.                                              *)
Loaded(cfg) ==
  [mode |-> cfg.mode, on |-> cfg.on, sink |-> cfg.sink, secret |-> cfg.secret,
   rev |-> cfg.rev]

(* No process. *)
NoProcess == [st |-> "none", cfg |-> Loaded(Resolve), boot |-> 0]

NoFiles == [status |-> [boot |-> 0, rev |-> 0], socket |-> FALSE, boot |-> 0]

(* What a command sets in config.yaml: the settings `of', as in `to'.       *)
Setting(of, to) == [of |-> of, to |-> to]
NoChange == Setting({}, Resolve)

(* A command that is over.  For the properties: its class, asked, the       *)
(* revision of config.yaml it read last, and got, that of the listener it   *)
(* found ready.                                                             *)
Over == [class |-> "none", todo |-> <<>>, change |-> NoChange, draft |-> Resolve,
         seen |-> Policy(Resolve), boot |-> 0, asked |-> 0, got |-> 0, outcome |-> "none"]

Running(s) == svc[s].installed /\ svc[s].wanted

(***************************************************************************)
(* Steps of a command                                                      *)
(***************************************************************************)
At(c, op) == cmd[c].todo # <<>> /\ Head(cmd[c].todo) = op

(* c replaces its first step by the steps `more', and becomes e otherwise.  *)
Advance(c, more, e) ==
  LET rest == more \o Tail(cmd[c].todo) IN
  cmd' = [cmd EXCEPT ![c] =
       IF rest # <<>> THEN [e EXCEPT !.todo = rest]
       ELSE IF \/ e.class = "plain" /\ e.outcome = "none"
               \/ e.class = "restart" \/ e.outcome = "off" THEN Over
       ELSE [Over EXCEPT !.class = e.class, !.asked = e.seen.rev, !.got = e.got,
               !.outcome = IF e.outcome = "none" THEN "done" ELSE e.outcome]]

Skip(c, more) == Advance(c, more, cmd[c])

(* An error is returned, or the command is killed: the rest is not done.    *)
Fail(c) == cmd' = [cmd EXCEPT ![c] = Over]

(***************************************************************************)
(* config.yaml                                                             *)
(***************************************************************************)
(* updateFileConfig reads the whole file ...                                *)
ReadFileConfig(c) ==
  /\ At(c, "read")
  /\ Advance(c, <<"write">>, [cmd[c] EXCEPT !.draft = config])
  /\ UNCHANGED <<config, route, svc, inst, files, history, bounds>>

(* The settings of `change' in place of those of cfg.                       *)
Changed(change, cfg) ==
  LET is(f) == IF f \in change.of THEN change.to[f] ELSE cfg[f] IN
  [mode |-> is("mode"), enabled |-> is("enabled"), autoInstall |-> is("autoInstall"),
   autoStart |-> is("autoStart"), on |-> is("on"), sink |-> is("sink"),
   secret |-> is("secret"), rev |-> config.rev + 1]

(* A mutant: the settings are written without the rest of the file.         *)
WriteSettingsOnly(c) ==
  /\ At(c, "write")
  /\ config' = Changed(cmd[c].change, Resolve)
  /\ waived' = (waived \/ cmd[c].draft.rev # config.rev)
  /\ Advance(c, <<>>, [cmd[c] EXCEPT !.draft = Resolve, !.change = NoChange])
  /\ UNCHANGED <<route, svc, inst, files, detached, bounds>>

(* ... changes its settings in it and puts it in the place of the old one.  *)
WriteFileConfig(c) ==
  /\ At(c, "write")
  /\ config' = Changed(cmd[c].change, cmd[c].draft)
  /\ waived' = (waived \/ cmd[c].draft.rev # config.rev)
  /\ Advance(c, <<>>, [cmd[c] EXCEPT !.draft = Resolve, !.change = NoChange])
  /\ UNCHANGED <<route, svc, inst, files, detached, bounds>>

resolveConfigForWorkspace(c) ==
  /\ At(c, "resolve")
  /\ Advance(c, <<>>, [cmd[c] EXCEPT !.seen = Policy(config)])
  /\ UNCHANGED <<config, route, svc, inst, files, history, bounds>>

(***************************************************************************)
(* Listener service                                                        *)
(***************************************************************************)
PolicyOn(cfg) == cfg.mode = "websocket" /\ cfg.enabled

ApplyRuntimePolicy(c) ==
  /\ At(c, "apply")
  /\ LET cfg == cmd[c].seen IN
     Skip(c, IF ~PolicyOn(cfg) THEN <<"stop">>
             ELSE IF cfg.autoInstall /\ cfg.autoStart THEN <<"ensure", "start">>
             ELSE IF cfg.autoInstall THEN <<"ensure">>
             ELSE IF cfg.autoStart /\ svc["listener"].installed THEN <<"start">>
             ELSE <<>>)
  /\ UNCHANGED <<config, route, svc, inst, files, history, bounds>>

EnsureInstalled(c) ==
  /\ At(c, "ensure")
  /\ svc' = [svc EXCEPT !["listener"].installed = TRUE]
  /\ Skip(c, <<>>)
  /\ UNCHANGED <<config, route, inst, files, history, bounds>>

(* A listener that runs is left as it is; a missing service is installed    *)
(* and looked at once more.                                                 *)
StartService(c) ==
  /\ \/ At(c, "start")
     \/ At(c, "startAgain")
  /\ IF cmd[c].seen.mode # "websocket"
        \/ (At(c, "startAgain") /\ ~svc["listener"].installed)
     THEN Fail(c)
     ELSE Skip(c, IF ~svc["listener"].installed THEN <<"ensure", "startAgain">>
                  ELSE IF Running("listener") THEN <<>>
                  ELSE <<"prepare", "launch", "ready">>)
  /\ UNCHANGED <<config, route, svc, inst, files, history, bounds>>

(* The wait for the service to be down ends either way and changes nothing. *)
StopService(c) ==
  /\ At(c, "stop")
  /\ Skip(c, IF ~svc["listener"].installed THEN <<>>
             ELSE IF Running("listener") THEN <<"halt", "clean">>
             ELSE <<"clean">>)
  /\ UNCHANGED <<config, route, svc, inst, files, history, bounds>>

RestartService(c) ==
  /\ At(c, "restart")
  /\ IF svc["listener"].installed
     THEN Skip(c, <<"prepare", "halt", "launch", "ready">>)
     ELSE Fail(c)
  /\ UNCHANGED <<config, route, svc, inst, files, history, bounds>>

Uninstall(c) ==
  /\ At(c, "uninstall")
  /\ Skip(c, IF ~svc["listener"].installed THEN <<"clean">>
             ELSE IF Running("listener") THEN <<"halt", "remove", "clean">>
             ELSE <<"remove", "clean">>)
  /\ UNCHANGED <<config, route, svc, inst, files, history, bounds>>

prepareExpectedBootID(c) ==
  /\ At(c, "prepare")
  /\ files' = [files EXCEPT !.boot = cmd[c].boot]
  /\ Skip(c, <<>>)
  /\ UNCHANGED <<config, route, svc, inst, history, bounds>>

cleanupRuntimeArtifacts(c) ==
  /\ At(c, "clean")
  /\ files' = NoFiles
  /\ Skip(c, <<>>)
  /\ UNCHANGED <<config, route, svc, inst, history, bounds>>

(* The service manager's answer and what is found in files, whoever wrote   *)
(* them; the bridge is taken as available when its socket file is there.    *)
StatusFor(cfg) ==
  [running |-> Running("listener"), bridge |-> cfg.enabled /\ files.socket,
   boot |-> files.status.boot]

(* A mutant: any status file will do.                                       *)
StatusReadyOfAnyBoot(c) ==
  LET status == StatusFor(cmd[c].seen) IN
  status.running /\ (PolicyOn(cmd[c].seen) => status.bridge)

serviceStatusReady(c) ==
  LET status == StatusFor(cmd[c].seen) IN
  /\ status.running
  /\ PolicyOn(cmd[c].seen) => status.bridge
  /\ status.boot = cmd[c].boot

(* After 15 seconds the wait ends with the last status and no error.        *)
waitForServiceStatus(c) ==
  /\ At(c, "ready")
  /\ \/ /\ serviceStatusReady(c)
        /\ Advance(c, <<>>, [cmd[c] EXCEPT !.got = files.status.rev, !.outcome = "ready"])
     \/ Skip(c, <<>>)
  /\ UNCHANGED <<config, route, svc, inst, files, history, bounds>>

(***************************************************************************)
(* Service manager                                                         *)
(***************************************************************************)
Started(s) == svc' = [svc EXCEPT ![s].wanted = TRUE]

(* A service that is not installed cannot be started.                       *)
Launch(c) ==
  /\ At(c, "launch")
  /\ IF svc["listener"].installed THEN Started("listener") /\ Skip(c, <<>>)
     ELSE Fail(c) /\ UNCHANGED svc
  /\ UNCHANGED <<config, route, inst, files, history, bounds>>

(* Stop waits until Run has returned; whether the files are removed after   *)
(* that, before the process ends, is a race.  The signal ends a process     *)
(* that is not as far as Run.                                               *)
serviceProgramStop ==
  /\ inst' = [inst EXCEPT !["listener"] = NoProcess]
  /\ \/ files' = files
     \/ inst["listener"].st \notin {"none", "config", "idle"} /\ files' = NoFiles

Halt(c) ==
  /\ At(c, "halt")
  /\ svc' = [svc EXCEPT !["listener"].wanted = FALSE]
  /\ serviceProgramStop
  /\ Skip(c, <<>>)
  /\ UNCHANGED <<config, route, history, bounds>>

(* A unit is removed whether its service runs by now or not.                *)
Remove(c) ==
  /\ At(c, "remove")
  /\ svc' = [svc EXCEPT !["listener"].installed = FALSE]
  /\ detached' = (detached \/ svc["listener"].wanted)
  /\ Skip(c, <<>>)
  /\ UNCHANGED <<config, route, inst, files, waived, bounds>>

Kept(s) == svc[s].wanted /\ svc[s].installed /\ inst[s].st = "none"

(***************************************************************************)
(* A service process                                                       *)
(***************************************************************************)
(* service-run resolves config.yaml, once.                                  *)
RunService ==
  /\ Kept("listener")
  /\ inst' = [inst EXCEPT !["listener"].st = "config", !["listener"].cfg = Loaded(config)]
  /\ UNCHANGED <<config, route, svc, files, cmd, history, bounds>>

(* The Hermes sink cannot be built without a secret, which is read from     *)
(* config.yaml at this point.                                               *)
newHostNotifySink(cfg) == cfg.on /\ cfg.sink = "hermes" => config.secret # Unset

(* The boot id that is expected; 0 stands for one nobody expects.           *)
resolveRuntimeBootID == files.boot

(* An error ends the process; the service manager starts another one.       *)
NewSupervisor ==
  /\ inst["listener"].st = "config"
  /\ inst' = [inst EXCEPT !["listener"] =
       IF newHostNotifySink(@.cfg)
       THEN [@ EXCEPT !.st = "built", !.boot = resolveRuntimeBootID, !.cfg.secret = config.secret]
       ELSE NoProcess]
  /\ UNCHANGED <<config, route, svc, files, cmd, history, bounds>>

(* Run writes the status file and opens the socket.  In http mode it        *)
(* returns at once: the files are removed and the process stays.            *)
SupervisorRun ==
  LET i == inst["listener"] IN
  /\ \/ /\ i.st = "built" /\ i.cfg.mode # "websocket"
        /\ inst' = [inst EXCEPT !["listener"].st = "idle"]
        /\ files' = NoFiles
     \/ /\ i.st = "built" /\ i.cfg.mode = "websocket"
        /\ inst' = [inst EXCEPT !["listener"].st = "status"]
        /\ files' = [files EXCEPT !.status = [boot |-> i.boot, rev |-> i.cfg.rev]]
     \/ /\ i.st = "status"
        /\ inst' = [inst EXCEPT !["listener"].st = "up"]
        /\ files' = [files EXCEPT !.socket = TRUE]
  /\ UNCHANGED <<config, route, svc, cmd, history, bounds>>

(* ResolveBridgeConfig needs the notify secret of config.yaml and the route *)
(* secret of the Hermes configuration.                                      *)
ResolveBridgeConfig == config.secret # Unset /\ route

(* The adapter is started with the secret config.yaml has by then; without  *)
(* one the process fails and is started again.                              *)
bridgeProgramStart ==
  /\ Kept("bridge") /\ ResolveBridgeConfig
  /\ inst' = [inst EXCEPT !["bridge"].st = "up", !["bridge"].cfg =
       [Loaded(Resolve) EXCEPT !.secret = config.secret]]
  /\ UNCHANGED <<config, route, svc, files, cmd, history, bounds>>

(***************************************************************************)
(* Hermes bridge service                                                   *)
(***************************************************************************)
(* A mutant: a bridge that runs is left running.                            *)
BridgeApplyUnlessRunning(c) ==
  /\ At(c, "bridge")
  /\ IF ~ResolveBridgeConfig THEN Fail(c)
     ELSE Skip(c, IF ~svc["bridge"].installed THEN <<"bridgeEnsure", "bridgeStart">>
                  ELSE <<"bridgeStart">>)
  /\ UNCHANGED <<config, route, svc, inst, files, history, bounds>>

BridgeApply(c) ==
  /\ At(c, "bridge")
  /\ IF ~ResolveBridgeConfig THEN Fail(c)
     ELSE Skip(c, IF ~svc["bridge"].installed THEN <<"bridgeEnsure", "bridgeStart">>
                  ELSE IF Running("bridge")
                    THEN <<"bridgeStop", "bridgeLaunch">>
                  ELSE <<"bridgeStart">>)
  /\ UNCHANGED <<config, route, svc, inst, files, history, bounds>>

BridgeEnsureInstalled(c) ==
  /\ At(c, "bridgeEnsure")
  /\ IF ResolveBridgeConfig
     THEN svc' = [svc EXCEPT !["bridge"].installed = TRUE] /\ Skip(c, <<>>)
     ELSE Fail(c) /\ UNCHANGED svc
  /\ UNCHANGED <<config, route, inst, files, history, bounds>>

BridgeStartService(c) ==
  /\ At(c, "bridgeStart")
  /\ IF ~ResolveBridgeConfig THEN Fail(c)
     ELSE Skip(c, IF ~svc["bridge"].installed
                    THEN <<"bridgeEnsure", "bridgeLaunch">>
                  ELSE IF Running("bridge") THEN <<>>
                  ELSE <<"bridgeLaunch">>)
  /\ UNCHANGED <<config, route, svc, inst, files, history, bounds>>

(* The adapter is killed at once.                                           *)
bridgeProgramStop(c) ==
  /\ At(c, "bridgeStop")
  /\ svc' = [svc EXCEPT !["bridge"].wanted = FALSE]
  /\ inst' = [inst EXCEPT !["bridge"] = NoProcess]
  /\ Skip(c, <<>>)
  /\ UNCHANGED <<config, route, files, history, bounds>>

BridgeLaunch(c) ==
  /\ At(c, "bridgeLaunch")
  /\ Started("bridge")
  /\ Skip(c, <<>>)
  /\ UNCHANGED <<config, route, inst, files, history, bounds>>

EnsureRoute(c) ==
  /\ At(c, "route")
  /\ route' = TRUE
  /\ Skip(c, <<>>)
  /\ UNCHANGED <<config, svc, inst, files, history, bounds>>

(***************************************************************************)
(* Host notify changes: a listener that runs is stopped and, as the policy  *)
(* says, started again; otherwise the change waits for the next start.      *)
(***************************************************************************)
(* A mutant: the policy is applied and the listener not stopped first.      *)
RefreshByApply(c) ==
  /\ At(c, "refresh")
  /\ IF ~PolicyOn(cmd[c].seen) THEN Advance(c, <<>>, [cmd[c] EXCEPT !.outcome = "off"])
     ELSE Skip(c, <<"apply">>)
  /\ waived' = (waived \/ ~PolicyOn(cmd[c].seen))
  /\ UNCHANGED <<config, route, svc, inst, files, detached, bounds>>

refreshListenerForHostNotifyChange(c) ==
  /\ At(c, "refresh")
  /\ IF ~PolicyOn(cmd[c].seen) THEN Advance(c, <<>>, [cmd[c] EXCEPT !.outcome = "off"])
     ELSE Skip(c, IF Running("listener") THEN <<"stop", "apply">> ELSE <<>>)
  /\ waived' = (waived \/ ~PolicyOn(cmd[c].seen))
  /\ UNCHANGED <<config, route, svc, inst, files, detached, bounds>>

(***************************************************************************)
(* The commands                                                            *)
(***************************************************************************)
Begin(c, kind, class, change, todo) ==
  /\ cmd[c].todo = <<>> /\ kind \in Allowed /\ begun < MaxCommands
  /\ kind \in Exclusive => \A d \in Cmds : cmd[d].todo = <<>> \/ cmd[d].class # class
  /\ cmd' = [cmd EXCEPT ![c] = [Over EXCEPT !.class = class, !.change = change,
                                           !.todo = todo, !.boot = begun + 1]]
  /\ begun' = begun + 1
  /\ UNCHANGED <<config, route, svc, inst, files, history, faults>>

(* What the commands change in config.yaml.                                 *)
UpdateRuntimeSettings(m) == Setting({"mode"}, [Resolve EXCEPT !.mode = m])
UpdateRuntimeListenerSettings(flag, b) == Setting({flag}, [Resolve EXCEPT ![flag] = b])
UpdateHostNotifySink(sink) ==
  Setting({"sink", "on"}, [Resolve EXCEPT !.sink = sink, !.on = TRUE])
UpdateHostNotifyEnabled(b) == Setting({"on"}, [Resolve EXCEPT !.on = b])
ConfigureHermesHostNotify(s) ==
  Setting({"on", "sink", "secret"},
          [Resolve EXCEPT !.on = TRUE, !.sink = "hermes", !.secret = s])
SetHermesSecret(s) == Setting({"secret"}, [Resolve EXCEPT !.secret = s])

Edit == <<"read", "resolve">>

runRuntimeSetup(c) == \E m \in {"http", "websocket"} :
  Begin(c, "setup", "plain", UpdateRuntimeSettings(m), Edit \o <<"apply">>)
runRuntimeModeSet(c) == \E m \in {"http", "websocket"} :
  Begin(c, "modeSet", "plain", UpdateRuntimeSettings(m), Edit \o <<"apply">>)
runRuntimeApply(c) == Begin(c, "apply", "plain", NoChange, <<"resolve", "apply">>)
runRuntimeListenerStart(c) == Begin(c, "start", "plain", NoChange, <<"resolve", "start">>)
runRuntimeListenerStop(c) == Begin(c, "stop", "plain", NoChange, <<"resolve", "stop">>)
runRuntimeListenerRestart(c) == Begin(c, "restart", "restart", NoChange, <<"resolve", "restart">>)
runRuntimeListenerInstall(c) == Begin(c, "install", "plain", NoChange, <<"resolve", "ensure">>)
runRuntimeListenerUninstall(c) == Begin(c, "uninstall", "plain", NoChange, <<"resolve", "uninstall">>)

(* Changes the policy, here one flag of it, and does not apply it.          *)
runRuntimeListenerConfigSet(c) ==
  \E flag \in {"enabled", "autoInstall", "autoStart"}, b \in BOOLEAN :
    Begin(c, "configSet", "plain", UpdateRuntimeListenerSettings(flag, b), Edit)
setRuntimeListenerEnabled(c) == \E b \in BOOLEAN :
  Begin(c, "enable", "plain", UpdateRuntimeListenerSettings("enabled", b), Edit \o <<"apply">>)

(* "log" stands for the sinks that need no secret.                          *)
runRuntimeHostNotifyConfigSet(c) == \E sink \in {"log", "hermes"} :
  Begin(c, "sinkSet", "notify", UpdateHostNotifySink(sink), Edit \o <<"refresh">>)
setRuntimeHostNotifyEnabled(c) == \E b \in BOOLEAN :
  Begin(c, "notifyEnable", "notify", UpdateHostNotifyEnabled(b), Edit \o <<"refresh">>)

(* OpenClaw's hook URL and token and Hermes' URL and deliver target are     *)
(* settings only their revision tells apart.                                *)
runRuntimeHostNotifyOpenClawSet(c) ==
  Begin(c, "openclaw", "notify", NoChange, Edit \o <<"refresh">>)
runRuntimeHostNotifyHermesSet(c) ==
  Begin(c, "hermesSet", "notify", NoChange, Edit \o <<"refresh">>)
runRuntimeHostNotifyHermesSetSecret(c) == \E s \in Secrets :
  Begin(c, "setSecret", "notify", SetHermesSecret(s), Edit \o <<"refresh">>)
runRuntimeHostNotifyHermesClearSecret(c) ==
  Begin(c, "clearSecret", "notify", SetHermesSecret(Unset), Edit \o <<"refresh">>)

(* The secret is the flag's, a generated one, or the one config.yaml had    *)
(* before this command reads it again to change it.                         *)
runRuntimeHostNotifyHermesSetup(c) == \E s \in Secrets :
  Begin(c, "hermesSetup", "hermes", ConfigureHermesHostNotify(s),
        Edit \o <<"route", "refresh", "bridge">>)

(* A step returns an error, or the command is killed.                       *)
Abort(c) ==
  /\ cmd[c].todo # <<>> /\ faults < MaxFaults
  /\ faults' = faults + 1
  /\ Fail(c)
  /\ waived' = TRUE
  /\ UNCHANGED <<config, route, svc, inst, files, detached, begun>>

Crash(s) ==
  /\ faults < MaxFaults /\ inst[s].st # "none"
  /\ faults' = faults + 1
  /\ inst' = [inst EXCEPT ![s] = NoProcess]
  /\ UNCHANGED <<config, route, svc, files, cmd, history, begun>>

(* Installed services are started with the machine.                         *)
Reboot ==
  /\ faults < MaxFaults
  /\ faults' = faults + 1
  /\ cmd' = [c \in Cmds |-> IF cmd[c].todo = <<>> THEN cmd[c]
                 ELSE Over]
  /\ inst' = [s \in Services |-> NoProcess]
  /\ svc' = [s \in Services |-> [svc[s] EXCEPT !.wanted = svc[s].installed]]
  /\ waived' = (waived \/ \E c \in Cmds : cmd[c].todo # <<>>)
  /\ UNCHANGED <<config, route, files, detached, begun>>

(* A workspace nothing was set up in, and one whose listener, and perhaps   *)
(* Hermes bridge, are in service.                                           *)
Init ==
  /\ \E hermes, serving \in BOOLEAN :
       /\ hermes => serving
       /\ config \in (IF hermes THEN {[Resolve EXCEPT !.sink = "hermes", !.secret = s] : s \in Secrets}
                       ELSE {Resolve})
       /\ route = hermes
       /\ LET up(b) == IF b THEN [NoProcess EXCEPT !.st = "up", !.cfg = Loaded(config)]
                       ELSE NoProcess
              known(b) == [installed |-> b, wanted |-> b] IN
          /\ svc = [s \in Services |-> known(IF s = "bridge" THEN hermes ELSE serving)]
          /\ inst = [s \in Services |-> up(IF s = "bridge" THEN hermes ELSE serving)]
       /\ files = IF serving
                  THEN [NoFiles EXCEPT !.socket = TRUE]
                  ELSE NoFiles
  /\ cmd = [c \in Cmds |-> Over]
  /\ begun = 0 /\ faults = 0 /\ waived = FALSE /\ detached = FALSE

Command(c) ==
  \/ runRuntimeSetup(c) \/ runRuntimeModeSet(c) \/ runRuntimeApply(c)
  \/ runRuntimeListenerStart(c) \/ runRuntimeListenerStop(c) \/ runRuntimeListenerRestart(c)
  \/ runRuntimeListenerInstall(c) \/ runRuntimeListenerUninstall(c)
  \/ runRuntimeListenerConfigSet(c) \/ setRuntimeListenerEnabled(c)
  \/ runRuntimeHostNotifyConfigSet(c) \/ setRuntimeHostNotifyEnabled(c)
  \/ runRuntimeHostNotifyOpenClawSet(c) \/ runRuntimeHostNotifyHermesSet(c)
  \/ runRuntimeHostNotifyHermesSetSecret(c) \/ runRuntimeHostNotifyHermesClearSecret(c)
  \/ runRuntimeHostNotifyHermesSetup(c)

Step(c) ==
  \/ ReadFileConfig(c) \/ WriteFileConfig(c) \/ resolveConfigForWorkspace(c)
  \/ ApplyRuntimePolicy(c) \/ EnsureInstalled(c) \/ StartService(c) \/ StopService(c)
  \/ RestartService(c) \/ Uninstall(c) \/ prepareExpectedBootID(c)
  \/ cleanupRuntimeArtifacts(c) \/ waitForServiceStatus(c) \/ Remove(c)
  \/ refreshListenerForHostNotifyChange(c) \/ EnsureRoute(c)
  \/ Launch(c) \/ Halt(c)
  \/ BridgeApply(c) \/ BridgeEnsureInstalled(c) \/ BridgeStartService(c)
  \/ bridgeProgramStop(c) \/ BridgeLaunch(c)

Process ==
  \/ RunService \/ NewSupervisor \/ SupervisorRun
  \/ bridgeProgramStart

Next ==
  \/ \E c \in Cmds : Command(c) \/ Step(c) \/ Abort(c)
  \/ Process
  \/ \E s \in Services : Crash(s)
  \/ Reboot

Spec == Init /\ [][Next]_vars

(***************************************************************************)
(* Properties                                                              *)
(***************************************************************************)
Modes == {"http", "websocket"}
Sinks == {"log", "hermes"}
Secret == Secrets \union {Unset}

Configs ==
  [mode : Modes, enabled : BOOLEAN, autoInstall : BOOLEAN, autoStart : BOOLEAN,
   on : BOOLEAN, sink : Sinks, secret : Secret, rev : Nat]

Instances ==
  [st : {"none", "config", "built", "status", "up", "idle"},
   cfg : [mode : Modes, on : BOOLEAN, sink : Sinks, secret : Secret, rev : Nat],
   boot : Nat]

Ops ==
  {"read", "write", "resolve", "apply", "ensure", "start", "startAgain", "stop", "restart",
   "uninstall", "prepare", "launch", "ready", "halt", "remove", "clean", "refresh", "route",
   "bridge", "bridgeEnsure", "bridgeStart", "bridgeStop", "bridgeLaunch"}

Commands ==
  [class : {"none", "plain", "restart", "notify", "hermes"}, todo : Seq(Ops),
   change : [of : SUBSET {"mode", "enabled", "autoInstall", "autoStart", "on", "sink", "secret"},
             to : Configs],
   draft : Configs,
   seen : [mode : Modes, enabled : BOOLEAN, autoInstall : BOOLEAN, autoStart : BOOLEAN,
           rev : Nat],
   boot : Nat, asked : Nat, got : Nat, outcome : {"none", "off", "ready", "done"}]

(* Every variable has its type; a revision anybody knows is one config.yaml *)
(* has had, and a boot id that of a command that began.                     *)
TypeOK ==
  /\ config \in Configs /\ route \in BOOLEAN
  /\ svc \in [Services -> [installed : BOOLEAN, wanted : BOOLEAN]]
  /\ inst \in [Services -> Instances]
  /\ files \in [status : [boot : Nat, rev : Nat], socket : BOOLEAN, boot : Nat]
  /\ cmd \in [Cmds -> Commands]
  /\ waived \in BOOLEAN /\ detached \in BOOLEAN
  /\ begun \in 0..MaxCommands /\ faults \in 0..MaxFaults
  /\ \A s \in Services : inst[s].cfg.rev <= config.rev /\ inst[s].boot <= begun
  /\ files.status.boot <= begun /\ files.boot <= begun
  /\ \A c \in Cmds : /\ cmd[c].seen.rev <= config.rev /\ cmd[c].draft.rev <= config.rev
                     /\ cmd[c].boot <= begun

Ended(c) == cmd[c].todo = <<>> /\ cmd[c].outcome \in {"done", "ready"}
HasConfig(s) == inst[s].st # "none"

(* A host-notify command that ended well and did not answer that its change *)
(* waits for the listener to be enabled leaves no listener running that     *)
(* read config.yaml before the change, whatever other commands, crashes and *)
(* restarts came in between (refreshListenerForHostNotifyChange), unless    *)
(* the unit of a listener was removed under it.                             *)
NotifyApplied ==
  ~detached => \A c \in Cmds : Ended(c) /\ cmd[c].class \in {"notify", "hermes"} /\ HasConfig("listener")
    => inst["listener"].cfg.rev >= cmd[c].asked

(* The listener whose boot id a start found ready runs with a configuration *)
(* at least as new as the one the command read: neither a status file nor a *)
(* socket an earlier process left behind passes for it.                     *)
ReadyHasChange ==
  \A c \in Cmds : Ended(c) /\ cmd[c].outcome = "ready" => cmd[c].got >= cmd[c].asked

(* After `hermes setup', as long as nothing writes config.yaml, the         *)
(* listener signs with the secret the bridge verifies with, also when       *)
(* either of them crashes and is started again.                             *)
SetupAgrees ==
  ~detached => \A c \in Cmds :
    /\ Ended(c) /\ cmd[c].class = "hermes" /\ config.rev = cmd[c].asked
    /\ \A s \in Services : inst[s].st = "up"
    => inst["listener"].cfg.secret = inst["bridge"].cfg.secret

(* When no command runs, and none was interrupted, lost its change to one   *)
(* that edited config.yaml at the same time or left it for later, the       *)
(* listener notifies the host as config.yaml says.                          *)
ConfigInForce ==
  /\ ~waived /\ ~detached /\ HasConfig("listener")
  /\ \A c \in Cmds : cmd[c].todo = <<>>
  => LET cfg == inst["listener"].cfg IN
     /\ cfg.on = config.on /\ cfg.sink = config.sink
     /\ cfg.on /\ cfg.sink = "hermes" => cfg.secret = config.secret
=============================================================================
