SPECIFICATION Spec
CONSTANTS
  c1 = c1
  c2 = c2
  s1 = s1
  s2 = s2
  Unset = Unset
  Cmds = {c1, c2}
  Secrets = {s1, s2}
  Allowed = {"setup", "modeSet", "apply", "start", "stop", "restart", "install", "uninstall", "configSet", "enable", "sinkSet", "notifyEnable", "openclaw", "hermesSet", "setSecret", "clearSecret", "hermesSetup"}
  Exclusive = {"hermesSetup", "notifyEnable", "setSecret", "clearSecret", "sinkSet"}
  MaxCommands = 2
  MaxFaults = 1
CHECK_DEADLOCK FALSE
INVARIANT NotifyApplied
INVARIANT ReadyHasChange
INVARIANT SetupAgrees
INVARIANT ConfigInForce
SYMMETRY Symmetry
