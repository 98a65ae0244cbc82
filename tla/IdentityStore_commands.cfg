SPECIFICATION Spec
CONSTANTS
  h = h
  a1 = a1
  a2 = a2
  a3 = a3
  u1 = u1
  p1 = p1
  p2 = p2
  alice = alice
  alice2 = alice2
  temp = temp
  dflt = dflt
  None = None
  Procs = {p1, p2}
  Names = {alice, alice2, temp, dflt}
  DIDs = {a1, a2, a3, u1}
  Handles = {h}
  HandleOf <- MCHandleOf
  FinalName <- MCFinal
  TempName <- MCTemp
  Fallback <- MCFallback
  Default = dflt
  Legacy = a1
  Exclusive = {"replace", "recover"}
  Kinds = {"create", "register", "use", "profile", "replace", "recover"}
  MaxCommands = 2
  MaxKills = 1
CHECK_DEADLOCK FALSE
INVARIANT OwnerKeysHeld
INVARIANT EntriesHaveKeys
INVARIANT DefaultIsLive
INVARIANT RowsHaveOwner
PROPERTY RemovedAfterBackup
