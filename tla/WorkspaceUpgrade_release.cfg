SPECIFICATION FairSpec
CONSTANTS
  p1 = p1
  p2 = p2
  i1 = i1
  i2 = i2
  Proc = {p1, p2}
  NoProc = NoProc
  Identities = {i1, i2}
  NoIdentity = NoIdentity
  latestVersion <- LatestEverywhere
  InitialWorkspaces <- AllWorkspaces
  MaxAborts = 2
INVARIANT MutualExclusion
INVARIANT RecoverableBackup
INVARIANT NoSilentK1
INVARIANT CompleteUnlessTorn
PROPERTY UpgradeCompletes
PROPERTY ImplementsLedger
