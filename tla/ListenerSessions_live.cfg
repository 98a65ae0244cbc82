SPECIFICATION FairSpec
CONSTANTS
  i1 = i1
  i2 = i2
  a1 = a1
  Identities = {i1}
  Known = {}
  Requests = {r1}
  Main = Main
  NoIdentity = NoIdentity
  Acks = {}
  recipient <- AckForLate
  MaxFailures = 2
CHECK_DEADLOCK FALSE
PROPERTY Reconnects
PROPERTY CallersReturn
PROPERTY CancelledEnds
