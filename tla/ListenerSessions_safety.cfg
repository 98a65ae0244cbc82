SPECIFICATION Spec
CONSTANTS
  i1 = i1
  i2 = i2
  a1 = a1
  Identities = {i1, i2}
  Known = {i1}
  Requests = {r1}
  Main = Main
  NoIdentity = NoIdentity
  Acks = {a1}
  recipient <- AckForLate
  MaxFailures = 1
CHECK_DEADLOCK FALSE
INVARIANT OneLiveLoop
INVARIANT OneSocket
INVARIANT ConnectedMeansServed
