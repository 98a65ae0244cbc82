SPECIFICATION OutboxFairSpec
CONSTANTS
  m1 = m1
  m2 = m2
  m3 = m3
  Messages = {m1, m2, m3}
  Unsupported = {m3}
  Workers = {w1, w2}
  NoMessage = NoMessage
  MaxConfirms = 1
  MaxCommands = 2
  MaxFaults = 1
CHECK_DEADLOCK FALSE
INVARIANT NoSilentLoss
PROPERTY BacklogFlushed
