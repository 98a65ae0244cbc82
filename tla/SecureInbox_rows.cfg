SPECIFICATION FairSpec
CONSTANTS
  m1 = m1
  m2 = m2
  c1 = c1
  Messages = {m1, m2}
  First = m1
  MaxControls = 1
  Commands = {c1}
  Push = Push
  Poll = Poll
  NoRow = NoRow
  NoMessage = NoMessage
  MaxCommands = 1
  MaxFaults = 1
CHECK_DEADLOCK FALSE
INVARIANT RowIsWhole
INVARIANT DecryptedKept
INVARIANT UnreadUntilStored
PROPERTY RowsOnlyImprove
PROPERTY TextsArrive
PROPERTY FirstIsAcked
