SPECIFICATION WSFairSpec
CONSTANTS
  b1 = b1
  b2 = b2
  q1 = q1
  q2 = q2
  n1 = n1
  BridgeCalls = {b1}
  PollCalls = {q1}
  NestedCalls = {n1}
  NoCall = NoCall
  Capacity = 1
  MaxPushes = 2
  MaxFaults = 1
CHECK_DEADLOCK FALSE
INVARIANT PatientCallsNeverBlock
PROPERTY CallsReturn
PROPERTY LossIsNoticed
