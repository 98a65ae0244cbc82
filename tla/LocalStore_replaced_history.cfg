SPECIFICATION Spec
CONSTANTS
  o1 = o1
  o2 = o2
  n = n
  OldOwners <- TwoOlds
  NewOwner = n
  Peers = {1, 2}
  Handles = {h1, h2}
  Msgs = {m1}
  Sender <- FromFirst
  Groups = {g1}
  Events = {e1}
  NoHandle = NoHandle
  MaxTime = 2
  MaxWrites = 2
CHECK_DEADLOCK FALSE
PROPERTY RebindHandsOver
