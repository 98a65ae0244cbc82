SPECIFICATION Spec
CONSTANTS
  c1 = c1
  c2 = c2
  a1 = a1
  Me = Me
  Nobody = Nobody
  Cmds = {c1, c2}
  Others = {a1}
  MaxCommands = 2
  MaxChanges = 3
  MaxDrops = 1
CHECK_DEADLOCK FALSE
INVARIANT MembersCurrent
INVARIANT OwnerGuardTrue
SYMMETRY Symmetry
