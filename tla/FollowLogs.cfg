SPECIFICATION FairSpec
CONSTANTS
  Users = {u1, u2}
  Pods = {p1, p2}
  Messages = {m1, m2}
  Follows = {f1, f2}
  Stops = {s1}
  MaxTicks = 1
  None = None
  Menu = Menu
INVARIANTS
  TypeOK
  NoDanglingEntry
  ReachableWhenAlone
  OneLateEdit
PROPERTY
  EveryFollowEnds
CHECK_DEADLOCK FALSE
