SPECIFICATION Spec
CONSTANTS
  Users = {u1}
  Pods = {p1}
  Messages = {m1, m2}
  Follows = {f1, f2}
  Stops = {s1}
  MaxTicks = 1
  None = None
  Menu = Menu
INVARIANT StopReaches
CHECK_DEADLOCK FALSE
