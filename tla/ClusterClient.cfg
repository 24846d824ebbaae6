SPECIFICATION Spec
CONSTANTS
  Contexts = {c1, c2, broken}
  Broken = {broken}
  Absent = absent
  Initial = c1
  Users = {u1, u2}
  Impersonated = {u2}
  Workers = {w1, w2}
  Operations <- MCOperations
  Resolve = Resolve
  None = None
INVARIANTS
  TypeOK
  NeverBroken
  LoneSwitchIsWhole
  OneClusterPerOperation
