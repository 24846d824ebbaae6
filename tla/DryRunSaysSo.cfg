SPECIFICATION Spec
CONSTANTS
  None = None
  Nodes = {n1}
  Pods = {p, k}
  Kept = {k}
  Workers = {w1}
  MaxUid = 1
  Workloads = {dep, rs}
  Deployments = {dep}
  Counts = {0, 1}
INVARIANT DryRunSaysSo
