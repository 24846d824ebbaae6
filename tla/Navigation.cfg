SPECIFICATION Spec
CONSTANTS
  j1 = j1
  Jobs = {j1}
  Lost = Lost
  Objects <- MCObjects
  Shapes <- MCShapes
  Namespaces <- MCNamespaces
  Contexts <- MCContexts
  Browsed = {"pods", "nodes", "deployments", "replicasets", "services", "secrets", "namespaces",
             "pvcs", "pvs"}
  PageSize = 1
INVARIANTS TypeOK  EveryButtonAnswers WayHome LandsWhereAsked
CHECK_DEADLOCK FALSE
