SPECIFICATION Spec
CONSTANTS
  Users = {u1, u2}
  Chats = {g1, g2}
  Execs = {e1, e2}
  Texts = {t1}
  Limit = 2
  Window = 2
  MaxNow = 3
  None = None
INVARIANTS
  TypeOK
  AtMostLimitPerWindow
  AdmittedAfterWindow
  NothingOutlivesItsShell
  OneShellUnlessRaced
SYMMETRY MCSymmetry
