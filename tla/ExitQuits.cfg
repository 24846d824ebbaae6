SPECIFICATION FairSpec
CONSTANTS
  Users = {u1}
  Chats = {g1}
  Execs = {e1}
  Texts = {t1}
  Limit = 2
  Window = 2
  MaxNow = 2
  None = None
PROPERTY ExitQuits
CHECK_DEADLOCK FALSE
