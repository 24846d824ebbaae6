SPECIFICATION Spec
CONSTANTS
  home = home
  d1 = d1
  d2 = d2
  d3 = d3
  p = p
  p1 = p1
  p2 = p2
  q = q
  q3 = q3
  Data = {home, d1, d2, d3}
  Long = {d1, d2, d3}
  Keys = {p, p1, p2, q, q3}
  MaxLen = 2
  Prefix <- MCPrefix
  Limit = 2
  Stale = Stale
  Handlers = {h1, h2}
  Messages = {m1}
  Menus <- MCMenus
  Home = home
INVARIANTS
  KeyboardsTypeOK
  IndexesAgree
  KeysAreDigests
  SurvivesLimitMints
  MisroutesOnlyOnCollision
PROPERTY
  FifoSpec
