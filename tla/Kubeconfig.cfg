SPECIFICATION Spec
CONSTANTS
  None = None
  p = p
  q = q
  x = x
  y = y
  Names = {a, b}
  Clusters <- MCClusters
  Users <- MCUsers
  Link <- MCLink
  Vouches <- MCVouches
  UserRequired = TRUE
INVARIANTS TypeOK Coherent AheadOnlyAfterFailure ComesBack
SYMMETRY Symmetry
