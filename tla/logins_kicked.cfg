SPECIFICATION Spec
CONSTANTS
  Names = {root, ann}
  Admins = {root}
  NoRow = NoRow
  MaxId = 2
  Horizon = 2
  MaxFails = 1
  Threshold = 1
  LockTicks = 1
  ExpiryTicks = 1
  Conns = {p, q}
  Nobody = Nobody
SYMMETRY ConnSymmetry
INVARIANTS
  BanEndsSessions
