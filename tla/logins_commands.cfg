SPECIFICATION Spec
CONSTANTS
  Names = {root, ann}
  Admins = {root}
  NoRow = NoRow
  MaxId = 2
  Horizon = 2
  MaxFails = 2
  Threshold = 1
  LockTicks = 1
  ExpiryTicks = 1
  Conns = {p, q}
  Nobody = Nobody
VIEW LoginView
SYMMETRY ConnSymmetry
INVARIANTS
  TypeOK
  LastUsableAdmin
  LockGoesWithCount
PROPERTIES
  BanHolds
  LockHolds
  RunsTheStore
