SPECIFICATION Spec
CONSTANTS
  root = root
  k = k
  ROOT = ROOT
  Names = {root, ROOT}
  Fold <- Lower
  Nobody = Nobody
  NoRow = NoRow
  Tables <- FirstTables
  Added = {ROOT}
  MaxCrashes = 2
  Conns = {k}
  New = New
PROPERTY TimerIsPreAuthOnly
CHECK_DEADLOCK FALSE
