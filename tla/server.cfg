SPECIFICATION FairSpec
CONSTANTS
  root = root
  k = k
  l = l
  ROOT = ROOT
  Names = {root, ROOT}
  Fold <- Lower
  Nobody = Nobody
  NoRow = NoRow
  Tables <- FirstTables
  Added = {ROOT}
  MaxCrashes = 2
  Conns = {k, l}
  New = New
INVARIANTS
  ServesWithAdmin
  ExpireHolds
PROPERTIES
  RecoveredWithPassword
  OperatorGetsIn
  IdlersAreClosed
  TimerSparesAccounts
CHECK_DEADLOCK FALSE
