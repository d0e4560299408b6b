SPECIFICATION FairSpec
CONSTANTS
  Names = {root, ann, cy}
  Admins = {root}
  NoRow = NoRow
  MaxId = 3
  Horizon = 3
  MaxFails = 1
  Threshold = 1
  LockTicks = 1
  ExpiryTicks = 1
  Applicants = {p, q}
  Nothing = Nothing
  Codes = {k}
  MaxUses = 1
  Ruled = {ann}
  Modes = {"invite-only", "open-with-approval"}
  AdminDoes = {"create", "approve", "deny", "delete", "ban"}
INVARIANTS
  TypeOK
  ToldIsTrue
  NobodyUninvited
  UsesAreSpentOnce
PROPERTIES
  NamesAreFreed
  ActiveSurvives
CHECK_DEADLOCK FALSE
