SPECIFICATION Spec
CONSTANTS
  alice = alice
  bob = bob
  carol = carol
  a1 = a1
  b1 = b1
  b2 = b2
  c1 = c1
  NoUser = NoUser
  Users = {alice, bob}
  Sessions = {a1, b1}
  Owner <- Pair
  CallIds = {k1, k2}
  NotifyCap = 4
  Tickers = {"dial"}
  NoCall = NoCall
  MaxReceivers = 2
  DoorSets <- CalmOrNot
SYMMETRY CallSymmetry
CONSTRAINT FewLaunches
INVARIANTS
  ActiveIsReal
  CallerIsTold
  ScreenMatchesCall
  NoHangupWhilePending
CHECK_DEADLOCK FALSE
