SPECIFICATION Spec
CONSTANTS
  alice = alice
  bob = bob
  carol = carol
  a1 = a1
  b1 = b1
  b2 = b2
  c1 = c1
  NoUser = NoUser
  Users = {alice, bob, carol}
  Sessions = {a1, b1, c1}
  Owner <- Trio
  CallIds = {k1, k2}
  NotifyCap = 1
  Tickers = {"dial"}
VIEW TableView
SYMMETRY CallSymmetry
INVARIANTS
  OneRingPerCallee
  RingReachesCalleeOnly
  NoPhantom
  RingHasReach
PROPERTIES
  JoinsByRing
  Implements
CHECK_DEADLOCK FALSE
