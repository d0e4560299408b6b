SPECIFICATION Spec
CONSTANTS
  alice = alice
  bob = bob
  carol = carol
  a1 = a1
  b1 = b1
  b2 = b2
  c1 = c1
  NoUser = NoUser
  Users = {alice, bob}
  Sessions = {a1, b1, b2}
  Owner <- Siblings
  CallIds = {k1, k2}
  NotifyCap = 3
  Tickers = {}
  NoCall = NoCall
  MaxReceivers = 1
  DoorSets <- Shut
SYMMETRY SiblingSymmetry
CONSTRAINT FewWaiting
INVARIANTS
  TypeOK
  NoHiddenCall
PROPERTIES
  Implements
CHECK_DEADLOCK FALSE
