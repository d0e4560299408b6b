SPECIFICATION Spec
CONSTANTS
  Heights = {6, 11, 36}
  Lines <- FewLines
  Outputs = {1}
  LaterLines <- SomeLines
  Welcome = 2
  MaxHistory = 12
  MaxViewers = 7
INVARIANTS
  WindowInHistory
  PhoneFillsScreen
  AdminCommandsHidden
  NeverGuesses
  TypedInFullRuns
PROPERTIES
  PagesMeet
CHECK_DEADLOCK FALSE
