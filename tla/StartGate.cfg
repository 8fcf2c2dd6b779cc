CONSTANTS
  Members <- MCMembers
  Presses <- MCPresses
  MaxSessions = 2
SPECIFICATION FairSpec
INVARIANTS
  TypeOK
  PressesAreOfThisSession
  ConfirmedIsRecorded
PROPERTIES
  PairPressed
  PressKept
  GateOpens
CHECK_DEADLOCK FALSE
