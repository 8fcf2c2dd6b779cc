CONSTANTS
  p1 = p1
  p2 = p2
  Pages = {p1}
  AutoConnect = {}
  Attempts <- MCAttempts
  Rtts = {2, 3}
  Default = 1
  Configured = 2
  Settings = 1
  Exposed = {p1}
  Plans <- MCPlans
SPECIFICATION FairSpec
INVARIANTS
  TypeOK
  JoinerCaughtUp
PROPERTIES
  EndedStaysOut
  BackInRoom
CHECK_DEADLOCK FALSE
