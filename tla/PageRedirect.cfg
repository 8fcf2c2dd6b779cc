CONSTANTS
  p1 = p1
  p2 = p2
  Pages = {p1}
  AutoConnect = {}
  Attempts <- MCAttempts
  Rtts = {2, 3}
  Default = 1
  Configured = 2
  Settings = 1
  Exposed = {p1}
  Plans <- MCDrop
SPECIFICATION FairSpec
PROPERTIES
  EveryoneRedirected
CHECK_DEADLOCK FALSE
