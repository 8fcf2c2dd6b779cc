CONSTANTS
  Participants = {1}
  Runs = {1, 2, 3}
  Reports = {}
  HasGateway = TRUE
  ApiFails = TRUE
  Operator = TRUE
SPECIFICATION Spec
INVARIANTS
  OneLiveRun
CHECK_DEADLOCK FALSE
