CONSTANTS
  Participants = {1, 2}
  Runs = {1, 2}
  Reports = {101}
  HasGateway = TRUE
  ApiFails = TRUE
  Operator = FALSE
SPECIFICATION Spec
INVARIANTS
  RunningHasRunner
  OneHandlerPerSession
CHECK_DEADLOCK FALSE
