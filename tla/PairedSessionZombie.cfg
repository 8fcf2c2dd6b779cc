CONSTANTS
  Participants = {1, 2}
  Runs = {1, 2}
  Reports = {}
  HasGateway = TRUE
  ApiFails = FALSE
  Operator = TRUE
SPECIFICATION Spec
PROPERTIES
  StoppedRunIsGone
CHECK_DEADLOCK FALSE
