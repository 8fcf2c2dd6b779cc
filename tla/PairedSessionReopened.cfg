CONSTANTS
  Participants = {1, 2}
  Runs = {1}
  Reports = {101}
  HasGateway = TRUE
  ApiFails = FALSE
  Operator = FALSE
SPECIFICATION Spec
PROPERTIES
  NoReopenAfterStart
CHECK_DEADLOCK FALSE
