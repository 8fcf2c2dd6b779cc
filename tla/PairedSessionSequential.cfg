CONSTANTS
  Participants = {1, 2, 3}
  Runs = {1}
  Reports = {}
  HasGateway = TRUE
  ApiFails = TRUE
  Operator = FALSE
SPECIFICATION FairSpec
INVARIANTS
  StudyStaysPaused
PROPERTIES
  ReopenedEmpty
  InterruptionResolved
  RefinesRecruitment
CHECK_DEADLOCK FALSE
