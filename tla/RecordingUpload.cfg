CONSTANTS
  r1 = r1
  r2 = r2
  r3 = r3
  None = None
  Recordings = {r1, r3}
  FrameBatches <- MCFrameBatches
  Eventful = {r1}
  Messaged = {r1}
  MaxAttempts = 2
  Flushers = {1, 2}
  Schemas = {TRUE, FALSE}
SPECIFICATION FairSpec
INVARIANTS
  TypeOK
  OneRowPerRecording
  StoredIsDownloadable
PROPERTIES
  FlushCovers
  EverySettled
  RefinesService
