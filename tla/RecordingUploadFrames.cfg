CONSTANTS
  r1 = r1
  r2 = r2
  r3 = r3
  None = None
  Recordings = {r1}
  FrameBatches <- MCFrameBatches
  Eventful = {r1}
  Messaged = {}
  MaxAttempts = 2
  Flushers = {}
  Schemas = {TRUE, FALSE}
SPECIFICATION Spec
INVARIANTS
  StoredHasFrames
