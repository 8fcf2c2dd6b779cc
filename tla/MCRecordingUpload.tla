------------------------- MODULE MCRecordingUpload -------------------------
EXTENDS RecordingUpload, TLC

CONSTANTS r1, r2, r3

\* One recording with two batches of frames, one with a single batch, one
\* without frames.
MCFrameBatches == [r \in Recordings |-> CASE r = r1 -> 2 [] r = r2 -> 1 [] r = r3 -> 0]
=============================================================================
