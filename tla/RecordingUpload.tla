-------------------------- MODULE RecordingUpload --------------------------
(***************************************************************************)
(* How the admin's browser stores its recordings: SequentialUploadQueue    *)
(* (packages/web/src/recording-upload-queue.ts) running                    *)
(* uploadRecordingSession() (App.tsx) against the Supabase tables.         *)
(*                                                                         *)
(* An action is the code between the answers to two requests.  Recordings  *)
(* are the finished sessions; the upload key (name, trial, start time)     *)
(* identifies them, in the queue and in the table recordings.              *)
(***************************************************************************)
EXTENDS Naturals, Sequences

CONSTANTS
    Recordings,     \* finished sessions
    FrameBatches,   \* number of frame batches of each of them
    Eventful,       \* those with admin events
    Messaged,       \* those with broadcast messages
    MaxAttempts,    \* options.maxAttempts
    Flushers,       \* calls of flush()
    Schemas,        \* may the database have (TRUE) or lack the columns added later?
    None            \* no recording

ASSUME RecordingUploadAssumption ==
    /\ FrameBatches \in [Recordings -> Nat]
    /\ Eventful \subseteq Recordings /\ Messaged \subseteq Recordings
    /\ MaxAttempts \in Nat \ {0}
    /\ Schemas \subseteq BOOLEAN
    /\ None \notin Recordings

VARIABLES
    \* SequentialUploadQueue
    entries,            \* queued entries
    pending,            \* the keys of pendingByKey
    processing,
    terminalErrors,     \* the recordings whose errors are collected
    flush,              \* the promise of each flush(); flushWaiters are the waiting ones
    \* process(), uploadWithRetry() and uploadRecordingSession() in progress
    current,            \* entry
    attempt,
    at,                 \* the await it is suspended at
    id,                 \* recordingId
    inserted,           \* frame batches inserted
    \* the rest of the world
    columns,            \* does the database have the columns added later?
    rows,               \* the table recordings, with what refers to each row
    promise,            \* the promise of the last enqueue() of each recording
    owed                \* history: what was pending when flush() was called

queueVars  == <<entries, pending, processing, terminalErrors, flush, owed>>
uploadVars == <<current, attempt, at, id, inserted>>
vars       == <<queueVars, uploadVars, columns, rows, promise>>

Awaits == {"idle", "lookup", "row", "legacyRow", "frames", "legacyFrames",
           "events", "messages", "delay"}

Row == [of : Recordings, json : BOOLEAN, frames : Nat, events : BOOLEAN, messages : BOOLEAN]

TypeOK ==
    /\ entries \in Seq(Recordings)
    /\ pending \subseteq Recordings
    /\ processing \in BOOLEAN
    /\ terminalErrors \subseteq Recordings
    /\ flush \in [Flushers -> {"none", "waiting", "resolved", "rejected"}]
    /\ current \in Recordings \cup {None}
    /\ attempt \in 0..MaxAttempts
    /\ at \in Awaits
    /\ id \in Nat
    /\ inserted \in Nat
    /\ columns \in BOOLEAN
    /\ rows \in Seq(Row)
    /\ promise \in [Recordings -> {"none", "pending", "stored", "failed"}]
    /\ owed \in [Flushers -> SUBSET Recordings]

Init ==
    /\ entries = <<>> /\ pending = {} /\ processing = FALSE /\ terminalErrors = {}
    /\ flush = [f \in Flushers |-> "none"]
    /\ current = None /\ attempt = 0 /\ at = "idle" /\ id = 0 /\ inserted = 0
    /\ columns \in Schemas
    /\ rows = <<>>
    /\ promise = [r \in Recordings |-> "none"]
    /\ owed = [f \in Flushers |-> {}]

-----------------------------------------------------------------------------
(* The queue.                                                               *)

\* process() shifts an entry and starts its first attempt.
Begin(r) ==
    /\ current' = r
    /\ attempt' = 1
    /\ at' = "lookup"

\* mutant of Fresh: forgets the recording that is being uploaded
Fresh_Waiting(r) == \A i \in DOMAIN entries : entries[i] # r
\* !this.pendingByKey.get(key)
Fresh(r) == r \notin pending

Enqueue(r) ==
    /\ Fresh(r)
    /\ pending' = pending \cup {r}
    /\ promise' = [promise EXCEPT ![r] = "pending"]
    /\ IF processing
         THEN entries' = Append(entries, r) /\ UNCHANGED <<processing, uploadVars>>
         ELSE /\ processing' = TRUE
              /\ Begin(r)
              /\ UNCHANGED <<entries, id, inserted>>
    /\ UNCHANGED <<terminalErrors, flush, owed, columns, rows>>

Flush(f) ==
    LET idle == ~processing /\ entries = <<>>
    IN  /\ flush[f] = "none"
        /\ flush' = [flush EXCEPT ![f] = IF ~idle THEN "waiting"
                                         ELSE IF terminalErrors # {} THEN "rejected"
                                         ELSE "resolved"]
        /\ terminalErrors' = IF idle THEN {} ELSE terminalErrors
        /\ owed' = [owed EXCEPT ![f] = pending]
        /\ UNCHANGED <<entries, pending, processing, uploadVars, columns, rows, promise>>

\* mutant of Answered: the waiters learn of the last upload only
Answered_Last(errors) ==
    [f \in Flushers |-> IF flush[f] # "waiting" THEN flush[f]
                        ELSE IF current \in errors THEN "rejected" ELSE "resolved"]
\* The queue ran empty: every waiter of flush() is answered.
Answered(errors) ==
    [f \in Flushers |-> IF flush[f] # "waiting" THEN flush[f]
                        ELSE IF errors # {} THEN "rejected" ELSE "resolved"]

NextEntry == Begin(Head(entries)) /\ entries' = Tail(entries)

\* uploadWithRetry() of the current entry returned or threw for good.
Settle(result) ==
    LET errors == terminalErrors \cup (IF result = "failed" THEN {current} ELSE {})
    IN  /\ promise' = [promise EXCEPT ![current] = result]
        /\ pending' = pending \ {current}
        /\ IF entries # <<>>
             THEN /\ NextEntry
                  /\ terminalErrors' = errors
                  /\ UNCHANGED <<processing, flush>>
             ELSE /\ current' = None /\ attempt' = 0 /\ at' = "idle"
                  /\ processing' = FALSE
                  /\ flush' = Answered(errors)
                  /\ terminalErrors' = {}
                  /\ UNCHANGED entries
        /\ id' = 0 /\ inserted' = 0
        /\ UNCHANGED owed

\* mutant of AttemptsLeft: one retry too many
AttemptsLeft_Inclusive == attempt <= MaxAttempts
AttemptsLeft == attempt < MaxAttempts

\* One attempt threw.
AttemptFails ==
    \/ /\ AttemptsLeft
       /\ at' = "delay"
       /\ id' = 0 /\ inserted' = 0
       /\ UNCHANGED <<queueVars, current, attempt, promise>>
    \/ /\ ~AttemptsLeft
       /\ Settle("failed")

\* mutant of Retry: the attempt is not counted
Retry_Uncounted ==
    /\ at = "delay"
    /\ at' = "lookup"
    /\ UNCHANGED <<queueVars, current, attempt, id, inserted, rows, promise>>
\* The retry delay is over.
Retry ==
    /\ at = "delay"
    /\ attempt' = attempt + 1
    /\ at' = "lookup"
    /\ UNCHANGED <<queueVars, current, id, inserted, rows, promise>>

-----------------------------------------------------------------------------
(* uploadRecordingSession() of the current entry.  A request takes effect   *)
(* and is answered, or fails with or without its effect: what it does not   *)
(* do before its failure is noticed it never does.                          *)

Goto(l) ==
    /\ at' = l
    /\ UNCHANGED <<queueVars, current, attempt, promise>>

\* After the row: frames batch by batch, then events, then messages.  The
\* legacy schema stores the whole session as one more event.
HasEvents == current \in Eventful \/ ~columns
AfterFrames == IF HasEvents THEN "events"
               ELSE IF current \in Messaged THEN "messages" ELSE "done"

\* Go on with the next part, or return from the upload.
GoOn(part) == IF part = "done" THEN Settle("stored")
              ELSE Goto(part) /\ UNCHANGED <<id, inserted>>

Stored(r) == {i \in DOMAIN rows : rows[i].of = r}

\* mutant of AlreadyStored: the lookup of the retry is forgotten
AlreadyStored_Never == FALSE
AlreadyStored == Stored(current) # {}

\* The select by name, trial and start time.  A row that exists is taken for a
\* finished upload.
Lookup ==
    /\ at = "lookup"
    /\ \/ /\ AlreadyStored
          /\ Settle("stored")
       \/ /\ ~AlreadyStored
          /\ Goto("row")
          /\ UNCHANGED <<id, inserted>>
       \/ AttemptFails
    /\ UNCHANGED rows

\* mutant of NewRow: the session itself is left out
NewRow_NoJson(json) ==
    [of |-> current, json |-> FALSE, frames |-> 0, events |-> FALSE, messages |-> FALSE]
NewRow(json) ==
    [of |-> current, json |-> json, frames |-> 0, events |-> FALSE, messages |-> FALSE]

\* The answer to the insert of the row: it was stored, or the request failed
\* before or after it was.
RowAnswered(json) ==
    \/ /\ rows' = Append(rows, NewRow(json))
       /\ IF FrameBatches[current] > 0
            THEN Goto("frames") /\ id' = Len(rows) + 1 /\ inserted' = 0
            ELSE IF AfterFrames = "done" THEN Settle("stored")
                 ELSE Goto(AfterFrames) /\ id' = Len(rows) + 1 /\ inserted' = 0
    \/ /\ rows' \in {rows, Append(rows, NewRow(json))}
       /\ AttemptFails

InsertRow ==
    /\ at = "row"
    /\ \/ columns /\ RowAnswered(TRUE)
       \/ /\ ~columns
          /\ Goto("legacyRow")
          /\ UNCHANGED <<id, inserted, rows>>
       \/ ~columns /\ AttemptFails /\ UNCHANGED rows

InsertLegacyRow == at = "legacyRow" /\ RowAnswered(FALSE)

\* The answer to the insert of a batch of frames.
FramesAnswered ==
    \/ /\ rows' = [rows EXCEPT ![id].frames = @ + 1]
       /\ IF inserted + 1 < FrameBatches[current]
            THEN Goto("frames") /\ inserted' = inserted + 1 /\ UNCHANGED id
            ELSE GoOn(AfterFrames)
    \/ /\ rows' \in {rows, [rows EXCEPT ![id].frames = @ + 1]}
       /\ AttemptFails

InsertFrames ==
    /\ at = "frames"
    /\ \/ columns /\ FramesAnswered
       \/ /\ ~columns
          /\ Goto("legacyFrames")
          /\ UNCHANGED <<id, inserted, rows>>
       \/ ~columns /\ AttemptFails /\ UNCHANGED rows

InsertLegacyFrames == at = "legacyFrames" /\ FramesAnswered

InsertEvents ==
    /\ at = "events"
    /\ \/ /\ rows' = [rows EXCEPT ![id].events = TRUE]
          /\ GoOn(IF current \in Messaged THEN "messages" ELSE "done")
       \/ /\ rows' \in {rows, [rows EXCEPT ![id].events = TRUE]}
          /\ AttemptFails

InsertMessages ==
    /\ at = "messages"
    /\ \/ /\ rows' = [rows EXCEPT ![id].messages = TRUE]
          /\ Settle("stored")
       \/ /\ rows' \in {rows, [rows EXCEPT ![id].messages = TRUE]}
          /\ AttemptFails

UploadStep ==
    /\ \/ Lookup \/ InsertRow \/ InsertLegacyRow \/ InsertFrames \/ InsertLegacyFrames
       \/ InsertEvents \/ InsertMessages \/ Retry
    /\ UNCHANGED columns

Next ==
    \/ \E r \in Recordings : Enqueue(r)
    \/ \E f \in Flushers : Flush(f)
    \/ UploadStep

Spec == Init /\ [][Next]_vars

\* A request is answered or fails, and the retry timer fires.
FairSpec == Spec /\ WF_vars(UploadStep)

-----------------------------------------------------------------------------
(* Properties.                                                              *)

\* fetchRecordingSession(): the session stored with the row, else with an event
\* (legacy schema), else put together from the tables.
Complete(row) ==
    /\ row.frames = FrameBatches[row.of]
    /\ row.of \in Eventful => row.events
    /\ row.of \in Messaged => row.messages
Downloadable(row) == row.json \/ (row.events /\ ~columns) \/ Complete(row)

\* However often a recording is retried, and whichever answers are lost, it has
\* at most one row: a second one would make the lookup of every later attempt
\* fail, and analyses would count the trial twice.
OneRowPerRecording == \A i, j \in DOMAIN rows : rows[i].of = rows[j].of => i = j

\* With the present schema a recording whose upload was reported as done can be
\* downloaded complete, although a retry takes the row of a broken attempt for
\* a finished upload: the row carries the session.
StoredIsDownloadable ==
    columns => \A r \in Recordings : promise[r] = "stored" =>
            \E i \in Stored(r) : Downloadable(rows[i])

\* flush() answers when everything that was pending at its call is settled, and
\* reports the failure of any of it, also when later uploads succeed.
FlushCovers ==
    [][\A f \in Flushers : flush[f] = "waiting" /\ flush'[f] # "waiting" =>
         \A r \in owed[f] : /\ promise'[r] # "pending"
                            /\ flush'[f] = "resolved" => promise'[r] # "failed"]_vars

\* Every enqueued recording is settled, also when the queue runs empty or other
\* recordings are enqueued at the same time.
EverySettled == \A r \in Recordings : promise[r] = "pending" ~> promise[r] # "pending"

\* "frames-present" of scripts/validate-recordings.ts: a stored recording has
\* all of its frames in the table frames.
StoredHasFrames ==
    \A r \in Recordings : promise[r] = "stored" =>
        \E i \in Stored(r) : rows[i].frames = FrameBatches[r]

(* The queue as an implementation of UploadService.                         *)
Line == (IF current = None THEN <<>> ELSE <<current>>) \o entries

Service == INSTANCE UploadService WITH line <- Line, result <- promise

\* Recordings are accepted once, stored one at a time in the order in which
\* they were accepted, and each is answered once.
RefinesService == Service!Spec
=============================================================================
