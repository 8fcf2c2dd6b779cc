----------------------- MODULE RecordingUploadProofs -----------------------
(***************************************************************************)
(* Proofs about RecordingUpload: its type, that no recording is stored     *)
(* twice, and that the queue implements UploadService.                     *)
(***************************************************************************)
EXTENDS RecordingUpload, SequenceTheorems, TLAPS

-----------------------------------------------------------------------------
(* The inductive invariant.                                                 *)

\* The type of everything but the table.
QueueType ==
    /\ entries \in Seq(Recordings)
    /\ pending \subseteq Recordings
    /\ processing \in BOOLEAN
    /\ terminalErrors \subseteq Recordings
    /\ flush \in [Flushers -> {"none", "waiting", "resolved", "rejected"}]
    /\ current \in Recordings \cup {None}
    /\ attempt \in 0..MaxAttempts
    /\ at \in Awaits
    /\ id \in Nat
    /\ inserted \in Nat
    /\ promise \in [Recordings -> {"none", "pending", "stored", "failed"}]
    /\ owed \in [Flushers -> SUBSET Recordings]

\* The process() loop runs exactly while it holds an entry, never leaves one
\* behind in the queue, and only delays an attempt that may still be made.
Busy ==
    /\ processing <=> current # None
    /\ at = "idle" <=> current = None
    /\ current = None => entries = <<>>
    /\ at = "delay" => attempt < MaxAttempts

\* What is in the line is pending, and nothing is in it twice.
Distinct ==
    /\ \A i \in 1..Len(Line) : Line[i] \in pending
    /\ \A i, j \in 1..Len(Line) : Line[i] = Line[j] => i = j

\* A row is only inserted for a recording that has none.
NoRowYet == at \in {"row", "legacyRow"} => Stored(current) = {}

QueueInv == QueueType /\ Busy /\ Distinct
RowInv   == rows \in Seq(Row) /\ NoRowYet /\ OneRowPerRecording

-----------------------------------------------------------------------------
(* The shapes of a step.                                                    *)

\* The upload goes on to another await.
Moves ==
    /\ current # None
    /\ at' \in Awaits \ {"idle"}
    /\ attempt' \in 0..MaxAttempts /\ id' \in Nat /\ inserted' \in Nat
    /\ at' = "delay" => attempt' < MaxAttempts
    /\ UNCHANGED <<queueVars, current, promise>>

Ends == at # "idle" /\ \E result \in {"stored", "failed"} : Settle(result)

\* A thrown attempt is retried or ends the upload.
LEMMA FailsShape ==
  ASSUME QueueType, Busy, at # "idle", AttemptFails
  PROVE  (Moves /\ at' = "delay") \/ Ends
  BY DEF AttemptFails, AttemptsLeft, Moves, Ends, QueueType, Busy, Awaits

\* So does an upload that goes on with the next part or returns.
LEMMA GoOnShape ==
  ASSUME QueueType, Busy, at # "idle",
         NEW part \in {"events", "messages", "done"}, GoOn(part)
  PROVE  (Moves /\ at' = part) \/ Ends
  BY DEF GoOn, Goto, Moves, Ends, QueueType, Busy, Awaits, queueVars

\* So does the answer to the insert of a row.
LEMMA RowShape ==
  ASSUME RecordingUploadAssumption, QueueType, Busy, rows \in Seq(Row), at # "idle",
         NEW json \in BOOLEAN, RowAnswered(json)
  PROVE  (Moves /\ at' \notin {"row", "legacyRow"}) \/ Ends
  <1>1. AttemptFails => (Moves /\ at' = "delay") \/ Ends
    BY FailsShape
  <1>2. Settle("stored") => Ends
    BY DEF Ends
  <1>3. AfterFrames \in {"events", "messages", "done"}
    BY DEF AfterFrames
  <1>4. ASSUME NEW part \in {"frames", "events", "messages"}, Goto(part),
               id' = Len(rows) + 1, inserted' = 0
        PROVE  Moves /\ at' = part
    BY <1>4 DEF Goto, Moves, Awaits, QueueType, Busy
  <1> QED
    BY <1>1, <1>2, <1>3, <1>4 DEF RowAnswered

\* So does the answer to the insert of a batch of frames.
LEMMA FramesShape ==
  ASSUME RecordingUploadAssumption, QueueType, Busy, at # "idle", FramesAnswered
  PROVE  (Moves /\ at' \notin {"row", "legacyRow"}) \/ Ends
  <1>1. AttemptFails => (Moves /\ at' = "delay") \/ Ends
    BY FailsShape
  <1>2. AfterFrames \in {"events", "messages", "done"}
    BY DEF AfterFrames
  <1>3. GoOn(AfterFrames) => (Moves /\ at' = AfterFrames) \/ Ends
    BY <1>2, GoOnShape
  <1>4. ASSUME Goto("frames"), inserted' = inserted + 1, UNCHANGED id
        PROVE  Moves /\ at' = "frames"
    BY <1>4 DEF Goto, Moves, Awaits, QueueType, Busy
  <1> QED
    BY <1>1, <1>2, <1>3, <1>4 DEF FramesAnswered

\* Every step of the upload moves on or settles the current recording; it comes
\* to the insert of a row only from the lookup that found none.
LEMMA UploadShape ==
  ASSUME RecordingUploadAssumption, QueueType, Busy, rows \in Seq(Row), UploadStep
  PROVE  \/ Ends
         \/ Moves /\ at' \notin {"row", "legacyRow"}
         \/ Moves /\ rows' = rows /\ (at = "row" \/ (at = "lookup" /\ ~AlreadyStored))
  <1>1. at # "idle"
    BY DEF UploadStep, Lookup, InsertRow, InsertLegacyRow, InsertFrames, InsertLegacyFrames,
           InsertEvents, InsertMessages, Retry
  <1>2. AttemptFails => (Moves /\ at' = "delay") \/ Ends
    BY <1>1, FailsShape
  <1>3. Settle("stored") => Ends
    BY <1>1 DEF Ends
  <1>4. ASSUME NEW part \in {"row", "legacyRow", "legacyFrames"}, Goto(part),
               UNCHANGED <<id, inserted>>
        PROVE  Moves /\ at' = part
    BY <1>1, <1>4 DEF Goto, Moves, Awaits, QueueType, Busy
  <1>5. CASE Lookup
    BY <1>2, <1>3, <1>4, <1>5 DEF Lookup
  <1>6. CASE InsertRow
    BY <1>1, <1>2, <1>4, <1>6, RowShape DEF InsertRow
  <1>7. CASE InsertLegacyRow
    BY <1>1, <1>7, RowShape DEF InsertLegacyRow
  <1>8. CASE InsertFrames
    BY <1>1, <1>2, <1>4, <1>8, FramesShape DEF InsertFrames
  <1>9. CASE InsertLegacyFrames
    BY <1>1, <1>9, FramesShape DEF InsertLegacyFrames
  <1>10. CASE InsertEvents
    <2>1. GoOn(IF current \in Messaged THEN "messages" ELSE "done")
            => (Moves /\ at' \in {"messages", "done"}) \/ Ends
      BY <1>1, GoOnShape
    <2> QED
      BY <1>2, <1>10, <2>1 DEF InsertEvents
  <1>11. CASE InsertMessages
    BY <1>2, <1>3, <1>11 DEF InsertMessages
  <1>12. CASE Retry
    BY <1>12 DEF RecordingUploadAssumption, Retry, Moves, Awaits, QueueType, Busy
  <1> QED
    BY <1>5, <1>6, <1>7, <1>8, <1>9, <1>10, <1>11, <1>12 DEF UploadStep

-----------------------------------------------------------------------------
(* The line of recordings.                                                  *)

\* The line is the current entry followed by the queued ones.
LEMMA LineType ==
  ASSUME QueueType
  PROVE  /\ Line \in Seq(Recordings)
         /\ current = None => Line = entries
         /\ current # None => /\ Len(Line) = Len(entries) + 1
                              /\ Line[1] = current
                              /\ \A i \in 1..Len(entries) : Line[i + 1] = entries[i]
  <1> USE DEF QueueType
  <1>1. CASE current = None
    <2>1. Line = entries
      BY <1>1, ConcatEmptySeq DEF Line
    <2> QED
      BY <1>1, <2>1
  <1>2. CASE current # None
    <2>1. <<current>> \in Seq(Recordings) /\ Len(<<current>>) = 1 /\ <<current>>[1] = current
      BY <1>2
    <2>2. Line = <<current>> \o entries
      BY <1>2 DEF Line
    <2>3. Len(entries) \in Nat
      OBVIOUS
    <2>4. /\ Line \in Seq(Recordings)
          /\ Len(Line) = Len(entries) + 1
          /\ \A i \in 1..Len(entries) + 1 : Line[i] = IF i <= 1 THEN <<current>>[i] ELSE entries[i - 1]
      BY <2>1, <2>2, <2>3, ConcatProperties
    <2> QED
      BY <1>2, <2>1, <2>3, <2>4
  <1> QED
    BY <1>1, <1>2

\* Enqueuing a recording puts it at the end of the line.
LEMMA EnqueueLine ==
  ASSUME QueueType, Busy, QueueType', NEW r \in Recordings, Enqueue(r), None \notin Recordings
  PROVE  Line' = Append(Line, r)
  <1> USE DEF QueueType, Busy
  <1>1. CASE processing
    <2>1. current # None /\ current' = current /\ entries' = Append(entries, r)
      BY <1>1 DEF Enqueue, uploadVars
    <2>2. <<current>> \in Seq(Recordings)
      BY <2>1
    <2>3. entries' = entries \o <<r>> /\ <<r>> \in Seq(Recordings)
      BY <2>1, AppendIsConcat
    <2>4. Line' = <<current>> \o (entries \o <<r>>) /\ Line = <<current>> \o entries
      BY <2>1, <2>3 DEF Line
    <2>5. Line' = (<<current>> \o entries) \o <<r>>
      BY <2>2, <2>3, <2>4, ConcatAssociative
    <2>6. Line \in Seq(Recordings)
      BY LineType
    <2> QED
      BY <2>4, <2>5, <2>6, AppendIsConcat
  <1>2. CASE ~processing
    <2>1. current = None /\ entries = <<>> /\ current' = r /\ entries' = <<>>
      BY <1>2 DEF Enqueue, Begin
    <2>2. Line = <<>> /\ Line' = <<r>> \o <<>>
      BY <2>1 DEF Line
    <2>3. <<r>> \o <<>> = <<r>>
      BY ConcatEmptySeq
    <2> QED
      BY <2>2, <2>3
  <1> QED
    BY <1>1, <1>2

\* Settling the current recording serves the head of the line.
LEMMA SettleLine ==
  ASSUME QueueType, Busy, QueueType', current # None, None \notin Recordings,
         NEW result, Settle(result)
  PROVE  Line # <<>> /\ Head(Line) = current /\ Line' = Tail(Line)
  <1> USE DEF QueueType, Busy
  <1>1. Line \in Seq(Recordings) /\ Len(Line) = Len(entries) + 1 /\ Line[1] = current
        /\ \A i \in 1..Len(entries) : Line[i + 1] = entries[i]
    BY LineType
  <1>2. Len(entries) \in Nat
    OBVIOUS
  <1>3. Line # <<>> /\ Head(Line) = current
    BY <1>1, <1>2
  <1>4. Tail(Line) \in Seq(Recordings) /\ Len(Tail(Line)) = Len(entries)
        /\ \A i \in 1..Len(Tail(Line)) : Tail(Line)[i] = Line[i + 1]
    BY <1>1, <1>2, <1>3, HeadTailProperties
  <1>5. Tail(Line) = entries
    BY <1>1, <1>2, <1>4, SeqEqual
  <1>6. Line' = entries
    <2>1. CASE entries = <<>>
      <3>1. current' = None /\ entries' = <<>>
        BY <2>1 DEF Settle
      <3> QED
        BY <2>1, <3>1 DEF Line
    <2>2. CASE entries # <<>>
      <3>1. current' = Head(entries) /\ entries' = Tail(entries) /\ Head(entries) \in Recordings
        BY <2>2 DEF Settle, NextEntry, Begin
      <3>2. Line' = <<Head(entries)>> \o Tail(entries)
        BY <3>1 DEF Line
      <3>3. /\ Tail(entries) \in Seq(Recordings) /\ Len(Tail(entries)) = Len(entries) - 1
            /\ \A i \in 1..Len(Tail(entries)) : Tail(entries)[i] = entries[i + 1]
        BY <2>2, HeadTailProperties
      <3>4. /\ <<Head(entries)>> \in Seq(Recordings) /\ Len(<<Head(entries)>>) = 1
            /\ <<Head(entries)>>[1] = entries[1]
        BY <3>1
      <3>5. /\ Line' \in Seq(Recordings)
            /\ Len(Line') = Len(entries)
            /\ \A i \in 1..Len(entries) : Line'[i] = IF i <= 1 THEN <<Head(entries)>>[i]
                                                     ELSE Tail(entries)[i - 1]
        BY <1>2, <3>2, <3>3, <3>4, ConcatProperties
      <3>6. \A i \in 1..Len(entries) : Line'[i] = entries[i]
        BY <1>2, <3>3, <3>4, <3>5
      <3> QED
        BY <3>5, <3>6, SeqEqual
    <2> QED
      BY <2>1, <2>2
  <1> QED
    BY <1>3, <1>5, <1>6

-----------------------------------------------------------------------------
(* The queue.                                                               *)

\* Enqueuing keeps the types, and the loop busy exactly while it holds an entry.
LEMMA EnqueueType ==
  ASSUME RecordingUploadAssumption, QueueType, Busy, NEW r \in Recordings, Enqueue(r)
  PROVE  QueueType' /\ Busy' /\ rows' = rows
         /\ pending' = pending \cup {r} /\ r \notin pending
         /\ promise' = [promise EXCEPT ![r] = "pending"]
  <1> USE DEF QueueType, Busy, Enqueue, Fresh, Begin, uploadVars, RecordingUploadAssumption, Awaits
  <1>1. QueueType'
    <2>1. Append(entries, r) \in Seq(Recordings)
      BY AppendProperties
    <2>2. entries' \in Seq(Recordings) /\ pending' \subseteq Recordings
      BY <2>1
    <2>3. processing' \in BOOLEAN /\ current' \in Recordings \cup {None}
      OBVIOUS
    <2>4. attempt' \in 0..MaxAttempts /\ at' \in Awaits /\ id' \in Nat /\ inserted' \in Nat
      OBVIOUS
    <2>5. promise' \in [Recordings -> {"none", "pending", "stored", "failed"}]
      OBVIOUS
    <2>6. UNCHANGED <<terminalErrors, flush, owed>>
      OBVIOUS
    <2> QED
      BY <2>2, <2>3, <2>4, <2>5, <2>6
  <1>2. Busy'
    OBVIOUS
  <1> QED
    BY <1>1, <1>2

\* flush() keeps both, and touches neither the line nor the table.
LEMMA FlushType ==
  ASSUME QueueType, Busy, NEW f \in Flushers, Flush(f)
  PROVE  QueueType' /\ Busy' /\ UNCHANGED <<entries, pending, current, at, rows, promise>>
  <1> USE DEF QueueType, Busy, Flush, uploadVars
  <1>1. QueueType'
    OBVIOUS
  <1>2. Busy'
    OBVIOUS
  <1> QED
    BY <1>1, <1>2

\* A step within an upload keeps both, and touches neither the line nor a promise.
LEMMA MovesType ==
  ASSUME QueueType, Busy, Moves
  PROVE  QueueType' /\ Busy' /\ UNCHANGED <<entries, pending, current, promise>>
  BY DEF QueueType, Busy, Moves, queueVars

\* The end of an upload keeps both: the next entry starts with its lookup, or the
\* loop is idle again.
LEMMA EndsType ==
  ASSUME RecordingUploadAssumption, QueueType, Busy, Ends
  PROVE  /\ QueueType' /\ Busy'
         /\ current # None
         /\ at' \in {"lookup", "idle"}
         /\ pending' = pending \ {current}
         /\ \E result \in {"stored", "failed"} :
              Settle(result) /\ promise' = [promise EXCEPT ![current] = result]
  <1> USE DEF QueueType, Busy, RecordingUploadAssumption, Awaits
  <1>1. PICK result \in {"stored", "failed"} : Settle(result)
    BY DEF Ends
  <1>2. current # None
    BY DEF Ends
  <1>3. \A errors : Answered(errors) \in [Flushers -> {"none", "waiting", "resolved", "rejected"}]
    BY DEF Answered
  <1>4. entries # <<>> => Head(entries) \in Recordings /\ Tail(entries) \in Seq(Recordings)
    OBVIOUS
  <1>5. QueueType'
    <2>1. entries' \in Seq(Recordings) /\ pending' \subseteq Recordings
      BY <1>1, <1>4 DEF Settle, NextEntry
    <2>2. processing' \in BOOLEAN
      BY <1>1 DEF Settle
    <2>3. terminalErrors' \subseteq Recordings
      BY <1>1, <1>2 DEF Settle
    <2>4. flush' \in [Flushers -> {"none", "waiting", "resolved", "rejected"}]
      BY <1>1, <1>3 DEF Settle
    <2>5. current' \in Recordings \cup {None} /\ attempt' \in 0..MaxAttempts /\ at' \in Awaits
      BY <1>1, <1>4 DEF Settle, NextEntry, Begin
    <2>6. id' \in Nat /\ inserted' \in Nat /\ owed' = owed
      BY <1>1 DEF Settle
    <2>7. promise' \in [Recordings -> {"none", "pending", "stored", "failed"}]
      BY <1>1, <1>2 DEF Settle
    <2> QED
      BY <2>1, <2>2, <2>3, <2>4, <2>5, <2>6, <2>7
  <1>6. Busy'
    BY <1>1, <1>2, <1>4 DEF Settle, NextEntry, Begin
  <1> QED
    BY <1>1, <1>2, <1>5, <1>6 DEF Settle, NextEntry, Begin

\* The line stays distinct when a fresh recording joins it.
LEMMA DistinctJoins ==
  ASSUME QueueType, Distinct, NEW r \in Recordings, r \notin pending,
         Line' = Append(Line, r), pending' = pending \cup {r}
  PROVE  Distinct'
  <1>1. Line \in Seq(Recordings)
    BY LineType
  <1>2. /\ Len(Line') = Len(Line) + 1 /\ Len(Line) \in Nat
        /\ \A i \in 1..Len(Line) : Line'[i] = Line[i]
        /\ Line'[Len(Line) + 1] = r
    BY <1>1, AppendProperties
  <1>3. \A i \in 1..Len(Line') : (i \in 1..Len(Line) /\ Line'[i] = Line[i]) \/
                                 (i = Len(Line) + 1 /\ Line'[i] = r)
    BY <1>2
  <1> QED
    BY <1>2, <1>3 DEF Distinct

\* The line stays distinct when its head leaves, which is then no longer pending.
LEMMA DistinctLeaves ==
  ASSUME QueueType, Distinct, Line # <<>>, Line' = Tail(Line), pending' = pending \ {Head(Line)}
  PROVE  Distinct'
  <1>1. Line \in Seq(Recordings)
    BY LineType
  <1>2. /\ Len(Line') = Len(Line) - 1
        /\ \A i \in 1..Len(Line') : Line'[i] = Line[i + 1]
    BY <1>1, HeadTailProperties
  <1>3. Len(Line) \in Nat \ {0} /\ Head(Line) = Line[1]
    BY <1>1, EmptySeq
  <1>4. \A i \in 1..Len(Line') : i + 1 \in 1..Len(Line) /\ i + 1 # 1 /\ 1 \in 1..Len(Line)
    BY <1>2, <1>3
  <1> QED
    BY <1>2, <1>3, <1>4 DEF Distinct

\* Every step of the queue accepts, serves or leaves the line alone.
LineStep ==
    \/ UNCHANGED <<Line, promise>> /\ pending' = pending
    \/ \E r \in Recordings : /\ r \notin pending
                             /\ Line' = Append(Line, r)
                             /\ pending' = pending \cup {r}
                             /\ promise' = [promise EXCEPT ![r] = "pending"]
    \/ \E result \in {"stored", "failed"} :
         /\ Line # <<>> /\ Line' = Tail(Line)
         /\ pending' = pending \ {Head(Line)}
         /\ promise' = [promise EXCEPT ![Head(Line)] = result]

\* Every step keeps the queue invariant and is a step of the line.
LEMMA QueueStep ==
  ASSUME RecordingUploadAssumption, QueueInv, rows \in Seq(Row), Next
  PROVE  QueueInv' /\ LineStep
  <1> USE DEF QueueInv
  <1>1. QueueType' /\ Busy' /\ LineStep
    <2>1. ASSUME NEW r \in Recordings, Enqueue(r)
          PROVE  QueueType' /\ Busy' /\ LineStep
      BY <2>1, EnqueueType, EnqueueLine DEF LineStep, RecordingUploadAssumption
    <2>2. ASSUME NEW f \in Flushers, Flush(f)
          PROVE  QueueType' /\ Busy' /\ LineStep
      BY <2>2, FlushType DEF LineStep, Line
    <2>3. CASE Moves
      BY <2>3, MovesType DEF LineStep, Line
    <2>4. CASE Ends
      BY <2>4, EndsType, SettleLine DEF LineStep, RecordingUploadAssumption
    <2> QED
      BY <2>1, <2>2, <2>3, <2>4, UploadShape DEF Next
  <1>2. Distinct'
    <2>1. CASE UNCHANGED <<Line, promise>> /\ pending' = pending
      BY <2>1 DEF Distinct
    <2> QED
      BY <1>1, <2>1, DistinctJoins, DistinctLeaves DEF LineStep
  <1> QED
    BY <1>1, <1>2

-----------------------------------------------------------------------------
(* The table.                                                               *)

\* A new row, for a recording that has none if NoRowYet holds ...
Grows ==
    /\ at \in {"row", "legacyRow"}
    /\ current # None
    /\ \E json \in BOOLEAN : rows' = Append(rows, NewRow(json))

\* ... or more of what belongs to a row.
Fills ==
    /\ rows' \in Seq(Row)
    /\ Len(rows') = Len(rows)
    /\ \A i \in 1..Len(rows) : rows'[i].of = rows[i].of

\* Changing one row, if it is there, to another of the same recording fills it.
LEMMA FillsRow ==
  ASSUME rows \in Seq(Row), NEW row, id \in 1..Len(rows) => row \in Row /\ row.of = rows[id].of,
         rows' = [rows EXCEPT ![id] = row]
  PROVE  Fills
  <1>1. CASE id \in 1..Len(rows)
    <2>1. /\ rows' \in Seq(Row) /\ Len(rows') = Len(rows)
          /\ \A j \in 1..Len(rows) : rows'[j] = IF j = id THEN row ELSE rows[j]
      BY <1>1, ExceptSeq
    <2> QED
      BY <1>1, <2>1 DEF Fills
  <1>2. CASE id \notin 1..Len(rows)
    <2>1. rows = [i \in 1..Len(rows) |-> rows[i]] /\ DOMAIN rows = 1..Len(rows)
      BY LenProperties
    <2>2. rows' = rows
      BY <1>2, <2>1
    <2> QED
      BY <2>2 DEF Fills
  <1> QED
    BY <1>1, <1>2

\* Adding frames, events or messages to a row fills it.
LEMMA FillsPart ==
  ASSUME rows \in Seq(Row),
         \/ rows' = [rows EXCEPT ![id].frames = @ + 1]
         \/ rows' = [rows EXCEPT ![id].events = TRUE]
         \/ rows' = [rows EXCEPT ![id].messages = TRUE]
  PROVE  Fills
  <1>1. \A i \in 1..Len(rows) : rows[i] \in Row
    BY ElementOfSeq
  <1>2. ASSUME NEW row \in Row
        PROVE  /\ [row EXCEPT !.frames = @ + 1] \in Row /\ [row EXCEPT !.frames = @ + 1].of = row.of
               /\ [row EXCEPT !.events = TRUE] \in Row /\ [row EXCEPT !.events = TRUE].of = row.of
               /\ [row EXCEPT !.messages = TRUE] \in Row /\ [row EXCEPT !.messages = TRUE].of = row.of
    <2>1. [row EXCEPT !.frames = @ + 1] \in Row /\ [row EXCEPT !.frames = @ + 1].of = row.of
      BY DEF Row
    <2>2. [row EXCEPT !.events = TRUE] \in Row /\ [row EXCEPT !.events = TRUE].of = row.of
      BY DEF Row
    <2>3. [row EXCEPT !.messages = TRUE] \in Row /\ [row EXCEPT !.messages = TRUE].of = row.of
      BY DEF Row
    <2> QED
      BY <2>1, <2>2, <2>3
  <1>3. CASE rows' = [rows EXCEPT ![id].frames = @ + 1]
    <2>1. rows' = [rows EXCEPT ![id] = [rows[id] EXCEPT !.frames = @ + 1]]
      BY <1>3
    <2> QED
      BY <1>1, <1>2, <2>1, FillsRow
  <1>4. CASE rows' = [rows EXCEPT ![id].events = TRUE]
    <2>1. rows' = [rows EXCEPT ![id] = [rows[id] EXCEPT !.events = TRUE]]
      BY <1>4
    <2> QED
      BY <1>1, <1>2, <2>1, FillsRow
  <1>5. CASE rows' = [rows EXCEPT ![id].messages = TRUE]
    <2>1. rows' = [rows EXCEPT ![id] = [rows[id] EXCEPT !.messages = TRUE]]
      BY <1>5
    <2> QED
      BY <1>1, <1>2, <2>1, FillsRow
  <1> QED
    BY <1>3, <1>4, <1>5

\* A step of the upload leaves the table alone, adds a row or fills one.
LEMMA TableStep ==
  ASSUME QueueType, Busy, rows \in Seq(Row), UploadStep
  PROVE  rows' = rows \/ Grows \/ Fills
  <1>1. ASSUME NEW json \in BOOLEAN, RowAnswered(json), at \in {"row", "legacyRow"}
        PROVE  rows' = rows \/ Grows
    BY <1>1 DEF RowAnswered, Grows, Busy
  <1>2. CASE Lookup \/ Retry
    BY <1>2 DEF Lookup, Retry
  <1>3. CASE InsertRow \/ InsertLegacyRow
    BY <1>1, <1>3 DEF InsertRow, InsertLegacyRow
  <1>4. FramesAnswered => rows' = rows \/ rows' = [rows EXCEPT ![id].frames = @ + 1]
    BY DEF FramesAnswered
  <1>5. CASE InsertFrames \/ InsertLegacyFrames
    BY <1>4, <1>5, FillsPart DEF InsertFrames, InsertLegacyFrames
  <1>6. CASE InsertEvents
    <2>1. rows' = rows \/ rows' = [rows EXCEPT ![id].events = TRUE]
      BY <1>6 DEF InsertEvents
    <2> QED
      BY <2>1, FillsPart
  <1>7. CASE InsertMessages
    <2>1. rows' = rows \/ rows' = [rows EXCEPT ![id].messages = TRUE]
      BY <1>7 DEF InsertMessages
    <2> QED
      BY <2>1, FillsPart
  <1> QED
    BY <1>2, <1>3, <1>5, <1>6, <1>7 DEF UploadStep

\* A new row does not double one.
LEMMA GrowsOnce ==
  ASSUME QueueType, RowInv, Grows
  PROVE  rows' \in Seq(Row) /\ OneRowPerRecording'
  <1>1. PICK json \in BOOLEAN : rows' = Append(rows, NewRow(json))
    BY DEF Grows
  <1>2. NewRow(json) \in Row /\ NewRow(json).of = current
    BY DEF NewRow, Row, Grows, QueueType
  <1>3. \A i \in 1..Len(rows) : rows[i].of # current
    BY DEF RowInv, NoRowYet, Grows, Stored
  <1>4. /\ rows' \in Seq(Row) /\ Len(rows') = Len(rows) + 1
        /\ \A i \in 1..Len(rows) : rows'[i] = rows[i]
        /\ rows'[Len(rows) + 1] = NewRow(json)
    BY <1>1, <1>2, AppendProperties DEF RowInv
  <1>5. Len(rows) \in Nat /\ DOMAIN rows = 1..Len(rows) /\ DOMAIN rows' = 1..Len(rows) + 1
    BY <1>4, LenProperties DEF RowInv
  <1>6. \A i \in DOMAIN rows' : (i \in DOMAIN rows /\ rows'[i] = rows[i]) \/
                                (i = Len(rows) + 1 /\ rows'[i].of = current)
    BY <1>2, <1>4, <1>5
  <1> QED
    BY <1>3, <1>4, <1>5, <1>6 DEF RowInv, OneRowPerRecording

\* Filling a row makes no second one.
LEMMA FillsOnce ==
  ASSUME RowInv, Fills
  PROVE  rows' \in Seq(Row) /\ OneRowPerRecording'
  <1>1. DOMAIN rows' = DOMAIN rows /\ DOMAIN rows = 1..Len(rows)
    BY LenProperties DEF RowInv, Fills
  <1> QED
    BY <1>1 DEF RowInv, Fills, OneRowPerRecording

\* Every step keeps the table invariant.
LEMMA RowStep ==
  ASSUME RecordingUploadAssumption, QueueInv, RowInv, Next
  PROVE  RowInv'
  <1> USE DEF RowInv, QueueInv
  <1>1. ASSUME NEW r \in Recordings, Enqueue(r)
        PROVE  RowInv'
    <2>1. rows' = rows /\ (at' = "lookup" \/ (at' = at /\ current' = current))
      BY <1>1 DEF Enqueue, Begin, uploadVars
    <2> QED
      BY <2>1 DEF NoRowYet, Stored, OneRowPerRecording
  <1>2. ASSUME NEW f \in Flushers, Flush(f)
        PROVE  RowInv'
    BY <1>2, FlushType DEF NoRowYet, Stored, OneRowPerRecording
  <1>3. ASSUME UploadStep
        PROVE  RowInv'
    <2>1. rows' \in Seq(Row) /\ OneRowPerRecording'
      <3>1. CASE rows' = rows
        BY <3>1 DEF OneRowPerRecording
      <3> QED
        BY <1>3, <3>1, TableStep, GrowsOnce, FillsOnce
    <2>2. NoRowYet'
      <3>1. CASE at' \notin {"row", "legacyRow"}
        BY <3>1 DEF NoRowYet
      <3>2. CASE Ends
        BY <3>2, EndsType DEF NoRowYet
      <3>3. CASE Moves /\ rows' = rows /\ (at = "row" \/ (at = "lookup" /\ ~AlreadyStored))
        BY <3>3 DEF Moves, NoRowYet, AlreadyStored, Stored
      <3> QED
        BY <1>3, <3>1, <3>2, <3>3, UploadShape
    <2> QED
      BY <2>1, <2>2
  <1> QED
    BY <1>1, <1>2, <1>3 DEF Next

-----------------------------------------------------------------------------
(* Theorems.                                                                *)

\* The empty queue over the empty table satisfies both invariants.
LEMMA InitInv ==
  ASSUME RecordingUploadAssumption, Init
  PROVE  QueueInv /\ RowInv
  <1> USE DEF Init, RecordingUploadAssumption
  <1>1. QueueType
    <2>1. MaxAttempts \in Nat /\ 0 \in 0..MaxAttempts
      OBVIOUS
    <2>2. entries \in Seq(Recordings)
      BY EmptySeq
    <2> QED
      BY <2>1, <2>2 DEF QueueType, Awaits
  <1>2. Busy
    BY DEF Busy
  <1>3. Line = <<>>
    BY DEF Line
  <1>4. Distinct
    BY <1>3 DEF Distinct
  <1>5. rows \in Seq(Row) /\ OneRowPerRecording /\ NoRowYet
    BY EmptySeq DEF OneRowPerRecording, NoRowYet
  <1> QED
    BY <1>1, <1>2, <1>4, <1>5 DEF QueueInv, RowInv

\* The queue and the table keep their invariants.
THEOREM InvCorrect == Spec => [](QueueInv /\ RowInv)
  <1>1. Init => QueueInv /\ RowInv
    BY InitInv, RecordingUploadAssumption
  <1>2. QueueInv /\ RowInv /\ [Next]_vars => QueueInv' /\ RowInv'
    <2>1. ASSUME QueueInv, RowInv, Next  PROVE QueueInv' /\ RowInv'
      BY <2>1, QueueStep, RowStep, RecordingUploadAssumption DEF RowInv
    <2>2. ASSUME QueueInv, RowInv, UNCHANGED vars  PROVE QueueInv' /\ RowInv'
      BY <2>2 DEF vars, queueVars, uploadVars, QueueInv, QueueType, Busy, Distinct, Line,
                  RowInv, NoRowYet, Stored, OneRowPerRecording
    <2> QED
      BY <2>1, <2>2
  <1> QED
    BY <1>1, <1>2, PTL DEF Spec

\* Every variable keeps its type, whatever fails: no attempt is made beyond
\* maxAttempts, and the queue holds recordings only.
THEOREM TypeCorrect == Spec => []TypeOK
  <1> DEFINE SchemaType == columns \in BOOLEAN
  <1>1. Init => SchemaType
    BY RecordingUploadAssumption DEF Init
  <1>2. SchemaType /\ [Next]_vars => SchemaType'
    BY DEF Next, Enqueue, Flush, UploadStep, vars
  <1>3. QueueInv /\ RowInv /\ SchemaType => TypeOK
    BY DEF QueueInv, QueueType, RowInv, TypeOK
  <1> HIDE DEF SchemaType
  <1> QED
    BY <1>1, <1>2, <1>3, InvCorrect, PTL DEF Spec

\* No recording gets a second row, for any number of recordings, batches and
\* attempts, with either schema.
THEOREM StoredOnce == Spec => []OneRowPerRecording
  <1>1. QueueInv /\ RowInv => OneRowPerRecording
    BY DEF RowInv
  <1> QED
    BY <1>1, InvCorrect, PTL

\* The queue implements UploadService: first come first served, one answer for
\* each accepted recording.
THEOREM QueueImplementsService == Spec => RefinesService
  <1>1. Init => Service!Init
    BY DEF Init, Service!Init, Line
  <1>2. QueueInv /\ RowInv /\ [Next]_vars => [Service!Next]_<<Line, promise>>
    <2>1. ASSUME QueueInv, RowInv, Next
          PROVE  Service!Next \/ UNCHANGED <<Line, promise>>
      <3>1. LineStep
        BY <2>1, QueueStep, RecordingUploadAssumption DEF RowInv
      <3>2. ASSUME NEW r \in Recordings, r \notin pending
            PROVE  ~Service!InLine(r)
        BY <2>1, <3>2, LineType, LenProperties DEF QueueInv, Distinct, Service!InLine
      <3> QED
        BY <3>1, <3>2 DEF LineStep, Service!Next, Service!Accept, Service!Serve
    <2>2. UNCHANGED vars => UNCHANGED <<Line, promise>>
      BY DEF vars, queueVars, uploadVars, Line
    <2> QED
      BY <2>1, <2>2
  <1> QED
    BY <1>1, <1>2, InvCorrect, PTL DEF Spec, RefinesService, Service!Spec

-----------------------------------------------------------------------------
(* What is stored can be downloaded.                                        *)

\* With the present schema an upload takes no legacy step, every row carries
\* its session, and an upload beyond the row, or reported done, has its row.
DataInv ==
    columns =>
        /\ at \notin {"legacyRow", "legacyFrames"}
        /\ \A i \in 1..Len(rows) : rows[i].json
        /\ at \in {"frames", "events", "messages"} => Stored(current) # {}
        /\ \A r \in Recordings : promise[r] = "stored" => Stored(r) # {}

\* The table loses no recording's row ...
KeepsRows == \A r \in Recordings : Stored(r) # {} => {i \in DOMAIN rows' : rows'[i].of = r} # {}

\* ... and has one of the recording whose upload takes the step.
HasRow == {i \in DOMAIN rows' : rows'[i].of = current} # {}

\* A row that is added or filled loses no other and keeps its session.
LEMMA TableKeeps ==
  ASSUME QueueType, rows \in Seq(Row), rows' = rows \/ Grows \/ Fills
  PROVE  KeepsRows
  <1>1. DOMAIN rows = 1..Len(rows) /\ Len(rows) \in Nat
    BY LenProperties
  <1>2. CASE rows' = rows
    BY <1>2 DEF KeepsRows, Stored
  <1>3. CASE Grows
    <2>1. PICK json \in BOOLEAN : rows' = Append(rows, NewRow(json))
      BY <1>3 DEF Grows
    <2>2. NewRow(json) \in Row
      BY <1>3 DEF NewRow, Row, Grows, QueueType
    <2>3. /\ rows' \in Seq(Row) /\ Len(rows') = Len(rows) + 1
          /\ \A i \in 1..Len(rows) : rows'[i] = rows[i]
      BY <2>1, <2>2, AppendProperties
    <2>4. DOMAIN rows' = 1..Len(rows) + 1
      BY <2>3, LenProperties
    <2> QED
      BY <1>1, <2>3, <2>4 DEF KeepsRows, Stored
  <1>4. CASE Fills
    <2>1. DOMAIN rows' = 1..Len(rows)
      BY <1>4, LenProperties DEF Fills
    <2> QED
      BY <1>1, <1>4, <2>1 DEF KeepsRows, Stored, Fills
  <1> QED
    BY <1>2, <1>3, <1>4

\* A new row carries its session, and a row that is filled keeps it.
LEMMA SessionsKept ==
  ASSUME QueueType, Busy, rows \in Seq(Row), columns, DataInv, UploadStep
  PROVE  \A i \in 1..Len(rows') : rows'[i].json
  <1>1. /\ \A i \in 1..Len(rows) : rows[i].json /\ rows[i] \in Row
        /\ DOMAIN rows = 1..Len(rows) /\ Len(rows) \in Nat
    BY ElementOfSeq, LenProperties DEF DataInv
  <1>2. CASE rows' = rows
    BY <1>1, <1>2
  <1>3. CASE rows' = Append(rows, NewRow(TRUE)) /\ current # None
    <2>1. NewRow(TRUE) \in Row /\ NewRow(TRUE).json
      BY <1>3 DEF NewRow, Row, QueueType
    <2>2. /\ Len(rows') = Len(rows) + 1
          /\ \A i \in 1..Len(rows) : rows'[i] = rows[i]
          /\ rows'[Len(rows) + 1] = NewRow(TRUE)
      BY <1>3, <2>1, AppendProperties
    <2>3. \A i \in 1..Len(rows') : i \in 1..Len(rows) \/ i = Len(rows) + 1
      BY <1>1, <2>2
    <2> QED
      BY <1>1, <2>1, <2>2, <2>3
  <1>4. CASE \/ rows' = [rows EXCEPT ![id].frames = @ + 1]
             \/ rows' = [rows EXCEPT ![id].events = TRUE]
             \/ rows' = [rows EXCEPT ![id].messages = TRUE]
    <2>1. Fills
      BY <1>4, FillsPart
    <2>2. Len(rows') = Len(rows)
      BY <2>1 DEF Fills
    <2>3. ASSUME NEW i \in 1..Len(rows)  PROVE rows'[i].json = rows[i].json
      BY <1>1, <1>4 DEF Row
    <2> QED
      BY <1>1, <2>2, <2>3
  <1>5. CASE Lookup \/ Retry
    BY <1>2, <1>5 DEF Lookup, Retry
  <1>6. CASE InsertRow
    BY <1>2, <1>3, <1>6 DEF InsertRow, RowAnswered, Busy
  <1>7. ~InsertLegacyRow /\ ~InsertLegacyFrames
    BY DEF InsertLegacyRow, InsertLegacyFrames, DataInv
  <1>8. CASE InsertFrames
    BY <1>2, <1>4, <1>8 DEF InsertFrames, FramesAnswered
  <1>9. CASE InsertEvents
    BY <1>2, <1>4, <1>9 DEF InsertEvents
  <1>10. CASE InsertMessages
    BY <1>2, <1>4, <1>10 DEF InsertMessages
  <1> QED
    BY <1>5, <1>6, <1>7, <1>8, <1>9, <1>10 DEF UploadStep

\* An upload is reported done, or goes on behind its row, only with that row.
LEMMA RowEarned ==
  ASSUME RecordingUploadAssumption, QueueType, Busy, rows \in Seq(Row), columns, DataInv, UploadStep
  PROVE  /\ at' \notin {"legacyRow", "legacyFrames"}
         /\ \/ HasRow
            \/ AttemptFails
            \/ at' \in {"row", "lookup"} /\ UNCHANGED <<current, promise>>
  <1>1. KeepsRows
    BY TableStep, TableKeeps
  <1>2. CASE at \in {"frames", "events", "messages"}
    <2>1. HasRow
      BY <1>1, <1>2 DEF DataInv, KeepsRows, HasRow, QueueType, Busy
    <2>2. AfterFrames \in {"events", "messages", "done"}
      BY DEF AfterFrames
    <2>3. at' \notin {"legacyRow", "legacyFrames"}
      BY <1>2, <2>2 DEF UploadStep, Lookup, InsertRow, InsertLegacyRow, InsertFrames,
         InsertLegacyFrames, InsertEvents, InsertMessages, Retry, FramesAnswered, GoOn, Goto,
         AttemptFails, Settle, NextEntry, Begin
    <2> QED
      BY <2>1, <2>3
  <1>3. CASE Lookup
    <2>1. AlreadyStored => HasRow
      BY <1>1, <1>3 DEF AlreadyStored, KeepsRows, HasRow, QueueType, Busy, Lookup
    <2> QED
      BY <1>3, <2>1 DEF Lookup, Goto, AttemptFails, Settle, NextEntry, Begin
  <1>4. CASE InsertRow
    <2>1. rows' = Append(rows, NewRow(TRUE)) => HasRow
      <3> SUFFICES ASSUME rows' = Append(rows, NewRow(TRUE)) PROVE HasRow
        OBVIOUS
      <3>1. NewRow(TRUE) \in Row /\ NewRow(TRUE).of = current
        BY <1>4 DEF NewRow, Row, QueueType, Busy, InsertRow
      <3>2. /\ rows' \in Seq(Row) /\ Len(rows') = Len(rows) + 1
            /\ rows'[Len(rows) + 1] = NewRow(TRUE)
        <4> DEFINE new == NewRow(TRUE)
        <4>1. new \in Row /\ rows' = Append(rows, new)
          BY <3>1
        <4> HIDE DEF new
        <4>2. /\ Append(rows, new) \in Seq(Row)
              /\ Len(Append(rows, new)) = Len(rows) + 1
          BY <4>1, AppendProperties
        <4>3. Append(rows, new)[Len(rows) + 1] = new
          BY <4>1, AppendProperties
        <4> QED
          BY <4>1, <4>2, <4>3 DEF new
      <3>3. Len(rows) \in Nat
        BY LenProperties
      <3>4. DOMAIN rows' = 1..Len(rows')
        BY <3>2, LenProperties
      <3>5. Len(rows) + 1 \in DOMAIN rows'
        BY <3>2, <3>3, <3>4
      <3>6. rows'[Len(rows) + 1].of = current
        BY <3>1, <3>2
      <3> QED
        BY <3>5, <3>6 DEF HasRow
    <2>2. AfterFrames \in {"events", "messages", "done"}
      BY DEF AfterFrames
    <2> QED
      BY <1>4, <2>1, <2>2 DEF InsertRow, RowAnswered, Goto, AttemptFails, Settle, NextEntry, Begin
  <1>5. CASE Retry
    BY <1>5 DEF Retry
  <1> QED
    BY <1>2, <1>3, <1>4, <1>5 DEF UploadStep, InsertRow, InsertLegacyRow, InsertFrames,
       InsertLegacyFrames, InsertEvents, InsertMessages, Retry, DataInv

\* Every step keeps what is stored downloadable.
LEMMA DataStep ==
  ASSUME RecordingUploadAssumption, QueueInv, RowInv, DataInv, Next
  PROVE  DataInv'
  <1> USE DEF QueueInv, RowInv
  <1>1. ASSUME NEW r \in Recordings, Enqueue(r)
        PROVE  DataInv'
    <2>1. /\ UNCHANGED <<rows, columns>>
          /\ (at' = "lookup" \/ (at' = at /\ current' = current))
          /\ promise' = [promise EXCEPT ![r] = "pending"]
      BY <1>1 DEF Enqueue, Begin, uploadVars
    <2> QED
      BY <2>1 DEF DataInv, Stored, QueueType
  <1>2. ASSUME NEW f \in Flushers, Flush(f)
        PROVE  DataInv'
    <2>1. UNCHANGED <<rows, columns, at, current, promise>>
      BY <1>2 DEF Flush, uploadVars
    <2> QED
      BY <2>1 DEF DataInv, Stored
  <1>3. ASSUME UploadStep, columns'
        PROVE  DataInv'
    <2>1. columns
      BY <1>3 DEF UploadStep
    <2>2. /\ \A i \in 1..Len(rows') : rows'[i].json
          /\ at' \notin {"legacyRow", "legacyFrames"}
          /\ HasRow \/ AttemptFails \/ (at' \in {"row", "lookup"} /\ UNCHANGED <<current, promise>>)
      BY <1>3, <2>1, SessionsKept, RowEarned
    <2>3. KeepsRows
      BY <1>3, TableStep, TableKeeps
    <2>4. AttemptFails => /\ at' \in {"delay", "lookup", "idle"}
                          /\ UNCHANGED promise \/ promise' = [promise EXCEPT ![current] = "failed"]
      BY DEF AttemptFails, Settle, NextEntry, Begin
    <2>5. \/ UNCHANGED <<current, promise>>
          \/ /\ at' \in {"lookup", "idle"}
             /\ \E result \in {"stored", "failed"} : promise' = [promise EXCEPT ![current] = result]
      BY <1>3, EndsType, UploadShape DEF Moves
    <2>6. at' \in {"frames", "events", "messages"} => {i \in DOMAIN rows' : rows'[i].of = current'} # {}
      BY <2>2, <2>4, <2>5 DEF HasRow
    <2>7. ASSUME NEW r \in Recordings, promise'[r] = "stored"
          PROVE  {i \in DOMAIN rows' : rows'[i].of = r} # {}
      <3>1. CASE promise[r] = "stored"
        BY <2>1, <2>3, <3>1 DEF KeepsRows, DataInv
      <3>2. CASE promise[r] # "stored"
        <4>1. r = current /\ promise' # promise /\ promise'[current] = "stored"
          BY <2>5, <2>7, <3>2 DEF QueueType
        <4>2. HasRow
          BY <2>2, <2>4, <4>1 DEF QueueType
        <4> QED
          BY <4>1, <4>2 DEF HasRow
      <3> QED
        BY <3>1, <3>2
    <2> QED
      BY <2>2, <2>6, <2>7 DEF DataInv, Stored
  <1> QED
    BY <1>1, <1>2, <1>3 DEF Next, DataInv

\* With the present schema, a recording whose upload was reported done has a row
\* that carries its session: whatever broke on the way, it can be restored.
THEOREM StoredIsRestorable == Spec => []StoredIsDownloadable
  <1>1. Init => DataInv
    BY RecordingUploadAssumption DEF Init, DataInv
  <1>2. QueueInv /\ RowInv /\ DataInv /\ [Next]_vars => DataInv'
    <2>1. UNCHANGED vars /\ DataInv => DataInv'
      BY DEF vars, queueVars, uploadVars, DataInv, Stored
    <2> QED
      BY <2>1, DataStep, RecordingUploadAssumption
  <1>3. RowInv /\ DataInv => StoredIsDownloadable
    <2> SUFFICES ASSUME RowInv, DataInv, columns, NEW r \in Recordings, promise[r] = "stored"
                 PROVE  \E i \in Stored(r) : Downloadable(rows[i])
      BY DEF StoredIsDownloadable
    <2>1. PICK i \in Stored(r) : TRUE
      BY DEF DataInv
    <2>2. i \in 1..Len(rows)
      BY <2>1, LenProperties DEF Stored, RowInv
    <2> QED
      BY <2>1, <2>2 DEF DataInv, Downloadable
  <1> QED
    BY <1>1, <1>2, <1>3, InvCorrect, PTL DEF Spec

-----------------------------------------------------------------------------
(* flush() answers for everything.                                          *)

\* What is pending is in the line, and is what the promises say.
Covered ==
    /\ \A r \in pending : \E i \in 1..Len(Line) : Line[i] = r
    /\ \A r \in Recordings : promise[r] = "pending" <=> r \in pending

\* A waiter waits for a running queue, which remembers every failure since.
WaiterInv ==
    \A f \in Flushers : flush[f] = "waiting" =>
        /\ processing
        /\ \A r \in owed[f] : promise[r] = "failed" => r \in terminalErrors

\* Accepting and serving a recording keeps the line and the promises in step.
LEMMA CoveredStep ==
  ASSUME QueueType, Distinct, Covered, LineStep
  PROVE  Covered'
  <1> USE DEF QueueType
  <1>1. Line \in Seq(Recordings) /\ Len(Line) \in Nat
    BY LineType, LenProperties
  <1>2. CASE UNCHANGED <<Line, promise>> /\ pending' = pending
    BY <1>2 DEF Covered
  <1>3. ASSUME NEW r \in Recordings, r \notin pending, Line' = Append(Line, r),
               pending' = pending \cup {r}, promise' = [promise EXCEPT ![r] = "pending"]
        PROVE  Covered'
    <2>1. /\ Len(Line') = Len(Line) + 1
          /\ \A i \in 1..Len(Line) : Line'[i] = Line[i]
          /\ Line'[Len(Line) + 1] = r
      BY <1>1, <1>3, AppendProperties
    <2>2. ASSUME NEW q \in pending'  PROVE \E i \in 1..Len(Line') : Line'[i] = q
      <3>1. CASE q = r
        BY <1>1, <2>1, <3>1
      <3>2. CASE q \in pending
        <4>1. PICK i \in 1..Len(Line) : Line[i] = q
          BY <3>2 DEF Covered
        <4>2. i \in 1..Len(Line') /\ Line'[i] = q
          BY <1>1, <2>1, <4>1
        <4> QED
          BY <4>2
      <3> QED
        BY <1>3, <2>2, <3>1, <3>2
    <2>3. \A q \in Recordings : promise'[q] = "pending" <=> q \in pending'
      BY <1>3 DEF Covered
    <2> QED
      BY <2>2, <2>3 DEF Covered
  <1>4. ASSUME NEW result \in {"stored", "failed"}, Line # <<>>, Line' = Tail(Line),
               pending' = pending \ {Head(Line)}, promise' = [promise EXCEPT ![Head(Line)] = result]
        PROVE  Covered'
    <2>1. /\ Len(Line') = Len(Line) - 1
          /\ \A i \in 1..Len(Line') : Line'[i] = Line[i + 1]
          /\ Head(Line) \in Recordings /\ Head(Line) = Line[1]
      BY <1>1, <1>4, HeadTailProperties, EmptySeq
    <2>2. ASSUME NEW q \in pending'  PROVE \E i \in 1..Len(Line') : Line'[i] = q
      <3>1. PICK i \in 1..Len(Line) : Line[i] = q
        BY <1>4, <2>2 DEF Covered
      <3>2. i # 1
        BY <1>4, <2>1, <2>2, <3>1
      <3>3. i - 1 \in 1..Len(Line') /\ (i - 1) + 1 = i
        BY <1>1, <2>1, <3>1, <3>2
      <3>4. Line'[i - 1] = q
        BY <2>1, <3>1, <3>3
      <3> QED
        BY <3>3, <3>4
    <2>3. \A q \in Recordings : promise'[q] = "pending" <=> q \in pending'
      BY <1>4, <2>1 DEF Covered
    <2> QED
      BY <2>2, <2>3 DEF Covered
  <1> QED
    BY <1>2, <1>3, <1>4 DEF LineStep

\* When the last entry is settled, nothing is pending any more.
LEMMA NothingPending ==
  ASSUME QueueType, Covered, current # None, entries = <<>>
  PROVE  pending \subseteq {current}
  <1>1. Len(Line) = Len(entries) + 1 /\ Line[1] = current /\ Len(entries) = 0
    BY LineType
  <1> QED
    BY <1>1 DEF Covered

\* The waiters and their failures survive every step, unless they are answered.
LEMMA WaiterStep ==
  ASSUME RecordingUploadAssumption, QueueInv, RowInv, Covered, WaiterInv, Next
  PROVE  WaiterInv'
  <1> USE DEF QueueInv, RowInv, QueueType
  <1>1. ASSUME NEW r \in Recordings, Enqueue(r)
        PROVE  WaiterInv'
    <2>1. /\ UNCHANGED <<terminalErrors, flush, owed>> /\ processing'
          /\ promise' = [promise EXCEPT ![r] = "pending"]
      BY <1>1 DEF Enqueue
    <2> QED
      BY <2>1 DEF WaiterInv
  <1>2. ASSUME NEW f \in Flushers, Flush(f)
        PROVE  WaiterInv'
    <2>1. UNCHANGED <<promise, processing>>
      BY <1>2 DEF Flush
    <2>2. ASSUME NEW g \in Flushers, flush'[g] = "waiting", g # f
          PROVE  flush[g] = "waiting" /\ owed'[g] = owed[g]
      BY <1>2, <2>2 DEF Flush
    <2>3. ASSUME NEW g \in Flushers, flush'[g] = "waiting"
          PROVE  processing
      BY <1>2, <2>2, <2>3 DEF Flush, WaiterInv, Busy
    <2>4. ASSUME NEW g \in Flushers, flush'[g] = "waiting", NEW r \in owed'[g], promise[r] = "failed"
          PROVE  r \in terminalErrors'
      <3>1. terminalErrors' = terminalErrors
        BY <1>2, <2>3, <2>4 DEF Flush
      <3>2. CASE g = f
        <4>1. r \in pending
          BY <1>2, <2>4, <3>2 DEF Flush
        <4> QED
          BY <2>4, <4>1 DEF Covered
      <3>3. CASE g # f
        BY <2>2, <2>4, <3>1, <3>3 DEF WaiterInv
      <3> QED
        BY <3>2, <3>3
    <2> QED
      BY <2>1, <2>3, <2>4 DEF WaiterInv
  <1>3. CASE Moves
    BY <1>3 DEF Moves, queueVars, WaiterInv
  <1>4. CASE Ends
    <2>1. PICK result \in {"stored", "failed"} : Settle(result)
      BY <1>4 DEF Ends
    <2>2. owed' = owed /\ promise' = [promise EXCEPT ![current] = result]
      BY <2>1 DEF Settle
    <2>3. CASE entries = <<>>
      <3>1. \A f \in Flushers : flush'[f] # "waiting"
        BY <2>1, <2>3 DEF Settle, Answered
      <3> QED
        BY <3>1 DEF WaiterInv
    <2>4. CASE entries # <<>>
      <3>1. /\ terminalErrors' = terminalErrors \cup (IF result = "failed" THEN {current} ELSE {})
            /\ UNCHANGED <<processing, flush>>
        BY <2>1, <2>4 DEF Settle
      <3> QED
        BY <2>2, <3>1 DEF WaiterInv
    <2> QED
      BY <2>3, <2>4
  <1> QED
    BY <1>1, <1>2, <1>3, <1>4, UploadShape DEF Next

\* What one flush() promises of a step that answers it.
Covers(f) ==
    flush[f] = "waiting" /\ flush'[f] # "waiting" =>
        \A r \in owed[f] : /\ promise'[r] # "pending"
                           /\ flush'[f] = "resolved" => promise'[r] # "failed"

\* Only the step that empties the queue answers a waiter, and it knows of every
\* failure.
LEMMA AnswerCovers ==
  ASSUME RecordingUploadAssumption, QueueInv, RowInv, Covered, WaiterInv, Next,
         NEW f \in Flushers
  PROVE  Covers(f)
  <1> USE DEF QueueInv, RowInv, QueueType
  <1>1. ASSUME NEW r \in Recordings, Enqueue(r)
        PROVE  Covers(f)
    BY <1>1 DEF Enqueue, Covers
  <1>2. ASSUME NEW g \in Flushers, Flush(g)
        PROVE  Covers(f)
    BY <1>2 DEF Flush, Covers
  <1>3. CASE Moves
    BY <1>3 DEF Moves, queueVars, Covers
  <1>4. CASE Ends
    <2>1. PICK result \in {"stored", "failed"} : Settle(result)
      BY <1>4 DEF Ends
    <2>2. CASE entries # <<>>
      BY <2>1, <2>2 DEF Settle, Covers
    <2>3. ASSUME entries = <<>>, flush[f] = "waiting", NEW r \in owed[f]
          PROVE  promise'[r] # "pending" /\ (flush'[f] = "resolved" => promise'[r] # "failed")
      <3>1. pending \subseteq {current} /\ current \in Recordings
        BY <1>4, <2>3, EndsType, NothingPending
      <3>2. promise' = [promise EXCEPT ![current] = result] /\ r \in Recordings
        BY <2>1, <2>3 DEF Settle
      <3>3. promise'[r] # "pending"
        BY <3>1, <3>2 DEF Covered
      <3>4. flush'[f] = IF terminalErrors \cup (IF result = "failed" THEN {current} ELSE {}) # {}
                          THEN "rejected" ELSE "resolved"
        BY <2>1, <2>3 DEF Settle, Answered
      <3>5. promise'[r] = "failed" => r \in terminalErrors \/ (r = current /\ result = "failed")
        BY <2>3, <3>1, <3>2 DEF WaiterInv
      <3> QED
        BY <3>3, <3>4, <3>5
    <2> QED
      BY <2>2, <2>3 DEF Covers
  <1> QED
    BY <1>1, <1>2, <1>3, <1>4, UploadShape DEF Next

\* flush() answers when everything that was pending at its call is settled, and
\* hides no failure of it, for any number of calls and recordings.
THEOREM FlushAnswersForAll == Spec => FlushCovers
  <1> DEFINE Inv == QueueInv /\ RowInv
             Waits == Covered /\ WaiterInv
             Kept == \A f \in Flushers : Covers(f)
  <1>1. Init => Waits
    <2> SUFFICES ASSUME Init PROVE Waits
      OBVIOUS
    <2>1. Covered
      BY DEF Init, Covered
    <2>2. WaiterInv
      BY DEF Init, WaiterInv
    <2> QED
      BY <2>1, <2>2
  <1>2. Inv /\ Waits /\ [Next]_vars => Waits'
    <2>1. UNCHANGED vars /\ Waits => Waits'
      BY DEF vars, queueVars, uploadVars, Covered, WaiterInv, Line
    <2>2. Inv /\ Waits /\ Next => Waits'
      BY QueueStep, CoveredStep, WaiterStep, RecordingUploadAssumption DEF QueueInv, RowInv
    <2> QED
      BY <2>1, <2>2
  <1>3. Inv /\ Waits /\ [Next]_vars => [Kept]_vars
    BY AnswerCovers, RecordingUploadAssumption
  <1>4. [][Kept]_vars => FlushCovers
    BY DEF FlushCovers, Covers
  <1>5. Spec => []Inv
    BY InvCorrect
  <1> HIDE DEF Inv, Waits, Kept
  <1>6. Spec => [][Kept]_vars
    BY <1>1, <1>2, <1>3, <1>5, PTL DEF Spec
  <1> QED
    BY <1>4, <1>6
=============================================================================
