# A verification development for the LiveKit joint-cursor experiment

This directory holds TLA+ models of the joint-cursor experiment: an agent in the server that runs
a paired behavioural experiment over LiveKit and recruits its participants on Prolific, the pages of
the two participants, and the admin's page that records the trials.  TLC checks the models on small
instances; TLAPS proves selected theorems about them for all instances.

    tlc -workers 2 -config StartGate.cfg MCStartGate      # any .cfg with the MC module of its run
    tlapm StartGateProofs.tla

1. [The system](#1-the-system) · 2. [Modules](#2-modules) · 3. [Runs](#3-what-the-runs-check) ·
4. [Findings](#4-findings) · 5. [Proofs](#5-what-is-proved) · 6. [Not modelled](#6-not-modelled) ·
7. [Plan](#7-plan)

## 1. The system

Paths below `packages/` are abbreviated: `agent.ts`, `index.ts`, `prolific-recovery.ts`, ... are in
`packages/server/src`, `App.tsx`, `recording-upload-queue.ts`, `experiments/TaskStage.tsx`, ... in
`packages/web/src`.

| component | source | state it keeps | operations | module |
|---|---|---|---|---|
| paired session | `agent.ts` | status, abort controller, pair, START presses, Prolific sessions, disconnect and restart flags | `start`, `stop`, `reset`, START presses, the gate, withdraw reports, the disconnect handler, restart | `PairedSession` |
| Prolific recovery | `prolific-recovery.ts` | none; runs inside the agent | pause the study, ask submissions back, poll until released, start the study | `PairedSession` |
| START bootstrap | `agent.ts`, `App.tsx`, `waiting-target.ts` | presses at the agent; what each page believes of its press | a press on an idle, waiting or running agent; windows and timeouts of the gate | `StartGate` |
| rules and trials | `agent-rules.ts`, `experiments/` (server) | the list of rules, the current one | generate the rules of a task, execute them | `TaskRules`, `TaskScripts`, `TrialSession` |
| recording pipeline | `agent.ts`, `App.tsx` | `_recordingUploads`, `_activeRecording`, `_recordingStatus`; the recorder | start, metadata, stop, status reports, the wait for the uploads | `TrialSession` |
| end of a session | `end-session-cleanup.ts`, `participant-outcomes.ts`, `completion-disconnect.ts` | outcomes, a timer | completion message, redirect, removal two minutes later, who is blamed | `TrialSession`, `ParticipantPage` |
| pointer lock, questions | `pointer-lock-*.ts`, `shared-contribution*.ts`, `App.tsx` | lock and question of a page, the agent's reports of them | lock, lose, recover; ask, answer | `TrialSession` |
| task 9 | `experiments/task9/*`, `App.tsx`, `TaskStage.tsx` | targets, sketch, scores, cursors of every page | hits, target updates, cursor packets | `PointToPoint` |
| recording upload | `recording-upload-queue.ts`, `App.tsx` `uploadRecordingSession` | queue, waiters, errors; the tables of the database | `enqueue`, `flush`, retries, inserts | `RecordingUpload` |
| participant page | `App.tsx`, `completion-disconnect.ts`, `index.ts` | the connection and the calls of `connect()`, what the page was told | speed check, consent, connect, reconnect, withdraw report, end | `ParticipantPage` |
| HTTP interface | `index.ts` | none | one route per method of the agent; tokens and removals | in the modules above |
| admin UI | `AgentAdmin.tsx`, `AdminAgentControls.tsx` | drafts of forms | one request per button | section 6 |
| storage, analysis | SQL schemas, `*.m`, `scripts/` | files | offline conversion | section 6 |

**How the parts interact.**  Participants and the admin are browsers in one LiveKit room.  The agent
is one JavaScript object in the server: it reads the room by polling `listParticipants`, talks to
the browsers by LiveKit data messages, and is talked to over HTTP, each route calling one method of
the agent.  It calls Prolific over HTTP.  The admin's browser moves the target, computes the score
of shared trials, records a trial when the agent says so, uploads it to Supabase and reports the
upload to the agent.

**What is hard.**  JavaScript is single-threaded, but both the agent's and a page's code is suspended
at every `await`: every call of `start()` or `connect()`, every withdraw report and every recovery
can find any field changed when it resumes.  A recovery lasts minutes while the operator may press
Stop, Reset and Start.  Requests fail before or after they took effect; reports arrive late and in
any order; cursor packets get lost; a timer of one trial may fire in the next one; React renders an
older state than the one a handler just wrote.

**What makes each part correct.**

| component | properties |
|---|---|
| paired session | one run at a time drives the participants; an agent that says it runs does run; a loss is handled once and resolved; the study of a pair that started stays closed |
| Prolific recovery | a paused study reopens only when it holds no submission any more |
| START bootstrap | a press that was confirmed counts, and is kept; a pair pressed in this session; two presses open the gate |
| rules and trials, recording | what is tracked is recorded under its own metadata; a completed session has everything stored; nothing is left running after any end; the session ends |
| end of a session | only who left or fell silent is asked to return the submission; the room empties |
| task 9 | one game on all pages, hits made by both, no hit lost or counted twice |
| recording upload | one row per recording, answered once and in order; what is reported stored can be restored |
| participant page | it comes back after every loss, with current settings, and never after its end |

## 2. Modules

Every action is the code between two awaits (or one callback); its guard is the code's own.

### `PairedSession`: the agent and the Prolific recovery

A fiber is a call of `start()` (`Runs`) or a withdraw report that passes the early returns of
`reportParticipantWithdraw()` (`Reports`); `pc[f]` is the await at which it is suspended, `sig[f]`
the abort signal it holds, `loc[f]` its local variables.

| variable | code |
|---|---|
| `status`, `handled`, `restart`, `recovery` | `status`, `_sharedDisconnectHandled`, `_restartRequested`, `_prolificRecovery.status` |
| `ctl`, `signals`, `aborted` | `abortController`; the controllers created so far are numbered, 0 is `null` |
| `paired`, `reports`, `sessions` | `_pairedParticipantIdentities`; the keys of `_participantStartReports` and `_prolificSessions` |
| `pausedStudy` | `_pausedProlificStudyId !== null` |
| `connected`, `studyOpen`, `submission` | the room, the Prolific study and the submissions: environment |
| `started`, `usurped` | history: the pair whose two START presses were accepted; whether a run that was stopped has written the status of a later one |

| `pc` | suspended in | actions that resume it |
|---|---|---|
| `enter` | the messages that set the room up for the wait, which may be refused | `GateEnters` |
| `gate`, `ident` | the sleep and the listing of `execWaitForParticipants()` | `GatePoll`, `GateWaiting`, `GateSafetyTimeout`, `GateIdentities`, `RunAborted` |
| `pausing` | the pause request after both START presses | `GatePaused` |
| `alone`, `unmatched`, `expired` | naming and telling the participant(s) to be released | `GateNoMatch`, `GateRecovery` |
| `work` | the polling loops of the rules after the gate | `WorkDone`, `WorkInterrupted`, `RunAborted` |
| `h_*` | `handleSharedParticipantDisconnect()` | `HandlerIdentities`, `HandlerDecide`, `HandlerPaused`, `HandlerRemoves`, `HandlerStops` |
| `r_*` | `recoverProlificStudySubmissions()` and its caller | `RecoverPause` ... `RecoverDone` |

A submission is `active` (RESERVED, ACTIVE), `returned` (RETURNED, TIMED-OUT) or `settled`: handed in,
screened out or decided on, which `prolific-recovery.ts:172` never takes for released.

Deliberate abstractions: one Prolific study (participants of several studies take the branch of a
missing registration); one `work` step stands for every rule after the gate; `fetchSubmission` of
the pair and the study's place counts are one instant; a failed `getParticipantCount()`, which
repeats the previous count, is `StartGate`'s.  `Recruitment` is the abstract specification of what the
agent may do to the recruitment of a study, and of when it may be reopened; `PairedSession` instantiates
it with `phase <- Phase`, `open <- studyOpen`, `holds <- HeldSubmissions # {}`.

### `StartGate`: two participants and the gate

The page's belief (`clicked`, `pending`), its requests (`press`: `listing`, `counting`, `accepted`,
...), the agent's record (`reports`, `window`, `paired`) and the polling loop (`gate`).  A room listing
may fail in the behaviours with `flaky`.  `confirmParticipantStart()` is `Listed`, `Bootstrap` (the
second listing and the first press that starts an idle agent) and `Answer`; the loop is `GateEntered`,
`GatePoll`, `GateIdentities` with its three timeouts.  A recovery is the two steps `PairRecovered` and
`Restart`, between which a press may arrive.  `counted` is history: whose press was recorded since the
session began.  A gate that asks for START exists in Task 9 and the cursor-control task; in Task 1
the agent refuses the presses (`agent.ts:444`), which `task` tells apart.

### `TaskRules`, `TaskScripts`, `TrialSession`: from a configuration to the end of a session

`TaskRules` translates the generation of rules (`agent-rules.ts`, `experiments/*/index.ts`,
`common-flow.ts`) for all nine tasks: phases, numbering and instructions; what a trial does to the
cursor (gain, rotation and their ramps) decides nothing modelled and is left out. `TaskScripts`
translates the execution of a rule (`exec...()` of `agent.ts` and every `runTrialBody`) into a sequence
of awaited instructions: messages, sleeps, `if (aborted) return`, `try` and `finally`, and one
instruction per polling loop. What is only drawn is a message `draw`: it is awaited and may be refused
like the others, but changes nothing modelled.

`TrialSession` interprets the script.  `run.pc` is the instruction, `run.at` whether an exception is on
its way to a `finally` block or the disconnect handler is being awaited.  Beside it act the handler
(`handler`, nine awaits), the two pages (`page`: cursor mode, pointer lock, recovery offer, instruction,
question, its delayed display, tracking timer, end), the recorder and the loops of the admin's page
(`admin`), the database (`cloud`, `kept`), the reports under way (`posts`) and the safety cleanup.
The handler tells each participant the outcome in a message of its own, and a message of it that is
refused is skipped: after the one that stops the recording, the handler goes on,
while `_activeRecording` stays set and the recorder runs on (`HandlerStops`, `agent.ts:2422`).  The cleanup removes each participant by a
request of its own.  The gate of the cursor-control task of 2026-07-06 asks for START, but `agent.ts:444`
takes presses for Task 9 only: it opens when the agent has waited ten minutes (`agent.ts:1125`), without
a pair.

A message to the room is delivered at once and in order; what a page does about it and the reports of
the recorder, of hits and of withdrawals come arbitrarily late, in any order.  The other reports of a
page count when it acts or, by a fault, never.  What happens while the agent does not await is left
out (`Awaiting`).  `CodeAssumption` says what the rules of every task look like as instructions: a jump
lands where nothing of the instruction before is needed, a `return` inside a `try` runs its `finally`
block, which only sends messages and turns nothing on, a trial is tracked while it is recorded and before
its completions are awaited, recordings do not overlap, get no other metadata than their own and have
their upload awaited, nobody is awaited after the end of the session.  It also says between which
messages of its text a program has something on (`Within`): a trajectory and a detector are turned off
in the block that turned them on, a paired task takes the target down and the shared cursor away on
every way to its end, and between the message after which a page may ask and the one that hides the
question no trial begins; in a guarded task the locks are checked before a trial, again after any
unlocking and any earlier trial, and no jump skips the check.  Those are facts about the text of the
rules; what exceptions, aborts, the handler, late clicks and lost reports make of them is left to the
proofs.  TLC evaluates it on the eleven programs; the proofs know nothing else of them.  Further
restrictions, each named in the module: a page that left does not return; the wait loop of the legacy
tasks is one round per period; a start of the operator is remembered at any time before the gate is
left; the uploads of `Patient` configurations end when `endSession` awaits them (the others at any time).

### `PointToPoint`: the game of Task 9 on every page

Every page plays its own copy of the game (`game`) in its frames, from the target it last rendered
(`page`) and the cursors it holds (`cursors`, with their ages in keepalive periods; `eldest` is the
first entry of the admin's `Map`, whom a solo game on that page follows).  `log` is history: the
acquisitions of each trial that `ScoreAcquired` recorded.  In a solo trial a
hit advances the page's own sketch; in a shared trial the sketch stays `scored` until the admin's
target comes, and only the admin's handler (`ScoreAcquired`) makes one: it checks the hit against
`targetStateRef` (`ref`), which React refreshes only on commit (`Commit`), and sends the next target up
to the media server (`uplink`) that forwards it (`inbox`).  A cursor packet may be lost (`losses`), a
participant may leave.  Positions are left out: in a running game the controlling cursor may be on
the target in any frame.  `Settled` on `OpenTrial` is an assumption: between two trials lie seconds in
which the admin's page comes to rest, so that the agent's new target does not race with a hit.
What the module also shows: with reliable messages in order and a latched hit, the sequence test of
`syncTask9AuthoritativeState` and the score test of the handler never decide anything.

### `ParticipantPage`: one page from the speed check to its end

`connect()` is an effect on the page's state while earlier calls may still be under way.  `call[p][i]`
is the await of the i-th call, `room[p][i]` the connection it made as the server has it, `heard` whether
its listeners are attached; `conn` and `roomRef` are the page's one state and ref, where the calls
meet.  The agent, the admin's page and the routes are reduced to what they send: the flow begins,
a setting changes, the session completes, ends or loses somebody, a participant is removed.  The
admin's page answers a `hello` with what the message handler of its last render reads (`admin.reads`):
React renders a setting that was adopted (`admin.shows`) in an action of its own, `AdminRenders`, so that
an answer in between is stale.  Mishaps are bounded by `Plans`.

### `RecordingUpload` and `UploadService`: the upload queue and what it stores

One action is the code between the answers to two requests: `Retry`, `Lookup`, `InsertRow`,
`InsertLegacyRow`, `InsertFrames`, `InsertLegacyFrames`, `InsertEvents`, `InsertMessages`.  `Settle` is the
tail that runs without an await from the last answer to the start of the next entry or the answers
to the waiters of `flush()`.

| variable | code |
|---|---|
| `entries`, `pending`, `processing`, `terminalErrors` | the fields of `SequentialUploadQueue`; `pending` is the key set of `pendingByKey` |
| `flush`, `owed` | the promise of each call of `flush()`; history: what was pending when it was called |
| `current`, `attempt` | the entry of `process()` and the attempt of `uploadWithRetry()` |
| `at`, `id`, `inserted` | the await of `uploadRecordingSession()`, its `recordingId` and `framesInserted` in batches |
| `rows`, `promise` | the table `recordings` with what refers to each row; what `enqueue()` returned |

A request is answered after its effect, fails without one, or fails although it took effect.  What it
has not done when its failure is noticed it never does: nothing in the schema would stop an insert
that arrives after the lookup of the retry from adding a second row.  `Schemas` says whether the
database has the columns added later; without them every insert is refused once and repeated in the
legacy form.  `UploadService` is the abstract specification, a line served one at a time, first come
first served; `RecordingUpload` instantiates it with `line <- Line`, `result <- promise`.

## 3. What the runs check

Every bound is a constant of a `.cfg` or a definition of an `MC` module; there are no constraints.
Deadlock checking is off where the system may really stop: the session is over and nobody is obliged
to start another.

| run | instance | properties |
|---|---|---|
| `paired_sequential` | 3 participants, 1 run, failing requests, fair; 1.16 million states | `StudyStaysPaused`, `ReopenedEmpty`, `RefinesRecruitment`, `InterruptionResolved` |
| `paired_reports` | 2 participants, 2 runs, 1 withdraw report, failing requests; 4.5 million | `RunningHasRunner`, `OneHandlerPerSession` |
| `paired_operator` | 1 participant, 3 runs, failing requests, Stop and Reset at any moment; 665 thousand | `OneLiveRun` |
| `upload_queue` | recordings of two batches and of none, two calls of `flush()`, 2 attempts, both schemas, fair | `TypeOK`, `OneRowPerRecording`, `StoredIsDownloadable`, `FlushCovers`, `EverySettled`, `RefinesService` |
| `start_gate` | 2 participants, 2 presses, 2 sessions, failing listings, fair; 354 thousand | `TypeOK`, `PressesAreOfThisSession`, `ConfirmedIsRecorded`, `PressKept`, `PairPressed`, `GateOpens` |
| `trial_session` | eleven short sessions of the nine tasks, one fault of 14 kinds, in one of them two, fair; 551 thousand | 12: storage, outcomes, tracking, questions, roles, pointer locks, cleanup, end |
| `point_to_point` | 3 targets, eight sessions of one or two trials; 914 thousand | `TypeOK`, `OneGame`, `HitsAreShared`, `HitsAnswered`, `ScoreKept` |
| `participant_page` | 1 page, 3 connections, two mishaps of seven kinds, fair; 1.28 million | `TypeOK`, `JoinerCaughtUp`, `EndedStaysOut`, `BackInRoom` |
| `paired_reopened` | 2 participants, 1 run, 1 report, nothing fails | finds `NoReopenAfterStart` violated (finding 1) |
| `paired_zombie` | 2 participants, 2 runs, operator | finds `StoppedRunIsGone` violated (finding 2) |
| `upload_frames` | 1 recording of two batches, both schemas | finds `StoredHasFrames` violated (finding 3) |
| `page_redirect` | 1 page, 1 dropped connection, fair | finds `EveryoneRedirected` violated (finding 4) |

**Why the bounds are enough.**

* *PairedSession.*  Three participants are the least for which a pair can be recovered and a stranger
  be in the way; three runs the least for which a stopped one meets the next and another is started
  beside it, where one participant suffices, since pairs do not matter there; one report interleaves
  with the run it interrupts and with the one after.  `signals` is bounded because a signal is made only by
  `start()` (each run number once) or by a restart, which uses up two submissions.  Operator and
  reports are in runs of their own; together the instance has more than 17 million states.
* *RecordingUpload.*  A recording with every part and one that is queued behind it and may come first;
  two attempts give a first, a last and a retry; two flushes, one of which starts while the other waits.
* *StartGate.*  Two presses: one each, raced, one repeated, late, or of the session before.
* *TrialSession.*  A baseline or adaptation trial and a shared trial show every transition between
  phases; Task 9 has two shared trials for the roles.  Each configuration meets the kinds of faults its
  script can tell apart (`MCKinds`), one per behaviour; a lost participant is two events (the loss, the
  page's report) of one fault.  Two faults (`lost`) let the message that stops the recording be refused
  while a loss is handled.  Somebody leaves in a shared session of every task that has one, except at the
  gate that presses cannot open (`control`).
* *PointToPoint.*  Each of the eight plans asks one question: the second set of targets, a lost cursor,
  two pages, a departure, one trial after the other (both orders of phases), a solo game that loses
  its cursor or its player.  Three targets are the least for which both repairs of the shuffle apply.  A hidden tab
  draws no frames (`drawing`).
* *ParticipantPage.*  Pages meet only in the order of the admin's inbox, where the settings stand for
  the others, so that one page is followed; three calls give one under way, one after it, and one
  after the last mishap.

**Fairness.** `PairedSession`: weak fairness of each fiber (Node resumes a fiber whose promise settled;
every request is answered or fails) and of `SubmissionEnds` (an active submission ends: Prolific times
it out if nobody returns it, hands it in or decides on it). `RecordingUpload`: weak fairness of
`UploadStep`, answers and the retry timer; that `flush()` is answered at all is not claimed, because
endless enqueuing keeps the queue from running empty. `StartGate`: weak fairness of `Gate`, the 250 ms
poll. `TrialSession`: weak fairness of `Progress`, what happens by itself (timers, awaits, page and
recorder); faults, the operator and hits are never fair. Participants who do not hang are assumed to
click Next and to answer in the end. `ParticipantPage`: weak fairness of a page's connecting and
receiving, of the routes and of the admin's page. Nobody is assumed to press START, to leave, to consent
or to come back. `PointToPoint` states safety only.

**What some properties leave out**, and why:

* `ConfirmedIsRecorded` and `GateOpens` need a room that can be listed: a failed listing is an empty
  one, which wipes the presses (`agent.ts:986`).
* `InterruptionResolved` excludes a recovery that waits for a submission which ended otherwise than by
  its return (`NeverReleased`): the code polls for it for ever, with the flag up.
* `ReopenedEmpty` is checked and proved where recoveries follow each other.  When a withdraw report
  recovers a pair beside the recovery of the run, it fails: one has counted nobody, the other reopens
  the study, a third person enrols and the study is paused again before the first asks for it to start.
* `OneLiveRun` excludes what finding 2 leads to (`usurped`): a stopped run writes `completed` over the
  session of the next one, a third `start()` is accepted, and two unstopped runs are there.
* `PressKept` needs a room that can be listed, like `ConfirmedIsRecorded`.
* `OneHandlerPerSession` is checked with one report.  With a report and the operator it fails, and so it
  would with two reports and three starts: a stopped run that lives on (finding 2) can complete its
  successor, and a third `start()` clears the flag while a handler is in the second session.
* `PartialRecordingStopped` excludes a stop that reaches the recorder before its 100 ms timer
  (`App.tsx:4543`): the recording then starts after it was stopped; and a refused message
  (`agent.ts:2422`): the agent keeps the recording and the recorder runs on.
* `CompletedIsStored`, in what it says of metadata, excludes a handler of a report that the run overtakes:
  it may have stopped a recording before its metadata came (a washout trial of Task 9 and a departure).
* `NoFalseAlarm` excludes two stops of one recording, by the run and by the handler of a report
  (`agent.ts:1510`); `NothingLeftRunning` a handler of a report that the run overtakes, the operator's
  Stop (it stops neither the recorder nor the shared cursor) and a refused message.
* `SessionEnds` excludes the waits without a limit (`Stuck`), among them the START gate of a pair of
  which one has left (`experiments/index.ts:93` gives it no limit).  `RoomEmpties` holds where a pair is
  recorded: Task 8 and Shared/Single record none, so that they have neither outcomes nor a cleanup.
* `JoinerCaughtUp` excludes a stale last answer of the admin's page (`admin.stale`): given after a setting
  and before its render, it takes every page back to the older setting.
* `BackInRoom`, `EndedStaysOut` and `JoinerCaughtUp` except a failed join or registration, after which a
  page can run two calls of `connect()` at once that displace each other; a race of agent and operator
  over one setting is not modelled.

## 4. Findings

1. **A started pair's study can be reopened** (`paired_reopened`).  `agent.ts:2430` says a study whose
   pair confirmed START is never reopened.  The disconnect handler tests that once (`:2434`).  When a
   withdraw report arrives just before the second START press is accepted, the handler takes the
   pair for a waiting one and recovers it, while the gate goes on, accepts the presses and pauses the
   study for good; the recovery then reopens it.
2. **A stopped run can end the run started after it** (`paired_zombie`).  `stop()` aborts the signal,
   but the stopped `start()` resumes at its next await and tests `this.status` (`agent.ts:632`), which
   a second `start()` may have set to `running`: the new run is reported `completed`.
3. **A retry takes a broken upload for a finished one** (`upload_frames`).
   `scripts/validate-recordings.ts:84` requires `frames.length > 0 && frames.length === rec.total_frames`
   of a stored recording.  The row, with `total_frames`, is inserted before the frames; if a batch
   fails, the retry finds the row, logs "treating retry as successful" (`App.tsx:3762`) and the upload
   is reported done without its frames, events and messages.  With the current schema the session can
   still be downloaded from `session_json` (`StoredIsDownloadable`); with the legacy schema, where the
   session is one of the events inserted last, it is lost.
4. **A page that reconnects while the session completes is not redirected** (`page_redirect`).
   `complete` is broadcast once and nobody answers a later `hello` with it, although the repository's
   `README.md:576` says of `endSession` that it redirects all participants to the completion URL.

Smaller disagreements that no run is about: `docs/plans/2026-09-23-task9-point-to-point.md:7` has every
acquisition handled by the admin's page, while the code lets each page score its solo trials; the
same plan speaks of 13 targets where the grid has 19.

## 5. What is proved

Eight modules of proofs; `tlapm` checks each from nothing.

**`PairedSessionProofs`**, for every set of participants, runs and reports, from
`PairedSessionAssumption`:

| theorem | states | if |
|---|---|---|
| `TypeCorrect` | `Spec => []TypeOK` | |
| `RunningAgentHasRunner` | `Spec => []RunningHasRunner` | |
| `StoppedAgentIsAborted` | `Spec => []StoppedIsAborted` | |
| `SoleRun` | `Spec => []OneLiveRun` | |
| `SoloCorrect` | `Spec => []Solo` | no report, no operator |
| `PauseCorrect`, `PausedForGood` | `Spec => []PauseInv`, `[]StudyStaysPaused` | no report, no operator |
| `RecruitsInOrder` | `Spec => RefinesRecruitment` | no report, no operator |
| `ReopensEmpty` | `Spec => ReopenedEmpty` | no report, no operator |
| `HandledOnce` | `Spec => []OneHandlerPerSession` | at most one report, no operator |

The conditions are where the statements are true: with a report finding 1 refutes `StudyStaysPaused`
and the refinement, and two recoveries at once `ReopenedEmpty` (section 3); with the operator TLC has a
session handled twice.

*RunningHasRunner* and *StoppedIsAborted* are inductive with `TypeOK`, through `Orderly(f)`, which says
what a step of fiber `f` may do: it moves no other fiber; it leaves the agent `running` only if it goes
on itself; it leaves the agent `stopped` only with the current signal aborted; and it takes no abort
back.  *SoleRun* needs `LiveInv`: live runs hold different signals, and as long as no stopped run has
decided the status of a later one, whoever is live and not aborted holds the current signal of a running
agent. Its condition `usurped` is the code's own gap (finding 2), for any number of runs and reports.
Without operator and reports the stronger `Solo` holds: a live run is the only one and holds the current
signal of a running agent.  *PausedForGood* needs `PauseInv`: a paused study is closed and its pair has
two members; while a fiber waits at the gate or recovers, no study is paused for good; a fiber about to
pause it knows a pair of two.  *RecruitsInOrder* adds `RecruitInv`, by which a recovery finds the study
paused from the answer to its first request to that of its last, so that it holds nobody from the counts
on, and maps each step of a fiber to one of six kinds (`LeavesStudy`, `HoldsStudy`, `BeginsRelease`,
`Releases`, `RecruitsAgain`, `EndsSession`), each a step or a stutter of `Recruitment`.  *ReopensEmpty*
follows from it.  *HandledOnce* is about the report and the runs beside it. Its `HandlerInv` follows the
signals: live runs hold different ones; until the report begins, whoever is live holds the current
signal of a running agent; as long as the session of the report is the current one and not aborted, that
stays so; and no later session leaves a live run behind with the report's signal, unless aborted.

**`RecordingUploadProofs`**, for every set of recordings and flushes, every number of batches and
attempts and both schemas: `InvCorrect` (`Spec => [](QueueInv /\ RowInv)`), `TypeCorrect`, `StoredOnce`
(`[]OneRowPerRecording`), `QueueImplementsService` (`Spec => RefinesService`), `StoredIsRestorable`
(`[]StoredIsDownloadable`, of the present schema) and `FlushAnswersForAll` (`FlushCovers`).  `QueueInv` is the type of the queue
with `Busy` (the loop runs exactly while it holds an entry) and `Distinct` (what is in the line is
pending, and nothing is in it twice): the queue guards `enqueue()` by its key map, the service by the
line.  `RowInv` adds `NoRowYet`: an upload about to insert a row came from a lookup that found none, and
no other upload has run since.  `DataInv`: with the present schema an upload takes no legacy step, and
one that is beyond the row, or reported done, has its row.  `WaiterInv`: a waiter waits for a running
queue, whose errors include every failure since its call.

**`StartGateProofs`**, for any participants, presses and sessions: `GateTypes` (`[]TypeOK`),
`SessionPresses` (`[]PressesAreOfThisSession`), `PressesKept` (`PressKept`), `PairsPressed`
(`PairPressed`) and `ConfirmedPresses` (`[]ConfirmedIsRecorded`). For `PressesKept` an agent whose gate
is not off is running (`Engaged`), so that a racing first press finds nothing to configure. For
`ConfirmedPresses` it is `PageInv`: whoever a page shows as confirmed, and whoever a listing was heard
from, is in the room (`InTheRoom`), and while the gate waits the agent has the presses of all of them
(`Kept`). It rests on `AllPlaced`: pages show a press only in a room of two, so that nobody is cut off
by the first two places.

**`PointToPointProofs`**, for any plans, number of targets from three on, shuffle, bounds of hits and
of the admin's lag, and any time a cursor lives:

| theorem | states | inductive invariant |
|---|---|---|
| `NextSetIsNew` | the next set orders all targets, does not begin with the last target before it and is not the set before it: the two repairs do not undo each other | |
| `SetsFollow`, `TargetsDiffer` | so it is for every set of a trial, and no target comes twice running | the least set that breaks it |
| `TypeCorrect` | `Spec => []TypeOK` | `TypeInv` |
| `GameIsOne` | `Spec => []OneGame` | `GameOK` |
| `BothHit` | `Spec => []HitsAreShared` | `CursorOK` |
| `GameGoesOn` | `Spec => []HitsAnswered` | `AnswerOK` |
| `ScoresNeverFall` | `Spec => ScoreKept` | `ScoreOK` |

`GameOK` says that every target anywhere (in a message, the uplink, React's state, the ref, a rendered
page) is one the record of its trial went through, that `log` numbers the hits without a gap and the
ref counts them (`LogInv`), that a sketch plays a target of that kind (`GameInv`), that React's state and
the ref differ only while a trial opens, with its target on the way and the stage hidden (`AdminInv`:
here `Settled` is used), and that the ref is ahead of a sketch that waits (`HitInv`).  `CursorInv` bounds
the age of a cursor by the packets lost, and `SoloInv` keeps a solo game with its player.  `ComingInv`
follows the admin's target through the uplink and the inboxes.  `ShownInv`: only the admin's page shows
more than its sketch has, and then what its next frames will show.

**`ParticipantPageProofs`**, for any pages, calls of `connect()`, speeds, settings and plans of mishaps:
`TypeCorrect` (`[]TypeOK`), `EndedForGood` (`EndedStaysOut`), `NewcomersCaughtUp` (`[]JoinerCaughtUp`).  Without
a failed join or registration `CallInv` holds: a page has one connection, the one it uses and hears; a
call under way is alone, and the page is open, consented and without an outcome then.  That is why no
call that was under way brings an ended page back.  `AnswerInv`: whoever said hello will be answered (its
`hello` is in the admin's inbox behind a setting new enough, or before none), or the admin's page shows
a setting new enough and the page shows it, or will, unless the last answer was stale; `AdminInv` keeps
the admin's inbox in order.

**`TrialSessionProofs`**, for all rules of the shape that `CodeAssumption` gives them, any two pages, any
trials and any number of faults of any kind:

| theorem | states | inductive invariant |
|---|---|---|
| `TypeCorrect` | `Spec => []TypeOK` | `TypeInv`, which also types the pages, the reports and the faults |
| `RolesChangeHands` | `Spec => []RolesSwitch` | `CoreInv`, `PlayedInv`, `AssignedInv` |
| `ReturnsAreDeserved` | `Spec => []OutcomeIsDeserved` | `CoreInv`, `TrackInv`, `BlameInv`, `OutcomeInv` |
| `PartialStopped` | `Spec => []PartialRecordingStopped` | `CoreInv`, `FreshInv`, `RunRecordInv`, `LossRecordInv` |
| `CompletedStores` | `Spec => []CompletedIsStored` | `RecordInv` (`CoreInv`, `FreshInv`, `StopInv`, `AheadInv`, `ReportedInv`, `LabelInv`), `FiledInv`, `DoneInv` |
| `AlarmsAreTrue` | `Spec => NoFalseAlarm` | `RecordInv`, `OfRulesInv`, `ToldInv` |

`CoreInv` is what a session keeps between run, handler and room: the handler runs exactly when the
session was disrupted, and holds the run if the run called it (`HandlerInv`); a run that handles a loss
waited for somebody, and one that throws is in a finally block (`PlaceInv`); only the operator or a
finished handler aborts (`AbortInv`); nobody leaves without a reason before the end is announced
(`EndInv`, `RoomInv`, `WithdrawInv`, `ReportInv`).  *RolesChangeHands* then needs the last roles to be
those of the last instruction that assigns them.  *ReturnsAreDeserved*: a page that has not reported
its completion tracks the very trial from the instruction that starts it (`TrackInv`), so that whoever
is blamed for silence is silent.  *PartialStopped*: a trial still to be recorded left no trace
(`FreshInv`), a recording is off, or on with no report under way that says otherwise, between any two
instructions (`RunRecordInv`) and while a loss is handled (`LossRecordInv`); without the first, a late
`queued` of an earlier trial could hide the recording from the handler.
*CompletedStores*: a recording starts once, and what is on is not yet on its way (`AheadInv`); what is
reported uploaded is stored (`ReportedInv`); while the session runs, whatever was recorded is in the
agent's table, and stored once the wait for the uploads succeeded (`FiledInv`).  For the metadata, as
long as nobody interferes, the recording on the way is the one the agent names, and the recorder is in
step with the instructions passed, or some recording never began (`LabelInv`: `OpenInv`, `Sound`,
`Deficit`); then its upload never comes and the wait does not succeed.  A stored recording stays as it
is (`StoredStays`).
*AlarmsAreTrue*: the recordings the agent hears of are those of the rules (`OfRulesInv`), what is reported
failed is lost (`ReportedInv`), and as long as no report got lost and nobody interferes, whatever is stored
is in the table as uploaded or its report is under way (`ToldInv`).  An agent that gives up on a recording
therefore gives up on one that is lost, or whose report still comes.

**`TrialStageProofs`**, about what the pages and the admin's page have running, under the same assumptions:

| theorem | states | inductive invariant |
|---|---|---|
| `TrackedIsRecorded` | `Spec => []TrackingIsRecorded` | `CoreInv`, `StopInv`, `GoingInv`, `LiveInv`, `TrackedInv` |
| `NothingIsLeftRunning` | `Spec => []NothingLeftRunning` | `CoreInv`, `LoopInv`, `LitInv`, `DownInv` |
| `QuestionsApartFromPlay` | `Spec => []QuestionsDoNotOverlapPlay` | `CoreInv`, `LitInv`, `PlayInv`, `SentInv`, `AskInv`, `FreeInv` |

The text of the rules says what is on before an instruction (`Since`); the proofs say when that is what
the room has.  *TrackedIsRecorded*: between the start of a recording and its stop, the recorder records
that trial or will when its timer fires (`LiveInv`), and a page that tracks is at the completions of
its trial, or up to two instructions before, and not among those who reported (`TrackedInv`): the run
cannot pass them without it.  *NothingIsLeftRunning*: a loop of the admin's page runs only where the
rules have it on, which every exception leaves through the block that stops it (`LoopInv`); target and
shared cursor are on only where the rules have them on while these go on (`LitInv`), and when they do
not, either nothing was on or the handler of the loss has sent its messages (`DownInv`).
*QuestionsApartFromPlay*: a page asks only between two messages of the rules (`AskInv`), tracks only
between two others (`PlayInv`), and an answer sent has arrived, so that its question cannot come back
(`SentInv`); the end of a trial, at which the page asks by itself, lies between both, and ends the play.

**`TrialLockProofs`**: `PagesCanPlay` (`Spec => []PageCanPlay`), under the same assumptions, with
`CanPlayInv`: `CoreInv`, `TrackedInv`, `LitInv`, `PlayInv` and `LockInv`.  As long as nobody presses Esc, leaves or
stops the session, and no listing or report of a lock fails (`Undisturbed`), the agent's record of a lock is
true for every page that works (`ExactInv`), and complete once it has waited for both (`KnownInv`).  The check
before a trial begins with the pages that are not locked (`CheckInv`: everybody else is), and goes on when they
have reported; from there nobody loses the lock until the next unlocking or trial (`ReadyInv`), a page keeps it
while it tracks (`HeldInv`), and a timed trial, which has no tracking, lies within that stretch (`TimedInv`).  The
lock of a page that hangs is not in its report, and nothing is claimed of it.

**Only model-checked.**  Everything under fairness (`InterruptionResolved`, `EverySettled`, `GateOpens`,
`SessionEnds`, `RoomEmpties`, `BackInRoom`): liveness and `ENABLED` are out of the prover's reach. That
the eleven programs have the shape of `CodeAssumption` is evaluated by TLC on the short sessions of the
run: they are computed by recursive compilation.  Every safety property of a passing run has a theorem.
The induction over the target sets is done by well-foundedness of the naturals; other induction over
data is out of reach and not needed by a theorem here.

## 6. Not modelled

* `AgentAdmin.tsx`, `AdminAgentControls.tsx`: forms over the HTTP interface.  Their only state is the
  draft of a form, which a poll may overwrite; it decides nothing in the system.
* Numerics and drawing: positions, trajectories, smoothing of cursors, the disturbance of the cursor,
  what each role of Task 9 may see (`point-to-point.ts:31-74`).
* Parts of `App.tsx` without protocol: rendering, layout, simulation and demo modes, chat, werewolf
  cursors, the mobile joystick, the browser of stored sessions.
* Hand-edited rules, and rule types that no task generates; code nobody calls any more
  (`reportParticipantStart`, `waitForParticipantStartGate`, `hasCoordinatedMovement`,
  `waitForAvgCursorNear`, `publishCircleTargetForDuration` in `agent.ts`).
* A second session with the same identities: `TrialSession` is one session, so that the safety
  cleanup of one session hitting the next (`end-session-cleanup.ts:74`) is outside it.
* SQL schemas, MATLAB analysis, debugging scripts: sequential data conversion.

## 7. Plan

Done in this order: `PairedSession` with `Recruitment`, `RecordingUpload` with `UploadService`, their
proofs; `StartGate` and its proofs; `TaskRules`, `TaskScripts`, `TrialSession`; `PointToPoint`;
`ParticipantPage`; the refinement of `Recruitment` and the proofs of all the safety properties of
`PairedSession`, `RecordingUpload`, `StartGate`, `PointToPoint`, `ParticipantPage` and `TrialSession`.
Left: a composition of two consecutive sessions with the cleanup of the first.
