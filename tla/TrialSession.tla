---------------------------- MODULE TrialSession ----------------------------
(***************************************************************************)
(* One session after the START gate: the agent awaits the instructions of  *)
(* its rules one after the other (agent.ts), two participants' pages and   *)
(* the recorder of the admin's page react to the messages it sends         *)
(* (App.tsx) and report back over HTTP, and a withdraw report can start    *)
(* the handler of a lost participant beside the running rules.             *)
(*                                                                         *)
(* Every await is an interleaving point.  A message sent to the room is    *)
(* delivered at once and in order (LiveKit's reliable topic); what a page  *)
(* does about it, and every HTTP report, comes arbitrarily late and in any *)
(* order.  Where the START gate asks for presses the pair was recorded;    *)
(* a page that left does not come back.  What goes wrong is bounded by     *)
(* Kinds and Faults, what is under way by Reports and Patient.             *)
(***************************************************************************)
EXTENDS Integers, Sequences, FiniteSets

CONSTANTS
    Pages,        \* the two participants
    Experiments,  \* names of configurations
    Code,         \* experiment -> the instructions of its rules
    Shared,       \* experiments of SHARED_SINGLE_CURSOR_TASKS
    Guarded,      \* experiments of POINTER_LOCK_GUARDED_TASKS
    Timed,        \* experiments without completion reports (task9)
    Gated,        \* experiments whose pair pressed START
    Faulty,       \* participants whose page may fail
    Trials,       \* trial numbers
    Patient,      \* experiments whose uploads end only when endSession awaits them
    Reports,      \* experiment -> bound on the status reports under way
    Kinds,        \* experiment -> the kinds of faults it meets
    Faults        \* experiment -> bound on the faults of a behaviour

ASSUME SessionAssumption ==
    /\ IsFiniteSet(Pages) /\ Cardinality(Pages) = 2
    /\ Pages \subseteq Nat \ {0}
    /\ Trials \subseteq Nat \ {0}
    /\ Shared \subseteq Experiments /\ Guarded \subseteq Shared /\ Gated \subseteq Shared
    /\ Timed \subseteq Shared
    /\ Faulty \subseteq Pages
    /\ Faults \in [Experiments -> Nat] /\ Reports \in [Experiments -> Nat]

-----------------------------------------------------------------------------
(* The shape of rules, as their compilation to instructions gives it. *)

\* The finally blocks that a failure at an instruction leads to.
Leads(s, i) == {f \in i .. Len(s) : /\ s[f].do = "finally"
                                    /\ \A q \in i .. f - 1 : s[q].do \notin {"try", "rule", "finally"}}
\* An instruction of a finally block.
Closes(s, i) == \E f \in 1 .. i : s[f].do = "finally" /\ \A q \in f .. i - 1 : s[q].do # "end"
\* Metadata for a recording.
Labels(s, i, trial) == s[i].do = "send" /\ s[i].msg = "metadata" /\ s[i].value = trial
\* Messages of one kind, those that turn something on, and those that turn it off.
Said(s, msg) == {i \in 1 .. Len(s) : s[i].do \in {"send", "set", "offer"} /\ s[i].msg = msg}
Rest == [target |-> FALSE, shared |-> "off", trajectory |-> 0, detector |-> 0]
TurnsOn(s, msg)  == {i \in Said(s, msg) : s[i].value # Rest[msg]}
TurnsOff(s, msg) == {i \in Said(s, msg) : s[i].value = Rest[msg]}
\* Before instruction i, the last instruction of on or off is one of on.
Since(on, off, i) == \E k \in on : k < i /\ \A q \in off : ~(k < q /\ q < i)
\* From on to off the rules go through certain instructions only, to the end.
Within(s, on, off, dos) ==
    \A i \in 1 .. Len(s) + 1 : Since(on, off, i) => i <= Len(s) /\ s[i].do \in dos
\* An instruction before which this trial is being recorded.
During(s, i, trial) ==
    \E k \in 1 .. i : /\ s[k].do = "record" /\ s[k].trial = trial
                      /\ \A q \in k .. i : s[q].do # "stop"
\* What no jump may skip: the roles, a recording, its metadata and its uploading.
Passes(s, i, j) ==
    \A q \in i + 1 .. j - 1 : /\ s[q].do \notin {"roles", "record", "stop", "uploads"}
                             /\ \A t \in Trials : ~Labels(s, q, t)
\* A jump lands on an instruction that needs nothing of the one before.
Skips(s, i, j) ==
    /\ j \in i + 1 .. Len(s) + 1
    /\ j <= Len(s) => s[j].do \notin {"try", "forget", "completions", "stopped"}
    /\ Passes(s, i, j)
\* Instructions in which a participant may be found missing.
Waits == {"next", "completions", "answers", "relock"}

Typed(s) ==
    \A i \in 1 .. Len(s) :
        /\ s[i].do \in {"record", "completions", "answers", "hit"} => s[i].trial \in Trials
        /\ s[i].do \in {"send", "set", "offer"} =>
            /\ s[i].msg # "complete" /\ (s[i].msg = "metadata" => s[i].do = "send" /\ s[i].value # 0)
            /\ s[i].msg \in {"metadata", "trajectory", "detector"} => s[i].value \in Trials \cup {0}
            /\ s[i].msg = "ask" => s[i].value \in Trials
            /\ s[i].msg = "virtual" => s[i].value \in BOOLEAN
            /\ s[i].msg \in {"target", "shared", "ask", "hide"} => s[i].do = "send"
            /\ s[i].msg \in {"trajectory", "detector"} => s[i].do # "set"
        /\ s[i].do = "roles" => s[i].seed \in Nat /\ s[i].index \in Nat

Jumps(s) ==
    \A i \in 1 .. Len(s) :
        /\ s[i].do \in {"locks", "stop"} => Skips(s, i, i + 2)
        /\ s[i].do = "gate" => s[i].skip \in Nat /\ Skips(s, i, i + 1 + s[i].skip)
        /\ s[i].do = "leave" => \E f \in Leads(s, i) :
              /\ Passes(s, i, f)
              /\ \A q \in i .. f : \A msg \in DOMAIN Rest : q \notin Said(s, msg)

\* The page tracks a trial before its completions are awaited, and a recording
\* that is stopped is forgotten.
Ordered(s) ==
    \A i \in 1 .. Len(s) :
        /\ s[i].do = "completions" =>
              /\ i > 3 /\ s[i - 1].do = "forget" /\ s[i - 2].do = "try"
              /\ s[i - 3] = [do |-> "send", msg |-> "trajectory", value |-> s[i].trial]
              /\ i < Len(s) /\ s[i + 1].do = "finally"
        /\ s[i].do = "stopped" => i > 1 /\ s[i - 1].do = "stop"
        /\ s[i].do = "stop" => i < Len(s) /\ s[i + 1].do = "stopped"

\* A finally block sends messages, which turn things off; nobody is awaited, and
\* gets a role, after the end of the session.
Bounded(s) ==
    \A i \in 1 .. Len(s) :
        /\ Closes(s, i) => /\ s[i].do \in {"finally", "send", "offer", "end"}
                           /\ s[i].do = "end" \/ i < Len(s)
                           /\ \A msg \in DOMAIN Rest : i \notin TurnsOn(s, msg)
                           /\ i \notin Said(s, "ask")
        /\ s[i].do \in {"complete", "uploads"} => \A j \in i .. Len(s) : s[j].do \notin Waits \cup {"roles"}

\* Every trial is recorded once, after the end of the recording before, and the
\* assignments of roles are numbered.
Numbered(s) ==
    \A i \in 1 .. Len(s), j \in 1 .. Len(s) : i < j =>
        /\ s[i].do = "record" /\ s[j].do = "record" =>
              s[i].trial # s[j].trial /\ \E q \in i .. j : s[q].do = "stop"
        /\ /\ s[i].do = "roles" /\ s[j].do = "roles"
           /\ \A q \in i + 1 .. j - 1 : s[q].do # "roles"
           => s[j].index = s[i].index + 1 /\ s[j].seed = s[i].seed

\* A recording gets no other metadata than its own, and its upload is awaited.
Filed(s) ==
    \A i \in 1 .. Len(s) :
        /\ s[i].do = "record" => \E j \in i .. Len(s) : s[j].do = "uploads"
        /\ \A t \in Trials : Labels(s, i, t) => During(s, i, t)

\* A trajectory and a detector are turned off in the block that turned them on.
Blocks == {"try", "sleep", "forget", "completions", "empty", "hit", "finally", "send", "offer"}
Enclosed(s) ==
    \A msg \in {"trajectory", "detector"} : Within(s, TurnsOn(s, msg), TurnsOff(s, msg), Blocks)

\* The tasks of a pair take the target down, and the shared cursor away.
Lowered(s) ==
    /\ Within(s, TurnsOn(s, "target"), TurnsOff(s, "target"), Blocks \cup {"leave", "end"})
    /\ Within(s, TurnsOn(s, "shared"), TurnsOff(s, "shared"),
              Blocks \cup {"leave", "end", "check", "roles"})

\* Their trajectories are followed while the trial is recorded.
Followed(s) ==
    \A i \in TurnsOn(s, "trajectory") :
        /\ i + 3 <= Len(s) /\ s[i + 3].do = "completions" /\ s[i + 3].trial = s[i].value
        /\ During(s, i, s[i].value)

\* A page may ask when it has tracked a trial with a question, and when it is told to,
\* until the question is hidden.
Asked(s, trial) == \E i \in 1 .. Len(s) : s[i].do = "answers" /\ s[i].trial = trial
Asking(s) == Said(s, "ask") \cup {i \in TurnsOn(s, "trajectory") : Asked(s, s[i].value)}
\* No trial begins then, and none is on when a question is.
Playful(s, msg, off) ==
    /\ \A i \in TurnsOn(s, msg) : ~Since(Asking(s), Said(s, "hide"), i)
    /\ \A i \in Said(s, "ask") \cup Said(s, "hide") : ~Since(TurnsOn(s, msg), TurnsOff(s, off), i)
Separate(s) ==
    /\ Within(s, Asking(s), Said(s, "hide"), Blocks \cup {"end", "check", "answers"})
    /\ Within(s, TurnsOn(s, "trajectory"), TurnsOff(s, "shared"), Blocks \cup {"end"})
    /\ Playful(s, "trajectory", "shared")

\* Before a trial the locks are checked again, after any unlocking and any earlier
\* trial; no jump skips the check, and an exception unlocks nobody.
Relocks(s) == {i \in 1 .. Len(s) : s[i].do = "relock"}
Frees(s) == Said(s, "unlock") \cup TurnsOn(s, "trajectory")
Relocked(s) ==
    /\ \A i \in 1 .. Len(s) :
        /\ s[i].do = "locks" => /\ i < Len(s) /\ s[i + 1].do = "relock"
                               /\ \E k \in 1 .. i - 1 : s[k].do = "locked"
        /\ s[i].do = "relock" => i > 1 /\ s[i - 1].do = "locks"
        /\ s[i].do \in {"locked", "relock"} => Leads(s, i) = {}
        /\ s[i].do # "gate"
        /\ Closes(s, i) => i \notin Said(s, "unlock")
    /\ \A i \in TurnsOn(s, "trajectory") : Since(Relocks(s), Frees(s), i)
\* So are they before a timed trial.
TimedRelocked(s) ==
    \A i \in 1 .. Len(s) + 1 :
        /\ Since(TurnsOn(s, "target"), TurnsOff(s, "target"), i)
        /\ Since(TurnsOn(s, "shared"), TurnsOff(s, "shared"), i)
        => Since(Relocks(s), Frees(s), i)

ASSUME CodeAssumption ==
    \A e \in Experiments : LET s == Code[e] IN
        /\ Len(s) \in Nat
        /\ Typed(s) /\ Jumps(s) /\ Ordered(s) /\ Bounded(s) /\ Numbered(s) /\ Filed(s) /\ Enclosed(s)
        /\ (\E i \in 1 .. Len(s) : s[i].do = "completions") => e \in Shared
        /\ e \in Shared => Lowered(s) /\ Followed(s) /\ Separate(s)
        /\ e \in Timed => /\ TurnsOn(s, "trajectory") = {}
                          /\ Playful(s, "target", "target") /\ Playful(s, "shared", "shared")
        /\ e \in Guarded => Relocked(s)
        /\ e \in Guarded \cap Timed => TimedRelocked(s)

VARIABLES
    experiment,   \* the configuration of this session
    script,       \* this.rules, as instructions
    manual,       \* _manualStartPending and _manualStartRequested
    status,       \* AgentStatus
    aborted,      \* abortController.signal.aborted
    run,          \* where executeRules() is
    handler,      \* where handleSharedParticipantDisconnect() is
    disrupted,    \* _sharedDisconnectHandled
    outcome,      \* _terminationOutcomes
    recording,    \* _activeRecording, 0 when null
    recStatus,    \* _recordingStatus
    uploads,      \* _recordingUploads
    nexts,        \* _instructionNextReports of the current instruction
    completions,  \* _sharedTrackingCompletions of the current trial
    answers,      \* _sharedCursorResponses
    locks,        \* virtualCursorReports
    hit,          \* _sketchEventInbox: the trial of the reported hit, or 0
    relock,       \* recoveryIdentities of ensureTask7PointerLocks()
    stage,        \* what the room was last told
    page,         \* the pages of the participants
    present,      \* connected participants
    hung,         \* participants whose page does nothing any more
    cleanup,      \* identities the safety cleanup will remove
    admin,        \* the recorder of the admin's page
    cloud,        \* trial -> whether its recording is stored
    kept,         \* trial -> whose metadata was stored with it
    posts,        \* HTTP reports under way
    gone,         \* participants who left before the end
    mishaps,      \* the faults so far
    played        \* the roles of the shared trials so far

agentVars == <<disrupted, outcome, uploads, recording, recStatus>>
reportVars == <<nexts, completions, answers, locks, relock, hit>>
roomVars == <<stage, page, present, hung, cleanup>>
recorderVars == <<admin, cloud, kept>>
historyVars == <<gone, mishaps, played>>
rules == <<experiment, script>>
session == <<rules, manual>>
vars == <<session, status, aborted, run, handler, agentVars, reportVars, roomVars,
          recorderVars, posts, historyVars>>

-----------------------------------------------------------------------------
(* The roles of a pair in the shared trials of Task 9: one sees the cursor, *)
(* the other the target.                                                    *)

\* assignTask9AsymmetricRoles() on identities in localeCompare order; 0 stands
\* for nobody.  The seed's lowest bit says who sees the cursor first.
NoRoles == [cursor |-> 0, target |-> 0]
\* mutant of CursorFirst: the roles do not alternate
CursorFirst_Seed(seed, index) == seed % 2 = 0
CursorFirst(seed, index) == seed % 2 = index % 2
AsymmetricRoles(identities, seed, index) ==
    IF Cardinality(identities) # 2 THEN NoRoles
    ELSE LET first  == CHOOSE p \in identities : \A q \in identities : p <= q
             second == CHOOSE p \in identities : p # first
         IN  IF CursorFirst(seed, index)
             THEN [cursor |-> first, target |-> second]
             ELSE [cursor |-> second, target |-> first]

-----------------------------------------------------------------------------
(* The rules as instructions *)

Running == run.at \in {"going", "throwing"} /\ run.pc <= Len(script)
Ins == script[run.pc]
Doing(what) == Running /\ Ins.do = what

Go(pc) == run' = [run EXCEPT !.pc = pc]
Step == Go(run.pc + 1)

\* The finally block of the try block the run is in; 0 outside of one.
Finally ==
    IF Leads(script, run.pc) = {} \/ Ins.do = "finally" THEN 0
    ELSE CHOOSE f \in Leads(script, run.pc) : TRUE

\* An exception leaves the rules, through the finally block if there is one;
\* start() turns it into status 'error' unless the session was stopped.
LeaveRules(with) ==
    /\ run' = [run EXCEPT !.at = "over"]
    /\ status' = IF status = "running" THEN with ELSE status
\* mutant of Throw: a finally block is assumed
Throw_AnyFinally ==
    IF run.at # "throwing"
    THEN run' = [pc |-> Finally, at |-> "throwing"] /\ UNCHANGED status
    ELSE LeaveRules("error")
Throw ==
    IF run.at # "throwing" /\ Finally # 0
    THEN run' = [pc |-> Finally, at |-> "throwing"] /\ UNCHANGED status
    ELSE LeaveRules("error")

Mishap(kind) ==
    kind \in Kinds[experiment] /\ Len(mishaps) < Faults[experiment] /\ mishaps' = Append(mishaps, kind)
NoMishap == UNCHANGED mishaps
Happened(kinds) == \E i \in DOMAIN mishaps : mishaps[i] \in kinds

-----------------------------------------------------------------------------
(* Messages to the room *)

\* mutant of Absent: only an empty room is noticed
Absent_Everyone == present = {}
Absent == Cardinality(present) < 2

\* mutant of Paired: no gate records the pair
Paired_Nobody == {}
\* _pairedParticipantIdentities: only a gate that waits for START sets it, when
\* both have pressed; the agent takes presses for Task 9 alone.
Paired == IF experiment \in Gated THEN Pages ELSE {}

\* mutant of Covered: a question that is about to appear is not cancelled
Covered_Shown(me) == [me EXCEPT !.ask.at = IF @ = "shown" THEN "hidden" ELSE @]
\* hideSharedQuestionnaire also cancels the question that was about to appear.
Covered(me) == [me EXCEPT !.reveal = 0, !.ask.at = IF @ = "shown" THEN "hidden" ELSE @]

\* A broadcast takes the place of the one that fills its slot of the screen.
Paper(me, text) == [me EXCEPT !.paper = text]

\* What a participant's page makes of a control message.
React(p, msg, value) ==
    LET me == page[p] IN
    CASE msg = "virtual" -> [me EXCEPT !.virtual = value, !.recover = @ /\ value]
      [] msg = "unlock" -> [me EXCEPT !.locked = FALSE, !.recover = FALSE]
      [] msg = "shared" ->
           IF value # "off" THEN [me EXCEPT !.recover = FALSE]
           ELSE [me EXCEPT !.track.at = IF @ = "current" THEN "orphan" ELSE @]
      [] msg = "trajectory" ->
           IF value # 0 /\ experiment \in Shared
           THEN [me EXCEPT !.track = [trial |-> value, at |-> "current"]] ELSE me
      [] msg = "ask" ->
           IF me.ask.trial = value /\ me.ask.at # "hidden" THEN me
           ELSE [me EXCEPT !.reveal = value]
      [] msg = "hide" -> Covered(me)
      [] msg = "page" -> Paper(me, "page")
      [] msg = "notice" -> Paper(me, "none")
      [] msg = "relock" -> [me EXCEPT !.recover = p \in value]
      [] msg = "complete" -> [me EXCEPT !.ended = "done"]
      [] OTHER -> me

Hear(msg, value) == page' = [p \in Pages |-> IF p \in present THEN React(p, msg, value) ELSE page[p]]

\* What the stage shows, for the messages that change it.
Show(msg, value) ==
    stage' = CASE msg = "target" -> [stage EXCEPT !.target = value]
               [] msg = "shared" -> [stage EXCEPT !.shared = value]
               [] msg = "display" -> [stage EXCEPT !.display = value]
               [] msg = "mode" -> [stage EXCEPT !.mode = value]
               [] msg = "notice" -> [stage EXCEPT !.notice = value]
               [] msg = "page" -> [stage EXCEPT !.notice = "page"]
               [] OTHER -> stage

\* On the admin's page: setRecordingMetadata, and the loops that move the target
\* and watch for a hit, each in place of the one before, until they are stopped.
MetadataHeard(trial) ==
    IF admin.on # 0 THEN [admin EXCEPT !.meta = trial, !.pending = 0]
    ELSE [admin EXCEPT !.pending = trial]
TrajectoryHeard(trial) == [admin EXCEPT !.trajectory = trial]
DetectorHeard(trial) == [admin EXCEPT !.detector = trial]
Note(msg, value) ==
    admin' = CASE msg = "metadata" -> MetadataHeard(value)
               [] msg = "trajectory" -> TrajectoryHeard(value)
               [] msg = "detector" -> DetectorHeard(value)
               [] OTHER -> admin

\* A page reports its pointer lock when it changes, and when it is asked.
LockOf(p) == IF page[p].locked THEN "yes" ELSE "no"
Reported(msg) ==
    locks' = [p \in Pages |-> IF p \notin present \ hung THEN locks[p]
                              ELSE IF msg = "relock" THEN LockOf(p)
                              ELSE IF msg = "unlock" /\ page[p].locked THEN "no" ELSE locks[p]]

Send(msg, value) ==
    Hear(msg, value) /\ Show(msg, value) /\ Note(msg, value) /\ Reported(msg)

-----------------------------------------------------------------------------
(* The recorder of the admin's page *)

\* The bound on the reports of the recorder that are under way.
MayReport == Cardinality({m \in posts : m.kind = "status"}) < Reports[experiment]

HearsStart(trial) == admin' = [admin EXCEPT !.timer = trial]

\* startRecording(): a session without metadata, instead of any other.
StartRecording(trial) == [admin EXCEPT !.on = trial, !.meta = 0]

\* The 100 ms timer after agentStartRecording installs the session and gives
\* it the metadata that came before.
TimerFires ==
    /\ admin.timer # 0 /\ MayReport
    /\ admin' = [StartRecording(admin.timer) EXCEPT !.meta = admin.pending, !.pending = 0, !.timer = 0]
    /\ posts' = posts \cup {[kind |-> "status", from |-> 0, trial |-> admin.timer, says |-> "recording"]}
    /\ UNCHANGED <<session, status, aborted, run, handler, agentVars, reportVars, roomVars,
                   cloud, kept, historyVars>>

\* stopRecording(): the session goes to the upload queue as it is.
StopRecording ==
    /\ admin' = [admin EXCEPT !.on = 0, !.meta = 0]
    /\ cloud' = [cloud EXCEPT ![admin.on] = "uploading"]
    /\ kept' = [kept EXCEPT ![admin.on] = admin.meta]

\* agentStopRecording: without a session the command is only logged.
HearsStop ==
    IF admin.on = 0 THEN admin' = [admin EXCEPT !.missed = TRUE] /\ UNCHANGED <<cloud, kept, posts>>
    ELSE /\ StopRecording
         /\ posts' = posts \cup {[kind |-> "status", from |-> 0, trial |-> admin.on, says |-> "queued"]}

\* The upload queue (RecordingUpload) settles a recording, one way or the other.
UploadEnds(trial) ==
    /\ cloud[trial] = "uploading" /\ MayReport
    /\ experiment \in Patient => Doing("uploads") \/ run.at = "over"
    /\ \/ /\ cloud' = [cloud EXCEPT ![trial] = "stored"]
          /\ posts' = posts \cup {[kind |-> "status", from |-> 0, trial |-> trial, says |-> "uploaded"]}
          /\ NoMishap
       \/ /\ Mishap("upload")
          /\ cloud' = [cloud EXCEPT ![trial] = "lost"]
          /\ posts' = posts \cup {[kind |-> "status", from |-> 0, trial |-> trial, says |-> "error"]}
    /\ UNCHANGED <<session, status, aborted, run, handler, agentVars, reportVars, roomVars,
                   admin, kept, gone, played>>

\* The first hit stops the detector; its report is sent once.
DetectorFires ==
    /\ admin.detector # 0
    /\ posts' = posts \cup {[kind |-> "hit", from |-> 0, trial |-> admin.detector, says |-> ""]}
    /\ admin' = [admin EXCEPT !.detector = 0]
    /\ UNCHANGED <<session, status, aborted, run, handler, agentVars, reportVars, roomVars,
                   cloud, kept, historyVars>>

\* The admin's page is reloaded: what it recorded or uploaded is lost, and its
\* loops end.
FreshAdmin == [on |-> 0, meta |-> 0, pending |-> 0, timer |-> 0, missed |-> FALSE,
               trajectory |-> 0, detector |-> 0]
AdminReloads ==
    /\ Mishap("reload")
    /\ admin' = FreshAdmin
    /\ cloud' = [t \in Trials |-> IF cloud[t] = "uploading" THEN "lost" ELSE cloud[t]]
    /\ posts' = {m \in posts : m.kind # "status"}
    /\ UNCHANGED <<session, status, aborted, run, handler, agentVars, reportVars, roomVars,
                   kept, gone, played>>

-----------------------------------------------------------------------------
(* What the agent awaits *)

agentIdle == <<session, aborted, handler, disrupted, outcome, present, hung, historyVars>>

\* executeRules(): a rule is entered unless the run was aborted.
EnterRule ==
    /\ Doing("rule")
    /\ IF aborted THEN LeaveRules(status) ELSE Step /\ UNCHANGED status
    /\ UNCHANGED <<agentIdle, uploads, recording, recStatus, reportVars, stage, page, cleanup,
                   recorderVars, posts>>

\* start(): the rules are over.
RulesEnd ==
    /\ run.at = "going" /\ run.pc > Len(script)
    /\ LeaveRules("completed")
    /\ UNCHANGED <<agentIdle, uploads, recording, recStatus, reportVars, stage, page, cleanup,
                   recorderVars, posts>>

\* if (signal.aborted) return: every caller up to executeRules() returns too.
Checks ==
    /\ Doing("check")
    /\ IF aborted THEN LeaveRules(status) ELSE Step /\ UNCHANGED status
    /\ UNCHANGED <<agentIdle, uploads, recording, recStatus, reportVars, stage, page, cleanup,
                   recorderVars, posts>>

\* The same inside a try block, and the ends of such a block.
Block ==
    /\ \/ /\ Doing("leave")
          /\ Go(IF aborted THEN Finally ELSE run.pc + 1)
          /\ UNCHANGED <<status, completions>>
       \/ /\ Doing("try") \/ Doing("finally")
          /\ Step /\ UNCHANGED <<status, completions>>
       \/ /\ Doing("forget")
          /\ completions' = {}
          /\ Step /\ UNCHANGED status
       \/ /\ Doing("end")
          /\ IF run.at = "throwing" THEN LeaveRules("error") ELSE Step /\ UNCHANGED status
          /\ UNCHANGED completions
    /\ UNCHANGED <<agentIdle, uploads, recording, recStatus, nexts, answers, locks, relock, hit, stage,
                   page, cleanup, recorderVars, posts>>

\* A sleep ends when it is aborted; otherwise it outlasts the recorder's timer.
Sleeps ==
    /\ Doing("sleep")
    /\ aborted \/ admin.timer = 0
    /\ Step
    /\ UNCHANGED <<agentIdle, status, uploads, recording, recStatus, reportVars, stage, page,
                   cleanup, recorderVars, posts>>

\* sendToRoom(), and the helpers that send nothing once the run is aborted.
\* A new instruction page forgets the reports of its identifier.
Sends ==
    /\ Doing("send") \/ Doing("set") \/ Doing("offer")
    /\ IF Ins.do = "set" /\ aborted THEN UNCHANGED <<page, stage, admin, locks, nexts>>
       ELSE /\ Send(Ins.msg, Ins.value)
            /\ nexts' = IF Ins.msg = "page" THEN {} ELSE nexts
    /\ Step
    /\ UNCHANGED <<agentIdle, status, uploads, recording, recStatus, completions, answers, relock,
                   hit, cleanup, cloud, kept, posts>>

\* mutant of Unlocked: nobody is asked to lock again
Unlocked_Ignored == {}
\* ensureTask7PointerLocks() up to its loop: only pages that reported a lost
\* lock are asked, and each of them reports its lock anew.  A failed listing
\* skips the check like an empty room.
Unlocked == {p \in present : locks[p] = "no"}
AsksForLocks ==
    /\ Doing("locks")
    /\ \/ /\ IF Absent \/ Unlocked = {} THEN NoMishap ELSE Mishap("list")
          /\ Go(run.pc + 2) /\ UNCHANGED <<relock, locks, page, stage, admin>>
       \/ /\ ~Absent /\ Unlocked # {} /\ NoMishap
          /\ relock' = Unlocked
          /\ Send("relock", Unlocked)
          /\ Step
    /\ UNCHANGED <<session, aborted, handler, disrupted, outcome, present, hung, gone,
                   played, status, uploads, recording, recStatus, nexts, completions,
                   answers, hit, cleanup, cloud, kept, posts>>

\* execStartRecording(): the state is written before the message is sent.
BeginsRecording ==
    /\ recording' = Ins.trial
    /\ recStatus' = "recording"
    /\ uploads' = [uploads EXCEPT ![Ins.trial] = "recording"]
StartsRecording ==
    /\ Doing("record")
    /\ IF aborted THEN UNCHANGED <<recording, recStatus, uploads, admin>>
       ELSE BeginsRecording /\ HearsStart(Ins.trial)
    /\ Step
    /\ UNCHANGED <<agentIdle, status, reportVars, stage, page, cleanup, cloud, kept, posts>>

\* execStopRecordingAndUpload() up to the message, of the run or the handler.
QueuesUpload ==
    /\ recStatus' = "queued"
    /\ uploads' = [uploads EXCEPT ![recording] = "queued"]
StopsRecording ==
    /\ Doing("stop")
    /\ IF aborted \/ recording = 0
       THEN Go(run.pc + 2) /\ UNCHANGED <<recStatus, uploads, recorderVars, posts>>
       ELSE QueuesUpload /\ HearsStop /\ Step
    /\ UNCHANGED <<agentIdle, status, recording, reportVars, stage, page, cleanup>>

\* ... and after it.
ForgetsRecording ==
    /\ Doing("stopped")
    /\ recording' = 0
    /\ Step
    /\ UNCHANGED <<agentIdle, status, uploads, recStatus, reportVars, stage, page, cleanup,
                   recorderVars, posts>>

\* getExperimentParticipantIdentities(), then assignTask9AsymmetricRoles(): a
\* failed listing gives nobody a role.
AssignsRoles ==
    /\ Doing("roles")
    /\ \/ /\ NoMishap
          /\ played' = Append(played, AsymmetricRoles(present, Ins.seed, Ins.index))
       \/ /\ Mishap("list")
          /\ played' = Append(played, NoRoles)
    /\ Step
    /\ UNCHANGED <<session, status, aborted, handler, agentVars, reportVars, roomVars,
                   recorderVars, posts, gone>>

\* execEndSession(): `complete`, and the safety cleanup two minutes later.
Completes ==
    /\ Doing("complete")
    /\ Send("complete", TRUE)
    /\ cleanup' = Paired
    /\ Step
    /\ UNCHANGED <<agentIdle, status, uploads, recording, recStatus, nexts, completions, answers,
                   relock, hit, cloud, kept, posts>>

\* The room service refuses a message: sendToRoom() throws, and what was
\* written before it stays; a notice is given up instead.
SendFails ==
    /\ \/ /\ \/ Doing("send") \/ Doing("complete")
             \/ Doing("set") /\ ~aborted
             \/ Doing("locks") /\ ~Absent /\ Unlocked # {}
          /\ Throw /\ UNCHANGED <<recording, recStatus, uploads>>
       \/ Doing("record") /\ ~aborted /\ BeginsRecording /\ Throw
       \/ Doing("stop") /\ ~aborted /\ recording # 0 /\ QueuesUpload /\ Throw /\ UNCHANGED recording
       \/ Doing("offer") /\ Step /\ UNCHANGED <<status, recording, recStatus, uploads>>
    /\ Mishap("send")
    /\ UNCHANGED <<session, aborted, handler, disrupted, outcome, reportVars, roomVars,
                   recorderVars, posts, gone, played>>

-----------------------------------------------------------------------------
(* Waiting for the pages *)

\* handleSharedParticipantDisconnect(), called by the run: the first call
\* handles the loss, any other one only throws.
LosesParticipant(why, who) ==
    IF ~disrupted /\ ~aborted
    THEN /\ disrupted' = TRUE
         /\ handler' = [at |-> 1, by |-> "run", who |-> who, why |-> why]
         /\ run' = [run EXCEPT !.at = "handling"]
         /\ UNCHANGED status
    ELSE Throw /\ UNCHANGED <<disrupted, handler>>

waiting == <<session, aborted, outcome, uploads, recording, reportVars, roomVars,
             recorderVars, posts, gone, played>>

\* The instruction pages, the questions and the tracking of a trial.
Polled ==
    CASE Ins.do = "next" -> nexts
      [] Ins.do = "completions" -> completions
      [] Ins.do = "answers" -> {p \in Pages : <<p, Ins.trial>> \in answers}

\* mutant of Everyone: the first report is enough
Everyone_First(who) == who # {}
Everyone(who) == Cardinality(who) >= 2
WaitEnds ==
    /\ Doing("next") \/ Doing("completions") \/ Doing("answers")
    /\ aborted \/ Everyone(Polled)
    /\ Step
    /\ UNCHANGED <<waiting, status, handler, disrupted, recStatus, mishaps>>

WaitBreaks ==
    /\ Doing("next") \/ Doing("completions") \/ Doing("answers")
    /\ ~aborted /\ ~Everyone(Polled) /\ Absent
    /\ LosesParticipant("absent", 0)
    /\ UNCHANGED <<waiting, recStatus, mishaps>>

\* Nothing that is still under way would change what is polled.
Unanswered(p) == page[p].ask.at = "sent" /\ <<p, page[p].ask.trial>> \notin answers
StillExpected(kind) ==
    \E p \in present \ hung :
        \/ kind = "complete" /\ page[p].track.at = "current"
        \/ kind = "answer" /\ (page[p].reveal # 0 \/ page[p].ask.at = "shown" \/ Unanswered(p))

Patience(kind, mishap) == IF StillExpected(kind) THEN Mishap(mishap) ELSE NoMishap

\* The wait for completions gives the session up, the one for answers goes on.
WaitTimesOut ==
    /\ Doing("completions") \/ Doing("answers")
    /\ ~aborted /\ ~Everyone(Polled) /\ ~Absent /\ admin.timer = 0
    /\ \/ /\ Ins.do = "completions"
          /\ Patience("complete", "complete")
          /\ \E who \in IF Paired \subseteq completions THEN {0} ELSE Paired \ completions :
                LosesParticipant("inactive", who)
       \/ /\ Ins.do = "answers"
          /\ Patience("answer", "slow")
          /\ Step
          /\ UNCHANGED <<status, handler, disrupted>>
    /\ UNCHANGED <<session, aborted, outcome, uploads, recording, recStatus, reportVars, roomVars,
                   recorderVars, posts, gone, played>>

\* execEnableVirtualCursor(): no timeout, and no look at who is still there.
LockedParticipants == {p \in Pages : locks[p] = "yes"}
LocksReported ==
    /\ Doing("locked")
    /\ aborted \/ Everyone(LockedParticipants)
    /\ Step
    /\ UNCHANGED <<waiting, status, handler, disrupted, recStatus, mishaps>>

\* The loop of ensureTask7PointerLocks(): a listing that fails is empty, and
\* an empty room counts as a disconnect.
LocksRecovered ==
    /\ Doing("relock")
    /\ aborted \/ (~Absent /\ \A p \in relock : locks[p] = "yes")
    /\ Step
    /\ UNCHANGED <<waiting, status, handler, disrupted, recStatus, mishaps>>
LocksBreak ==
    /\ Doing("relock")
    /\ ~aborted
    /\ IF Absent THEN NoMishap ELSE Mishap("list")
    /\ LosesParticipant("absent", 0)
    /\ UNCHANGED <<session, aborted, outcome, uploads, recording, recStatus, reportVars, roomVars,
                   recorderVars, posts, gone, played>>

\* waitForRecordingUploadsAfterCompletion()
Pending == {t \in Trials : uploads[t] \notin {"none", "uploaded", "error"}}
\* mutant of Failed: errors count as settled
Failed_Ignored  == {}
Failed  == {t \in Trials : uploads[t] = "error"}
Unsettled(t) == \/ admin.timer = t
                \/ cloud[t] = "uploading"
                \/ \E m \in posts : m.kind = "status" /\ m.trial = t

UploadsSettled ==
    /\ Doing("uploads")
    /\ aborted \/ (Failed = {} /\ Pending = {})
    /\ recStatus' = IF aborted THEN recStatus ELSE "uploaded"
    /\ Step
    /\ UNCHANGED <<waiting, status, handler, disrupted, mishaps>>
UploadsFail ==
    /\ Doing("uploads") /\ ~aborted
    /\ Failed # {}
    /\ Throw
    /\ UNCHANGED <<waiting, handler, disrupted, recStatus, mishaps>>
UploadsTimeOut ==
    /\ Doing("uploads") /\ ~aborted
    /\ Failed = {} /\ Pending # {}
    /\ IF \E t \in Pending : Unsettled(t) THEN Mishap("slow") ELSE NoMishap
    /\ Throw
    /\ UNCHANGED <<waiting, handler, disrupted, recStatus>>

\* waitForSketchEvent(): what was reported before it began is thrown away; the
\* trial goes on alike after the hit and after the timeout.
EmptiesInbox ==
    /\ Doing("empty")
    /\ hit' = 0
    /\ Step
    /\ UNCHANGED <<agentIdle, status, uploads, recording, recStatus, nexts, completions, answers,
                   locks, relock, stage, page, cleanup, recorderVars, posts>>
HitOrTimeout ==
    /\ Doing("hit")
    /\ hit' = IF aborted THEN hit ELSE 0
    /\ Step
    /\ UNCHANGED <<agentIdle, status, uploads, recording, recStatus, nexts, completions, answers,
                   locks, relock, stage, page, cleanup, recorderVars, posts>>

\* execWaitForParticipants() without START presses: the tasks of one shared
\* cursor wait for both participants without a limit; the others go on when
\* enough have joined or the time is over, with whoever is there.
GateOpens ==
    /\ Doing("gate")
    /\ aborted \/ experiment \notin Shared \/ ~Absent
    /\ Go(run.pc + 1 + Ins.skip)
    /\ UNCHANGED <<waiting, status, handler, disrupted, recStatus, mishaps>>
GateStaysShut ==
    /\ Doing("gate") /\ ~aborted /\ Ins.skip # 0
    /\ Step
    /\ UNCHANGED <<waiting, status, handler, disrupted, recStatus, mishaps>>

\* Task 8 waits for the operator, too.
AsksForStart ==
    /\ Doing("manual") /\ ~aborted /\ ~Absent /\ manual = "no"
    /\ manual' = "pending"
    /\ UNCHANGED <<rules, status, aborted, run, handler, agentVars, reportVars, roomVars,
                   recorderVars, posts, historyVars>>
ManualStart ==
    /\ Doing("manual")
    /\ aborted \/ (~Absent /\ manual = "requested")
    /\ manual' = IF aborted THEN manual ELSE "no"
    /\ Step
    /\ UNCHANGED <<rules, status, aborted, handler, agentVars, reportVars, roomVars,
                   recorderVars, posts, historyVars>>

RunStep ==
    \/ EmptiesInbox \/ HitOrTimeout \/ GateOpens \/ GateStaysShut \/ AsksForStart \/ ManualStart
    \/ EnterRule \/ RulesEnd \/ Checks \/ Block \/ Sleeps \/ Sends \/ AsksForLocks
    \/ StartsRecording \/ StopsRecording \/ ForgetsRecording \/ AssignsRoles \/ Completes
    \/ WaitEnds \/ WaitBreaks \/ WaitTimesOut \/ LocksReported \/ LocksRecovered \/ LocksBreak
    \/ UploadsSettled \/ UploadsFail \/ UploadsTimeOut

-----------------------------------------------------------------------------
(* handleSharedParticipantDisconnect() *)

handling == <<session, disrupted, nexts, completions, answers, relock, hit, hung, cleanup>>
NextStep == handler' = [handler EXCEPT !.at = @ + 1]

\* mutant of Missing: the whole pair is suspected
Missing_Anybody(known, active) == known
\* Whoever is missing from the room is held responsible, unless it is known;
\* those who are there are told the outcome.  Nobody is missing from a room
\* whose pair was never recorded.
Missing(known, active) == known \ active
\* buildParticipantTerminationOutcomes()
Outcomes(known, responsible) ==
    [p \in Pages |-> IF p \notin known THEN "none"
                     ELSE IF p = responsible THEN "return" ELSE "review"]
\* What those who hear the outcome make of it.
Told(heard) ==
    page' = [p \in Pages |-> IF p \in heard THEN [page[p] EXCEPT !.ended = "told"] ELSE page[p]]
\* The outcome is sent to those who were listed, and to nobody else, to each in
\* a message of its own; one that is refused is skipped.
HandlerLists ==
    /\ handler.at = 1
    /\ \E active \in {present, {}} :
        LET known   == Paired \cup active \cup (IF handler.who = 0 THEN {} ELSE {handler.who})
            suspect == IF handler.who # 0 THEN {handler.who} ELSE Missing(known, active)
        IN
        \E heard \in SUBSET active :
        /\ IF active # present THEN Mishap("list") /\ heard = active
           ELSE IF heard # active THEN Mishap("send") /\ suspect # {}
           ELSE NoMishap
        /\ IF suspect = {} THEN UNCHANGED <<outcome, page>>
           ELSE \E who \in suspect :
                /\ outcome' = Outcomes(known, who)
                /\ Told(heard)
    /\ NextStep
    /\ UNCHANGED <<handling, locks, status, aborted, run, uploads, recording, recStatus, stage, present,
                   recorderVars, posts, gone, played>>

\* mutant of SwitchedOff: the target is left up
SwitchedOff_NoTarget == << <<"unlock", TRUE>>, <<"shared", "off">>, <<"unlock", TRUE>>,
                           <<"virtual", FALSE>>, <<"hide", TRUE>> >>
\* The live task is switched off before anything else is recovered; a message
\* that is refused is skipped.
SwitchedOff == << <<"target", FALSE>>, <<"shared", "off">>, <<"unlock", TRUE>>,
                  <<"virtual", FALSE>>, <<"hide", TRUE>> >>
HandlerSends ==
    /\ handler.at \in 2 .. 6
    /\ \/ Send(SwitchedOff[handler.at - 1][1], SwitchedOff[handler.at - 1][2]) /\ NoMishap
       \/ Mishap("send") /\ UNCHANGED <<page, stage, admin, locks>>
    /\ NextStep
    /\ UNCHANGED <<handling, status, aborted, run, outcome, uploads, recording, recStatus, present,
                   cloud, kept, posts, gone, played>>

\* What is recorded when the participant is lost.
RecordsOn == recStatus \in {"recording", "uploading"} /\ ~aborted /\ recording # 0
\* execStopRecordingAndUpload() up to its message.  A refused message ends it
\* there, and the exception goes no further: the agent goes on as if it had
\* stopped the recording.
HandlerSkips == handler' = [handler EXCEPT !.at = 9]
HandlerStops ==
    /\ handler.at = 7
    /\ \/ /\ ~RecordsOn /\ HandlerSkips /\ NoMishap
          /\ UNCHANGED <<recStatus, uploads, recorderVars, posts>>
       \/ /\ RecordsOn /\ QueuesUpload
          /\ HearsStop /\ NextStep /\ NoMishap
       \/ /\ RecordsOn /\ QueuesUpload
          /\ HandlerSkips /\ Mishap("send")
          /\ UNCHANGED <<recorderVars, posts>>
    /\ UNCHANGED <<handling, locks, status, aborted, run, outcome, recording, stage, page, present,
                   gone, played>>
HandlerForgets ==
    /\ handler.at = 8
    /\ recording' = 0
    /\ NextStep
    /\ UNCHANGED <<handling, locks, status, aborted, run, outcome, uploads, recStatus, stage, page, present,
                   recorderVars, posts, historyVars>>

\* Paused after START, or without Prolific: either way the session is stopped
\* and the caller gets an exception; reportParticipantWithdraw() turns the
\* second one into status 'error'.
HandlerEnds ==
    /\ handler.at = 9
    /\ NextStep
    /\ aborted' = TRUE
    /\ present' \in {present, {}}
    /\ status' \in IF handler.by = "run" THEN {"stopped"} ELSE {"stopped", "error"}
    /\ run' = IF handler.by # "run" THEN run
              ELSE IF Finally # 0 THEN [pc |-> Finally, at |-> "throwing"]
              ELSE [run EXCEPT !.at = "over"]
    /\ UNCHANGED <<handling, locks, outcome, uploads, recording, recStatus, stage, page, recorderVars,
                   posts, historyVars>>

HandlerStep == HandlerLists \/ HandlerSends \/ HandlerStops \/ HandlerForgets \/ HandlerEnds

-----------------------------------------------------------------------------
(* The pages of the participants.  A report is a POST the page retries: it  *)
(* counts when the page acts, or, by a fault, not at all.                   *)

NextReported(p) == nexts' = nexts \cup {p}
CurrentTrial == IF Doing("completions") THEN Ins.trial ELSE 0
CompletionReported(p, trial) ==
    completions' = IF trial = CurrentTrial THEN completions \cup {p} ELSE completions
AnswerReported(p, trial) == answers' = answers \cup {<<p, trial>>}
LockReported(p, says) == locks' = [locks EXCEPT ![p] = says]

Acts(p) == p \in present \ hung /\ page[p].ended = "no"
Becomes(p, me) == page' = [page EXCEPT ![p] = me]

onPage == <<session, status, aborted, run, handler, agentVars, relock, hit, stage, present, hung,
            cleanup, recorderVars, posts, gone, played>>

\* The last page of an instruction is confirmed with Next; when the report
\* fails, the instruction is shown again.
ClickNext(p) ==
    /\ Acts(p) /\ page[p].paper = "page"
    /\ NextReported(p)
    /\ \/ Becomes(p, [page[p] EXCEPT !.paper = "done"]) /\ NoMishap
       \/ p \in Faulty /\ Mishap("next") /\ UNCHANGED page
    /\ UNCHANGED <<onPage, completions, answers, locks>>

\* A click on the circle that offers the task cursor: after the instruction,
\* with the virtual cursor on, and in the paired tasks only to recover.
MayLock(me) ==
    \/ me.paper = "done"
    \/ /\ me.virtual /\ me.paper # "page"
       /\ stage.mode # "shared-single-cursor" \/ me.recover
Lock(p) ==
    /\ Acts(p) /\ ~page[p].locked /\ MayLock(page[p])
    /\ Becomes(p, [page[p] EXCEPT !.locked = TRUE, !.recover = FALSE])
    /\ LockReported(p, "yes")
    /\ UNCHANGED <<onPage, nexts, completions, answers, mishaps>>

\* Esc; shouldRequireImmediatePointerLockRecovery() decides on the way back.
\* A trial whose start point is still held is not being tracked yet.
Esc(p) ==
    /\ Acts(p) /\ page[p].locked /\ Mishap("esc")
    /\ \E begun \in BOOLEAN :
        LET tracking == page[p].track.at = "current" /\ begun
            playing  == experiment \in Timed /\ stage.shared # "off" /\ stage.target
        IN  Becomes(p, [page[p] EXCEPT
                !.locked = FALSE,
                !.recover = @ \/ (/\ experiment \in Guarded /\ stage.mode = "shared-single-cursor"
                                  /\ tracking \/ playing)])
    /\ LockReported(p, "no")
    /\ UNCHANGED <<onPage, nexts, completions, answers>>

\* A report of the lock is given up: the agent remembers the one before.
LockReportLost(p) ==
    /\ p \in present \ hung /\ locks[p] = LockOf(p) /\ Mishap("lock")
    /\ LockReported(p, IF page[p].locked THEN "no" ELSE "yes")
    /\ UNCHANGED <<onPage, page, nexts, completions, answers>>

\* The timer of a trial, which outlasts the agent's message: a trial that was
\* switched off still reports, but asks nothing.  The pointer is released for
\* the question.
Asks(trial) == Asked(script, trial)
TrackDone(p) ==
    LET me == page[p]
        ends == [me EXCEPT !.track.at = "done"]
        asks == me.track.at = "current" /\ Asks(me.track.trial)
    IN
    /\ p \in present \ hung /\ me.track.at \in {"current", "orphan"} /\ admin.timer = 0 /\ ~Doing("try")
    /\ Becomes(p, IF ~asks THEN ends
                  ELSE [ends EXCEPT
                          !.virtual = FALSE, !.locked = FALSE,
                          !.ask = IF @.trial = me.track.trial /\ @.at = "sent" THEN @
                                  ELSE [trial |-> me.track.trial, at |-> "shown"]])
    /\ IF asks /\ me.locked THEN LockReported(p, "no") ELSE UNCHANGED locks
    /\ \/ CompletionReported(p, me.track.trial) /\ NoMishap
       \/ p \in Faulty /\ Mishap("complete") /\ UNCHANGED completions
    /\ UNCHANGED <<onPage, nexts, answers>>

\* waitForPointerLockRelease(), then the question appears.
Reveal(p) ==
    /\ p \in present \ hung /\ page[p].reveal # 0
    /\ Becomes(p, [page[p] EXCEPT !.reveal = 0, !.ask = [trial |-> page[p].reveal, at |-> "shown"]])
    /\ UNCHANGED <<onPage, nexts, completions, answers, locks, mishaps>>

\* submitSharedQuestionnaire(): the click also asks for the pointer lock, which
\* the browser may refuse.
Answer(p) ==
    /\ Acts(p) /\ page[p].ask.at = "shown"
    /\ \E got \in BOOLEAN :
        /\ Becomes(p, [page[p] EXCEPT !.ask.at = "sent", !.locked = @ \/ got, !.recover = @ /\ ~got])
        /\ IF got THEN LockReported(p, "yes") ELSE UNCHANGED locks
    /\ \/ AnswerReported(p, page[p].ask.trial) /\ NoMishap
       \/ p \in Faulty /\ Mishap("answer") /\ UNCHANGED answers
    /\ UNCHANGED <<onPage, nexts, completions>>

\* The answer failed, or the agent's reply to it did: the question comes back,
\* whatever the page shows by then.
AnswerFails(p) ==
    /\ p \in present \ hung /\ page[p].ask.at = "sent"
    /\ IF Unanswered(p) THEN NoMishap ELSE p \in Faulty /\ Mishap("answer")
    /\ Becomes(p, [page[p] EXCEPT !.ask.at = "shown"])
    /\ UNCHANGED <<onPage, nexts, completions, answers, locks>>

\* finishParticipantSession(): the page disconnects and is redirected.
Finish(p) ==
    /\ p \in present \ hung /\ page[p].ended = "done"
    /\ present' = present \ {p}
    /\ UNCHANGED <<session, status, aborted, run, handler, agentVars, reportVars, recorderVars,
                   stage, page, hung, cleanup, posts, historyVars>>

PageStep == \E p \in Pages :
    \/ ClickNext(p) \/ Lock(p) \/ TrackDone(p) \/ Reveal(p) \/ Answer(p) \/ AnswerFails(p)
    \/ Finish(p)

-----------------------------------------------------------------------------
(* Reports *)

rank == [none |-> 0, recording |-> 0, queued |-> 1, uploading |-> 2, uploaded |-> 3, error |-> 3]

\* mutant of Ranked: the last report wins
Ranked_Last(trial, says) == [uploads EXCEPT ![trial] = says]
\* reportRecordingStatus()
Ranked(trial, says) ==
    IF rank[says] >= rank[uploads[trial]] THEN [uploads EXCEPT ![trial] = says] ELSE uploads
\* mutant of Concerned: any report sets the recording status
Concerned_Always(trial) == TRUE
Concerned(trial) == recording \in {0, trial}
StatusArrives(m) ==
    /\ m.kind = "status"
    /\ uploads' = Ranked(m.trial, m.says)
    /\ recStatus' = IF Concerned(m.trial) THEN m.says ELSE recStatus
    /\ UNCHANGED <<handler, disrupted, outcome, recording, hit>>

\* reportParticipantWithdraw() starts the handler beside the running rules.
WithdrawArrives(m) ==
    /\ m.kind = "withdraw"
    /\ IF status = "running" /\ experiment \in Shared /\ ~disrupted /\ ~aborted
       THEN /\ disrupted' = TRUE
            /\ handler' = [at |-> 1, by |-> "report", who |-> m.from, why |-> "withdrawal"]
       ELSE UNCHANGED <<disrupted, handler>>
    /\ UNCHANGED <<outcome, recording, recStatus, uploads, hit>>

\* reportSketchEvent() does not ask which trial the event belongs to.
HitReported(trial) == hit' = trial
HitArrives(m) ==
    /\ m.kind = "hit"
    /\ HitReported(m.trial)
    /\ UNCHANGED <<handler, disrupted, outcome, recording, recStatus, uploads>>

Arrives == \E m \in posts :
    /\ StatusArrives(m) \/ WithdrawArrives(m) \/ HitArrives(m)
    /\ posts' = posts \ {m}
    /\ UNCHANGED <<session, status, aborted, run, nexts, completions, answers, locks, relock,
                   roomVars, recorderVars, historyVars>>

\* postRecordingStatusWithRetry() gives up, or a beacon is never sent.
ReportFails == \E m \in posts :
    /\ Mishap(m.kind)
    /\ posts' = posts \ {m}
    /\ UNCHANGED <<session, status, aborted, run, handler, agentVars, reportVars, roomVars,
                   recorderVars, gone, played>>

-----------------------------------------------------------------------------
(* Departures and the operator *)

\* A page is closed or loses its connection; closing it reports a withdrawal.
Leave(p) ==
    /\ p \in present /\ Mishap("leave")
    /\ present' = present \ {p}
    /\ gone' = gone \cup {p}
    /\ \/ /\ Acts(p)
          /\ posts' = posts \cup {[kind |-> "withdraw", from |-> p, trial |-> 0, says |-> ""]}
       \/ UNCHANGED posts
    /\ UNCHANGED <<session, status, aborted, run, handler, agentVars, reportVars, stage, page,
                   hung, cleanup, recorderVars, played>>

\* A page stays connected but does nothing any more.
Hang(p) ==
    /\ p \in present \ hung /\ Mishap("hang")
    /\ hung' = hung \cup {p}
    /\ UNCHANGED <<session, status, aborted, run, handler, agentVars, reportVars, stage, page,
                   present, cleanup, recorderVars, posts, gone, played>>

StopAgent == aborted' = TRUE /\ status' = "stopped"
OperatorStops ==
    /\ status = "running" /\ Mishap("stop")
    /\ StopAgent
    /\ UNCHANGED <<session, run, handler, agentVars, reportVars, roomVars, recorderVars, posts,
                   gone, played>>

\* A start is obeyed at any time; one that comes after the gate is left out, for
\* nothing reads it.
ManualStartRequested == manual' = "requested"
OperatorStarts ==
    /\ \E i \in DOMAIN script : script[i].do = "manual" /\ run.pc <= i
    /\ run.at # "over" /\ manual # "requested"
    /\ ManualStartRequested
    /\ UNCHANGED <<rules, status, aborted, run, handler, agentVars, reportVars, roomVars,
                   recorderVars, posts, historyVars>>

\* scheduleEndSessionParticipantCleanup(): one attempt for each of the pair, two
\* minutes later; when the room cannot be listed there is none.
SafetyCleanup ==
    /\ cleanup # {}
    /\ cleanup' = {}
    /\ \E stay \in SUBSET cleanup :
        /\ present' = present \ (cleanup \ stay)
        /\ IF stay = {} THEN NoMishap ELSE Mishap("cleanup")
    /\ UNCHANGED <<session, status, aborted, run, handler, agentVars, reportVars, stage, page, hung,
                   recorderVars, posts, gone, played>>

Recorder == TimerFires \/ \E t \in Trials : UploadEnds(t)

Environment ==
    \/ SendFails \/ AdminReloads \/ ReportFails \/ OperatorStops \/ OperatorStarts \/ DetectorFires
    \/ \E p \in Faulty : Esc(p) \/ LockReportLost(p) \/ Leave(p) \/ Hang(p)

\* Others act while the agent awaits something: what follows an instruction
\* without an await follows at once.
Awaits(i) ==
    i.do \notin {"rule", "check", "leave", "try", "finally", "end", "forget", "stopped", "empty"}
Polls == {"sleep", "gate", "manual", "hit", "next", "completions", "answers", "locked", "relock", "uploads"}
Awaiting == IF Running /\ run.pc > 1 THEN Ins.do \in Polls \/ Awaits(script[run.pc - 1]) ELSE TRUE

\* What happens by itself, sooner or later, and what need not happen.
Others == HandlerStep \/ PageStep \/ Arrives \/ Recorder \/ SafetyCleanup
Next ==
    \/ RunStep
    \/ Awaiting /\ (Others \/ Environment)
Progress == RunStep \/ (Awaiting /\ Others)

Init ==
    /\ experiment \in Experiments /\ script = Code[experiment]
    /\ status = "running" /\ aborted = FALSE
    /\ run = [pc |-> 1, at |-> "going"]
    /\ handler = [at |-> 0, by |-> "nobody", who |-> 0, why |-> ""]
    /\ disrupted = FALSE
    /\ outcome = [p \in Pages |-> "none"]
    /\ recording = 0 /\ recStatus = "idle"
    /\ uploads = [t \in Trials |-> "none"]
    /\ nexts = {} /\ completions = {} /\ answers = {}
    /\ locks = [p \in Pages |-> "none"] /\ relock = {} /\ hit = 0 /\ manual = "no"
    /\ stage = [target |-> FALSE, shared |-> "off", display |-> "self", mode |-> "none",
                notice |-> "none"]
    /\ page = [p \in Pages |->
                  [virtual |-> FALSE, locked |-> FALSE, recover |-> FALSE,
                   paper |-> "none", ask |-> [trial |-> 0, at |-> "hidden"], reveal |-> 0,
                   track |-> [trial |-> 0, at |-> "idle"], ended |-> "no"]]
    /\ present = Pages /\ hung = {} /\ cleanup = {}
    /\ admin = FreshAdmin
    /\ cloud = [t \in Trials |-> "none"] /\ kept = [t \in Trials |-> 0]
    /\ posts = {}
    /\ gone = {} /\ mishaps = << >> /\ played = << >>

Spec == Init /\ [][Next]_vars
FairSpec == Spec /\ WF_vars(Progress)

-----------------------------------------------------------------------------
(* Properties *)

Nobody == 0
TypeOK ==
    /\ experiment \in Experiments /\ script = Code[experiment]
    /\ status \in {"running", "completed", "stopped", "error"} /\ aborted \in BOOLEAN
    /\ run \in [pc : 1 .. Len(script) + 1, at : {"going", "throwing", "handling", "over"}]
    /\ handler \in [at : 0 .. 10, by : {"nobody", "run", "report"}, who : Pages \cup {Nobody},
                    why : {"", "absent", "inactive", "withdrawal"}]
    /\ disrupted \in BOOLEAN
    /\ outcome \in [Pages -> {"none", "review", "return"}]
    /\ recording \in Trials \cup {0}
    /\ recStatus \in {"idle"} \cup DOMAIN rank
    /\ uploads \in [Trials -> DOMAIN rank]
    /\ nexts \subseteq Pages /\ completions \subseteq Pages /\ answers \subseteq Pages \X Trials
    /\ locks \in [Pages -> {"none", "yes", "no"}] /\ relock \subseteq Pages
    /\ present \subseteq Pages /\ hung \subseteq Pages /\ cleanup \subseteq Pages
    /\ cloud \in [Trials -> {"none", "uploading", "stored", "lost"}]
    /\ kept \in [Trials -> Trials \cup {0}]
    /\ admin \in [on : Trials \cup {0}, meta : Trials \cup {0}, pending : Trials \cup {0},
                  timer : Trials \cup {0}, missed : BOOLEAN, trajectory : Trials \cup {0},
                  detector : Trials \cup {0}]
    /\ hit \in Trials \cup {0} /\ manual \in {"no", "pending", "requested"}
    /\ gone \subseteq Pages

Recorded == {script[i].trial : i \in {j \in DOMAIN script : script[j].do = "record"}}
Described == {script[i].value : i \in {j \in DOMAIN script : script[j].do = "send" /\ script[j].msg = "metadata"}}

\* A session that completed has every trial of its rules stored, each with the
\* metadata of that trial: endSession waits for the uploads of the recorder's
\* page (agent.ts waitForRecordingUploadsAfterCompletion), which may report
\* them in any order, and metadata can reach the page before the recorder is on.
\* The handler of a withdrawal that the run overtakes may have stopped a recording
\* before its metadata came.
CompletedIsStored ==
    status = "completed" =>
        /\ \A t \in Recorded : cloud[t] = "stored"
        /\ \A t \in Described : Happened({"reload"}) \/ handler.by = "report" \/ kept[t] = t

\* endSession reports a failure of the uploads only when a recording is not
\* stored, is still on its way, or the recorder's report got lost: reports that
\* arrive in the wrong order do not turn a stored recording into a failed one.
\* (While a lost participant is handled beside the run, both may stop the same
\* recording, and the second stop writes 'queued' over 'uploaded'.)
NoFalseAlarm ==
    [][Doing("uploads") /\ status = "running" /\ status' = "error" =>
         \/ disrupted \/ Happened({"status", "reload"})
         \/ \E t \in Recorded : cloud[t] # "stored" \/ Unsettled(t)]_vars

\* The participant who is asked to return the submission left the room or fell
\* silent, unless the agent was misinformed: a listing that failed, or a report
\* that never came.  The handler lists the room again after the loss was seen.
OutcomeIsDeserved ==
    \A p \in Pages : outcome[p] = "return" =>
        p \in gone \cup hung \/ Happened({"list", "complete"})

\* While a page tracks the target, the recorder records that very trial, and no
\* page is cut off in the middle of it: neither by the other page's completion
\* nor by the instructions that follow.
TrackingIsRecorded ==
    \A p \in present \ hung : LET track == page[p].track IN
        track.at \in {"current", "orphan"} /\ ~aborted /\ ~disrupted /\ ~Happened({"reload"}) =>
            track.at = "current" /\ track.trial \in {admin.on, admin.timer}

Playing(p) == \/ page[p].track.at = "current"
              \/ experiment \in Timed /\ stage.target /\ stage.shared # "off"

\* No question covers the stage while the participant plays: a question whose
\* display still waits for the pointer to be released is cancelled with the
\* others when the agent stops waiting for answers.
QuestionsDoNotOverlapPlay ==
    \A p \in present : Playing(p) => page[p].ask.at # "shown" \/ Happened({"answer"})

\* Over the shared trials of Task 9 the two roles change hands every time,
\* whatever the order in which the room lists its participants; a trial
\* without roles is one whose listing failed or missed somebody.
RolesSwitch ==
    \A i \in DOMAIN played :
        IF played[i] = NoRoles THEN gone # {} \/ Happened({"list"})
        ELSE i > 1 /\ played[i - 1] # NoRoles =>
                 played[i] = [cursor |-> played[i - 1].target, target |-> played[i - 1].cursor]

\* Whoever plays in a guarded task has the task cursor: questions, pages with an OK
\* button and answers whose click fails to lock the pointer leave participants
\* without it, and the check before a trial gets it back from each of them.
PageCanPlay ==
    experiment \in Guarded /\ ~aborted /\ ~disrupted /\ gone = {}
    /\ ~Happened({"esc", "lock", "list"}) =>
        \A p \in Pages \ hung : Playing(p) => page[p].locked

\* When the rules are over, whichever way, the admin's page no longer moves a
\* target or watches for a hit; after a paired task the target is down, and
\* unless the operator stopped the session nobody keeps the shared cursor.  A
\* handler that a report started beside the run may be overtaken by it.
NothingLeftRunning ==
    run.at = "over" /\ ~Happened({"send"}) =>
        /\ admin.trajectory = 0 /\ admin.detector = 0
        /\ experiment \in Shared /\ handler.by # "report" =>
               ~stage.target /\ (Happened({"stop"}) \/ stage.shared = "off")

\* A lost participant found by the run ends the recording of the unfinished
\* trial, unless the room refuses the message that stops it (the handler of the
\* loss swallows that error, and the recorder runs on); and when the agent takes
\* the recording for ended the recorder is off, or had not started yet.
PartialRecordingStopped ==
    handler.at = 10 /\ handler.by = "run" /\ ~Happened({"stop", "reload"}) =>
        IF recording = 0 THEN admin.on = 0 \/ admin.missed ELSE Happened({"send"})

\* Where the operator, both participants of a shared cursor, a participant's
\* cursor lock or Next are awaited without a limit.
Stuck ==
    \/ Doing("manual")
    \/ Doing("gate") /\ experiment \in Shared /\ gone # {}
    \/ Doing("locked") /\ (gone \cup hung # {} \/ Happened({"lock", "esc"}))
    \/ Doing("relock") /\ (hung # {} \/ Happened({"lock", "esc"}))
    \/ Doing("next") /\ hung # {}

\* Every session comes to an end, except where it waits without a limit for
\* somebody who left, hangs, or whose lock report was lost.
SessionEnds == <>[](run.at = "over" \/ Stuck)

\* After a completed paired session nobody stays in the room, even if one page
\* never leaves by itself: the safety cleanup removes the recorded pair.
RoomEmpties == (status = "completed" /\ experiment \in Gated) ~> (present = {})
=============================================================================
