------------------------- MODULE TrialSessionProofs -------------------------
(***************************************************************************)
(* A session after the START gate, for any rules of the shape that         *)
(* CodeAssumption gives them, and any faults: types, who is asked to       *)
(* return the submission, the recording of an unfinished trial, and the    *)
(* roles of the pair.                                                      *)
(***************************************************************************)
EXTENDS TrialSession, TLAPS, SequenceTheorems, FiniteSetTheorems

-----------------------------------------------------------------------------
(* Types *)

\* The faults so far.
Troubles == {mishaps[i] : i \in DOMAIN mishaps}
\* What a page keeps: a question that was ever shown is that of a trial.
Questions == [trial : Trials \cup {0}, at : {"hidden"}] \cup [trial : Trials, at : {"shown", "sent"}]
Tracks == [trial : Trials \cup {0}, at : {"idle", "current", "orphan", "done"}]
PageStates == [virtual : BOOLEAN, locked : BOOLEAN, recover : BOOLEAN,
               paper : {"none", "page", "done"}, ask : Questions, reveal : Trials \cup {0},
               track : Tracks, ended : {"no", "told", "done"}]
\* The reports that can be under way.
Posts == [kind : {"status"}, from : {0}, trial : Trials, says : DOMAIN rank]
         \cup [kind : {"hit"}, from : {0}, trial : Trials, says : {""}]
         \cup [kind : {"withdraw"}, from : Pages, trial : {0}, says : {""}]

\* The types of the variables, part by part.
RulesTyped == experiment \in Experiments /\ script = Code[experiment]
RunTyped == run \in [pc : 1 .. Len(script) + 1, at : {"going", "throwing", "handling", "over"}]
StatusTyped == status \in {"running", "completed", "stopped", "error"}
Steps == 0 .. 10
Losses == {"", "absent", "inactive", "withdrawal"}
HandlerStates == [at : Steps, by : {"nobody", "run", "report"}, who : Pages \cup {Nobody}, why : Losses]
HandlerTyped == aborted \in BOOLEAN /\ disrupted \in BOOLEAN /\ handler \in HandlerStates
RecordingTyped ==
    /\ recording \in Trials \cup {0} /\ recStatus \in {"idle"} \cup DOMAIN rank
    /\ uploads \in [Trials -> DOMAIN rank]
    /\ cloud \in [Trials -> {"none", "uploading", "stored", "lost"}]
    /\ kept \in [Trials -> Trials \cup {0}]
    /\ posts \subseteq Posts
RecorderTyped ==
    admin \in [on : Trials \cup {0}, meta : Trials \cup {0}, pending : Trials \cup {0},
               timer : Trials \cup {0}, missed : BOOLEAN, trajectory : Trials \cup {0},
               detector : Trials \cup {0}]
ReportsTyped ==
    /\ nexts \subseteq Pages /\ completions \subseteq Pages /\ answers \subseteq Pages \X Trials
    /\ locks \in [Pages -> {"none", "yes", "no"}] /\ relock \subseteq Pages
    /\ hit \in Trials \cup {0}
RoomTyped ==
    /\ page \in [Pages -> PageStates]
    /\ present \subseteq Pages /\ hung \subseteq Pages /\ cleanup \subseteq Pages /\ gone \subseteq Pages
OutcomeTyped == outcome \in [Pages -> {"none", "review", "return"}]
ManualTyped == manual \in {"no", "pending", "requested"}
MishapTyped == mishaps \in Seq(UNION {Kinds[e] : e \in Experiments})
\* The inductive type invariant.
TypeInv ==
    /\ RulesTyped /\ RunTyped /\ StatusTyped /\ HandlerTyped /\ RecordingTyped /\ RecorderTyped
    /\ ReportsTyped /\ RoomTyped /\ OutcomeTyped /\ ManualTyped /\ MishapTyped

\* What the rules of every configuration are like holds for those of the session.
LEMMA ScriptShape ==
  ASSUME RulesTyped
  PROVE  /\ Len(script) \in Nat /\ Typed(script) /\ Jumps(script) /\ Ordered(script)
         /\ Bounded(script) /\ Numbered(script) /\ Filed(script)
         /\ (\E i \in 1 .. Len(script) : script[i].do = "completions") => experiment \in Shared
BY CodeAssumption DEF RulesTyped

\* The pages and the trials are numbers other than 0, and a page that may fail
\* is a page.
LEMMA Numbers ==
  /\ 0 \notin Pages /\ 0 \notin Trials /\ Pages \subseteq Nat /\ Trials \subseteq Nat
  /\ Faulty \subseteq Pages
BY SessionAssumption

\* Where an exception leads: to a finally block ahead, or nowhere.
LEMMA FinallyAhead ==
  ASSUME Finally # 0
  PROVE  /\ Finally \in Leads(script, run.pc) /\ Finally \in run.pc .. Len(script)
         /\ script[Finally].do = "finally"
BY DEF Finally, Leads

\* An aborted try block has a finally block, and on the way no role is given and
\* nothing turned on or off.
LEMMA LeaveAhead ==
  ASSUME TypeInv, Doing("leave")
  PROVE  /\ Finally # 0 /\ Passes(script, run.pc, Finally)
         /\ \A q \in run.pc .. Finally : \A msg \in DOMAIN Rest : q \notin Said(script, msg)
<1>1. run.pc \in 1 .. Len(script) /\ script[run.pc].do = "leave"
  BY ScriptShape DEF TypeInv, RunTyped, Doing, Running, Ins
<1>2. PICK f \in Leads(script, run.pc) :
         /\ Passes(script, run.pc, f)
         /\ \A q \in run.pc .. f : \A msg \in DOMAIN Rest : q \notin Said(script, msg)
  BY <1>1, ScriptShape DEF TypeInv, Jumps
<1>3. Finally = CHOOSE g \in Leads(script, run.pc) : TRUE
  BY <1>1, <1>2 DEF Finally, Ins
<1>4. Finally \in Leads(script, run.pc)
  BY <1>2, <1>3
<1>5. Finally \in run.pc .. Len(script) /\ f \in run.pc .. Len(script)
  BY <1>2, <1>4 DEF Leads
<1>6. \A q \in run.pc .. Finally - 1 : script[q].do # "finally"
  BY <1>4 DEF Leads
<1>7. \A q \in run.pc .. f - 1 : script[q].do # "finally"
  BY <1>2 DEF Leads
<1>8. script[f].do = "finally" /\ script[Finally].do = "finally"
  BY <1>2, <1>4 DEF Leads
<1>9. f = Finally
  <2> DEFINE g == Finally
  <2>1. g \in Int /\ f \in Int /\ run.pc \in Int /\ g >= run.pc /\ f >= run.pc
    BY <1>1, <1>5, ScriptShape DEF TypeInv
  <2>2. ~(g \in run.pc .. f - 1) /\ ~(f \in run.pc .. g - 1)
    BY <1>6, <1>7, <1>8
  <2> HIDE DEF g
  <2>3. f = g
    BY <2>1, <2>2
  <2> QED
    BY <2>3 DEF g
<1> QED
  BY <1>1, <1>2, <1>5, <1>9

-----------------------------------------------------------------------------
(* What a step leaves alone. *)

\* Everything the recorder and the agent know of the recordings.
recordingVars == <<recording, recStatus, uploads, admin, cloud, kept, posts>>
\* The steps that change it.
Records ==
    \/ Sends \/ AsksForLocks \/ Completes \/ StartsRecording \/ StopsRecording
    \/ ForgetsRecording \/ SendFails \/ UploadsSettled \/ HandlerSends \/ HandlerStops
    \/ HandlerForgets \/ Recorder \/ DetectorFires \/ AdminReloads \/ Arrives
    \/ ReportFails \/ \E p \in Pages : Leave(p)
\* Nothing else does.
LEMMA RecordsOnly ==
  ASSUME Next, ~Records, Faulty \subseteq Pages
  PROVE  UNCHANGED recordingVars
<1> USE DEF recordingVars, Records, vars, session, rules, agentVars, reportVars, roomVars,
            recorderVars, historyVars, agentIdle, waiting, handling, onPage
<1>1. CASE EmptiesInbox \/ HitOrTimeout \/ GateOpens \/ GateStaysShut \/ AsksForStart \/ ManualStart
  BY <1>1 DEF EmptiesInbox, HitOrTimeout, GateOpens, GateStaysShut, AsksForStart, ManualStart
<1>2. CASE EnterRule \/ RulesEnd \/ Checks \/ Block \/ Sleeps
  BY <1>2 DEF EnterRule, RulesEnd, Checks, Block, Sleeps
<1>3. CASE AssignsRoles \/ WaitEnds \/ WaitBreaks \/ WaitTimesOut
  BY <1>3 DEF AssignsRoles, WaitEnds, WaitBreaks, WaitTimesOut
<1>4. CASE LocksReported \/ LocksRecovered \/ LocksBreak \/ UploadsFail \/ UploadsTimeOut
  BY <1>4 DEF LocksReported, LocksRecovered, LocksBreak, UploadsFail, UploadsTimeOut
<1>5. CASE HandlerLists \/ HandlerEnds
  BY <1>5 DEF HandlerLists, HandlerEnds
<1>6. CASE PageStep \/ SafetyCleanup
  BY <1>6 DEF PageStep, SafetyCleanup, ClickNext, Lock, TrackDone, Reveal, Answer, AnswerFails, Finish
<1>7. CASE OperatorStops \/ OperatorStarts \/ \E p \in Faulty : Esc(p) \/ LockReportLost(p) \/ Hang(p)
  BY <1>7 DEF OperatorStops, OperatorStarts, Esc, LockReportLost, Hang
<1> QED
  BY <1>1, <1>2, <1>3, <1>4, <1>5, <1>6, <1>7 DEF Next, RunStep, Others, Environment, HandlerStep

\* The pages and who is in the room.
pageVars == <<page, present, hung, cleanup, gone>>
\* The steps that change them.
Visits ==
    \/ Sends \/ AsksForLocks \/ Completes \/ HandlerLists \/ HandlerSends \/ HandlerEnds
    \/ PageStep \/ SafetyCleanup \/ \E p \in Pages : Esc(p) \/ Leave(p) \/ Hang(p)
\* Nothing else does.
LEMMA VisitsOnly ==
  ASSUME Next, ~Visits, Faulty \subseteq Pages
  PROVE  UNCHANGED pageVars
<1> USE DEF pageVars, Visits, vars, session, rules, agentVars, reportVars, roomVars,
            recorderVars, historyVars, agentIdle, waiting, handling, onPage
<1>1. CASE EmptiesInbox \/ HitOrTimeout \/ GateOpens \/ GateStaysShut \/ AsksForStart \/ ManualStart
  BY <1>1 DEF EmptiesInbox, HitOrTimeout, GateOpens, GateStaysShut, AsksForStart, ManualStart
<1>2. CASE EnterRule \/ RulesEnd \/ Checks \/ Block \/ Sleeps
  BY <1>2 DEF EnterRule, RulesEnd, Checks, Block, Sleeps
<1>3. CASE AssignsRoles \/ WaitEnds \/ WaitBreaks \/ WaitTimesOut
  BY <1>3 DEF AssignsRoles, WaitEnds, WaitBreaks, WaitTimesOut
<1>4. CASE LocksReported \/ LocksRecovered \/ LocksBreak \/ UploadsFail \/ UploadsTimeOut
  BY <1>4 DEF LocksReported, LocksRecovered, LocksBreak, UploadsFail, UploadsTimeOut
<1>5. CASE StartsRecording \/ StopsRecording \/ ForgetsRecording \/ SendFails \/ UploadsSettled
  BY <1>5 DEF StartsRecording, StopsRecording, ForgetsRecording, SendFails, UploadsSettled
<1>6. CASE HandlerStops \/ HandlerForgets \/ Recorder \/ DetectorFires
  BY <1>6 DEF HandlerStops, HandlerForgets, Recorder, TimerFires, UploadEnds, DetectorFires
<1>7. CASE AdminReloads \/ Arrives \/ ReportFails
  BY <1>7 DEF AdminReloads, Arrives, ReportFails
<1>8. CASE OperatorStops \/ OperatorStarts \/ \E p \in Faulty : LockReportLost(p)
  BY <1>8 DEF OperatorStops, OperatorStarts, LockReportLost
<1> QED
  BY <1>1, <1>2, <1>3, <1>4, <1>5, <1>6, <1>7, <1>8
  DEF Next, RunStep, Others, Environment, HandlerStep

\* The steps that change what the agent was told by the pages.
Hears ==
    \/ EmptiesInbox \/ HitOrTimeout \/ Block \/ Sends \/ AsksForLocks \/ Completes \/ HandlerSends
    \/ PageStep \/ Arrives \/ \E p \in Pages : Esc(p) \/ LockReportLost(p)
\* Nothing else does.
LEMMA HearsOnly ==
  ASSUME Next, ~Hears, Faulty \subseteq Pages
  PROVE  UNCHANGED reportVars
<1> USE DEF Hears, vars, session, rules, agentVars, reportVars, roomVars,
            recorderVars, historyVars, agentIdle, waiting, handling, onPage
<1>1. CASE GateOpens \/ GateStaysShut \/ AsksForStart \/ ManualStart
  BY <1>1 DEF GateOpens, GateStaysShut, AsksForStart, ManualStart
<1>2. CASE EnterRule \/ RulesEnd \/ Checks \/ Sleeps
  BY <1>2 DEF EnterRule, RulesEnd, Checks, Sleeps
<1>3. CASE AssignsRoles \/ WaitEnds \/ WaitBreaks \/ WaitTimesOut
  BY <1>3 DEF AssignsRoles, WaitEnds, WaitBreaks, WaitTimesOut
<1>4. CASE LocksReported \/ LocksRecovered \/ LocksBreak \/ UploadsFail \/ UploadsTimeOut
  BY <1>4 DEF LocksReported, LocksRecovered, LocksBreak, UploadsFail, UploadsTimeOut
<1>5. CASE StartsRecording \/ StopsRecording \/ ForgetsRecording \/ SendFails \/ UploadsSettled
  BY <1>5 DEF StartsRecording, StopsRecording, ForgetsRecording, SendFails, UploadsSettled
<1>6. CASE HandlerLists \/ HandlerEnds \/ HandlerStops \/ HandlerForgets \/ Recorder \/ DetectorFires
  BY <1>6 DEF HandlerLists, HandlerEnds, HandlerStops, HandlerForgets, Recorder, TimerFires,
              UploadEnds, DetectorFires
<1>7. CASE AdminReloads \/ ReportFails \/ SafetyCleanup
  BY <1>7 DEF AdminReloads, ReportFails, SafetyCleanup
<1>8. CASE OperatorStops \/ OperatorStarts \/ \E p \in Faulty : Leave(p) \/ Hang(p)
  BY <1>8 DEF OperatorStops, OperatorStarts, Leave, Hang
<1> QED
  BY <1>1, <1>2, <1>3, <1>4, <1>5, <1>6, <1>7, <1>8
  DEF Next, RunStep, Others, Environment, HandlerStep

\* The handler of a lost participant, and whether the run was stopped.
handlerVars == <<handler, disrupted, aborted>>
\* The steps that change them.
Disrupts ==
    WaitBreaks \/ WaitTimesOut \/ LocksBreak \/ HandlerStep \/ Arrives \/ OperatorStops
\* Nothing else does.
LEMMA DisruptsOnly ==
  ASSUME Next, ~Disrupts, Faulty \subseteq Pages
  PROVE  UNCHANGED handlerVars
<1> USE DEF Disrupts, handlerVars, vars, session, rules, agentVars, reportVars, roomVars,
            recorderVars, historyVars, agentIdle, waiting, handling, onPage
<1>1. CASE EmptiesInbox \/ HitOrTimeout \/ GateOpens \/ GateStaysShut \/ AsksForStart \/ ManualStart
  BY <1>1 DEF EmptiesInbox, HitOrTimeout, GateOpens, GateStaysShut, AsksForStart, ManualStart
<1>2. CASE EnterRule \/ RulesEnd \/ Checks \/ Block \/ Sleeps
  BY <1>2 DEF EnterRule, RulesEnd, Checks, Block, Sleeps
<1>3. CASE AssignsRoles \/ WaitEnds \/ Sends \/ AsksForLocks \/ Completes
  BY <1>3 DEF AssignsRoles, WaitEnds, Sends, AsksForLocks, Completes
<1>4. CASE LocksReported \/ LocksRecovered \/ UploadsFail \/ UploadsTimeOut
  BY <1>4 DEF LocksReported, LocksRecovered, UploadsFail, UploadsTimeOut
<1>5. CASE StartsRecording \/ StopsRecording \/ ForgetsRecording \/ SendFails \/ UploadsSettled
  BY <1>5 DEF StartsRecording, StopsRecording, ForgetsRecording, SendFails, UploadsSettled
<1>6. CASE Recorder \/ DetectorFires \/ AdminReloads \/ ReportFails \/ SafetyCleanup
  BY <1>6 DEF Recorder, TimerFires, UploadEnds, DetectorFires, AdminReloads, ReportFails, SafetyCleanup
<1>7. CASE PageStep
  BY <1>7 DEF PageStep, ClickNext, Lock, TrackDone, Reveal, Answer, AnswerFails, Finish
<1>8. CASE OperatorStarts \/ \E p \in Faulty : Esc(p) \/ LockReportLost(p) \/ Leave(p) \/ Hang(p)
  BY <1>8 DEF OperatorStarts, Esc, LockReportLost, Leave, Hang
<1> QED
  BY <1>1, <1>2, <1>3, <1>4, <1>5, <1>6, <1>7, <1>8
  DEF Next, RunStep, Others, Environment, HandlerStep

\* The rules of a session stay what they are.
LEMMA RulesStay ==
  ASSUME Next, Faulty \subseteq Pages
  PROVE  UNCHANGED rules
<1> USE DEF vars, session, rules, agentIdle, waiting, handling, onPage
<1>1. CASE EmptiesInbox \/ HitOrTimeout \/ GateOpens \/ GateStaysShut \/ AsksForStart \/ ManualStart
  BY <1>1 DEF EmptiesInbox, HitOrTimeout, GateOpens, GateStaysShut, AsksForStart, ManualStart
<1>2. CASE EnterRule \/ RulesEnd \/ Checks \/ Block \/ Sleeps
  BY <1>2 DEF EnterRule, RulesEnd, Checks, Block, Sleeps
<1>3. CASE AssignsRoles \/ WaitEnds \/ WaitBreaks \/ WaitTimesOut \/ Sends \/ AsksForLocks \/ Completes
  BY <1>3 DEF AssignsRoles, WaitEnds, WaitBreaks, WaitTimesOut, Sends, AsksForLocks, Completes
<1>4. CASE LocksReported \/ LocksRecovered \/ LocksBreak \/ UploadsFail \/ UploadsTimeOut
  BY <1>4 DEF LocksReported, LocksRecovered, LocksBreak, UploadsFail, UploadsTimeOut
<1>5. CASE StartsRecording \/ StopsRecording \/ ForgetsRecording \/ SendFails \/ UploadsSettled
  BY <1>5 DEF StartsRecording, StopsRecording, ForgetsRecording, SendFails, UploadsSettled
<1>6. CASE HandlerStep
  BY <1>6 DEF HandlerStep, HandlerLists, HandlerSends, HandlerStops, HandlerForgets, HandlerEnds
<1>7. CASE PageStep \/ SafetyCleanup
  BY <1>7 DEF PageStep, SafetyCleanup, ClickNext, Lock, TrackDone, Reveal, Answer, AnswerFails, Finish
<1>8. CASE Recorder \/ DetectorFires \/ AdminReloads \/ ReportFails \/ Arrives
  BY <1>8 DEF Recorder, TimerFires, UploadEnds, DetectorFires, AdminReloads, ReportFails, Arrives
<1>9. CASE OperatorStops \/ OperatorStarts
           \/ \E p \in Faulty : Esc(p) \/ LockReportLost(p) \/ Leave(p) \/ Hang(p)
  BY <1>9 DEF OperatorStops, OperatorStarts, Esc, LockReportLost, Leave, Hang
<1> QED
  BY <1>1, <1>2, <1>3, <1>4, <1>5, <1>6, <1>7, <1>8, <1>9 DEF Next, RunStep, Others, Environment

\* A step adds at most one fault.
LEMMA OneMishap ==
  ASSUME Next, Faulty \subseteq Pages
  PROVE  UNCHANGED mishaps \/ \E kind : Mishap(kind)
<1> USE DEF vars, session, historyVars, agentIdle, waiting, handling, onPage, NoMishap
<1>1. CASE EmptiesInbox \/ HitOrTimeout \/ GateOpens \/ GateStaysShut \/ AsksForStart \/ ManualStart
  BY <1>1 DEF EmptiesInbox, HitOrTimeout, GateOpens, GateStaysShut, AsksForStart, ManualStart
<1>2. CASE EnterRule \/ RulesEnd \/ Checks \/ Block \/ Sleeps
  BY <1>2 DEF EnterRule, RulesEnd, Checks, Block, Sleeps
<1>3. CASE AssignsRoles \/ WaitEnds \/ WaitBreaks \/ Sends \/ AsksForLocks \/ Completes
  BY <1>3 DEF AssignsRoles, WaitEnds, WaitBreaks, Sends, AsksForLocks, Completes
<1>4. CASE LocksReported \/ LocksRecovered \/ LocksBreak \/ UploadsFail \/ UploadsTimeOut
  BY <1>4 DEF LocksReported, LocksRecovered, LocksBreak, UploadsFail, UploadsTimeOut
<1>5. CASE StartsRecording \/ StopsRecording \/ ForgetsRecording \/ SendFails \/ UploadsSettled
  BY <1>5 DEF StartsRecording, StopsRecording, ForgetsRecording, SendFails, UploadsSettled
<1>6. CASE HandlerStep
  BY <1>6 DEF HandlerStep, HandlerLists, HandlerSends, HandlerStops, HandlerForgets, HandlerEnds
<1>7. CASE PageStep \/ SafetyCleanup
  BY <1>7 DEF PageStep, SafetyCleanup, ClickNext, Lock, TrackDone, Reveal, Answer, AnswerFails, Finish
<1>8. CASE Recorder \/ DetectorFires \/ AdminReloads \/ ReportFails \/ Arrives
  BY <1>8 DEF Recorder, TimerFires, UploadEnds, DetectorFires, AdminReloads, ReportFails, Arrives
<1>9. CASE OperatorStops \/ OperatorStarts
           \/ \E p \in Faulty : Esc(p) \/ LockReportLost(p) \/ Leave(p) \/ Hang(p)
  BY <1>9 DEF OperatorStops, OperatorStarts, Esc, LockReportLost, Leave, Hang
<1>10. CASE WaitTimesOut
  BY <1>10 DEF WaitTimesOut, Patience
<1> QED
  BY <1>1, <1>2, <1>3, <1>4, <1>5, <1>6, <1>7, <1>8, <1>9, <1>10
  DEF Next, RunStep, Others, Environment

\* What only some steps change.
LEMMA RarelyChanged ==
  ASSUME Next, Faulty \subseteq Pages
  PROVE  /\ ~HandlerLists => UNCHANGED outcome
         /\ ~AssignsRoles => UNCHANGED played
         /\ ~(AsksForStart \/ ManualStart \/ OperatorStarts) => UNCHANGED manual
         /\ ~(\E p \in Pages : Leave(p)) => UNCHANGED gone
         /\ ~(\E p \in Pages : Hang(p)) => UNCHANGED hung
<1> USE DEF vars, session, rules, agentVars, roomVars, historyVars, agentIdle, waiting, handling, onPage
<1>1. CASE EmptiesInbox \/ HitOrTimeout \/ GateOpens \/ GateStaysShut \/ AsksForStart \/ ManualStart
  BY <1>1 DEF EmptiesInbox, HitOrTimeout, GateOpens, GateStaysShut, AsksForStart, ManualStart
<1>2. CASE EnterRule \/ RulesEnd \/ Checks \/ Block \/ Sleeps
  BY <1>2 DEF EnterRule, RulesEnd, Checks, Block, Sleeps
<1>3. CASE AssignsRoles \/ WaitEnds \/ WaitBreaks \/ WaitTimesOut \/ Sends \/ AsksForLocks \/ Completes
  BY <1>3 DEF AssignsRoles, WaitEnds, WaitBreaks, WaitTimesOut, Sends, AsksForLocks, Completes
<1>4. CASE LocksReported \/ LocksRecovered \/ LocksBreak \/ UploadsFail \/ UploadsTimeOut
  BY <1>4 DEF LocksReported, LocksRecovered, LocksBreak, UploadsFail, UploadsTimeOut
<1>5. CASE StartsRecording \/ StopsRecording \/ ForgetsRecording \/ SendFails \/ UploadsSettled
  BY <1>5 DEF StartsRecording, StopsRecording, ForgetsRecording, SendFails, UploadsSettled
<1>6. CASE HandlerStep
  BY <1>6 DEF HandlerStep, HandlerLists, HandlerSends, HandlerStops, HandlerForgets, HandlerEnds
<1>7. CASE PageStep \/ SafetyCleanup
  BY <1>7 DEF PageStep, SafetyCleanup, ClickNext, Lock, TrackDone, Reveal, Answer, AnswerFails, Finish
<1>8. CASE Recorder \/ DetectorFires \/ AdminReloads \/ ReportFails
  BY <1>8 DEF Recorder, TimerFires, UploadEnds, DetectorFires, AdminReloads, ReportFails
<1>9. CASE OperatorStops \/ OperatorStarts
           \/ \E p \in Faulty : Esc(p) \/ LockReportLost(p) \/ Leave(p) \/ Hang(p)
  BY <1>9 DEF OperatorStops, OperatorStarts, Esc, LockReportLost, Leave, Hang
<1>10. CASE Arrives
  BY <1>10 DEF Arrives, StatusArrives, WithdrawArrives, HitArrives
<1> QED
  BY <1>1, <1>2, <1>3, <1>4, <1>5, <1>6, <1>7, <1>8, <1>9, <1>10
  DEF Next, RunStep, Others, Environment

-----------------------------------------------------------------------------
(* Where the run goes. *)

\* Nothing, or on to the next instruction; not from the end of a finally block
\* with an exception.
Still == UNCHANGED run
Onwards == /\ Running /\ run' = [run EXCEPT !.pc = run.pc + 1]
           /\ ~(run.at = "throwing" /\ Ins.do = "end")
\* Over some instructions.
Jumping == \/ Doing("locks") /\ run' = [run EXCEPT !.pc = run.pc + 2]
           \/ Doing("stop") /\ run' = [run EXCEPT !.pc = run.pc + 2]
           \/ Doing("gate") /\ run' = [run EXCEPT !.pc = run.pc + 1 + Ins.skip]
           \/ Doing("leave") /\ aborted /\ run' = [run EXCEPT !.pc = Finally]
\* To a finally block with an exception, or out of the rules.
Thrown == Running /\ run.at = "going" /\ Finally # 0 /\ run' = [pc |-> Finally, at |-> "throwing"]
Leaving == (Running \/ run.at = "going") /\ run' = [run EXCEPT !.at = "over"]
\* Into the handler of a lost participant and back.
Losing == /\ Running /\ Ins.do \in Waits /\ ~disrupted /\ ~aborted
          /\ run' = [run EXCEPT !.at = "handling"]
          /\ disrupted' = TRUE /\ handler'.at = 1 /\ handler'.by = "run"
Returning == /\ HandlerEnds /\ handler.by = "run"
             /\ \/ Finally # 0 /\ run' = [pc |-> Finally, at |-> "throwing"]
                \/ run' = [run EXCEPT !.at = "over"]

\* An exception leads to a finally block or out of the rules.
LEMMA ThrowMoves ==
  ASSUME Running, Throw
  PROVE  Thrown \/ Leaving
BY DEF Running, Throw, LeaveRules, Thrown, Leaving

\* These are all the ways of the run.
LEMMA RunMoves ==
  ASSUME Next, Faulty \subseteq Pages
  PROVE  Still \/ Onwards \/ Jumping \/ Thrown \/ Leaving \/ Losing \/ Returning
<1> USE DEF Doing, Step, Go
<1>1. CASE EmptiesInbox \/ HitOrTimeout \/ GateOpens \/ GateStaysShut \/ AsksForStart \/ ManualStart
  BY <1>1 DEF EmptiesInbox, HitOrTimeout, GateOpens, GateStaysShut, AsksForStart, ManualStart,
              Still, Onwards, Jumping
<1>2. CASE EnterRule \/ RulesEnd \/ Checks \/ Block \/ Sleeps
  BY <1>2 DEF EnterRule, RulesEnd, Checks, Block, Sleeps, LeaveRules, Onwards, Leaving, Jumping
<1>3. CASE AssignsRoles \/ WaitEnds \/ Sends \/ AsksForLocks \/ Completes
  BY <1>3 DEF AssignsRoles, WaitEnds, Sends, AsksForLocks, Completes, Onwards, Jumping
<1>4. CASE LocksReported \/ LocksRecovered \/ UploadsSettled
  BY <1>4 DEF LocksReported, LocksRecovered, UploadsSettled, Onwards
<1>5. CASE UploadsFail \/ UploadsTimeOut
  BY <1>5, ThrowMoves DEF UploadsFail, UploadsTimeOut
<1>6. CASE StartsRecording \/ StopsRecording \/ ForgetsRecording
  BY <1>6 DEF StartsRecording, StopsRecording, ForgetsRecording, Onwards, Jumping
<1>7. CASE SendFails
  BY <1>7, ThrowMoves DEF SendFails, Onwards
<1>8. CASE WaitBreaks \/ WaitTimesOut \/ LocksBreak
  <2>1. ASSUME NEW why, NEW who, Running, Ins.do \in Waits, LosesParticipant(why, who)
        PROVE  Thrown \/ Leaving \/ Losing
    BY <2>1, ThrowMoves DEF LosesParticipant, Losing
  <2>2. Running /\ Ins.do \in Waits
    BY <1>8 DEF WaitBreaks, WaitTimesOut, LocksBreak, Waits
  <2> QED
    BY <1>8, <2>1, <2>2 DEF WaitBreaks, WaitTimesOut, LocksBreak, Onwards
<1>9. CASE HandlerEnds
  BY <1>9 DEF HandlerEnds, Returning, Still
<1>10. CASE HandlerLists \/ HandlerSends \/ HandlerStops \/ HandlerForgets
  BY <1>10 DEF HandlerLists, HandlerSends, HandlerStops, HandlerForgets, Still
<1>11. CASE PageStep \/ SafetyCleanup
  BY <1>11 DEF PageStep, SafetyCleanup, ClickNext, Lock, TrackDone, Reveal, Answer, AnswerFails, Finish,
               Still, onPage
<1>12. CASE Recorder \/ DetectorFires \/ AdminReloads \/ ReportFails \/ Arrives
  BY <1>12 DEF Recorder, TimerFires, UploadEnds, DetectorFires, AdminReloads, ReportFails, Arrives, Still
<1>13. CASE OperatorStops \/ OperatorStarts
            \/ \E p \in Faulty : Esc(p) \/ LockReportLost(p) \/ Leave(p) \/ Hang(p)
  BY <1>13 DEF OperatorStops, OperatorStarts, Esc, LockReportLost, Leave, Hang, onPage, Still
<1> QED
  BY <1>1, <1>2, <1>3, <1>4, <1>5, <1>6, <1>7, <1>8, <1>9, <1>10, <1>11, <1>12, <1>13
  DEF Next, RunStep, Others, Environment, HandlerStep

-----------------------------------------------------------------------------
(* Every step keeps the types. *)

\* The place of the run.
LEMMA RunType ==
  ASSUME TypeInv, Next
  PROVE  RunTyped'
<1> USE DEF TypeInv, RunTyped
<1>1. UNCHANGED script
  BY RulesStay, Numbers DEF rules
<1>2. Len(script) \in Nat
  BY ScriptShape
<1>3. Running => run.pc \in 1 .. Len(script)
  BY <1>2 DEF Running
<1>4. Finally # 0 => Finally \in 1 .. Len(script)
  BY <1>2, FinallyAhead
<1>5. CASE Still
  BY <1>1, <1>5 DEF Still
<1>6. CASE Onwards
  BY <1>1, <1>2, <1>3, <1>6 DEF Onwards
<1>7. CASE Jumping
  <2>1. \A i, j : Skips(script, i, j) /\ i \in Nat => j \in 1 .. Len(script) + 1
    BY <1>2 DEF Skips
  <2>2. CASE Doing("locks") \/ Doing("stop")
    BY <1>1, <1>2, <1>3, <1>7, <2>1, <2>2, ScriptShape DEF Jumping, Jumps, Doing, Ins
  <2>3. CASE Doing("gate")
    BY <1>1, <1>2, <1>3, <1>7, <2>1, <2>3, ScriptShape DEF Jumping, Jumps, Doing, Ins
  <2>4. CASE Doing("leave")
    BY <1>1, <1>2, <1>4, <1>7, <2>4, LeaveAhead DEF Jumping, Doing
  <2> QED
    BY <1>7, <2>2, <2>3, <2>4 DEF Jumping
<1>8. CASE Thrown \/ Leaving \/ Losing \/ Returning
  BY <1>1, <1>2, <1>4, <1>8 DEF Thrown, Leaving, Losing, Returning
<1> QED
  BY <1>5, <1>6, <1>7, <1>8, RunMoves, Numbers

\* The faults, and those there were stay.
LEMMA MishapType ==
  ASSUME RulesTyped, MishapTyped, Next
  PROVE  MishapTyped' /\ Troubles \subseteq Troubles'
<1> DEFINE K == UNION {Kinds[e] : e \in Experiments}
<1>1. CASE UNCHANGED mishaps
  BY <1>1 DEF MishapTyped, Troubles
<1>2. ASSUME NEW kind, Mishap(kind)
      PROVE  MishapTyped' /\ Troubles \subseteq Troubles'
  <2>1. kind \in K /\ mishaps' = Append(mishaps, kind)
    BY <1>2 DEF Mishap, RulesTyped
  <2>2. mishaps \in Seq(K)
    BY DEF MishapTyped
  <2> HIDE DEF K
  <2>3. mishaps' \in Seq(K) /\ Len(mishaps') = Len(mishaps) + 1
        /\ \A i \in 1 .. Len(mishaps) : mishaps'[i] = mishaps[i]
    BY <2>1, <2>2
  <2>4. DOMAIN mishaps \subseteq DOMAIN mishaps' /\ \A i \in DOMAIN mishaps : mishaps'[i] = mishaps[i]
    BY <2>2, <2>3
  <2> QED
    BY <2>3, <2>4 DEF MishapTyped, Troubles, K
<1> QED
  BY <1>1, <1>2, OneMishap, Numbers

\* What happens is counted.
LEMMA MishapCounts ==
  ASSUME NEW kind, MishapTyped, Mishap(kind)
  PROVE  kind \in Troubles'
<1> DEFINE K == UNION {Kinds[e] : e \in Experiments}
<1>1. mishaps \in Seq(K) /\ mishaps' = Append(mishaps, kind)
  BY DEF MishapTyped, Mishap
<1> HIDE DEF K
<1>2. Len(mishaps) + 1 \in DOMAIN mishaps' /\ mishaps'[Len(mishaps) + 1] = kind
  BY <1>1
<1> QED
  BY <1>2 DEF Troubles

\* The handler of a lost participant.
LEMMA HandlerType ==
  ASSUME TypeInv, Next
  PROVE  HandlerTyped'
<1> USE DEF TypeInv, HandlerTyped, HandlerStates
<1>a. 0 \in Steps /\ 1 \in Steps /\ 9 \in Steps /\ \A i \in Steps : i # 10 => i + 1 \in Steps
  BY DEF Steps
<1>b. \A w \in {"absent", "inactive", "withdrawal"} : w \in Losses
  BY DEF Losses
<1>1. CASE ~Disrupts
  BY <1>1, DisruptsOnly, Numbers DEF handlerVars
<1>2. ASSUME NEW why \in {"absent", "inactive"}, NEW who \in Pages \cup {Nobody},
             LosesParticipant(why, who), UNCHANGED aborted
      PROVE  HandlerTyped'
  <2>1. aborted' \in BOOLEAN
    BY <1>2
  <2>2. disrupted' \in BOOLEAN
    BY <1>2 DEF LosesParticipant
  <2>3. handler' \in HandlerStates
    BY <1>2, <1>a, <1>b DEF LosesParticipant
  <2> QED
    BY <2>1, <2>2, <2>3
<1>3. CASE WaitBreaks \/ LocksBreak
  BY <1>2, <1>3 DEF WaitBreaks, LocksBreak, waiting, Nobody
<1>4. CASE WaitTimesOut
  <2>1. Paired \subseteq Pages
    BY DEF Paired
  <2> QED
    BY <1>2, <1>4, <2>1 DEF WaitTimesOut, Nobody
<1>5. CASE HandlerStep
  <2>1. handler.at # 10 /\ NextStep => handler' \in HandlerStates
    BY <1>a DEF NextStep
  <2>2. CASE HandlerLists \/ HandlerSends \/ HandlerForgets \/ HandlerEnds
    <3>1. handler.at # 10 /\ NextStep /\ UNCHANGED disrupted /\ (UNCHANGED aborted \/ aborted' = TRUE)
      BY <2>2 DEF HandlerLists, HandlerSends, HandlerForgets, HandlerEnds, handling
    <3> QED
      BY <2>1, <3>1
  <2>3. CASE HandlerStops
    BY <1>a, <2>1, <2>3 DEF HandlerStops, HandlerSkips, handling
  <2> QED
    BY <1>5, <2>2, <2>3 DEF HandlerStep
<1>6. CASE Arrives
  <2>1. PICK m \in posts : /\ StatusArrives(m) \/ WithdrawArrives(m) \/ HitArrives(m)
                           /\ UNCHANGED aborted
    BY <1>6 DEF Arrives
  <2>2. m.kind = "withdraw" => m.from \in Pages
    BY DEF RecordingTyped, Posts
  <2>3. \/ UNCHANGED <<handler, disrupted>>
        \/ /\ disrupted' = TRUE /\ m.kind = "withdraw"
           /\ handler' = [at |-> 1, by |-> "report", who |-> m.from, why |-> "withdrawal"]
    BY <2>1 DEF StatusArrives, WithdrawArrives, HitArrives
  <2>4. CASE UNCHANGED <<handler, disrupted>>
    BY <2>1, <2>4
  <2>5. CASE disrupted' = TRUE /\ m.kind = "withdraw"
             /\ handler' = [at |-> 1, by |-> "report", who |-> m.from, why |-> "withdrawal"]
    BY <1>a, <1>b, <2>1, <2>2, <2>5
  <2> QED
    BY <2>3, <2>4, <2>5
<1>7. CASE OperatorStops
  BY <1>7 DEF OperatorStops, StopAgent, agentVars
<1> QED
  BY <1>1, <1>3, <1>4, <1>5, <1>6, <1>7 DEF Disrupts

\* What a message carries.
Sendable(msg, value) ==
    /\ msg \in {"metadata", "trajectory", "detector"} => value \in Trials \cup {0}
    /\ msg = "ask" => value \in Trials
    /\ msg = "virtual" => value \in BOOLEAN

\* The messages of the rules carry it.
LEMMA RulesSend ==
  ASSUME RulesTyped, RunTyped, Doing("send") \/ Doing("set") \/ Doing("offer")
  PROVE  Sendable(Ins.msg, Ins.value)
<1>1. run.pc \in 1 .. Len(script) /\ script[run.pc].do \in {"send", "set", "offer"}
  BY ScriptShape DEF RunTyped, Doing, Running, Ins
<1> QED
  BY <1>1, ScriptShape DEF Typed, Sendable, Ins

\* The messages of the handler carry it.
LEMMA HandlerSendable ==
  ASSUME NEW i \in 1 .. 5
  PROVE  Sendable(SwitchedOff[i][1], SwitchedOff[i][2])
<1>1. CASE i = 1
  BY <1>1 DEF SwitchedOff, Sendable
<1>2. CASE i = 2
  BY <1>2 DEF SwitchedOff, Sendable
<1>3. CASE i = 3
  BY <1>3 DEF SwitchedOff, Sendable
<1>4. CASE i = 4
  BY <1>4 DEF SwitchedOff, Sendable
<1>5. CASE i = 5
  BY <1>5 DEF SwitchedOff, Sendable
<1> QED
  BY <1>1, <1>2, <1>3, <1>4, <1>5

\* A page stays a page whatever it hears.
LEMMA ReactType ==
  ASSUME RoomTyped, NEW p \in Pages, NEW msg, NEW value, Sendable(msg, value)
  PROVE  React(p, msg, value) \in PageStates
<1> DEFINE me == page[p]
<1> USE DEF React, Covered, Paper
<1>1. me \in PageStates
  BY DEF RoomTyped
<1>2. CASE msg = "virtual"
  BY <1>1, <1>2 DEF PageStates, Sendable
<1>3. CASE msg = "unlock"
  BY <1>1, <1>3 DEF PageStates
<1>10. CASE msg = "relock"
  <2> DEFINE asked == p \in value
  <2>1. asked \in BOOLEAN
    OBVIOUS
  <2>2. React(p, msg, value) = [me EXCEPT !.recover = asked]
    BY <1>10
  <2> HIDE DEF asked
  <2> QED
    BY <1>1, <2>1, <2>2 DEF PageStates
<1>4. CASE msg = "shared"
  <2>1. value # "off" => React(p, msg, value) \in PageStates
    BY <1>1, <1>4 DEF PageStates
  <2>2. me.track \in Tracks => [me.track EXCEPT !.at = IF @ = "current" THEN "orphan" ELSE @] \in Tracks
    BY DEF Tracks
  <2>3. value = "off" =>
          React(p, msg, value) = [me EXCEPT !.track = [me.track EXCEPT !.at = IF @ = "current" THEN "orphan" ELSE @]]
    BY <1>1, <1>4 DEF PageStates
  <2> QED
    BY <1>1, <2>1, <2>2, <2>3 DEF PageStates
<1>5. CASE msg = "trajectory"
  <2>1. value \in Trials \cup {0}
    BY <1>5 DEF Sendable
  <2>2. [trial |-> value, at |-> "current"] \in Tracks
    BY <2>1 DEF Tracks
  <2> QED
    BY <1>1, <1>5, <2>2 DEF PageStates
<1>6. CASE msg = "ask"
  BY <1>1, <1>6 DEF PageStates, Sendable
<1>7. CASE msg = "hide"
  <2> DEFINE ask == [me.ask EXCEPT !.at = IF @ = "shown" THEN "hidden" ELSE @]
  <2>1. me.ask \in Questions => ask \in Questions
    BY DEF Questions
  <2>2. React(p, msg, value) = [me EXCEPT !.reveal = 0, !.ask = ask]
    BY <1>1, <1>7 DEF PageStates
  <2> HIDE DEF ask
  <2> QED
    BY <1>1, <2>1, <2>2 DEF PageStates
<1>8. CASE msg = "page" \/ msg = "notice" \/ msg = "complete"
  BY <1>1, <1>8 DEF PageStates
<1>9. CASE msg \notin {"virtual", "unlock", "relock", "shared", "trajectory", "ask", "hide", "page",
                       "notice", "complete"}
  BY <1>1, <1>9
<1> QED
  BY <1>2, <1>3, <1>4, <1>5, <1>6, <1>7, <1>8, <1>9, <1>10

\* The recorder's page stays one, too.
LEMMA NoteType ==
  ASSUME RecorderTyped, NEW msg, NEW value, Sendable(msg, value), Note(msg, value)
  PROVE  RecorderTyped'
<1>1. CASE msg = "metadata"
  BY <1>1 DEF RecorderTyped, Sendable, Note, MetadataHeard
<1>2. CASE msg = "trajectory"
  BY <1>2 DEF RecorderTyped, Sendable, Note, TrajectoryHeard
<1>3. CASE msg = "detector"
  BY <1>3 DEF RecorderTyped, Sendable, Note, DetectorHeard
<1>4. CASE msg \notin {"metadata", "trajectory", "detector"}
  BY <1>4 DEF RecorderTyped, Note
<1> QED
  BY <1>1, <1>2, <1>3, <1>4

\* A message to the room keeps the types.
LEMMA SendType ==
  ASSUME RoomTyped, RecorderTyped, ReportsTyped, NEW msg, NEW value, Sendable(msg, value), Send(msg, value)
  PROVE  page' \in [Pages -> PageStates] /\ RecorderTyped' /\ locks' \in [Pages -> {"none", "yes", "no"}]
<1>1. page' \in [Pages -> PageStates]
  BY ReactType DEF Send, Hear, RoomTyped
<1>2. RecorderTyped'
  BY NoteType DEF Send
<1>3. locks' \in [Pages -> {"none", "yes", "no"}]
  BY DEF Send, Reported, LockOf, ReportsTyped
<1> QED
  BY <1>1, <1>2, <1>3

\* A status report of a trial is a report.
LEMMA StatusPost ==
  ASSUME NEW trial \in Trials, NEW says \in DOMAIN rank
  PROVE  [kind |-> "status", from |-> 0, trial |-> trial, says |-> says] \in Posts
BY DEF Posts

\* What the recorder can report.
LEMMA RankDomain == DOMAIN rank = {"none", "recording", "queued", "uploading", "uploaded", "error"}
BY DEF rank

\* Stopping the recorder keeps the types.
LEMMA StopType ==
  ASSUME RecordingTyped, RecorderTyped, HearsStop
  PROVE  /\ RecorderTyped' /\ posts' \subseteq Posts
         /\ cloud' \in [Trials -> {"none", "uploading", "stored", "lost"}]
         /\ kept' \in [Trials -> Trials \cup {0}]
<1>1. CASE admin.on = 0
  <2>1. admin' = [admin EXCEPT !.missed = TRUE] /\ UNCHANGED <<cloud, kept, posts>>
    BY <1>1 DEF HearsStop
  <2>2. RecorderTyped'
    BY <2>1 DEF RecorderTyped
  <2> QED
    BY <2>1, <2>2 DEF RecordingTyped
<1>2. CASE admin.on # 0
  <2>1. admin.on \in Trials
    BY <1>2 DEF RecorderTyped
  <2>2. RecorderTyped'
    BY <1>2 DEF HearsStop, StopRecording, RecorderTyped
  <2>3. [kind |-> "status", from |-> 0, trial |-> admin.on, says |-> "queued"] \in Posts
    BY <2>1, StatusPost, RankDomain
  <2>4. posts' \subseteq Posts
    BY <1>2, <2>3 DEF HearsStop, RecordingTyped
  <2>5. /\ cloud' \in [Trials -> {"none", "uploading", "stored", "lost"}]
        /\ kept' \in [Trials -> Trials \cup {0}]
    BY <1>2, <2>1 DEF HearsStop, StopRecording, RecordingTyped, RecorderTyped
  <2> QED
    BY <2>2, <2>4, <2>5
<1> QED
  BY <1>1, <1>2

\* The recordings, as the agent, the recorder and the store know them.
LEMMA RecordingType ==
  ASSUME TypeInv, Next
  PROVE  RecordingTyped' /\ RecorderTyped'
<1> USE DEF TypeInv
<1> USE RankDomain
<1>t. \A trial \in Trials, says \in DOMAIN rank :
         [kind |-> "status", from |-> 0, trial |-> trial, says |-> says] \in Posts
  BY StatusPost
<1>1. CASE ~Records
  BY <1>1, RecordsOnly, Numbers DEF recordingVars, RecordingTyped, RecorderTyped
<1>2. CASE Sends
  <2>1. UNCHANGED <<recording, recStatus, uploads, cloud, kept, posts>>
    BY <1>2 DEF Sends, agentIdle
  <2>2. CASE UNCHANGED admin
    BY <2>1, <2>2 DEF RecordingTyped, RecorderTyped
  <2>3. CASE Send(Ins.msg, Ins.value)
    BY <1>2, <2>1, <2>3, RulesSend, SendType DEF Sends, RecordingTyped
  <2> QED
    BY <1>2, <2>2, <2>3 DEF Sends
<1>3. CASE AsksForLocks \/ Completes
  <2>1. UNCHANGED <<recording, recStatus, uploads, cloud, kept, posts>>
    BY <1>3 DEF AsksForLocks, Completes, agentIdle
  <2>2. UNCHANGED admin \/ Send("relock", Unlocked) \/ Send("complete", TRUE)
    BY <1>3 DEF AsksForLocks, Completes
  <2>3. Sendable("relock", Unlocked) /\ Sendable("complete", TRUE)
    BY DEF Sendable
  <2> QED
    BY <2>1, <2>2, <2>3, SendType DEF RecordingTyped, RecorderTyped
<1>4. CASE StartsRecording
  <2>1. Ins.trial \in Trials
    BY <1>4, ScriptShape DEF StartsRecording, Doing, Running, Ins, RunTyped, Typed
  <2> QED
    BY <1>4, <2>1 DEF StartsRecording, BeginsRecording, HearsStart, RecordingTyped, RecorderTyped
<1>5. CASE StopsRecording
  <2>1. UNCHANGED recording
    BY <1>5 DEF StopsRecording
  <2>2. CASE UNCHANGED <<recStatus, uploads, recorderVars, posts>>
    BY <2>1, <2>2 DEF recorderVars, RecordingTyped, RecorderTyped
  <2>3. CASE recording # 0 /\ QueuesUpload /\ HearsStop
    <3>1. recording \in Trials
      BY <2>3 DEF RecordingTyped
    <3> QED
      BY <2>1, <2>3, <3>1, StopType DEF QueuesUpload, RecordingTyped
  <2> QED
    BY <1>5, <2>2, <2>3 DEF StopsRecording
<1>6. CASE ForgetsRecording \/ HandlerForgets
  BY <1>6 DEF ForgetsRecording, HandlerForgets, recorderVars, RecordingTyped, RecorderTyped
<1>7. CASE SendFails
  <2>1. UNCHANGED <<admin, cloud, kept, posts>>
    BY <1>7 DEF SendFails, recorderVars
  <2>2. CASE UNCHANGED <<recording, recStatus, uploads>>
    BY <2>1, <2>2 DEF RecordingTyped, RecorderTyped
  <2>3. CASE Doing("record") /\ BeginsRecording
    <3>1. Ins.trial \in Trials
      BY <2>3, ScriptShape DEF Doing, Running, Ins, RunTyped, Typed
    <3> QED
      BY <2>1, <2>3, <3>1 DEF BeginsRecording, RecordingTyped, RecorderTyped
  <2>4. CASE recording # 0 /\ QueuesUpload /\ UNCHANGED recording
    BY <2>1, <2>4 DEF QueuesUpload, RecordingTyped, RecorderTyped
  <2> QED
    BY <1>7, <2>2, <2>3, <2>4 DEF SendFails
<1>8. CASE UploadsSettled
  BY <1>8 DEF UploadsSettled, waiting, recorderVars, RecordingTyped, RecorderTyped
<1>9. CASE HandlerSends
  <2>1. UNCHANGED <<recording, recStatus, uploads, cloud, kept, posts>>
    BY <1>9 DEF HandlerSends
  <2>2. handler.at - 1 \in 1 .. 5
    BY <1>9 DEF HandlerSends
  <2>3. UNCHANGED admin \/ Send(SwitchedOff[handler.at - 1][1], SwitchedOff[handler.at - 1][2])
    BY <1>9 DEF HandlerSends
  <2> QED
    BY <2>1, <2>2, <2>3, SendType, HandlerSendable DEF RecordingTyped, RecorderTyped
<1>10. CASE HandlerStops
  <2>1. UNCHANGED recording
    BY <1>10 DEF HandlerStops
  <2>2. CASE UNCHANGED <<recStatus, uploads, recorderVars, posts>>
    BY <2>1, <2>2 DEF recorderVars, RecordingTyped, RecorderTyped
  <2>3. CASE recording # 0 /\ QueuesUpload /\ HearsStop
    <3>1. recording \in Trials
      BY <2>3 DEF RecordingTyped
    <3> QED
      BY <2>1, <2>3, <3>1, StopType DEF QueuesUpload, RecordingTyped
  <2>4. CASE recording # 0 /\ QueuesUpload /\ UNCHANGED <<recorderVars, posts>>
    <3>1. recording \in Trials
      BY <2>4 DEF RecordingTyped
    <3> QED
      BY <2>1, <2>4, <3>1 DEF QueuesUpload, recorderVars, RecordingTyped, RecorderTyped
  <2> QED
    BY <1>10, <2>2, <2>3, <2>4 DEF HandlerStops, RecordsOn
<1>11. CASE Recorder
  <2>1. UNCHANGED <<recording, recStatus, uploads, kept>>
    BY <1>11 DEF Recorder, TimerFires, UploadEnds, agentVars
  <2>2. CASE TimerFires
    <3>1. admin.timer \in Trials
      BY <2>2 DEF TimerFires, RecorderTyped
    <3>2. posts' \subseteq Posts
      BY <1>t, <2>2, <3>1 DEF TimerFires, RecordingTyped
    <3>3. RecorderTyped'
      BY <2>2, <3>1 DEF TimerFires, StartRecording, RecorderTyped
    <3> QED
      BY <2>1, <2>2, <3>2, <3>3 DEF TimerFires, RecordingTyped
  <2>3. ASSUME NEW t \in Trials, UploadEnds(t)
        PROVE  RecordingTyped' /\ RecorderTyped'
    <3>1. PICK says \in {"uploaded", "error"} :
             posts' = posts \cup {[kind |-> "status", from |-> 0, trial |-> t, says |-> says]}
      BY <2>3 DEF UploadEnds
    <3>2. posts' \subseteq Posts
      BY <1>t, <3>1 DEF RecordingTyped
    <3>3. UNCHANGED admin /\ cloud' \in [Trials -> {"none", "uploading", "stored", "lost"}]
      BY <2>3 DEF UploadEnds, RecordingTyped
    <3> QED
      BY <2>1, <3>2, <3>3 DEF RecordingTyped, RecorderTyped
  <2> QED
    BY <1>11, <2>2, <2>3 DEF Recorder
<1>12. CASE DetectorFires
  <2>1. [kind |-> "hit", from |-> 0, trial |-> admin.detector, says |-> ""] \in Posts
    BY <1>12 DEF DetectorFires, Posts, RecorderTyped
  <2> QED
    BY <1>12, <2>1 DEF DetectorFires, agentVars, RecordingTyped, RecorderTyped
<1>13. CASE AdminReloads
  <2>1. RecorderTyped'
    BY <1>13 DEF AdminReloads, FreshAdmin, RecorderTyped
  <2> QED
    BY <1>13, <2>1 DEF AdminReloads, agentVars, RecordingTyped
<1>14. CASE Arrives
  <2>1. PICK m \in posts : /\ StatusArrives(m) \/ WithdrawArrives(m) \/ HitArrives(m)
                           /\ posts' = posts \ {m}
                           /\ UNCHANGED recorderVars
    BY <1>14 DEF Arrives
  <2>2. m.kind = "status" => m.trial \in Trials /\ m.says \in DOMAIN rank
    BY DEF RecordingTyped, Posts
  <2>3. CASE StatusArrives(m)
    BY <2>1, <2>2, <2>3 DEF StatusArrives, Ranked, recorderVars, RecordingTyped, RecorderTyped
  <2>4. CASE WithdrawArrives(m) \/ HitArrives(m)
    BY <2>1, <2>4 DEF WithdrawArrives, HitArrives, recorderVars, RecordingTyped, RecorderTyped
  <2> QED
    BY <2>1, <2>3, <2>4
<1>15. CASE ReportFails
  BY <1>15 DEF ReportFails, agentVars, recorderVars, RecordingTyped, RecorderTyped
<1>16. CASE \E p \in Pages : Leave(p)
  <2>1. PICK p \in Pages : Leave(p)
    BY <1>16
  <2>2. [kind |-> "withdraw", from |-> p, trial |-> 0, says |-> ""] \in Posts
    BY DEF Posts
  <2> QED
    BY <2>1, <2>2 DEF Leave, agentVars, recorderVars, RecordingTyped, RecorderTyped
<1> QED
  BY <1>1, <1>2, <1>3, <1>4, <1>5, <1>6, <1>7, <1>8, <1>9, <1>10, <1>11, <1>12, <1>13, <1>14, <1>15,
     <1>16 DEF Records

\* What the agent was told.
LEMMA ReportsType ==
  ASSUME TypeInv, Next
  PROVE  ReportsTyped'
<1> USE DEF TypeInv, ReportsTyped, reportVars
<1>1. CASE ~Hears
  BY <1>1, HearsOnly, Numbers
<1>2. CASE EmptiesInbox \/ HitOrTimeout
  BY <1>2 DEF EmptiesInbox, HitOrTimeout
<1>3. CASE Block
  BY <1>3 DEF Block
<1>4. CASE Sends
  <2>1. UNCHANGED <<completions, answers, relock, hit>> /\ (nexts' = nexts \/ nexts' = {})
    BY <1>4 DEF Sends
  <2>2. UNCHANGED locks \/ Send(Ins.msg, Ins.value)
    BY <1>4 DEF Sends
  <2> QED
    BY <1>4, <2>1, <2>2, RulesSend, SendType DEF Sends
<1>5. CASE AsksForLocks
  <2>1. UNCHANGED <<completions, answers, nexts, hit>>
    BY <1>5 DEF AsksForLocks
  <2>2. Sendable("relock", Unlocked)
    BY DEF Sendable
  <2>3. \/ UNCHANGED <<locks, relock>>
        \/ Send("relock", Unlocked) /\ relock' = Unlocked
    BY <1>5 DEF AsksForLocks
  <2>4. Unlocked \subseteq Pages
    BY DEF Unlocked, RoomTyped
  <2> QED
    BY <2>1, <2>2, <2>3, <2>4, SendType
<1>6. CASE Completes
  <2>1. Sendable("complete", TRUE)
    BY DEF Sendable
  <2> QED
    BY <1>6, <2>1, SendType DEF Completes
<1>7. CASE HandlerSends
  <2>1. UNCHANGED <<nexts, completions, answers, relock, hit>>
    BY <1>7 DEF HandlerSends, handling
  <2>2. handler.at - 1 \in 1 .. 5
    BY <1>7 DEF HandlerSends
  <2>3. UNCHANGED locks \/ Send(SwitchedOff[handler.at - 1][1], SwitchedOff[handler.at - 1][2])
    BY <1>7 DEF HandlerSends
  <2> QED
    BY <2>1, <2>2, <2>3, SendType, HandlerSendable
<1>8. ASSUME NEW p \in Pages, ClickNext(p) \/ Lock(p) \/ Esc(p) \/ LockReportLost(p)
      PROVE  ReportsTyped'
  BY <1>8 DEF ClickNext, NextReported, Lock, Esc, LockReportLost, LockReported, onPage
<1>9. ASSUME NEW p \in Pages, TrackDone(p)
      PROVE  ReportsTyped'
  BY <1>9 DEF TrackDone, LockReported, CompletionReported, onPage
<1>10. ASSUME NEW p \in Pages, Reveal(p) \/ AnswerFails(p) \/ Finish(p)
       PROVE  ReportsTyped'
  BY <1>10 DEF Reveal, AnswerFails, Finish, onPage
<1>11. ASSUME NEW p \in Pages, Answer(p)
       PROVE  ReportsTyped'
  <2>1. page[p].ask \in Questions /\ page[p].ask.at = "shown"
    BY <1>11 DEF Answer, RoomTyped, PageStates
  <2>2. page[p].ask.trial \in Trials
    BY <2>1 DEF Questions
  <2> QED
    BY <1>11, <2>2 DEF Answer, AnswerReported, LockReported, onPage
<1>12. CASE Arrives
  <2>1. PICK m \in posts : /\ StatusArrives(m) \/ WithdrawArrives(m) \/ HitArrives(m)
                           /\ UNCHANGED <<nexts, completions, answers, locks, relock>>
    BY <1>12 DEF Arrives
  <2>2. m.kind = "hit" => m.trial \in Trials
    BY DEF RecordingTyped, Posts
  <2> QED
    BY <2>1, <2>2 DEF StatusArrives, WithdrawArrives, HitArrives, HitReported
<1> QED
  BY <1>1, <1>2, <1>3, <1>4, <1>5, <1>6, <1>7, <1>8, <1>9, <1>10, <1>11, <1>12 DEF Hears, PageStep

\* A page that acts is a page still.
LEMMA PageType ==
  ASSUME RoomTyped, NEW p \in Pages, NEW me \in PageStates, Becomes(p, me)
  PROVE  page' \in [Pages -> PageStates]
BY DEF RoomTyped, Becomes

\* The pages and the room.
LEMMA RoomType ==
  ASSUME TypeInv, Next
  PROVE  RoomTyped'
<1> USE DEF TypeInv
<1>1. CASE ~Visits
  BY <1>1, VisitsOnly, Numbers DEF pageVars, RoomTyped
<1>2. CASE Sends
  <2>1. UNCHANGED <<present, hung, cleanup, gone>>
    BY <1>2 DEF Sends, agentIdle, historyVars
  <2>2. UNCHANGED page \/ Send(Ins.msg, Ins.value)
    BY <1>2 DEF Sends
  <2> QED
    BY <1>2, <2>1, <2>2, RulesSend, SendType DEF Sends, RoomTyped
<1>3. CASE AsksForLocks \/ Completes
  <2>1. UNCHANGED <<present, hung, gone>> /\ (UNCHANGED cleanup \/ cleanup' = Paired)
    BY <1>3 DEF AsksForLocks, Completes, agentIdle, historyVars
  <2>2. UNCHANGED page \/ Send("relock", Unlocked) \/ Send("complete", TRUE)
    BY <1>3 DEF AsksForLocks, Completes
  <2>3. Sendable("relock", Unlocked) /\ Sendable("complete", TRUE)
    BY DEF Sendable
  <2>4. Paired \subseteq Pages
    BY DEF Paired
  <2> QED
    BY <2>1, <2>2, <2>3, <2>4, SendType DEF RoomTyped
<1>4. CASE HandlerLists
  <2>1. UNCHANGED <<present, hung, cleanup, gone>>
    BY <1>4 DEF HandlerLists, handling
  <2>2. \A p \in Pages : [page[p] EXCEPT !.ended = "told"] \in PageStates
    BY DEF RoomTyped, PageStates
  <2>3. \A active : Told(active) => page' \in [Pages -> PageStates]
    BY <2>2 DEF Told, RoomTyped
  <2>4. UNCHANGED page \/ \E active : Told(active)
    BY <1>4 DEF HandlerLists
  <2> QED
    BY <2>1, <2>3, <2>4 DEF RoomTyped
<1>5. CASE HandlerSends
  <2>1. UNCHANGED <<present, hung, cleanup, gone>>
    BY <1>5 DEF HandlerSends, handling
  <2>2. handler.at - 1 \in 1 .. 5
    BY <1>5 DEF HandlerSends
  <2>3. UNCHANGED page \/ Send(SwitchedOff[handler.at - 1][1], SwitchedOff[handler.at - 1][2])
    BY <1>5 DEF HandlerSends
  <2> QED
    BY <2>1, <2>2, <2>3, SendType, HandlerSendable DEF RoomTyped
<1>6. CASE HandlerEnds
  BY <1>6 DEF HandlerEnds, handling, historyVars, RoomTyped
<1>7. CASE SafetyCleanup
  BY <1>7 DEF SafetyCleanup, RoomTyped
<1>8. ASSUME NEW p \in Pages, ClickNext(p) \/ Lock(p) \/ Esc(p) \/ TrackDone(p) \/ Reveal(p)
                              \/ Answer(p) \/ AnswerFails(p) \/ Finish(p) \/ Leave(p) \/ Hang(p)
      PROVE  RoomTyped'
  <2> DEFINE me == page[p]
  <2>1. me \in PageStates
    BY DEF RoomTyped
  <2> USE DEF PageStates
  <2>2. CASE ClickNext(p)
    <3>1. [me EXCEPT !.paper = "done"] \in PageStates
      BY <2>1
    <3>2. UNCHANGED page \/ Becomes(p, [me EXCEPT !.paper = "done"])
      BY <2>2 DEF ClickNext
    <3>3. UNCHANGED <<present, hung, cleanup, gone>>
      BY <2>2 DEF ClickNext, onPage
    <3> QED
      BY <3>1, <3>2, <3>3, PageType DEF RoomTyped
  <2>3. CASE Lock(p)
    <3>1. [me EXCEPT !.locked = TRUE, !.recover = FALSE] \in PageStates
      BY <2>1
    <3>2. Becomes(p, [me EXCEPT !.locked = TRUE, !.recover = FALSE])
      BY <2>3 DEF Lock
    <3>3. UNCHANGED <<present, hung, cleanup, gone>>
      BY <2>3 DEF Lock, onPage
    <3> QED
      BY <3>1, <3>2, <3>3, PageType DEF RoomTyped
  <2>4. CASE Esc(p)
    <3>1. PICK begun \in BOOLEAN :
            LET tracking == page[p].track.at = "current" /\ begun
                playing  == experiment \in Timed /\ stage.shared # "off" /\ stage.target
            IN  Becomes(p, [page[p] EXCEPT
                    !.locked = FALSE,
                    !.recover = @ \/ (/\ experiment \in Guarded /\ stage.mode = "shared-single-cursor"
                                      /\ tracking \/ playing)])
      BY <2>4 DEF Esc
    <3>2. PICK again \in BOOLEAN : Becomes(p, [me EXCEPT !.locked = FALSE, !.recover = again])
      BY <3>1
    <3>3. [me EXCEPT !.locked = FALSE, !.recover = again] \in PageStates
      BY <2>1
    <3>4. UNCHANGED <<present, hung, cleanup, gone>>
      BY <2>4 DEF Esc, onPage
    <3> QED
      BY <3>2, <3>3, <3>4, PageType DEF RoomTyped
  <2>5. CASE TrackDone(p)
    <3> DEFINE t     == me.track.trial
               track == [me.track EXCEPT !.at = "done"]
               ask   == IF me.ask.trial = t /\ me.ask.at = "sent" THEN me.ask
                        ELSE [trial |-> t, at |-> "shown"]
               asks  == me.track.at = "current" /\ Asks(t)
    <3>1. me.track \in Tracks /\ me.ask \in Questions
      BY <2>1
    <3>2. track \in Tracks
      BY <3>1 DEF Tracks
    <3>3. Asks(t) => t \in Trials
      BY ScriptShape DEF Asks, Asked, Typed, RulesTyped
    <3>4. asks => ask \in Questions
      BY <3>1, <3>3 DEF Questions
    <3>5. Becomes(p, IF ~asks THEN [me EXCEPT !.track = track]
                     ELSE [me EXCEPT !.track = track, !.virtual = FALSE, !.locked = FALSE, !.ask = ask])
      BY <2>1, <2>5 DEF TrackDone
    <3>6. UNCHANGED <<present, hung, cleanup, gone>>
      BY <2>5 DEF TrackDone, onPage
    <3> HIDE DEF track, ask, asks, t
    <3>7. /\ [me EXCEPT !.track = track] \in PageStates
          /\ asks => [me EXCEPT !.track = track, !.virtual = FALSE, !.locked = FALSE, !.ask = ask] \in PageStates
      BY <2>1, <3>2, <3>4
    <3> QED
      BY <3>5, <3>6, <3>7, PageType DEF RoomTyped
  <2>6. CASE Reveal(p)
    <3>1. me.reveal \in Trials
      BY <2>1, <2>6 DEF Reveal
    <3>2. [trial |-> me.reveal, at |-> "shown"] \in Questions
      BY <3>1 DEF Questions
    <3>3. [me EXCEPT !.reveal = 0, !.ask = [trial |-> me.reveal, at |-> "shown"]] \in PageStates
      BY <2>1, <3>2
    <3>4. UNCHANGED <<present, hung, cleanup, gone>>
      BY <2>6 DEF Reveal, onPage
    <3> QED
      BY <2>6, <3>3, <3>4, PageType DEF Reveal, RoomTyped
  <2>7. CASE Answer(p)
    <3>1. PICK got \in BOOLEAN :
            Becomes(p, [page[p] EXCEPT !.ask.at = "sent", !.locked = @ \/ got, !.recover = @ /\ ~got])
      BY <2>7 DEF Answer
    <3> DEFINE ask == [me.ask EXCEPT !.at = "sent"]
    <3>2. me.ask \in Questions /\ me.ask.at = "shown"
      BY <2>1, <2>7 DEF Answer
    <3>3. ask \in Questions
      BY <3>2 DEF Questions
    <3>4. Becomes(p, [me EXCEPT !.ask = ask, !.locked = me.locked \/ got, !.recover = me.recover /\ ~got])
      BY <2>1, <3>1
    <3> HIDE DEF ask
    <3>5. [me EXCEPT !.ask = ask, !.locked = me.locked \/ got, !.recover = me.recover /\ ~got] \in PageStates
      BY <2>1, <3>3
    <3>6. UNCHANGED <<present, hung, cleanup, gone>>
      BY <2>7 DEF Answer, onPage
    <3> QED
      BY <3>4, <3>5, <3>6, PageType DEF RoomTyped
  <2>8. CASE AnswerFails(p)
    <3> DEFINE ask == [me.ask EXCEPT !.at = "shown"]
    <3>1. me.ask \in Questions /\ me.ask.at = "sent"
      BY <2>1, <2>8 DEF AnswerFails
    <3>2. ask \in Questions
      BY <3>1 DEF Questions
    <3>3. Becomes(p, [me EXCEPT !.ask = ask])
      BY <2>1, <2>8 DEF AnswerFails
    <3> HIDE DEF ask
    <3>4. [me EXCEPT !.ask = ask] \in PageStates
      BY <2>1, <3>2
    <3>5. UNCHANGED <<present, hung, cleanup, gone>>
      BY <2>8 DEF AnswerFails, onPage
    <3> QED
      BY <3>3, <3>4, <3>5, PageType DEF RoomTyped
  <2>9. CASE Finish(p) \/ Leave(p) \/ Hang(p)
    BY <2>9 DEF Finish, Leave, Hang, historyVars, RoomTyped
  <2> QED
    BY <1>8, <2>2, <2>3, <2>4, <2>5, <2>6, <2>7, <2>8, <2>9
<1> QED
  BY <1>1, <1>2, <1>3, <1>4, <1>5, <1>6, <1>7, <1>8 DEF Visits, PageStep

\* The status of the session.
LEMMA StatusType ==
  ASSUME StatusTyped, Next, Faulty \subseteq Pages
  PROVE  StatusTyped'
<1> USE DEF StatusTyped, session, agentIdle, waiting, handling, onPage
<1>t. Throw => StatusTyped'
  BY DEF Throw, LeaveRules
<1>l. \A why, who : LosesParticipant(why, who) => StatusTyped'
  BY <1>t DEF LosesParticipant
<1>1. CASE EmptiesInbox \/ HitOrTimeout \/ GateOpens \/ GateStaysShut \/ AsksForStart \/ ManualStart
  BY <1>1 DEF EmptiesInbox, HitOrTimeout, GateOpens, GateStaysShut, AsksForStart, ManualStart
<1>2. CASE EnterRule \/ RulesEnd \/ Checks \/ Block \/ Sleeps
  BY <1>2 DEF EnterRule, RulesEnd, Checks, Block, Sleeps, LeaveRules
<1>3. CASE AssignsRoles \/ WaitEnds \/ Sends \/ AsksForLocks \/ Completes
  BY <1>3 DEF AssignsRoles, WaitEnds, Sends, AsksForLocks, Completes
<1>4. CASE WaitBreaks \/ WaitTimesOut \/ LocksBreak
  BY <1>l, <1>4 DEF WaitBreaks, WaitTimesOut, LocksBreak
<1>5. CASE LocksReported \/ LocksRecovered \/ UploadsSettled
  BY <1>5 DEF LocksReported, LocksRecovered, UploadsSettled
<1>6. CASE UploadsFail \/ UploadsTimeOut
  BY <1>t, <1>6 DEF UploadsFail, UploadsTimeOut
<1>7. CASE StartsRecording \/ StopsRecording \/ ForgetsRecording
  BY <1>7 DEF StartsRecording, StopsRecording, ForgetsRecording
<1>8. CASE SendFails
  BY <1>t, <1>8 DEF SendFails
<1>9. CASE HandlerEnds
  BY <1>9 DEF HandlerEnds
<1>10. CASE HandlerLists \/ HandlerSends \/ HandlerStops \/ HandlerForgets
  BY <1>10 DEF HandlerLists, HandlerSends, HandlerStops, HandlerForgets
<1>11. CASE PageStep \/ SafetyCleanup
  BY <1>11 DEF PageStep, SafetyCleanup, ClickNext, Lock, TrackDone, Reveal, Answer, AnswerFails, Finish
<1>12. CASE Recorder \/ DetectorFires \/ AdminReloads \/ ReportFails \/ Arrives
  BY <1>12 DEF Recorder, TimerFires, UploadEnds, DetectorFires, AdminReloads, ReportFails, Arrives
<1>13. CASE OperatorStops
  BY <1>13 DEF OperatorStops, StopAgent
<1>14. CASE OperatorStarts \/ \E p \in Faulty : Esc(p) \/ LockReportLost(p) \/ Leave(p) \/ Hang(p)
  BY <1>14 DEF OperatorStarts, Esc, LockReportLost, Leave, Hang
<1> QED
  BY <1>1, <1>2, <1>3, <1>4, <1>5, <1>6, <1>7, <1>8, <1>9, <1>10, <1>11, <1>12, <1>13, <1>14
  DEF Next, RunStep, Others, Environment, HandlerStep

\* The outcomes and the START of the operator.
LEMMA OutcomeType ==
  ASSUME OutcomeTyped, ManualTyped, Next
  PROVE  OutcomeTyped' /\ ManualTyped'
<1>1. OutcomeTyped'
  <2>1. \A known, who : Outcomes(known, who) \in [Pages -> {"none", "review", "return"}]
    BY DEF Outcomes
  <2>2. HandlerLists => UNCHANGED outcome \/ \E known, who : outcome' = Outcomes(known, who)
    BY DEF HandlerLists
  <2> QED
    BY <2>1, <2>2, RarelyChanged, Numbers DEF OutcomeTyped
<1>2. ManualTyped'
  BY RarelyChanged, Numbers DEF ManualTyped, AsksForStart, ManualStart, OperatorStarts, ManualStartRequested
<1> QED
  BY <1>1, <1>2

\* The types hold at the start.
LEMMA TypeStart ==
  ASSUME Init
  PROVE  TypeInv
<1>0. /\ run = [pc |-> 1, at |-> "going"] /\ mishaps = << >>
      /\ aborted = FALSE /\ disrupted = FALSE
      /\ handler = [at |-> 0, by |-> "nobody", who |-> 0, why |-> ""]
      /\ page = [p \in Pages |->
                  [virtual |-> FALSE, locked |-> FALSE, recover |-> FALSE,
                   paper |-> "none", ask |-> [trial |-> 0, at |-> "hidden"], reveal |-> 0,
                   track |-> [trial |-> 0, at |-> "idle"], ended |-> "no"]]
      /\ present = Pages /\ hung = {} /\ cleanup = {} /\ gone = {}
  BY DEF Init
<1>1. RulesTyped /\ StatusTyped /\ OutcomeTyped /\ ManualTyped /\ ReportsTyped
  BY DEF Init, RulesTyped, StatusTyped, OutcomeTyped, ManualTyped, ReportsTyped
<1>2. RunTyped
  <2>1. 1 \in 1 .. Len(script) + 1
    BY <1>1, ScriptShape
  <2> QED
    BY <1>0, <2>1 DEF RunTyped
<1>3. HandlerTyped
  <2>1. 0 \in Steps
    BY DEF Steps
  <2>2. "" \in Losses
    BY DEF Losses
  <2> QED
    BY <1>0, <2>1, <2>2 DEF HandlerTyped, HandlerStates, Nobody
<1>4. RecordingTyped
  BY RankDomain DEF Init, RecordingTyped
<1>5. RecorderTyped
  BY DEF Init, RecorderTyped, FreshAdmin
<1>6. RoomTyped
  <2> DEFINE ask == [trial |-> 0, at |-> "hidden"]
             track == [trial |-> 0, at |-> "idle"]
  <2>1. ask \in Questions /\ track \in Tracks
    BY DEF Questions, Tracks
  <2>2. page = [p \in Pages |-> [virtual |-> FALSE, locked |-> FALSE, recover |-> FALSE,
                   paper |-> "none", ask |-> ask, reveal |-> 0, track |-> track, ended |-> "no"]]
    BY <1>0
  <2> HIDE DEF ask, track
  <2>3. page \in [Pages -> PageStates]
    BY <2>1, <2>2 DEF PageStates
  <2> QED
    BY <1>0, <2>3 DEF RoomTyped
<1>7. MishapTyped
  <2>1. \A K : << >> \in Seq(K)
    BY EmptySeq
  <2> QED
    BY <1>0, <2>1 DEF MishapTyped
<1> QED
  BY <1>1, <1>2, <1>3, <1>4, <1>5, <1>6, <1>7 DEF TypeInv

\* A step that changes nothing keeps the types.
LEMMA TypeStutter ==
  ASSUME TypeInv, UNCHANGED vars
  PROVE  TypeInv'
BY DEF TypeInv, RulesTyped, RunTyped, StatusTyped, HandlerTyped, RecordingTyped, RecorderTyped,
       ReportsTyped, RoomTyped, OutcomeTyped, ManualTyped, MishapTyped, vars, session, rules, agentVars,
       reportVars, roomVars, recorderVars, historyVars

\* Every step keeps them.
LEMMA TypeStep ==
  ASSUME TypeInv, [Next]_vars
  PROVE  TypeInv'
<1>1. CASE Next
  <2>1. RulesTyped'
    BY <1>1, RulesStay, Numbers DEF TypeInv, RulesTyped, rules
  <2> QED
    BY <1>1, <2>1, RunType, StatusType, HandlerType, RecordingType, ReportsType, RoomType, OutcomeType,
       MishapType, Numbers DEF TypeInv
<1> QED
  BY <1>1, TypeStutter

\* In every session every variable keeps its type, for any rules of the shape of
\* CodeAssumption, any trials and any faults (agent.ts, App.tsx).
THEOREM TypeCorrect == Spec => []TypeOK
<1>1. TypeInv => TypeOK
  <2> SUFFICES ASSUME TypeInv PROVE TypeOK
    OBVIOUS
  <2>1. handler \in [at : 0 .. 10, by : {"nobody", "run", "report"}, who : Pages \cup {Nobody},
                     why : {"", "absent", "inactive", "withdrawal"}]
    BY DEF TypeInv, HandlerTyped, HandlerStates, Steps, Losses
  <2> QED
    BY <2>1 DEF TypeOK, TypeInv, RulesTyped, RunTyped, StatusTyped, HandlerTyped, RecordingTyped,
                RecorderTyped, ReportsTyped, RoomTyped, OutcomeTyped, ManualTyped
<1> QED
  BY <1>1, TypeStart, TypeStep, PTL DEF Spec

-----------------------------------------------------------------------------
(* The run and the handler of a lost participant. *)

\* The handler is not concerned.
Apart == UNCHANGED <<handler, disrupted>>
\* A report starts it beside the run.
Withdrawing ==
    /\ Still /\ ~disrupted /\ disrupted' = TRUE
    /\ \E m \in posts : /\ m.kind = "withdraw"
                        /\ handler' = [at |-> 1, by |-> "report", who |-> m.from, why |-> "withdrawal"]
\* It goes on, and ends.
Handles ==
    /\ Still /\ UNCHANGED <<disrupted, aborted>>
    /\ HandlerLists \/ HandlerSends \/ HandlerStops \/ HandlerForgets
    /\ handler.at \in 1 .. 8 /\ handler'.at \in 2 .. 9
    /\ handler'.by = handler.by /\ handler'.who = handler.who
Ends ==
    /\ HandlerEnds /\ UNCHANGED disrupted
    /\ handler.at = 9 /\ handler'.at = 10 /\ handler'.by = handler.by /\ handler'.who = handler.who
    /\ IF handler.by = "run" THEN Returning ELSE Still

\* A lost participant starts the handler, or is an exception like any other.
LEMMA LosesMoves ==
  ASSUME HandlerTyped, NEW why, NEW who, Running, Ins.do \in Waits, LosesParticipant(why, who)
  PROVE  \/ Losing /\ handler'.who = who
         \/ Apart /\ (Thrown \/ Leaving)
BY ThrowMoves DEF LosesParticipant, Losing, Apart

\* These are all the ways of the two.
LEMMA Moves ==
  ASSUME TypeInv, Next
  PROVE  \/ Apart /\ (Still \/ Onwards \/ Jumping \/ Thrown \/ Leaving)
         \/ Losing \/ Withdrawing \/ Handles \/ Ends
<1> USE DEF TypeInv, HandlerTyped, HandlerStates
<1>1. CASE ~Disrupts
  <2>1. UNCHANGED <<handler, disrupted>>
    BY <1>1, DisruptsOnly, Numbers DEF handlerVars
  <2>2. ~Losing
    BY <2>1 DEF Losing
  <2>3. ~Returning
    BY <1>1 DEF Disrupts, Returning, HandlerStep
  <2> QED
    BY <2>1, <2>2, <2>3, RunMoves, Numbers DEF Apart
<1>2. CASE WaitBreaks \/ WaitTimesOut \/ LocksBreak
  <2>1. Running /\ Ins.do \in Waits
    BY <1>2 DEF WaitBreaks, WaitTimesOut, LocksBreak, Waits, Doing
  <2>2. \/ \E why, who : LosesParticipant(why, who)
        \/ Step /\ UNCHANGED <<handler, disrupted>>
    BY <1>2 DEF WaitBreaks, WaitTimesOut, LocksBreak
  <2> QED
    BY <2>1, <2>2, LosesMoves DEF Apart, Onwards, Step, Go, Waits
<1>3. CASE HandlerLists \/ HandlerSends \/ HandlerStops \/ HandlerForgets
  <2>1. Still /\ UNCHANGED <<disrupted, aborted>> /\ handler.at \in 1 .. 8
    BY <1>3 DEF HandlerLists, HandlerSends, HandlerStops, HandlerForgets, handling, Still
  <2>2. NextStep \/ (handler.at = 7 /\ handler' = [handler EXCEPT !.at = 9])
    BY <1>3 DEF HandlerLists, HandlerSends, HandlerStops, HandlerForgets, HandlerSkips
  <2>3. handler'.at \in 2 .. 9 /\ handler'.by = handler.by /\ handler'.who = handler.who
    BY <2>1, <2>2 DEF NextStep
  <2> QED
    BY <1>3, <2>1, <2>3 DEF Handles
<1>4. CASE HandlerEnds
  <2>1. handler.at = 9 /\ NextStep /\ UNCHANGED disrupted
    BY <1>4 DEF HandlerEnds, handling
  <2>2. handler'.at = 10 /\ handler'.by = handler.by /\ handler'.who = handler.who
    BY <2>1 DEF NextStep
  <2>3. IF handler.by = "run" THEN Returning ELSE Still
    BY <1>4 DEF HandlerEnds, Returning, Still
  <2> QED
    BY <1>4, <2>1, <2>2, <2>3 DEF Ends
<1>5. CASE Arrives
  <2>1. Still
    BY <1>5 DEF Arrives, Still
  <2>2. PICK m \in posts : StatusArrives(m) \/ WithdrawArrives(m) \/ HitArrives(m)
    BY <1>5 DEF Arrives
  <2>3. UNCHANGED <<handler, disrupted>>
        \/ (/\ ~disrupted /\ disrupted' = TRUE /\ m.kind = "withdraw"
            /\ handler' = [at |-> 1, by |-> "report", who |-> m.from, why |-> "withdrawal"])
    BY <2>2 DEF StatusArrives, WithdrawArrives, HitArrives
  <2> QED
    BY <2>1, <2>3 DEF Withdrawing, Apart
<1>6. CASE OperatorStops
  BY <1>6 DEF OperatorStops, Apart, Still, agentVars
<1> QED
  BY <1>1, <1>2, <1>3, <1>4, <1>5, <1>6 DEF Disrupts, HandlerStep

\* Who set the run aside, and who aborted it.
HandlerInv ==
    /\ disrupted <=> handler.at # 0
    /\ handler.at = 0 <=> handler.by = "nobody"
    /\ handler.at = 0 => handler.who = 0
    /\ run.at = "handling" <=> (handler.by = "run" /\ handler.at # 10)
    /\ handler.by = "run" => run.at # "going"
\* A run that handles a loss waited for somebody; one that throws is in a
\* finally block.
PlaceInv ==
    /\ run.at = "handling" => run.pc <= Len(script) /\ Ins.do \in Waits
    /\ run.at = "throwing" => run.pc <= Len(script) /\ Closes(script, run.pc)
\* A run is aborted by the operator, or by the handler when it is done.
AbortInv == aborted => "stop" \in Troubles \/ handler.at = 10

\* Every step keeps the handler in order.
LEMMA HandlerStepKeeps ==
  ASSUME TypeInv, HandlerInv, Next
  PROVE  HandlerInv'
<1> USE DEF TypeInv, HandlerTyped, HandlerStates, RunTyped, HandlerInv
<1>1. CASE Apart /\ (Still \/ Onwards \/ Jumping \/ Thrown \/ Leaving)
  <2>1. Running \/ run.at = "going" => run.at # "handling"
    BY DEF Running
  <2>2. UNCHANGED run \/ (run.at # "handling" /\ run'.at # "handling"
                          /\ (run'.at = "going" => run.at = "going"))
    BY <1>1, <2>1 DEF Still, Onwards, Jumping, Thrown, Leaving, Doing
  <2> QED
    BY <1>1, <2>2 DEF Apart
<1>2. CASE Losing
  BY <1>2 DEF Losing
<1>3. CASE Withdrawing
  BY <1>3 DEF Withdrawing, Still
<1>4. CASE Handles
  BY <1>4 DEF Handles, Still
<1>5. CASE Ends
  BY <1>5 DEF Ends, Returning, Still
<1> QED
  BY <1>1, <1>2, <1>3, <1>4, <1>5, Moves

\* A finally block goes on to its end.
LEMMA ClosesOn ==
  ASSUME Len(script) \in Nat, Bounded(script), NEW i \in 1 .. Len(script), Closes(script, i)
  PROVE  /\ script[i].do \in {"finally", "send", "offer", "end"}
         /\ script[i].do # "end" => i + 1 \in 1 .. Len(script) /\ Closes(script, i + 1)
<1>1. script[i].do \in {"finally", "send", "offer", "end"} /\ (script[i].do = "end" \/ i < Len(script))
  BY DEF Bounded
<1>2. PICK f \in 1 .. i : script[f].do = "finally" /\ \A q \in f .. i - 1 : script[q].do # "end"
  BY DEF Closes
<1>3. ASSUME script[i].do # "end"
      PROVE  i + 1 \in 1 .. Len(script) /\ Closes(script, i + 1)
  <2>1. f \in 1 .. i + 1 /\ \A q \in f .. (i + 1) - 1 : q = i \/ q \in f .. i - 1
    OBVIOUS
  <2>2. \A q \in f .. (i + 1) - 1 : script[q].do # "end"
    BY <1>2, <1>3, <2>1
  <2> QED
    BY <1>1, <1>2, <1>3, <2>1, <2>2 DEF Closes
<1> QED
  BY <1>1, <1>3

\* Every step keeps the run where it may be.
LEMMA PlaceStep ==
  ASSUME TypeInv, HandlerInv, PlaceInv, Next
  PROVE  PlaceInv'
<1> USE DEF PlaceInv
<1>s. script' = script /\ Len(script) \in Nat /\ Bounded(script) /\ RunTyped
  BY RulesStay, Numbers, ScriptShape DEF TypeInv, rules
<1>f. Finally # 0 => Finally <= Len(script) /\ Closes(script, Finally)
  <2> DEFINE f == Finally
  <2>1. ASSUME f # 0 PROVE f \in run.pc .. Len(script) /\ script[f].do = "finally"
    BY <2>1, FinallyAhead
  <2> HIDE DEF f
  <2>2. ASSUME f # 0 PROVE f <= Len(script) /\ f \in 1 .. f /\ \A q \in f .. f - 1 : script[q].do # "end"
    BY <1>s, <2>1, <2>2 DEF RunTyped
  <2>3. f # 0 => f <= Len(script) /\ Closes(script, f)
    BY <2>1, <2>2 DEF Closes
  <2> QED
    BY <2>3 DEF f
<1>1. CASE UNCHANGED run
  BY <1>s, <1>1 DEF Ins
<1>2. CASE Onwards
  <2>1. run.at \in {"going", "throwing"} /\ run.pc \in 1 .. Len(script) /\ run'.at = run.at /\ run'.pc = run.pc + 1
    BY <1>s, <1>2 DEF Onwards, Running, RunTyped
  <2>2. CASE run.at = "going"
    BY <2>1, <2>2
  <2>3. CASE run.at = "throwing" /\ script[run.pc].do # "end"
    <3>1. Closes(script, run.pc)
      BY <2>3
    <3>2. run.pc + 1 \in 1 .. Len(script) /\ Closes(script, run.pc + 1)
      BY <1>s, <2>1, <2>3, <3>1, ClosesOn
    <3>3. Closes(script', run'.pc) /\ run'.pc <= Len(script')
      BY <1>s, <2>1, <3>2
    <3>4. run'.at = "throwing"
      BY <2>1, <2>3
    <3> QED
      BY <3>3, <3>4
  <2>4. run.at = "throwing" => script[run.pc].do # "end"
    BY <1>2 DEF Onwards, Ins
  <2> HIDE DEF PlaceInv
  <2> QED
    BY <2>1, <2>2, <2>3, <2>4
<1>3. CASE Jumping
  <2>1. run'.at = run.at /\ Running /\ Ins.do \in {"locks", "stop", "gate", "leave"}
    BY <1>s, <1>3 DEF Jumping, Doing, RunTyped
  <2>2. run.pc \in 1 .. Len(script)
    BY <1>s, <2>1 DEF Running, RunTyped
  <2>3. run.at # "throwing"
    BY <1>s, <2>1, <2>2, ClosesOn DEF Ins
  <2> QED
    BY <2>1, <2>3 DEF Running
<1>4. CASE Thrown
  BY <1>s, <1>f, <1>4 DEF Thrown
<1>5. CASE Leaving
  BY <1>5 DEF Leaving, RunTyped, TypeInv
<1>6. CASE Losing
  <2>1. run'.at = "handling" /\ run'.pc = run.pc /\ run.pc <= Len(script) /\ Ins.do \in Waits
    BY <1>s, <1>6 DEF Losing, Running, RunTyped
  <2> QED
    BY <1>s, <2>1 DEF Ins
<1>7. CASE Returning
  <2>1. run'.at # "handling"
    BY <1>7 DEF Returning, TypeInv, RunTyped
  <2>2. run'.at = "throwing" => run'.pc = Finally /\ Finally # 0
    BY <1>7 DEF Returning, TypeInv, RunTyped
  <2> QED
    BY <1>s, <1>f, <2>1, <2>2
<1> QED
  BY <1>1, <1>2, <1>3, <1>4, <1>5, <1>6, <1>7, RunMoves, Numbers DEF Still

\* A run is aborted by the operator or by the handler, and stays so.
LEMMA AbortOnly ==
  ASSUME TypeInv, Next, ~OperatorStops, ~HandlerEnds
  PROVE  UNCHANGED aborted
<1>1. CASE ~Disrupts
  BY <1>1, DisruptsOnly, Numbers DEF handlerVars
<1>2. CASE WaitBreaks \/ WaitTimesOut \/ LocksBreak
  BY <1>2 DEF WaitBreaks, WaitTimesOut, LocksBreak, waiting
<1>3. CASE HandlerLists \/ HandlerSends \/ HandlerStops \/ HandlerForgets \/ Arrives
  BY <1>3 DEF HandlerLists, HandlerSends, HandlerStops, HandlerForgets, Arrives
<1> QED
  BY <1>1, <1>2, <1>3 DEF Disrupts, HandlerStep

\* The handler, once over, is over for good.
LEMMA HandlerStaysOver ==
  ASSUME TypeInv, HandlerInv, Next, handler.at = 10
  PROVE  UNCHANGED <<handler, disrupted>>
BY Moves DEF Apart, Losing, Withdrawing, Handles, Ends, HandlerInv

\* An aborted run was aborted for a reason.
LEMMA AbortStep ==
  ASSUME TypeInv, HandlerInv, AbortInv, Next
  PROVE  AbortInv'
<1>1. Troubles \subseteq Troubles' /\ MishapTyped
  BY MishapType DEF TypeInv
<1>2. handler.at = 10 => handler'.at = 10
  BY HandlerStaysOver
<1>3. CASE UNCHANGED aborted
  BY <1>1, <1>2, <1>3 DEF AbortInv
<1>4. CASE OperatorStops
  BY <1>1, <1>4, MishapCounts DEF OperatorStops, AbortInv
<1>5. CASE HandlerEnds
  <2>1. handler'.at = 10
    BY <1>5 DEF HandlerEnds, NextStep, TypeInv, HandlerTyped, HandlerStates
  <2> QED
    BY <2>1 DEF AbortInv
<1> QED
  BY <1>3, <1>4, <1>5, AbortOnly
\* A run that goes on passes no assignment of roles and no end of a recording,
\* and jumps to an instruction that needs nothing of the one before.
LEMMA GoingOn ==
  ASSUME TypeInv, Next, run'.at = "going"
  PROVE  /\ run.at = "going"
         /\ \/ UNCHANGED run
            \/ /\ Running /\ run.pc \in 1 .. Len(script) /\ run'.pc \in run.pc + 1 .. Len(script) + 1
               /\ Passes(script, run.pc, run'.pc)
               /\ \/ run'.pc = run.pc + 1
                  \/ run'.pc <= Len(script)
                        => script[run'.pc].do \notin {"try", "forget", "completions", "stopped"}
<1>s. Len(script) \in Nat /\ Jumps(script) /\ RunTyped
  BY ScriptShape DEF TypeInv
<1>r. Running => run.pc \in 1 .. Len(script)
  BY <1>s DEF Running, RunTyped
<1>1. CASE Still
  BY <1>1 DEF Still
<1>2. CASE Onwards
  <2>1. run'.pc = run.pc + 1 /\ run'.at = run.at /\ Running /\ run.pc \in Nat
    BY <1>s, <1>r, <1>2 DEF Onwards, RunTyped
  <2>2. Passes(script, run.pc, run.pc + 1)
    BY <2>1 DEF Passes
  <2> QED
    BY <1>s, <1>r, <2>1, <2>2 DEF Running
<1>3. CASE Jumping
  <2>1. Running /\ run'.at = run.at
    BY <1>s, <1>3 DEF Jumping, Doing, RunTyped
  <2>2. run.pc \in 1 .. Len(script)
    BY <1>r, <2>1
  <2>3. CASE Doing("locks") \/ Doing("stop") \/ Doing("gate")
    <3>1. Skips(script, run.pc, run'.pc)
      BY <1>s, <1>3, <2>2, <2>3 DEF Jumping, Doing, Ins, Jumps, RunTyped
    <3> QED
      BY <2>1, <2>2, <3>1 DEF Skips
  <2>4. CASE Doing("leave")
    <3>1. run'.pc = Finally
      BY <1>s, <1>3, <2>4 DEF Jumping, Doing, RunTyped
    <3>2. Finally # 0 /\ Passes(script, run.pc, Finally) /\ script[run.pc].do = "leave"
      BY <2>4, LeaveAhead DEF Doing, Ins
    <3>3. Finally \in run.pc .. Len(script) /\ script[Finally].do = "finally"
      BY <3>2, FinallyAhead
    <3>4. script[run'.pc].do = "finally" /\ run'.pc \in run.pc .. Len(script) /\ run'.pc # run.pc
      BY <3>1, <3>2, <3>3
    <3>5. run'.pc \in run.pc + 1 .. Len(script) + 1
      BY <1>s, <2>2, <3>4
    <3> QED
      BY <2>1, <2>2, <3>1, <3>2, <3>4, <3>5
  <2> QED
    BY <1>3, <2>3, <2>4 DEF Jumping, Doing, Ins
<1>4. ~Thrown /\ ~Leaving /\ ~Losing
  BY <1>s DEF Thrown, Leaving, Losing, RunTyped
<1>5. ~Returning
  BY <1>s DEF Returning, RunTyped
<1> QED
  BY <1>1, <1>2, <1>3, <1>4, <1>5, RunMoves, Numbers

\* The run never goes back.
LEMMA NeverBack ==
  ASSUME TypeInv, Next
  PROVE  run.pc \in Nat /\ run'.pc \in Nat /\ run.pc <= run'.pc
<1>s. Len(script) \in Nat /\ RunTyped /\ RunTyped'
  BY ScriptShape, RunType DEF TypeInv
<1>t. run.pc \in Nat /\ run'.pc \in Nat
  BY <1>s DEF RunTyped
<1>1. CASE run'.at = "going"
  BY <1>t, <1>1, GoingOn
<1>2. CASE run'.at # "going"
  <2>f. Finally # 0 => Finally \in run.pc .. Len(script)
    BY FinallyAhead
  <2>1. CASE Still \/ Onwards \/ Leaving \/ Losing
    BY <1>s, <1>t, <2>1 DEF Still, Onwards, Leaving, Losing, RunTyped
  <2>2. CASE Jumping
    <3>1. CASE Doing("locks") \/ Doing("stop")
      BY <1>s, <1>t, <2>2, <3>1 DEF Jumping, RunTyped, Doing
    <3>2. CASE Doing("gate")
      <4>1. Ins.skip \in Nat
        BY <1>s, <3>2, ScriptShape DEF TypeInv, Jumps, Doing, Running, Ins, RunTyped
      <4> QED
        BY <1>s, <1>t, <2>2, <3>2, <4>1 DEF Jumping, RunTyped, Doing
    <3>3. CASE Doing("leave")
      <4>1. run'.pc = Finally /\ Finally # 0
        BY <1>s, <2>2, <3>3, LeaveAhead DEF Jumping, Doing, RunTyped
      <4> QED
        BY <1>t, <2>f, <4>1
    <3> QED
      BY <2>2, <3>1, <3>2, <3>3 DEF Jumping
  <2>3. CASE Thrown \/ Returning
    <3>1. run'.pc = run.pc \/ (Finally # 0 /\ run'.pc = Finally)
      BY <1>s, <2>3 DEF Thrown, Returning, RunTyped
    <3> QED
      BY <1>t, <2>f, <3>1
  <2> QED
    BY <2>1, <2>2, <2>3, RunMoves, Numbers
<1> QED
  BY <1>t, <1>1, <1>2

-----------------------------------------------------------------------------
(* Who leaves the room. *)

\* The end of the session was announced.
PastEnd == \E i \in 1 .. run.pc - 1 : script[i].do = "complete"
\* Only then does a page leave by itself or is removed; before it, whoever is
\* missing left, or was sent away by the handler.
EndInv == /\ \A p \in Pages : page[p].ended = "done" => PastEnd
          /\ cleanup # {} => PastEnd
\* Nobody else is missing before the end.
RoomInv == present \cup gone # Pages => PastEnd \/ handler.at = 10
\* A withdrawal is reported by somebody who left.
WithdrawInv == \A m \in posts : m.kind = "withdraw" => m.from \in gone

\* The end of the session stays announced.
LEMMA PastEndStays ==
  ASSUME TypeInv, Next, PastEnd
  PROVE  PastEnd'
<1>1. script' = script
  BY RulesStay, Numbers DEF rules
<1>2. PICK i \in 1 .. run.pc - 1 : script[i].do = "complete"
  BY DEF PastEnd
<1>3. i \in 1 .. run'.pc - 1
  BY <1>2, NeverBack
<1> QED
  BY <1>1, <1>2, <1>3 DEF PastEnd

\* The announcement itself.
LEMMA PastEndBegins ==
  ASSUME TypeInv, Completes
  PROVE  PastEnd'
<1>1. run.pc \in 1 .. Len(script) /\ script[run.pc].do = "complete" /\ run'.pc = run.pc + 1
  BY ScriptShape DEF TypeInv, RunTyped, Completes, Doing, Running, Ins, Step, Go
<1>2. script' = script
  BY DEF Completes, agentIdle, session, rules
<1>3. run.pc \in 1 .. run'.pc - 1
  BY <1>1
<1> QED
  BY <1>1, <1>2, <1>3 DEF PastEnd

\* A message that is not the end of the session ends no page.
LEMMA HearEnds ==
  ASSUME RoomTyped, NEW msg, NEW value, Send(msg, value), msg # "complete"
  PROVE  \A p \in Pages : page'[p].ended = page[p].ended
<1> SUFFICES ASSUME NEW p \in Pages PROVE page'[p].ended = page[p].ended
  OBVIOUS
<1>1. page[p] \in PageStates
  BY DEF RoomTyped
<1>2. React(p, msg, value).ended = page[p].ended
  BY <1>1 DEF React, Covered, Paper, PageStates
<1>3. page'[p] = React(p, msg, value) \/ page'[p] = page[p]
  BY DEF Send, Hear
<1> QED
  BY <1>2, <1>3

\* Only the end of the session ends a page in this way.
LEMMA EndedOnly ==
  ASSUME TypeInv, Next, ~Completes
  PROVE  /\ \A p \in Pages : page'[p].ended = "done" => page[p].ended = "done"
         /\ cleanup' # {} => cleanup # {}
<1> USE DEF TypeInv
<1>1. CASE ~Visits
  BY <1>1, VisitsOnly, Numbers DEF pageVars
<1>2. CASE Sends \/ AsksForLocks
  <2>1. cleanup' = cleanup
    BY <1>2 DEF Sends, AsksForLocks
  <2>2. Sends => Ins.msg # "complete"
    BY ScriptShape DEF Sends, Typed, RunTyped, Doing, Running, Ins
  <2>3. UNCHANGED page \/ (Sends /\ Send(Ins.msg, Ins.value)) \/ Send("relock", Unlocked)
    BY <1>2 DEF Sends, AsksForLocks
  <2> QED
    BY <2>1, <2>2, <2>3, HearEnds
<1>3. CASE HandlerLists
  BY <1>3 DEF HandlerLists, Told, handling, RoomTyped, PageStates
<1>4. CASE HandlerSends
  <2>1. handler.at - 1 \in 1 .. 5 /\ cleanup' = cleanup
    BY <1>4 DEF HandlerSends, handling
  <2>2. \A i \in 1 .. 5 : SwitchedOff[i][1] \in {"target", "shared", "unlock", "virtual", "hide"}
    <3> SUFFICES ASSUME NEW i \in 1 .. 5
                 PROVE  SwitchedOff[i][1] \in {"target", "shared", "unlock", "virtual", "hide"}
      OBVIOUS
    <3>1. i = 1 \/ i = 2 \/ i = 3 \/ i = 4 \/ i = 5
      OBVIOUS
    <3> QED
      BY <3>1 DEF SwitchedOff
  <2>3. UNCHANGED page \/ Send(SwitchedOff[handler.at - 1][1], SwitchedOff[handler.at - 1][2])
    BY <1>4 DEF HandlerSends
  <2> QED
    BY <2>1, <2>2, <2>3, HearEnds
<1>5. CASE HandlerEnds
  BY <1>5 DEF HandlerEnds, handling
<1>6. CASE SafetyCleanup
  BY <1>6 DEF SafetyCleanup
<1>7. ASSUME NEW p \in Pages, ClickNext(p) \/ Lock(p) \/ Esc(p) \/ TrackDone(p) \/ Reveal(p)
                              \/ Answer(p) \/ AnswerFails(p) \/ Finish(p) \/ Leave(p) \/ Hang(p)
      PROVE  cleanup' = cleanup /\ \A q \in Pages : page'[q].ended = page[q].ended
  <2>1. cleanup' = cleanup
    BY <1>7 DEF ClickNext, Lock, Esc, TrackDone, Reveal, Answer, AnswerFails, Finish, Leave, Hang, onPage
  <2>2. page[p] \in PageStates
    BY DEF RoomTyped
  <2> DEFINE Same == page'[p].ended = page[p].ended /\ \A q \in Pages \ {p} : page'[q] = page[q]
  <2>3. Same
    <3> USE DEF Becomes, RoomTyped
    <3>1. CASE ClickNext(p)
      BY <2>2, <3>1 DEF ClickNext, PageStates
    <3>2. CASE Lock(p)
      BY <2>2, <3>2 DEF Lock, PageStates
    <3>3. CASE Esc(p)
      BY <2>2, <3>3 DEF Esc, PageStates
    <3>4. CASE TrackDone(p)
      BY <2>2, <3>4 DEF TrackDone, PageStates
    <3>5. CASE Reveal(p)
      BY <2>2, <3>5 DEF Reveal, PageStates
    <3>6. CASE Answer(p)
      BY <2>2, <3>6 DEF Answer, PageStates
    <3>7. CASE AnswerFails(p)
      BY <2>2, <3>7 DEF AnswerFails, PageStates
    <3>8. CASE Finish(p) \/ Leave(p) \/ Hang(p)
      BY <3>8 DEF Finish, Leave, Hang
    <3> QED
      BY <1>7, <3>1, <3>2, <3>3, <3>4, <3>5, <3>6, <3>7, <3>8
  <2>4. \A q \in Pages : page'[q].ended = page[q].ended
    BY <2>3
  <2> QED
    BY <2>1, <2>4
<1> QED
  BY <1>1, <1>2, <1>3, <1>4, <1>5, <1>6, <1>7 DEF Visits, PageStep

\* Every step keeps EndInv.
LEMMA EndStep ==
  ASSUME TypeInv, EndInv, Next
  PROVE  EndInv'
<1>1. CASE Completes
  BY <1>1, PastEndBegins DEF EndInv
<1>2. CASE ~Completes
  <2>1. PastEnd => PastEnd'
    BY PastEndStays
  <2> HIDE DEF PastEnd
  <2> QED
    BY <1>2, <2>1, EndedOnly DEF EndInv
<1> QED
  BY <1>1, <1>2

\* Nobody comes back, and nobody who left is forgotten.
LEMMA Leavers ==
  ASSUME TypeInv, Next
  PROVE  /\ gone \subseteq gone' /\ hung \subseteq hung' /\ present' \subseteq present
         /\ \A p \in present \ present' :
               p \in gone' \/ page[p].ended = "done" \/ cleanup # {} \/ HandlerEnds
<1> USE DEF TypeInv
<1>1. gone \subseteq gone' /\ hung \subseteq hung'
  BY RarelyChanged, Numbers DEF Leave, Hang
<1>2. CASE ~Visits
  BY <1>1, <1>2, VisitsOnly, Numbers DEF pageVars
<1>3. CASE Sends \/ AsksForLocks \/ Completes \/ HandlerLists \/ HandlerSends
  BY <1>1, <1>3 DEF Sends, AsksForLocks, Completes, HandlerLists, HandlerSends, agentIdle
<1>4. CASE HandlerEnds
  BY <1>1, <1>4 DEF HandlerEnds
<1>5. CASE SafetyCleanup
  BY <1>1, <1>5 DEF SafetyCleanup
<1>6. ASSUME NEW p \in Pages, ClickNext(p) \/ Lock(p) \/ Esc(p) \/ TrackDone(p) \/ Reveal(p)
                              \/ Answer(p) \/ AnswerFails(p) \/ Hang(p)
      PROVE  present' = present
  BY <1>6 DEF ClickNext, Lock, Esc, TrackDone, Reveal, Answer, AnswerFails, Hang, onPage
<1>7. ASSUME NEW p \in Pages, Finish(p) \/ Leave(p)
      PROVE  /\ present' = present \ {p}
             /\ p \in gone' \/ page[p].ended = "done"
  BY <1>7 DEF Finish, Leave
<1> QED
  BY <1>1, <1>2, <1>3, <1>4, <1>5, <1>6, <1>7 DEF Visits, PageStep

\* Every step keeps RoomInv.
LEMMA RoomStep ==
  ASSUME TypeInv, HandlerInv, EndInv, RoomInv, Next
  PROVE  RoomInv'
<1>1. PastEnd => PastEnd'
  BY PastEndStays
<1>2. handler.at = 10 => handler'.at = 10
  BY HandlerStaysOver
<1>3. HandlerEnds => handler'.at = 10
  BY DEF HandlerEnds, NextStep, TypeInv, HandlerTyped, HandlerStates
<1>4. present \subseteq Pages /\ gone \subseteq Pages /\ gone' \subseteq Pages
  BY RoomType DEF TypeInv, RoomTyped
<1>5. ASSUME present' \cup gone' # Pages
      PROVE  PastEnd' \/ handler'.at = 10
  <2>1. PICK p \in Pages : p \notin present' /\ p \notin gone'
    BY <1>4, <1>5, Leavers
  <2>2. p \notin gone
    BY <2>1, Leavers
  <2>3. CASE p \notin present
    <3>1. PastEnd \/ handler.at = 10
      BY <2>2, <2>3 DEF RoomInv
    <3> QED
      BY <1>1, <1>2, <3>1
  <2>4. CASE p \in present
    <3>1. page[p].ended = "done" \/ cleanup # {} \/ HandlerEnds
      BY <2>1, <2>4, Leavers
    <3> QED
      BY <1>1, <1>3, <3>1 DEF EndInv
  <2> QED
    BY <2>3, <2>4
<1> QED
  BY <1>5 DEF RoomInv

\* Every step keeps WithdrawInv.
LEMMA WithdrawStep ==
  ASSUME TypeInv, WithdrawInv, Next
  PROVE  WithdrawInv'
<1> USE DEF WithdrawInv
<1>1. gone \subseteq gone'
  BY Leavers
<1>2. ASSUME NEW m \in posts', m \notin posts, m.kind = "withdraw"
      PROVE  m.from \in gone'
  <2>1. Records
    BY <1>2, RecordsOnly, Numbers DEF recordingVars
  <2>2. ~(Sends \/ AsksForLocks \/ Completes \/ StartsRecording \/ ForgetsRecording \/ SendFails
          \/ UploadsSettled \/ HandlerSends \/ HandlerForgets \/ AdminReloads \/ Arrives \/ ReportFails)
    BY <1>2 DEF Sends, AsksForLocks, Completes, StartsRecording, ForgetsRecording, SendFails,
                UploadsSettled, HandlerSends, HandlerForgets, AdminReloads, Arrives, ReportFails, waiting
  <2>3. ASSUME NEW trial, NEW says, NEW kind \in {"status", "hit"},
               posts' = posts \cup {[kind |-> kind, from |-> 0, trial |-> trial, says |-> says]}
        PROVE  FALSE
    BY <1>2, <2>3
  <2>4. ~StopsRecording /\ ~HandlerStops
    <3>1. HearsStop => FALSE
      BY <1>2, <2>3 DEF HearsStop
    <3> QED
      BY <1>2, <3>1 DEF StopsRecording, HandlerStops
  <2>5. ~Recorder /\ ~DetectorFires
    BY <2>3 DEF Recorder, TimerFires, UploadEnds, DetectorFires
  <2>6. PICK p \in Pages : Leave(p)
    BY <2>1, <2>2, <2>4, <2>5 DEF Records
  <2>7. gone' = gone \cup {p}
    BY <2>6 DEF Leave
  <2>8. posts' = posts \cup {[kind |-> "withdraw", from |-> p, trial |-> 0, says |-> ""]} \/ posts' = posts
    BY <2>6 DEF Leave
  <2>9. m = [kind |-> "withdraw", from |-> p, trial |-> 0, says |-> ""]
    BY <1>2, <2>8
  <2> QED
    BY <2>7, <2>9
<1> QED
  BY <1>1, <1>2

\* The participant of a report is one who left.
ReportInv == handler.by = "report" => handler.who \in gone
\* Every step keeps this.
LEMMA ReportStep ==
  ASSUME TypeInv, HandlerInv, WithdrawInv, ReportInv, Next
  PROVE  ReportInv'
<1>1. gone \subseteq gone'
  BY Leavers
<1>2. CASE Apart \/ Handles \/ Ends
  BY <1>1, <1>2 DEF Apart, Handles, Ends, ReportInv
<1>3. CASE Losing
  BY <1>3 DEF Losing, ReportInv
<1>4. CASE Withdrawing
  BY <1>1, <1>4 DEF Withdrawing, WithdrawInv, ReportInv
<1> QED
  BY <1>2, <1>3, <1>4, Moves

\* What a run does with an instruction that only one action executes.
LEMMA Executes ==
  ASSUME TypeInv, HandlerInv, Next, Running, ~Still
  PROVE  /\ Ins.do = "roles" => AssignsRoles
         /\ Ins.do = "record" => StartsRecording \/ SendFails
         /\ Ins.do = "stop" => StopsRecording \/ SendFails
         /\ Ins.do = "stopped" => ForgetsRecording
         /\ Ins.do \in {"send", "offer"} => Sends \/ SendFails
         /\ Ins.do \in {"try", "forget", "leave", "finally", "end"} => Block
         /\ Ins.do = "sleep" => Sleeps
         /\ Ins.do = "check" => Checks
         /\ Ins.do = "empty" => EmptiesInbox
         /\ Ins.do = "hit" => HitOrTimeout
         /\ Ins.do \in {"completions", "answers"} => WaitEnds \/ WaitBreaks \/ WaitTimesOut
         /\ Ins.do = "uploads" => UploadsSettled \/ UploadsFail \/ UploadsTimeOut
         /\ Ins.do = "locked" => LocksReported
         /\ Ins.do = "locks" => AsksForLocks \/ SendFails
         /\ Ins.do = "relock" => LocksRecovered \/ LocksBreak
<1> USE DEF Doing
<1>1. CASE EmptiesInbox \/ HitOrTimeout \/ GateOpens \/ GateStaysShut \/ AsksForStart \/ ManualStart
  BY <1>1 DEF EmptiesInbox, HitOrTimeout, GateOpens, GateStaysShut, AsksForStart, ManualStart
<1>2. CASE EnterRule \/ Checks \/ Block \/ Sleeps
  BY <1>2 DEF EnterRule, Checks, Block, Sleeps
<1>3. CASE WaitEnds \/ WaitBreaks \/ WaitTimesOut \/ Sends \/ AsksForLocks \/ Completes
  BY <1>3 DEF WaitEnds, WaitBreaks, WaitTimesOut, Sends, AsksForLocks, Completes
<1>4. CASE LocksReported \/ LocksRecovered \/ LocksBreak \/ UploadsSettled \/ UploadsFail \/ UploadsTimeOut
  BY <1>4 DEF LocksReported, LocksRecovered, LocksBreak, UploadsSettled, UploadsFail, UploadsTimeOut
<1>5. CASE AssignsRoles
  BY <1>5 DEF AssignsRoles
<1>6. CASE StartsRecording
  BY <1>6 DEF StartsRecording
<1>7. CASE StopsRecording
  BY <1>7 DEF StopsRecording
<1>8. CASE ForgetsRecording
  BY <1>8 DEF ForgetsRecording
<1>9. CASE SendFails
  BY <1>9 DEF SendFails
<1>10. CASE RulesEnd
  BY <1>10 DEF RulesEnd, Running, TypeInv, RunTyped
<1>11. ~HandlerStep
  <2>1. HandlerEnds => handler.by # "run"
    BY DEF HandlerEnds, HandlerInv, Running
  <2> QED
    BY <2>1 DEF HandlerStep, HandlerLists, HandlerSends, HandlerStops, HandlerForgets, HandlerEnds, Still
<1>12. ~PageStep /\ ~SafetyCleanup
  BY DEF PageStep, SafetyCleanup, ClickNext, Lock, TrackDone, Reveal, Answer, AnswerFails, Finish, Still, onPage
<1>13. ~(Recorder \/ DetectorFires \/ AdminReloads \/ ReportFails \/ Arrives)
  BY DEF Recorder, TimerFires, UploadEnds, DetectorFires, AdminReloads, ReportFails, Arrives, Still
<1>14. ~(OperatorStops \/ OperatorStarts \/ \E p \in Faulty : Esc(p) \/ LockReportLost(p) \/ Leave(p) \/ Hang(p))
  BY DEF OperatorStops, OperatorStarts, Esc, LockReportLost, Leave, Hang, onPage, Still
<1> QED
  BY <1>1, <1>2, <1>3, <1>4, <1>5, <1>6, <1>7, <1>8, <1>9, <1>10, <1>11, <1>12, <1>13, <1>14
  DEF Next, RunStep, Others, Environment

-----------------------------------------------------------------------------
(* The roles of the pair. *)

\* Who sees the cursor and who the target.
RoleNames == [cursor : Pages \cup {0}, target : Pages \cup {0}]
\* The roles of an instruction, when both are there.
RolesOf(ins) == AsymmetricRoles(Pages, ins.seed, ins.index)
\* While the run goes on, the last roles are those of the last instruction that
\* assigns roles.
AssignedInv ==
    run.at = "going" /\ played # << >> => \E k \in 1 .. run.pc - 1 :
        /\ script[k].do = "roles" /\ \A q \in k + 1 .. run.pc - 1 : script[q].do # "roles"
        /\ played[Len(played)] \in {NoRoles, RolesOf(script[k])}
\* What RolesSwitch says, with the type of the roles.
PlayedInv == played \in Seq(RoleNames) /\ RolesSwitch

\* The two pages, the first one and the second.
LEMMA TwoPages ==
  \E a, b \in Pages : a < b /\ Pages = {a, b}
<1>1. IsFiniteSet(Pages) /\ Cardinality(Pages) = 2
  BY SessionAssumption
<1>2. PICK a \in Pages : TRUE
  BY <1>1, FS_EmptySet
<1>3. IsFiniteSet(Pages \ {a}) /\ Cardinality(Pages \ {a}) = 1
  BY <1>1, FS_RemoveElement
<1>4. PICK b \in Pages \ {a} : TRUE
  BY <1>3, FS_EmptySet
<1>5. IsFiniteSet((Pages \ {a}) \ {b}) /\ Cardinality((Pages \ {a}) \ {b}) = 0
  BY <1>3, FS_RemoveElement
<1>6. (Pages \ {a}) \ {b} = {}
  BY <1>5, FS_EmptySet
<1>7. Pages = {a, b} /\ a # b
  BY <1>2, <1>4, <1>6
<1>n. a \in Nat /\ b \in Nat
  BY <1>2, <1>4, Numbers
<1>8. CASE a < b
  BY <1>7, <1>8
<1>9. CASE b < a
  BY <1>7, <1>9
<1> QED
  BY <1>7, <1>n, <1>8, <1>9

\* Two participants are all of them.
LEMMA BothOrFewer ==
  ASSUME NEW S \in SUBSET Pages
  PROVE  /\ Cardinality(S) \in Nat
         /\ Cardinality(S) = 2 <=> S = Pages
         /\ Cardinality(S) < 2 <=> S # Pages
<1>1. IsFiniteSet(Pages) /\ Cardinality(Pages) = 2
  BY SessionAssumption
<1>2. IsFiniteSet(S) /\ Cardinality(S) \in Nat /\ Cardinality(S) <= 2
      /\ (S # Pages => Cardinality(S) < 2)
  BY <1>1, FS_Subset, FS_CardinalityType
<1> QED
  BY <1>1, <1>2

\* Both have a role, and the other one under the next number.
LEMMA RolesAlternate ==
  ASSUME NEW seed \in Nat, NEW index \in Nat
  PROVE  LET now   == AsymmetricRoles(Pages, seed, index)
             later == AsymmetricRoles(Pages, seed, index + 1)
         IN  /\ now \in RoleNames /\ now # NoRoles
             /\ later = [cursor |-> now.target, target |-> now.cursor]
<1>1. PICK a, b \in Pages : a < b /\ Pages = {a, b}
  BY TwoPages
<1>2. a \in Nat \ {0} /\ b \in Nat \ {0} /\ a # b
  BY <1>1, SessionAssumption
<1>3. (CHOOSE p \in Pages : \A q \in Pages : p <= q) = a
  BY <1>1, <1>2
<1>4. (CHOOSE p \in Pages : p # a) = b
  BY <1>1, <1>2
<1>5. Cardinality(Pages) = 2
  BY SessionAssumption
<1>6. ASSUME NEW i
      PROVE  AsymmetricRoles(Pages, seed, i) = IF CursorFirst(seed, i) THEN [cursor |-> a, target |-> b]
                                               ELSE [cursor |-> b, target |-> a]
  BY <1>3, <1>4, <1>5 DEF AsymmetricRoles
<1>7. CursorFirst(seed, index + 1) <=> ~CursorFirst(seed, index)
  <2>1. seed % 2 \in {0, 1} /\ index % 2 \in {0, 1} /\ (index + 1) % 2 = 1 - (index % 2)
    OBVIOUS
  <2> QED
    BY <2>1 DEF CursorFirst
<1> QED
  BY <1>2, <1>6, <1>7 DEF RoleNames, NoRoles

\* Whoever is missing has no role.
LEMMA RolesOfFew ==
  ASSUME NEW S \in SUBSET Pages, S # Pages, NEW seed, NEW index
  PROVE  AsymmetricRoles(S, seed, index) = NoRoles
BY BothOrFewer DEF AsymmetricRoles

\* A room without everybody, before the end: somebody left.
LEMMA MissingLeft ==
  ASSUME TypeInv, HandlerInv, RoomInv, ReportInv, run.at = "going", ~PastEnd, present # Pages
  PROVE  gone # {}
<1>1. CASE handler.at = 10
  <2>1. handler.by = "report"
    BY <1>1 DEF HandlerInv, TypeInv, HandlerTyped, HandlerStates
  <2> QED
    BY <2>1 DEF ReportInv
<1>2. CASE handler.at # 10
  BY <1>2 DEF RoomInv
<1> QED
  BY <1>1, <1>2

\* No role is given after the end of the session was announced, nor in a finally
\* block.
LEMMA RolesBeforeEnd ==
  ASSUME TypeInv, PlaceInv, Doing("roles")
  PROVE  /\ run.pc \in 1 .. Len(script) /\ script[run.pc].do = "roles" /\ Ins = script[run.pc]
         /\ Ins.seed \in Nat /\ Ins.index \in Nat /\ ~PastEnd /\ run.at = "going"
<1>s. Len(script) \in Nat /\ Typed(script) /\ Bounded(script)
  BY ScriptShape DEF TypeInv
<1>1. run.pc \in 1 .. Len(script) /\ script[run.pc].do = "roles" /\ Ins = script[run.pc]
      /\ run.at \in {"going", "throwing"}
  BY <1>s DEF TypeInv, RunTyped, Doing, Running, Ins
<1>2. Ins.seed \in Nat /\ Ins.index \in Nat
  BY <1>s, <1>1 DEF Typed
<1>3. ~PastEnd
  <2>1. ASSUME NEW i \in 1 .. run.pc - 1, script[i].do = "complete" PROVE FALSE
    <3>1. i \in 1 .. Len(script) /\ run.pc \in i .. Len(script)
      BY <1>s, <1>1, <2>1
    <3> QED
      BY <1>1, <2>1, <3>1, <1>s DEF Bounded
  <2> QED
    BY <2>1 DEF PastEnd
<1>4. run.at # "throwing"
  BY <1>s, <1>1, ClosesOn DEF PlaceInv
<1> QED
  BY <1>1, <1>2, <1>3, <1>4

\* A step that gives roles gives those of its instruction, or none with a reason.
LEMMA RolesGiven ==
  ASSUME TypeInv, HandlerInv, PlaceInv, RoomInv, ReportInv, AssignsRoles
  PROVE  \E now \in RoleNames :
            /\ played' = Append(played, now)
            /\ \/ now = RolesOf(Ins) /\ now # NoRoles
               \/ now = NoRoles /\ (gone' # {} \/ "list" \in Troubles')
<1>1. Ins.seed \in Nat /\ Ins.index \in Nat /\ ~PastEnd /\ run.at = "going"
  BY RolesBeforeEnd DEF AssignsRoles
<1>2. NoRoles \in RoleNames
  BY DEF NoRoles, RoleNames
<1>3. present \in SUBSET Pages /\ gone' = gone /\ MishapTyped
  BY DEF TypeInv, RoomTyped, AssignsRoles
<1>4. CASE Mishap("list") /\ played' = Append(played, NoRoles)
  BY <1>2, <1>3, <1>4, MishapCounts
<1>5. CASE played' = Append(played, AsymmetricRoles(present, Ins.seed, Ins.index))
  <2>1. CASE present = Pages
    <3>1. RolesOf(Ins) \in RoleNames /\ RolesOf(Ins) # NoRoles
      BY <1>1, RolesAlternate DEF RolesOf
    <3> QED
      BY <1>5, <2>1, <3>1 DEF RolesOf
  <2>2. CASE present # Pages
    <3>1. gone # {}
      BY <1>1, <2>2, MissingLeft
    <3>2. AsymmetricRoles(present, Ins.seed, Ins.index) = NoRoles
      BY <1>3, <2>2, RolesOfFew
    <3> QED
      BY <1>2, <1>3, <1>5, <3>1, <3>2
  <2> QED
    BY <2>1, <2>2
<1> QED
  BY <1>4, <1>5 DEF AssignsRoles

\* The roles so far change hands, one trial after the other.
LEMMA PlayedStep ==
  ASSUME TypeInv, HandlerInv, PlaceInv, RoomInv, ReportInv, PlayedInv, AssignedInv, Next
  PROVE  PlayedInv'
<1>g. gone \subseteq gone' /\ Troubles \subseteq Troubles'
  BY Leavers, MishapType DEF TypeInv
<1>h. (Happened({"list"}) <=> "list" \in Troubles) /\ (Happened({"list"})' <=> "list" \in Troubles')
  BY DEF Happened, Troubles
<1>1. CASE ~AssignsRoles
  <2>1. played' = played
    BY <1>1, RarelyChanged, Numbers
  <2> QED
    BY <2>1, <1>g, <1>h DEF PlayedInv, RolesSwitch
<1>2. CASE AssignsRoles
  <2>1. PICK now \in RoleNames :
            /\ played' = Append(played, now)
            /\ \/ now = RolesOf(Ins) /\ now # NoRoles
               \/ now = NoRoles /\ (gone' # {} \/ "list" \in Troubles')
    BY <1>2, RolesGiven
  <2>2. played \in Seq(RoleNames)
    BY DEF PlayedInv
  <2> DEFINE n == Len(played)
  <2>3. n \in Nat /\ DOMAIN played = 1 .. n
    BY <2>2, LenProperties
  <2>4. played' \in Seq(RoleNames) /\ DOMAIN played' = 1 .. n + 1 /\ played'[n + 1] = now
        /\ \A i \in 1 .. n : played'[i] = played[i]
    BY <2>1, <2>2, <2>3, AppendProperties
  <2>5. ASSUME n > 0, played[n] # NoRoles, now # NoRoles
        PROVE  now = [cursor |-> played[n].target, target |-> played[n].cursor]
    <3>1. run.pc \in 1 .. Len(script) /\ script[run.pc].do = "roles" /\ Ins = script[run.pc] /\ run.at = "going"
      BY <1>2, RolesBeforeEnd DEF AssignsRoles
    <3>2. played # << >>
      BY <2>5
    <3>3. PICK k \in 1 .. run.pc - 1 :
            /\ script[k].do = "roles" /\ \A q \in k + 1 .. run.pc - 1 : script[q].do # "roles"
            /\ played[n] \in {NoRoles, RolesOf(script[k])}
      BY <3>1, <3>2 DEF AssignedInv
    <3>4. k \in 1 .. Len(script) /\ k < run.pc
      BY <3>1, <3>3, ScriptShape DEF TypeInv
    <3>5. Ins.index = script[k].index + 1 /\ Ins.seed = script[k].seed
      BY <3>1, <3>3, <3>4, ScriptShape DEF TypeInv, Numbered
    <3>6. script[k].index \in Nat /\ script[k].seed \in Nat
      BY <3>3, <3>4, ScriptShape DEF TypeInv, Typed
    <3>7. played[n] = RolesOf(script[k]) /\ now = RolesOf(Ins)
      BY <2>1, <2>5, <3>3
    <3> QED
      BY <3>5, <3>6, <3>7, RolesAlternate DEF RolesOf
  <2>6. ASSUME NEW i \in 1 .. n + 1
        PROVE  IF played'[i] = NoRoles THEN gone' # {} \/ "list" \in Troubles'
               ELSE i > 1 /\ played'[i - 1] # NoRoles =>
                       played'[i] = [cursor |-> played'[i - 1].target, target |-> played'[i - 1].cursor]
    <3> HIDE DEF n
    <3>1. CASE i \in 1 .. n
      <4>1. i > 1 => i - 1 \in 1 .. n
        BY <2>3, <3>1
      <4>2. IF played[i] = NoRoles THEN gone # {} \/ "list" \in Troubles
            ELSE i > 1 /\ played[i - 1] # NoRoles =>
                       played[i] = [cursor |-> played[i - 1].target, target |-> played[i - 1].cursor]
        BY <2>3, <3>1, <1>h DEF PlayedInv, RolesSwitch
      <4> QED
        BY <1>g, <2>4, <3>1, <4>1, <4>2
    <3>2. CASE i = n + 1
      <4>1. i > 1 => i - 1 = n /\ n \in 1 .. n /\ n > 0
        BY <2>3, <3>2
      <4> QED
        BY <2>1, <2>4, <2>5, <3>2, <4>1
    <3> QED
      BY <2>3, <3>1, <3>2
  <2>7. RolesSwitch'
    BY <2>4, <2>6, <1>h DEF RolesSwitch
  <2> QED
    BY <2>4, <2>7 DEF PlayedInv
<1> QED
  BY <1>1, <1>2

\* Every step keeps AssignedInv.
LEMMA AssignedStep ==
  ASSUME TypeInv, HandlerInv, PlaceInv, RoomInv, ReportInv, PlayedInv, AssignedInv, Next
  PROVE  AssignedInv'
<1> SUFFICES ASSUME run'.at = "going", played' # << >>
             PROVE  \E k \in 1 .. run'.pc - 1 :
                      /\ script'[k].do = "roles" /\ \A q \in k + 1 .. run'.pc - 1 : script'[q].do # "roles"
                      /\ played'[Len(played')] \in {NoRoles, RolesOf(script'[k])}
  BY DEF AssignedInv, RolesOf
<1>s. script' = script /\ Len(script) \in Nat
  BY RulesStay, Numbers, ScriptShape DEF TypeInv, rules
<1>1. CASE AssignsRoles
  <2>1. PICK now \in RoleNames : played' = Append(played, now) /\ now \in {NoRoles, RolesOf(Ins)}
    BY <1>1, RolesGiven
  <2>2. played'[Len(played')] = now
    <3>1. played \in Seq(RoleNames)
      BY DEF PlayedInv
    <3> QED
      BY <2>1, <3>1, AppendProperties, LenProperties
  <2>3. run.pc \in 1 .. Len(script) /\ script[run.pc].do = "roles" /\ Ins = script[run.pc]
    BY <1>1, RolesBeforeEnd DEF AssignsRoles
  <2>4. run'.pc = run.pc + 1
    BY <1>1 DEF AssignsRoles, Step, Go, TypeInv, RunTyped
  <2>5. run.pc \in 1 .. run'.pc - 1 /\ run.pc + 1 .. run'.pc - 1 = {}
    BY <2>3, <2>4
  <2> QED
    BY <1>s, <2>1, <2>2, <2>3, <2>5
<1>2. CASE ~AssignsRoles
  <2>1. played' = played /\ run.at = "going"
    BY <1>2, RarelyChanged, GoingOn, Numbers
  <2>2. PICK k \in 1 .. run.pc - 1 :
            /\ script[k].do = "roles" /\ \A q \in k + 1 .. run.pc - 1 : script[q].do # "roles"
            /\ played[Len(played)] \in {NoRoles, RolesOf(script[k])}
    BY <2>1 DEF AssignedInv
  <2>3. CASE UNCHANGED run
    BY <1>s, <2>1, <2>2, <2>3
  <2>4. CASE run' # run
    <3>1. /\ Running /\ run.pc \in 1 .. Len(script) /\ run'.pc \in run.pc + 1 .. Len(script) + 1
          /\ Passes(script, run.pc, run'.pc)
      BY <2>4, GoingOn
    <3>2. script[run.pc].do # "roles"
      BY <1>2, <2>4, <3>1, Executes DEF Still, Ins
    <3>3. k \in 1 .. run'.pc - 1 /\ \A q \in k + 1 .. run'.pc - 1 :
             q \in k + 1 .. run.pc - 1 \/ q = run.pc \/ q \in run.pc + 1 .. run'.pc - 1
      BY <3>1, <2>2
    <3>4. \A q \in k + 1 .. run'.pc - 1 : script[q].do # "roles"
      BY <2>2, <3>1, <3>2, <3>3 DEF Passes
    <3> QED
      BY <1>s, <2>1, <2>2, <3>3, <3>4
  <2> QED
    BY <2>3, <2>4
<1> QED
  BY <1>1, <1>2

\* The invariant of the room and the run, which everything below rests on.
CoreInv == TypeInv /\ HandlerInv /\ PlaceInv /\ AbortInv /\ EndInv /\ RoomInv /\ WithdrawInv /\ ReportInv
\* It holds at the start.
LEMMA CoreStart == Init => CoreInv
<1> SUFFICES ASSUME Init PROVE CoreInv
  OBVIOUS
<1>0. /\ run = [pc |-> 1, at |-> "going"] /\ aborted = FALSE /\ disrupted = FALSE
      /\ handler = [at |-> 0, by |-> "nobody", who |-> 0, why |-> ""]
      /\ present = Pages /\ cleanup = {} /\ posts = {} /\ gone = {}
  BY DEF Init
<1>1. \A p \in Pages : page[p].ended = "no"
  BY DEF Init
<1>2. HandlerInv /\ PlaceInv /\ AbortInv /\ ReportInv
  BY <1>0 DEF HandlerInv, PlaceInv, AbortInv, ReportInv
<1>3. EndInv /\ RoomInv /\ WithdrawInv
  BY <1>0, <1>1 DEF EndInv, RoomInv, WithdrawInv
<1> QED
  BY <1>2, <1>3, TypeStart DEF CoreInv

\* A step that changes nothing keeps it.
LEMMA CoreStutter ==
  ASSUME CoreInv, UNCHANGED vars
  PROVE  CoreInv'
<1>1. TypeInv'
  BY TypeStutter DEF CoreInv
<1>2. /\ UNCHANGED <<run, handler, disrupted, aborted, script, mishaps>>
      /\ UNCHANGED <<page, present, cleanup, gone, posts>>
  BY DEF vars, session, rules, agentVars, roomVars, historyVars
<1>3. HandlerInv' /\ PlaceInv' /\ AbortInv' /\ ReportInv'
  BY <1>2 DEF CoreInv, HandlerInv, PlaceInv, AbortInv, ReportInv, Ins, Closes, Troubles
<1>4. EndInv' /\ RoomInv' /\ WithdrawInv'
  BY <1>2 DEF CoreInv, EndInv, RoomInv, WithdrawInv, PastEnd
<1> QED
  BY <1>1, <1>3, <1>4 DEF CoreInv

\* Every step keeps it.
LEMMA CoreStep ==
  ASSUME CoreInv, [Next]_vars
  PROVE  CoreInv'
<1>1. CASE Next
  BY <1>1, TypeStep, HandlerStepKeeps, PlaceStep, AbortStep, EndStep, RoomStep, WithdrawStep, ReportStep
  DEF CoreInv
<1> QED
  BY <1>1, CoreStutter

\* In every session of Task 9 the two roles change hands from one shared trial to
\* the next, and a trial without roles is one whose listing failed or that
\* somebody had left (assignTask9AsymmetricRoles, agent.ts).
THEOREM RolesChangeHands == Spec => []RolesSwitch
<1> DEFINE Inv == CoreInv /\ PlayedInv /\ AssignedInv
<1>1. Init => Inv
  <2> SUFFICES ASSUME Init PROVE Inv
    OBVIOUS
  <2>1. played = << >> /\ << >> \in Seq(RoleNames)
    BY EmptySeq DEF Init
  <2>2. DOMAIN played = {}
    BY <2>1
  <2> QED
    BY <2>1, <2>2, CoreStart DEF PlayedInv, AssignedInv, RolesSwitch
<1>2. Inv /\ [Next]_vars => Inv'
  <2> SUFFICES ASSUME Inv, [Next]_vars PROVE Inv'
    OBVIOUS
  <2>1. CASE Next
    BY <2>1, CoreStep, PlayedStep, AssignedStep DEF CoreInv
  <2>2. CASE UNCHANGED vars
    <3>1. UNCHANGED <<run, script, played, gone, mishaps>>
      BY <2>2 DEF vars, session, rules, historyVars
    <3>2. PlayedInv' /\ AssignedInv'
      BY <3>1 DEF PlayedInv, AssignedInv, RolesSwitch, Happened, RolesOf
    <3> QED
      BY <2>2, <3>2, CoreStutter
  <2> QED
    BY <2>1, <2>2
<1>3. Inv => RolesSwitch
  BY DEF PlayedInv
<1> HIDE DEF Inv
<1> QED
  BY <1>1, <1>2, <1>3, PTL DEF Spec

-----------------------------------------------------------------------------
(* Who is asked to return the submission. *)

\* Whoever the handler was started for left or fell silent, unless a report of a
\* completion never came.
BlameInv == handler.who # 0 => handler.who \in gone \cup hung \/ "complete" \in Troubles
\* From the start of a trial until its completions are there, whoever is there
\* tracks it, or has reported it.
TrackInv ==
    \A i \in 1 .. Len(script) :
        Running /\ script[i].do = "completions" /\ run.pc \in i - 2 .. i /\ ~disrupted =>
            \A p \in present \ hung :
                \/ page[p].track = [trial |-> script[i].trial, at |-> "current"]
                \/ run.pc = i /\ p \in completions
                \/ "complete" \in Troubles
\* What OutcomeIsDeserved says.
OutcomeInv ==
    \A p \in Pages : outcome[p] = "return" =>
        p \in gone \cup hung \/ "list" \in Troubles \/ "complete" \in Troubles

\* What comes before the completions of a trial are awaited.
LEMMA TrackingPlace ==
  ASSUME RulesTyped, NEW i \in 1 .. Len(script), script[i].do = "completions",
         NEW pc \in i - 2 .. i
  PROVE  /\ i - 3 \in 1 .. Len(script) /\ experiment \in Shared
         /\ script[i - 1].do = "forget" /\ script[i - 2].do = "try"
         /\ script[i - 3] = [do |-> "send", msg |-> "trajectory", value |-> script[i].trial]
         /\ script[i].trial \in Trials
         /\ pc \in 1 .. Len(script) /\ ~Closes(script, pc)
<1>s. Len(script) \in Nat /\ Ordered(script) /\ Bounded(script) /\ Typed(script)
  BY ScriptShape
<1>1. i > 3 /\ script[i - 1].do = "forget" /\ script[i - 2].do = "try"
      /\ script[i - 3] = [do |-> "send", msg |-> "trajectory", value |-> script[i].trial]
  BY <1>s DEF Ordered
<1>2. pc \in 1 .. Len(script) /\ script[pc].do \in {"try", "forget", "completions"}
  <2>1. pc = i \/ pc = i - 1 \/ pc = i - 2
    BY <1>s
  <2> QED
    BY <1>s, <1>1, <2>1
<1>3. ~Closes(script, pc)
  BY <1>s, <1>2, ClosesOn
<1>4. experiment \in Shared
  BY ScriptShape
<1>5. script[i].trial \in Trials
  BY <1>s DEF Typed
<1> QED
  BY <1>s, <1>1, <1>2, <1>3, <1>4, <1>5

\* A run that goes on does not stay.
LEMMA StepMoves ==
  ASSUME TypeInv, Still
  PROVE  ~Step /\ ~Go(run.pc + 2)
<1>1. run.pc \in Nat
  BY ScriptShape DEF TypeInv, RunTyped
<1>2. ASSUME NEW n \in Nat, Go(n), n # run.pc PROVE FALSE
  BY <1>2 DEF Go, Still, TypeInv, RunTyped
<1> QED
  BY <1>1, <1>2 DEF Step

\* An instruction of the rules changes a page only when the run goes on.
LEMMA RunKeepsPages ==
  ASSUME TypeInv, RunStep, Still
  PROVE  UNCHANGED page
<1> USE DEF agentIdle, waiting, roomVars
<1>1. CASE EmptiesInbox \/ HitOrTimeout \/ GateOpens \/ GateStaysShut \/ AsksForStart \/ ManualStart
  BY <1>1 DEF EmptiesInbox, HitOrTimeout, GateOpens, GateStaysShut, AsksForStart, ManualStart
<1>2. CASE EnterRule \/ RulesEnd \/ Checks \/ Block \/ Sleeps
  BY <1>2 DEF EnterRule, RulesEnd, Checks, Block, Sleeps
<1>3. CASE AssignsRoles \/ WaitEnds \/ WaitBreaks \/ WaitTimesOut
  BY <1>3 DEF AssignsRoles, WaitEnds, WaitBreaks, WaitTimesOut
<1>4. CASE LocksReported \/ LocksRecovered \/ LocksBreak \/ UploadsSettled \/ UploadsFail \/ UploadsTimeOut
  BY <1>4 DEF LocksReported, LocksRecovered, LocksBreak, UploadsSettled, UploadsFail, UploadsTimeOut
<1>5. CASE StartsRecording \/ StopsRecording \/ ForgetsRecording
  BY <1>5 DEF StartsRecording, StopsRecording, ForgetsRecording
<1>6. ~(Sends \/ AsksForLocks \/ Completes)
  BY StepMoves DEF Sends, AsksForLocks, Completes
<1> QED
  BY <1>1, <1>2, <1>3, <1>4, <1>5, <1>6 DEF RunStep

\* While the run waits undisturbed, a page's tracking ends by its own timer only.
LEMMA TrackOnly ==
  ASSUME TypeInv, HandlerInv, Next, Still, ~disrupted, NEW q \in Pages
  PROVE  page'[q].track = page[q].track \/ TrackDone(q)
<1> USE DEF TypeInv
<1>1. CASE ~Visits
  BY <1>1, VisitsOnly, Numbers DEF pageVars
<1>2. ~(Sends \/ Completes)
  BY StepMoves DEF Sends, Completes
<1>3. ~AsksForLocks
  BY StepMoves DEF AsksForLocks
<1>4. ~(HandlerLists \/ HandlerSends)
  BY DEF HandlerLists, HandlerSends, HandlerInv
<1>5. CASE HandlerEnds \/ SafetyCleanup
  BY <1>5 DEF HandlerEnds, SafetyCleanup
<1>6. ASSUME NEW p \in Pages, ClickNext(p) \/ Lock(p) \/ Esc(p) \/ TrackDone(p) \/ Reveal(p)
                              \/ Answer(p) \/ AnswerFails(p) \/ Finish(p) \/ Leave(p) \/ Hang(p)
      PROVE  page'[q].track = page[q].track \/ TrackDone(q)
  <2>1. page[p] \in PageStates
    BY DEF RoomTyped
  <2> USE DEF Becomes, RoomTyped
  <2>2. CASE ClickNext(p)
    BY <2>1, <2>2 DEF ClickNext, PageStates
  <2>3. CASE Lock(p)
    BY <2>1, <2>3 DEF Lock, PageStates
  <2>4. CASE Esc(p)
    BY <2>1, <2>4 DEF Esc, PageStates
  <2>5. CASE TrackDone(p)
    <3>1. q # p => page'[q] = page[q]
      BY <2>5 DEF TrackDone
    <3> QED
      BY <2>5, <3>1
  <2>6. CASE Reveal(p)
    BY <2>1, <2>6 DEF Reveal, PageStates
  <2>7. CASE Answer(p)
    BY <2>1, <2>7 DEF Answer, PageStates
  <2>8. CASE AnswerFails(p)
    BY <2>1, <2>8 DEF AnswerFails, PageStates
  <2>9. CASE Finish(p) \/ Leave(p) \/ Hang(p)
    BY <2>9 DEF Finish, Leave, Hang
  <2> QED
    BY <1>6, <2>2, <2>3, <2>4, <2>5, <2>6, <2>7, <2>8, <2>9
<1> QED
  BY <1>1, <1>2, <1>3, <1>4, <1>5, <1>6 DEF Visits, PageStep

\* The completions of a trial are not forgotten while the run waits.
LEMMA CompletionsStay ==
  ASSUME TypeInv, Next, Still
  PROVE  completions \subseteq completions'
<1>1. CASE ~Hears
  BY <1>1, HearsOnly, Numbers DEF reportVars
<1>2. ~(Block \/ Sends \/ Completes)
  <2>1. ASSUME Block PROVE FALSE
    <3>1. CASE Doing("leave") /\ aborted
      <4>1. run'.pc = Finally /\ run'.pc = run.pc
        BY <2>1, <3>1 DEF Block, Go, Still, TypeInv, RunTyped, Doing
      <4>2. script[Finally].do = "finally" /\ script[run.pc].do = "leave"
        BY <3>1, LeaveAhead, FinallyAhead DEF Doing, Ins
      <4> QED
        BY <4>1, <4>2
    <3>2. CASE ~(Doing("leave") /\ aborted)
      <4>1. ~LeaveRules("error") \/ run.at = "over"
        BY DEF LeaveRules, Still, TypeInv, RunTyped
      <4> QED
        BY <2>1, <3>2, <4>1, StepMoves DEF Block, Step, Doing, Running
    <3> QED
      BY <3>1, <3>2
  <2> QED
    BY <2>1, StepMoves DEF Sends, Completes
<1>3. CASE EmptiesInbox \/ HitOrTimeout \/ AsksForLocks \/ HandlerSends \/ Arrives
  BY <1>3 DEF EmptiesInbox, HitOrTimeout, AsksForLocks, HandlerSends, Arrives, handling
<1>4. CASE PageStep \/ \E p \in Pages : Esc(p) \/ LockReportLost(p)
  BY <1>4 DEF PageStep, ClickNext, Lock, TrackDone, CompletionReported, Reveal, Answer, AnswerFails,
              Finish, Esc, LockReportLost, reportVars
<1> QED
  BY <1>1, <1>2, <1>3, <1>4 DEF Hears

\* Every step keeps TrackInv.
LEMMA TrackStep ==
  ASSUME CoreInv, TrackInv, Next
  PROVE  TrackInv'
<1> USE DEF CoreInv
<1>s. script' = script /\ experiment' = experiment /\ Len(script) \in Nat
  BY RulesStay, Numbers, ScriptShape DEF TypeInv, rules
<1>t. TypeInv' /\ PlaceInv'
  BY TypeStep, PlaceStep
<1>g. /\ Troubles \subseteq Troubles' /\ MishapTyped
      /\ present' \subseteq present /\ hung \subseteq hung' /\ present \subseteq Pages
  BY MishapType, Leavers DEF TypeInv, RoomTyped
<1>d. ~disrupted' => ~disrupted
  BY Moves DEF Apart, Losing, Withdrawing, Handles, Ends
<1> SUFFICES ASSUME NEW i \in 1 .. Len(script), Running', script[i].do = "completions",
                    run'.pc \in i - 2 .. i, ~disrupted', NEW p \in present' \ hung'
             PROVE  \/ page'[p].track = [trial |-> script[i].trial, at |-> "current"]
                    \/ run'.pc = i /\ p \in completions'
                    \/ "complete" \in Troubles'
  BY <1>s DEF TrackInv
<1> DEFINE trial == script[i].trial
<1>1. /\ i - 3 \in 1 .. Len(script) /\ run'.at = "going" /\ experiment \in Shared
      /\ script[i - 1].do = "forget" /\ script[i - 2].do = "try"
      /\ script[i - 3] = [do |-> "send", msg |-> "trajectory", value |-> trial]
      /\ trial \in Trials
  <2>1. run'.pc \in 1 .. Len(script) /\ ~Closes(script, run'.pc)
    BY TrackingPlace DEF TypeInv
  <2>2. run'.at # "throwing"
    BY <1>s, <1>t, <2>1 DEF PlaceInv, Closes
  <2> QED
    BY <2>2, TrackingPlace DEF TypeInv, Running
<1> HIDE DEF trial
<1>2. p \in present \ hung /\ p \in Pages /\ p \in present
  BY <1>g
<1>3. CASE UNCHANGED run
  <2>1. Running /\ run.pc \in i - 2 .. i /\ ~disrupted
    BY <1>s, <1>3, <1>d DEF Running
  <2>2. \/ page[p].track = [trial |-> trial, at |-> "current"]
        \/ run.pc = i /\ p \in completions
        \/ "complete" \in Troubles
    BY <1>2, <2>1 DEF TrackInv, trial
  <2>3. completions \subseteq completions'
    BY <1>3, CompletionsStay DEF Still
  <2>4. CASE page'[p].track = page[p].track
    BY <1>3, <1>g, <2>2, <2>3, <2>4 DEF trial
  <2>5. CASE TrackDone(p) /\ page'[p].track # page[p].track
    <3>1. Awaiting
      <4>1. ~RunStep
        BY <1>3, <2>5, RunKeepsPages DEF Still
      <4> QED
        BY <4>1 DEF Next
    <3>2. run.pc = i
      <4>1. run.pc = i \/ run.pc = i - 1 \/ run.pc = i - 2
        BY <1>s, <2>1
      <4>2. run.pc # i - 2
        BY <1>1, <2>1, <2>5 DEF TrackDone, Doing, Ins
      <4>3. CASE run.pc = i - 1
        <5>1. Ins.do = "forget" /\ script[run.pc - 1].do = "try" /\ run.pc > 1
          BY <1>1, <4>3 DEF Ins
        <5> QED
          BY <2>1, <3>1, <5>1 DEF Awaiting, Polls, Awaits
      <4> QED
        BY <4>1, <4>2, <4>3
    <3>3. CASE page[p].track = [trial |-> trial, at |-> "current"]
      <4>1. CurrentTrial = trial
        BY <2>1, <3>2 DEF CurrentTrial, Doing, Ins, trial
      <4>2. CompletionReported(p, trial) \/ Mishap("complete")
        BY <2>5, <3>3 DEF TrackDone
      <4>3. CASE CompletionReported(p, trial)
        BY <1>3, <3>2, <4>1, <4>3 DEF CompletionReported
      <4>4. CASE Mishap("complete")
        BY <1>g, <4>4, MishapCounts
      <4> QED
        BY <4>2, <4>3, <4>4
    <3> QED
      BY <1>3, <1>g, <2>2, <2>3, <3>2, <3>3
  <2> QED
    BY <1>2, <1>3, <2>1, <2>4, <2>5, TrackOnly DEF Still
<1>4. CASE run' # run
  <2>1. /\ run.at = "going" /\ Running /\ run.pc \in 1 .. Len(script)
        /\ \/ run'.pc = run.pc + 1
           \/ run'.pc <= Len(script)
                => script[run'.pc].do \notin {"try", "forget", "completions", "stopped"}
    BY <1>1, <1>4, GoingOn
  <2>2. run'.pc = i \/ run'.pc = i - 1 \/ run'.pc = i - 2
    BY <1>s
  <2>3. run'.pc = run.pc + 1
    <3>1. run'.pc <= Len(script) /\ script[run'.pc].do \in {"try", "forget", "completions"}
      BY <1>s, <1>1, <2>2
    <3> QED
      BY <2>1, <3>1
  <2>4. CASE run.pc = i - 3
    <3>1. Ins = [do |-> "send", msg |-> "trajectory", value |-> trial]
      BY <1>1, <2>4 DEF Ins
    <3>2. Sends \/ SendFails
      BY <1>4, <2>1, <3>1, Executes DEF Still
    <3>3. ~SendFails
      <4>1. SendFails => Throw
        BY <2>1, <3>1 DEF SendFails, Doing
      <4>2. Throw => run'.at # "going"
        BY <2>1 DEF Throw, LeaveRules, TypeInv, RunTyped
      <4> QED
        BY <1>1, <4>1, <4>2
    <3>4. Send("trajectory", trial)
      BY <3>1, <3>2, <3>3 DEF Sends
    <3>5. page'[p] = [page[p] EXCEPT !.track = [trial |-> trial, at |-> "current"]]
      BY <1>1, <1>2, <3>4, Numbers DEF Send, Hear, React
    <3>6. page[p] \in PageStates
      BY <1>2 DEF TypeInv, RoomTyped
    <3> QED
      BY <3>5, <3>6 DEF PageStates, trial
  <2>5. CASE run.pc = i - 2 \/ run.pc = i - 1
    <3>1. Running /\ run.pc \in i - 2 .. i /\ run.pc # i /\ ~disrupted
      BY <1>s, <2>1, <2>5, <1>d
    <3>2. page[p].track = [trial |-> trial, at |-> "current"] \/ "complete" \in Troubles
      BY <1>2, <3>1 DEF TrackInv, trial
    <3>3. Block
      <4>1. Ins.do \in {"try", "forget"}
        BY <1>1, <2>5 DEF Ins
      <4> QED
        BY <1>4, <2>1, <4>1, Executes DEF Still
    <3>4. page' = page
      BY <3>3 DEF Block
    <3> QED
      BY <1>g, <3>2, <3>4 DEF trial
  <2> QED
    BY <2>1, <2>2, <2>3, <2>4, <2>5
<1> QED
  BY <1>3, <1>4

\* The handler is started for nobody in particular, for somebody who left, or for
\* somebody who did not report a completion in time.
LEMMA BlameStarts ==
  ASSUME CoreInv, Next, handler' # handler
  PROVE  \/ handler'.who = handler.who
         \/ handler'.who = 0
         \/ handler'.who \in gone
         \/ /\ Doing("completions") /\ ~disrupted /\ present = Pages /\ Patience("complete", "complete")
            /\ handler'.who \in Pages \ completions /\ UNCHANGED <<hung, present>>
<1> USE DEF CoreInv, TypeInv, HandlerTyped, HandlerStates
<1>1. CASE ~Disrupts
  BY <1>1, DisruptsOnly, Numbers DEF handlerVars
<1>2. CASE WaitBreaks \/ LocksBreak
  BY <1>2 DEF WaitBreaks, LocksBreak, LosesParticipant
<1>3. CASE WaitTimesOut
  <2>1. present = Pages
    BY <1>3, BothOrFewer DEF WaitTimesOut, Absent, RoomTyped
  <2>2. Doing("completions") /\ Patience("complete", "complete") /\ UNCHANGED <<hung, present>>
    BY <1>3 DEF WaitTimesOut, roomVars, Doing
  <2>3. PICK who \in IF Paired \subseteq completions THEN {0} ELSE Paired \ completions :
                LosesParticipant("inactive", who)
    BY <1>3 DEF WaitTimesOut
  <2>4. handler'.who = who /\ ~disrupted
    BY <2>3 DEF LosesParticipant
  <2>5. who = 0 \/ who \in Pages \ completions
    BY <2>3 DEF Paired
  <2> QED
    BY <2>1, <2>2, <2>4, <2>5
<1>4. CASE HandlerStep
  <2>1. handler' = [handler EXCEPT !.at = 9] \/ NextStep
    BY <1>4 DEF HandlerStep, HandlerLists, HandlerSends, HandlerStops, HandlerSkips, HandlerForgets,
                HandlerEnds
  <2> QED
    BY <2>1 DEF NextStep
<1>5. CASE Arrives
  <2>1. PICK m \in posts : StatusArrives(m) \/ WithdrawArrives(m) \/ HitArrives(m)
    BY <1>5 DEF Arrives
  <2>2. m.kind = "withdraw" /\ handler' = [at |-> 1, by |-> "report", who |-> m.from, why |-> "withdrawal"]
    BY <2>1 DEF StatusArrives, WithdrawArrives, HitArrives
  <2> QED
    BY <2>1, <2>2 DEF WithdrawInv
<1>6. CASE OperatorStops
  BY <1>6 DEF OperatorStops
<1> QED
  BY <1>1, <1>2, <1>3, <1>4, <1>5, <1>6 DEF Disrupts

\* Whoever did not report in time hangs, or the report never came.
LEMMA SilentHangs ==
  ASSUME CoreInv, TrackInv, Doing("completions"), ~disrupted, present = Pages,
         Patience("complete", "complete"), NEW who \in Pages \ completions
  PROVE  who \in hung \/ "complete" \in Troubles \/ "complete" \in Troubles'
<1> SUFFICES ASSUME who \notin hung, "complete" \notin Troubles
             PROVE  "complete" \in Troubles'
  OBVIOUS
<1>1. run.pc \in 1 .. Len(script) /\ Running /\ script[run.pc].do = "completions"
  BY ScriptShape DEF CoreInv, TypeInv, RunTyped, Doing, Running, Ins
<1>2. run.pc \in run.pc - 2 .. run.pc
  BY <1>1, ScriptShape DEF CoreInv, TypeInv
<1>3. page[who].track = [trial |-> script[run.pc].trial, at |-> "current"]
  BY <1>1, <1>2 DEF TrackInv
<1>4. StillExpected("complete")
  BY <1>3 DEF StillExpected
<1>5. Mishap("complete") /\ MishapTyped
  BY <1>4 DEF Patience, CoreInv, TypeInv
<1> QED
  BY <1>5, MishapCounts

\* Every step keeps BlameInv.
LEMMA BlameStep ==
  ASSUME CoreInv, TrackInv, BlameInv, Next
  PROVE  BlameInv'
<1>1. gone \subseteq gone' /\ hung \subseteq hung' /\ Troubles \subseteq Troubles'
  BY Leavers, MishapType DEF CoreInv, TypeInv
<1>2. CASE handler' = handler \/ handler'.who = handler.who \/ handler'.who = 0 \/ handler'.who \in gone
  BY <1>1, <1>2 DEF BlameInv
<1>3. CASE /\ Doing("completions") /\ ~disrupted /\ present = Pages /\ Patience("complete", "complete")
           /\ handler'.who \in Pages \ completions /\ UNCHANGED <<hung, present>>
  BY <1>1, <1>3, SilentHangs DEF BlameInv
<1> QED
  BY <1>2, <1>3, BlameStarts

\* While the run lets the handler look for whoever is missing, the end of the
\* session was not announced.
LEMMA LookingBeforeEnd ==
  ASSUME CoreInv, handler.at = 1, handler.who = 0
  PROVE  ~PastEnd
<1> USE DEF CoreInv
<1>s. Len(script) \in Nat /\ Bounded(script)
  BY ScriptShape DEF TypeInv
<1>1. handler.by = "run"
  BY Numbers DEF TypeInv, HandlerTyped, HandlerStates, HandlerInv, ReportInv, RoomTyped
<1>2. run.pc \in 1 .. Len(script) /\ script[run.pc].do \in Waits
  BY <1>s, <1>1 DEF HandlerInv, PlaceInv, TypeInv, RunTyped, Ins
<1>3. ASSUME NEW i \in 1 .. run.pc - 1, script[i].do = "complete" PROVE FALSE
  <2>1. i \in 1 .. Len(script) /\ run.pc \in i .. Len(script)
    BY <1>s, <1>2
  <2> QED
    BY <1>s, <1>2, <1>3, <2>1 DEF Bounded
<1> QED
  BY <1>3 DEF PastEnd

\* Every step keeps OutcomeInv.
LEMMA OutcomeStep ==
  ASSUME CoreInv, BlameInv, OutcomeInv, Next
  PROVE  OutcomeInv'
<1>1. gone \subseteq gone' /\ hung \subseteq hung' /\ Troubles \subseteq Troubles' /\ MishapTyped
  BY Leavers, MishapType DEF CoreInv, TypeInv
<1>2. CASE outcome' = outcome
  BY <1>1, <1>2 DEF OutcomeInv
<1>3. CASE HandlerLists /\ outcome' # outcome
  <2>1. PICK active \in {present, {}} :
          LET known   == Paired \cup active \cup (IF handler.who = 0 THEN {} ELSE {handler.who})
              suspect == IF handler.who # 0 THEN {handler.who} ELSE Missing(known, active)
          IN
          /\ active # present => Mishap("list")
          /\ IF suspect = {} THEN UNCHANGED outcome
             ELSE \E who \in suspect : outcome' = Outcomes(known, who)
    BY <1>3 DEF HandlerLists
  <2> DEFINE known   == Paired \cup active \cup (IF handler.who = 0 THEN {} ELSE {handler.who})
             suspect == IF handler.who # 0 THEN {handler.who} ELSE Missing(known, active)
  <2>2. PICK who \in suspect : outcome' = Outcomes(known, who)
    BY <1>3, <2>1
  <2>3. known \subseteq Pages
    BY DEF CoreInv, TypeInv, RoomTyped, HandlerTyped, HandlerStates, Paired, Nobody
  <2>4. \A p \in Pages : outcome'[p] = "return" => p = who
    BY <2>2 DEF Outcomes
  <2>5. who \in gone \cup hung \/ "complete" \in Troubles \/ "list" \in Troubles'
    <3>1. CASE handler.who # 0
      BY <2>2, <3>1 DEF BlameInv
    <3>2. CASE handler.who = 0
      <4>1. who \in Pages \ active
        BY <2>2, <2>3, <3>2 DEF Missing
      <4>2. CASE active # present
        BY <1>1, <2>1, <4>2, MishapCounts
      <4>3. CASE active = present
        <5>1. handler.at = 1
          BY <1>3 DEF HandlerLists
        <5>2. ~PastEnd
          BY <3>2, <5>1, LookingBeforeEnd
        <5>3. present \cup gone = Pages
          BY <5>1, <5>2 DEF CoreInv, RoomInv
        <5> QED
          BY <4>1, <4>3, <5>3
      <4> QED
        BY <4>2, <4>3
    <3> QED
      BY <3>1, <3>2
  <2> QED
    BY <1>1, <2>4, <2>5 DEF OutcomeInv
<1> QED
  BY <1>2, <1>3, RarelyChanged, Numbers

\* In every session a participant is asked to return the submission only after
\* leaving the room or falling silent, unless a listing failed or a page's report
\* of a completion was lost (buildParticipantTerminationOutcomes, agent.ts).
THEOREM ReturnsAreDeserved == Spec => []OutcomeIsDeserved
<1> DEFINE Inv == CoreInv /\ TrackInv /\ BlameInv /\ OutcomeInv
<1>1. Init => Inv
  <2> SUFFICES ASSUME Init PROVE Inv
    OBVIOUS
  <2>1. handler.who = 0 /\ run.pc = 1 /\ outcome = [p \in Pages |-> "none"]
    BY DEF Init
  <2>2. CoreInv
    BY CoreStart
  <2>3. TrackInv
    <3> SUFFICES ASSUME NEW i \in 1 .. Len(script), script[i].do = "completions", 1 \in i - 2 .. i
                 PROVE  FALSE
      BY <2>1 DEF TrackInv
    <3>1. i - 3 \in 1 .. Len(script) /\ Len(script) \in Nat
      BY <2>2, TrackingPlace, ScriptShape DEF CoreInv, TypeInv
    <3> QED
      BY <3>1
  <2> QED
    BY <2>1, <2>2, <2>3 DEF BlameInv, OutcomeInv
<1>2. Inv /\ [Next]_vars => Inv'
  <2> SUFFICES ASSUME Inv, [Next]_vars PROVE Inv'
    OBVIOUS
  <2>1. CASE Next
    BY <2>1, CoreStep, TrackStep, BlameStep, OutcomeStep
  <2>2. CASE UNCHANGED vars
    <3>1. /\ UNCHANGED <<run, script, handler, disrupted, outcome, completions, gone, mishaps>>
          /\ UNCHANGED <<page, present, hung>>
      BY <2>2 DEF vars, session, rules, agentVars, reportVars, roomVars, historyVars
    <3>2. TrackInv' /\ BlameInv' /\ OutcomeInv'
      BY <3>1 DEF TrackInv, BlameInv, OutcomeInv, Troubles, Running
    <3> QED
      BY <2>2, <3>2, CoreStutter
  <2> QED
    BY <2>1, <2>2
<1>3. Inv => OutcomeIsDeserved
  BY DEF OutcomeInv, OutcomeIsDeserved, Happened, Troubles
<1> HIDE DEF Inv
<1> QED
  BY <1>1, <1>2, <1>3, PTL DEF Spec

-----------------------------------------------------------------------------
(* The recording of an unfinished trial. *)

\* No recorder is on or about to be; or the stop was missed, and it may start later.
Off == admin.missed \/ (admin.on = 0 /\ admin.timer = 0)
\* Nor does the agent think of one.
Idle == recording = 0 /\ Off
\* The agent records, and nothing that is under way says otherwise.
On == /\ recording # 0 /\ recStatus = "recording" /\ cloud[recording] = "none"
      /\ \A m \in posts : m.kind = "status" /\ m.trial = recording => m.says = "recording"
      /\ \/ admin.missed
         \/ admin.on = recording /\ admin.timer = 0
         \/ admin.on = 0 /\ admin.timer = recording
\* The recordings that are still to come left no trace.
FreshInv ==
    \A j \in run.pc .. Len(script) : run.at = "going" /\ script[j].do = "record" =>
        /\ cloud[script[j].trial] = "none"
        /\ script[j].trial \notin {recording, admin.on, admin.timer}
        /\ \A m \in posts : m.kind = "status" => m.trial # script[j].trial

\* No message to the room turns the recorder on or off, and only metadata gives
\* it metadata.
LEMMA NoteKeeps ==
  ASSUME RecorderTyped, NEW msg, NEW value, Note(msg, value)
  PROVE  /\ admin'.on = admin.on /\ admin'.timer = admin.timer /\ admin'.missed = admin.missed
         /\ msg # "metadata" => admin'.meta = admin.meta /\ admin'.pending = admin.pending
<1>1. CASE msg = "metadata"
  BY <1>1 DEF RecorderTyped, Note, MetadataHeard
<1>2. CASE msg = "trajectory"
  BY <1>2 DEF RecorderTyped, Note, TrajectoryHeard
<1>3. CASE msg = "detector"
  BY <1>3 DEF RecorderTyped, Note, DetectorHeard
<1>4. CASE msg \notin {"metadata", "trajectory", "detector"}
  BY <1>4 DEF RecorderTyped, Note
<1> QED
  BY <1>1, <1>2, <1>3, <1>4

\* The recorder is left alone, and no status report is added.
Quiet == /\ UNCHANGED <<recording, recStatus, uploads, cloud, kept>>
         /\ admin'.on = admin.on /\ admin'.timer = admin.timer /\ admin'.missed = admin.missed
         /\ \A m \in posts' : m.kind = "status" => m \in posts
\* The steps of the run and of the handler that turn it on or off.
Switches == StartsRecording \/ StopsRecording \/ ForgetsRecording \/ UploadsSettled
            \/ HandlerStops \/ HandlerForgets \/ SendFails

\* Every other step is quiet.
LEMMA QuietSteps ==
  ASSUME TypeInv, Next, ~Switches, ~Recorder, ~AdminReloads, ~Arrives
  PROVE  Quiet
<1> USE DEF TypeInv
<1>1. CASE ~Records
  BY <1>1, RecordsOnly, Numbers DEF recordingVars, Quiet
<1>2. CASE Sends \/ AsksForLocks \/ Completes
  <2>1. UNCHANGED admin \/ \E msg, value : Note(msg, value)
    BY <1>2 DEF Sends, AsksForLocks, Completes, Send
  <2>2. UNCHANGED <<recording, recStatus, uploads, cloud, kept, posts>>
    BY <1>2 DEF Sends, AsksForLocks, Completes
  <2> QED
    BY <2>1, <2>2, NoteKeeps DEF Quiet
<1>3. CASE HandlerSends
  <2>1. UNCHANGED admin \/ \E msg, value : Note(msg, value)
    BY <1>3 DEF HandlerSends, Send
  <2> QED
    BY <1>3, <2>1, NoteKeeps DEF Quiet, HandlerSends
<1>4. CASE DetectorFires
  <2>1. admin'.on = admin.on /\ admin'.timer = admin.timer /\ admin'.missed = admin.missed
    BY <1>4 DEF DetectorFires, RecorderTyped
  <2>2. \A m \in posts' : m.kind = "status" => m \in posts
    <3> DEFINE report == [kind |-> "hit", from |-> 0, trial |-> admin.detector, says |-> ""]
    <3>1. posts' = posts \cup {report} /\ report.kind = "hit"
      BY <1>4 DEF DetectorFires
    <3> HIDE DEF report
    <3> QED
      BY <3>1
  <2>3. UNCHANGED <<recording, recStatus, uploads, cloud, kept>>
    BY <1>4 DEF DetectorFires, agentVars
  <2> QED
    BY <2>1, <2>2, <2>3 DEF Quiet
<1>5. CASE ReportFails
  BY <1>5 DEF ReportFails, Quiet, agentVars, recorderVars
<1>6. ASSUME NEW p \in Pages, Leave(p)
      PROVE  Quiet
  <2>1. UNCHANGED <<recording, recStatus, uploads, admin, cloud, kept>>
    BY <1>6 DEF Leave, agentVars, recorderVars
  <2>2. \A m \in posts' : m.kind = "status" => m \in posts
    <3> DEFINE report == [kind |-> "withdraw", from |-> p, trial |-> 0, says |-> ""]
    <3>1. (posts' = posts \cup {report} \/ posts' = posts) /\ report.kind = "withdraw"
      BY <1>6 DEF Leave
    <3> HIDE DEF report
    <3> QED
      BY <3>1
  <2> QED
    BY <2>1, <2>2 DEF Quiet
<1> QED
  BY <1>1, <1>2, <1>3, <1>4, <1>5, <1>6 DEF Records, Switches

\* What the state of the recorder keeps.
Steady == (Off => Off') /\ (Idle => Idle') /\ (On => On')
\* A quiet step keeps it.
LEMMA QuietKeeps ==
  ASSUME Quiet
  PROVE  Steady
BY DEF Quiet, Steady, Off, Idle, On

\* So do the recorder's timer, the end of an upload, and the reports.
LEMMA RecorderKeeps ==
  ASSUME TypeInv, Recorder \/ Arrives
  PROVE  Steady
<1> USE DEF TypeInv
<1>1. CASE TimerFires
  <2>1. admin.timer # 0 /\ UNCHANGED <<recording, recStatus, cloud>>
    BY <1>1 DEF TimerFires, agentVars
  <2>2. admin'.on = admin.timer /\ admin'.timer = 0 /\ admin'.missed = admin.missed
    BY <1>1 DEF TimerFires, StartRecording, RecorderTyped
  <2>3. \A m \in posts' : m \in posts \/ m.says = "recording"
    BY <1>1 DEF TimerFires
  <2> QED
    BY <2>1, <2>2, <2>3 DEF Steady, Off, Idle, On
<1>2. ASSUME NEW t \in Trials, UploadEnds(t)
      PROVE  Steady
  <2>1. cloud[t] = "uploading" /\ UNCHANGED <<recording, recStatus, admin>>
    BY <1>2 DEF UploadEnds, agentVars
  <2>2. \A r \in Trials : r # t => cloud'[r] = cloud[r]
    BY <1>2 DEF UploadEnds, RecordingTyped
  <2>3. \A m \in posts' : m \in posts \/ m.trial = t
    BY <1>2 DEF UploadEnds
  <2> QED
    BY <2>1, <2>2, <2>3 DEF Steady, Off, Idle, On, RecordingTyped
<1>3. CASE Arrives
  <2>1. PICK m \in posts : /\ StatusArrives(m) \/ WithdrawArrives(m) \/ HitArrives(m)
                           /\ posts' = posts \ {m}
    BY <1>3 DEF Arrives
  <2>2. UNCHANGED <<recording, admin, cloud>>
    BY <1>3, <2>1 DEF Arrives, StatusArrives, WithdrawArrives, HitArrives, recorderVars
  <2>3. \/ recStatus' = recStatus
        \/ m.kind = "status" /\ recording \in {0, m.trial} /\ recStatus' = m.says
    BY <2>1 DEF StatusArrives, WithdrawArrives, HitArrives, Concerned
  <2> QED
    BY <2>1, <2>2, <2>3 DEF Steady, Off, Idle, On
<1> QED
  BY <1>1, <1>2, <1>3 DEF Recorder

\* The recorder that is told to stop is off, or the command was missed.
LEMMA StopTurnsOff ==
  ASSUME RecorderTyped, On \/ Off, HearsStop
  PROVE  Off'
<1>1. CASE admin.on = 0
  BY <1>1 DEF HearsStop, RecorderTyped, Off
<1>2. CASE admin.on # 0
  <2>1. admin'.on = 0 /\ admin'.timer = admin.timer /\ admin'.missed = admin.missed
    BY <1>2 DEF HearsStop, StopRecording, RecorderTyped
  <2> QED
    BY <1>2, <2>1 DEF Off, On
<1> QED
  BY <1>1, <1>2

\* Stopping the recorder concerns the trial it records only.
LEMMA StopConcerns ==
  ASSUME RecordingTyped, RecorderTyped, HearsStop
  PROVE  /\ \A t \in Trials : t # admin.on => cloud'[t] = cloud[t]
         /\ \A m \in posts' : m \in posts \/ m.trial = admin.on
         /\ admin'.on \in {0, admin.on} /\ admin'.timer = admin.timer
<1>1. CASE admin.on = 0
  BY <1>1 DEF HearsStop, RecorderTyped
<1>2. CASE admin.on # 0
  <2>1. \A t \in Trials : t # admin.on => cloud'[t] = cloud[t]
    BY <1>2 DEF HearsStop, StopRecording, RecordingTyped
  <2>2. \A m \in posts' : m \in posts \/ m.trial = admin.on
    BY <1>2 DEF HearsStop
  <2>3. admin'.on = 0 /\ admin'.timer = admin.timer
    BY <1>2 DEF HearsStop, StopRecording, RecorderTyped
  <2> QED
    BY <2>1, <2>2, <2>3
<1> QED
  BY <1>1, <1>2

\* Every step keeps FreshInv.
LEMMA FreshStep ==
  ASSUME CoreInv, FreshInv, Next
  PROVE  FreshInv'
<1> USE DEF CoreInv, TypeInv
<1>s. script' = script /\ Len(script) \in Nat
  BY RulesStay, Numbers, ScriptShape DEF rules
<1> SUFFICES ASSUME NEW j \in run'.pc .. Len(script), run'.at = "going", script[j].do = "record"
             PROVE  /\ cloud'[script[j].trial] = "none"
                    /\ script[j].trial \notin {recording', admin'.on, admin'.timer}
                    /\ \A m \in posts' : m.kind = "status" => m.trial # script[j].trial
  BY <1>s DEF FreshInv
<1> DEFINE trial == script[j].trial
<1>1. run.at = "going" /\ j \in run.pc .. Len(script) /\ j \in 1 .. Len(script) /\ run.pc \in Nat
  BY <1>s, GoingOn, NeverBack DEF RunTyped
<1>2. /\ cloud[trial] = "none" /\ trial \notin {recording, admin.on, admin.timer}
      /\ \A m \in posts : m.kind = "status" => m.trial # trial
  BY <1>1 DEF FreshInv
<1>3. trial \in Trials /\ trial # 0
  BY <1>s, <1>1, ScriptShape, Numbers DEF Typed
<1> HIDE DEF trial
<1> SUFFICES /\ cloud'[trial] = "none" /\ trial \notin {recording', admin'.on, admin'.timer}
             /\ \A m \in posts' : m.kind = "status" => m.trial # trial
  BY DEF trial
<1>4. CASE Quiet
  BY <1>2, <1>4 DEF Quiet
<1>5. CASE Recorder
  <2>1. CASE TimerFires
    BY <1>2, <1>3, <2>1 DEF TimerFires, StartRecording, RecorderTyped, agentVars
  <2>2. ASSUME NEW t \in Trials, UploadEnds(t)
        PROVE  /\ cloud'[trial] = "none" /\ trial \notin {recording', admin'.on, admin'.timer}
               /\ \A m \in posts' : m.kind = "status" => m.trial # trial
    <3>1. cloud[t] = "uploading" /\ UNCHANGED <<recording, admin>>
      BY <2>2 DEF UploadEnds, agentVars
    <3>2. cloud'[trial] = cloud[trial]
      BY <1>2, <1>3, <2>2, <3>1 DEF UploadEnds, RecordingTyped
    <3>3. \A m \in posts' : m \in posts \/ m.trial = t
      BY <2>2 DEF UploadEnds
    <3> QED
      BY <1>2, <3>1, <3>2, <3>3
  <2> QED
    BY <1>5, <2>1, <2>2 DEF Recorder
<1>6. CASE AdminReloads
  BY <1>2, <1>3, <1>6 DEF AdminReloads, FreshAdmin, agentVars
<1>7. CASE Arrives
  BY <1>2, <1>7 DEF Arrives, StatusArrives, WithdrawArrives, HitArrives, recorderVars
<1>8. CASE ForgetsRecording \/ HandlerForgets \/ UploadsSettled
  BY <1>2, <1>3, <1>8 DEF ForgetsRecording, HandlerForgets, UploadsSettled, recorderVars, waiting
<1>9. CASE StopsRecording \/ HandlerStops
  <2>1. recording' = recording /\ (HearsStop \/ UNCHANGED <<recorderVars, posts>>)
    BY <1>9 DEF StopsRecording, HandlerStops
  <2> QED
    BY <1>2, <1>3, <2>1, StopConcerns DEF recorderVars
<1>10. CASE StartsRecording
  <2>1. CASE UNCHANGED <<recording, admin>>
    BY <1>2, <1>10, <2>1 DEF StartsRecording
  <2>2. CASE BeginsRecording /\ HearsStart(Ins.trial)
    <3>1. run.pc \in 1 .. Len(script) /\ script[run.pc].do = "record" /\ Ins = script[run.pc] /\ run'.pc = run.pc + 1
      BY <1>s, <1>10 DEF StartsRecording, Doing, Running, Ins, RunTyped, Step, Go
    <3>2. run.pc < j
      BY <1>1, <3>1
    <3>3. Ins.trial # trial
      BY <1>1, <3>1, <3>2, ScriptShape DEF Numbered, trial
    <3>4. recording' = Ins.trial /\ admin'.timer = Ins.trial /\ admin'.on = admin.on
      BY <2>2 DEF BeginsRecording, HearsStart, RecorderTyped
    <3> QED
      BY <1>2, <1>10, <3>3, <3>4 DEF StartsRecording
  <2> QED
    BY <1>10, <2>1, <2>2 DEF StartsRecording
<1>11. CASE SendFails
  <2>1. ~Throw
    BY DEF Throw, LeaveRules, RunTyped
  <2>2. UNCHANGED <<recording, recorderVars, posts>>
    BY <1>11, <2>1 DEF SendFails
  <2> QED
    BY <1>2, <2>2 DEF recorderVars
<1> QED
  BY <1>4, <1>5, <1>6, <1>7, <1>8, <1>9, <1>10, <1>11, QuietSteps DEF Switches

\* The uploads are awaited, or the end was announced.
PastClose == \E i \in 1 .. run.pc - 1 : script[i].do \in {"complete", "uploads"}
\* Neither the operator, nor a reload of the admin's page, nor a handler beside
\* the run interferes.
Calm == "stop" \notin Troubles /\ "reload" \notin Troubles /\ handler.by # "report"
\* The recording on the way was started by an instruction before this one.
Begun == \E k \in 1 .. run.pc - 1 :
            script[k].do = "record" /\ \A q \in k .. run.pc - 1 : script[q].do # "stop"
\* Between the instructions a recording is off or on; what was on when somebody
\* was lost is off when the handler is done.
RunRecordInv ==
    Calm /\ handler.at = 0 /\ run.at = "going" /\ ~PastClose =>
        IF Running /\ Ins.do = "stopped" THEN Off ELSE Idle \/ (On /\ Begun)
\* The message that stops it was refused.
Refused == recording # 0 /\ "send" \in Troubles
LossRecordInv ==
    Calm => /\ handler.at \in 1 .. 7 => Idle \/ On
            /\ handler.at = 8 => Off
            /\ handler.at \in 9 .. 10 => Idle \/ Refused

\* What was calm up to now was calm before.
LEMMA CalmBefore ==
  ASSUME CoreInv, Next, Calm'
  PROVE  /\ Calm /\ ~AdminReloads /\ (handler.at # 10 => ~aborted)
         /\ handler.at # 0 => handler.by = "run" /\ run.at # "going"
<1>1. Troubles \subseteq Troubles' /\ MishapTyped
  BY MishapType DEF CoreInv, TypeInv
<1>2. handler.by # "report"
  BY Moves DEF CoreInv, HandlerInv, Apart, Losing, Withdrawing, Handles, Ends, Calm
<1>3. ~AdminReloads
  BY <1>1, MishapCounts DEF Calm, AdminReloads
<1>4. Calm
  BY <1>1, <1>2 DEF Calm
<1>5. handler.at # 10 => ~aborted
  BY <1>4 DEF Calm, CoreInv, AbortInv
<1>6. handler.at # 0 => handler.by = "run" /\ run.at # "going"
  BY <1>2 DEF CoreInv, HandlerInv, TypeInv, HandlerTyped, HandlerStates
<1> QED
  BY <1>3, <1>4, <1>5, <1>6

\* What is announced stays announced.
LEMMA PastCloseStays ==
  ASSUME TypeInv, Next, PastClose
  PROVE  PastClose'
<1>1. script' = script
  BY RulesStay, Numbers DEF rules
<1>2. PICK i \in 1 .. run.pc - 1 : script[i].do \in {"complete", "uploads"}
  BY DEF PastClose
<1>3. i \in 1 .. run'.pc - 1
  BY <1>2, NeverBack
<1> QED
  BY <1>1, <1>2, <1>3 DEF PastClose

\* Only a run that goes on starts or stops a recording.
LEMMA OnlyGoing ==
  ASSUME CoreInv, run.at # "going"
  PROVE  ~(StartsRecording \/ StopsRecording \/ ForgetsRecording \/ UploadsSettled)
<1>1. ASSUME NEW w \in {"record", "stop", "stopped", "uploads"}, Doing(w)
      PROVE  FALSE
  <2>1. run.at = "throwing" /\ run.pc \in 1 .. Len(script) /\ script[run.pc].do = w /\ Len(script) \in Nat
    BY <1>1, ScriptShape DEF CoreInv, TypeInv, RunTyped, Doing, Running, Ins
  <2> QED
    BY <2>1, ClosesOn, ScriptShape DEF CoreInv, TypeInv, PlaceInv
<1> QED
  BY <1>1 DEF StartsRecording, StopsRecording, ForgetsRecording, UploadsSettled

\* A message that is refused in a finally block concerns no recording.
LEMMA RefusedElsewhere ==
  ASSUME CoreInv, SendFails, ~Doing("record"), ~Doing("stop")
  PROVE  Steady /\ UNCHANGED recording
<1>1. UNCHANGED <<recording, recStatus, admin, cloud, posts>>
  BY DEF SendFails, recorderVars
<1> QED
  BY <1>1 DEF Steady, Off, Idle, On

\* While a loss is handled, and after it, what was on goes off and stays off.
LEMMA LossRecordStep ==
  ASSUME CoreInv, RunRecordInv, LossRecordInv, Next
  PROVE  LossRecordInv'
<1> SUFFICES ASSUME Calm'
             PROVE  /\ handler'.at \in 1 .. 7 => Idle' \/ On'
                    /\ handler'.at = 8 => Off'
                    /\ handler'.at \in 9 .. 10 => Idle' \/ Refused'
  BY DEF LossRecordInv
<1> USE DEF CoreInv
<1>c. /\ Calm /\ ~AdminReloads /\ (handler.at # 10 => ~aborted)
      /\ handler.at # 0 => handler.by = "run" /\ run.at # "going"
  BY CalmBefore
<1>h. handler.at \in 0 .. 10
  BY DEF TypeInv, HandlerTyped, HandlerStates, Steps
<1>1. CASE HandlerStops
  <2>1. handler.at = 7 /\ ~aborted /\ (Idle \/ On)
    BY <1>1, <1>c DEF HandlerStops, LossRecordInv
  <2>2. CASE On
    <3>1. RecordsOn
      BY <1>1, <2>1, <2>2 DEF RecordsOn, On
    <3>2. CASE HearsStop /\ NextStep
      <4>1. handler'.at = 8
        BY <2>1, <3>2 DEF NextStep, TypeInv, HandlerTyped, HandlerStates
      <4> QED
        BY <2>2, <3>2, <4>1, StopTurnsOff DEF TypeInv
    <3>3. CASE HandlerSkips /\ Mishap("send")
      <4>1. handler'.at = 9
        BY <2>1, <3>3 DEF HandlerSkips, TypeInv, HandlerTyped, HandlerStates
      <4>2. "send" \in Troubles'
        BY <3>3, MishapCounts DEF TypeInv
      <4>3. recording' # 0
        BY <1>1, <2>2 DEF HandlerStops, On
      <4> QED
        BY <4>1, <4>2, <4>3 DEF Refused
    <3> QED
      BY <1>1, <3>1, <3>2, <3>3 DEF HandlerStops
  <2>3. CASE Idle
    <3>1. handler' = [handler EXCEPT !.at = 9] /\ UNCHANGED <<recording, recorderVars>>
      BY <1>1, <2>3 DEF HandlerStops, HandlerSkips, RecordsOn, Idle
    <3>2. handler'.at = 9 /\ UNCHANGED admin
      BY <3>1 DEF TypeInv, HandlerTyped, HandlerStates, recorderVars
    <3> QED
      BY <2>3, <3>1, <3>2 DEF Idle, Off
  <2> QED
    BY <2>1, <2>2, <2>3
<1>2. CASE HandlerForgets
  <2>1. handler.at = 8 /\ Off
    BY <1>2, <1>c DEF HandlerForgets, LossRecordInv
  <2>2. handler'.at = 9
    BY <1>2, <2>1 DEF HandlerForgets, NextStep, TypeInv, HandlerTyped, HandlerStates
  <2>3. recording' = 0 /\ UNCHANGED admin
    BY <1>2 DEF HandlerForgets, recorderVars
  <2> QED
    BY <2>1, <2>2, <2>3 DEF Idle, Off
<1>3. CASE ~HandlerStops /\ ~HandlerForgets /\ handler.at # 0
  <2>1. Steady /\ UNCHANGED recording
    <3>1. ~(StartsRecording \/ StopsRecording \/ ForgetsRecording \/ UploadsSettled)
      BY <1>c, <1>3, OnlyGoing
    <3>2. CASE SendFails
      <4>1. ~Doing("record") /\ ~Doing("stop")
        <5>1. ASSUME NEW w \in {"record", "stop"}, Doing(w) PROVE FALSE
          <6>1. run.at = "throwing" /\ run.pc \in 1 .. Len(script) /\ script[run.pc].do = w
            BY <1>c, <1>3, <5>1, ScriptShape DEF TypeInv, RunTyped, Doing, Running, Ins
          <6> QED
            BY <6>1, ClosesOn, ScriptShape DEF TypeInv, PlaceInv
        <5> QED
          BY <5>1
      <4> QED
        BY <3>2, <4>1, RefusedElsewhere
    <3>3. CASE Recorder \/ Arrives
      <4>1. UNCHANGED recording
        BY <3>3 DEF Recorder, TimerFires, UploadEnds, Arrives, StatusArrives, WithdrawArrives,
                    HitArrives, agentVars
      <4> QED
        BY <3>3, <4>1, RecorderKeeps
    <3>4. Quiet => Steady /\ UNCHANGED recording
      BY QuietKeeps DEF Quiet
    <3> QED
      BY <1>c, <1>3, <3>1, <3>2, <3>3, <3>4, QuietSteps DEF Switches
  <2>2. \/ handler'.at = handler.at
        \/ handler.at \in 1 .. 6 /\ handler'.at \in 2 .. 7
        \/ handler.at = 9 /\ handler'.at = 10
    <3>1. CASE Handles
      <4>1. HandlerLists \/ HandlerSends
        BY <1>3, <3>1 DEF Handles
      <4>2. handler.at \in 1 .. 6 /\ NextStep
        BY <4>1 DEF HandlerLists, HandlerSends
      <4>3. handler'.at = handler.at + 1
        BY <4>2 DEF NextStep, TypeInv, HandlerTyped, HandlerStates
      <4> QED
        BY <4>2, <4>3
    <3>2. ~Losing /\ ~Withdrawing
      BY <1>3 DEF Losing, Withdrawing, HandlerInv
    <3> QED
      BY <3>1, <3>2, Moves DEF Apart, Ends
  <2>3. Refused => Refused'
    BY <2>1, MishapType DEF TypeInv, Refused
  <2> QED
    BY <1>c, <1>h, <1>3, <2>1, <2>2, <2>3 DEF LossRecordInv, Steady
<1>4. CASE handler.at = 0 /\ handler'.at # 0
  <2>1. Losing
    <3>1. ~Withdrawing
      BY DEF Withdrawing, Calm
    <3>2. ~Apart /\ ~Handles /\ ~Ends
      BY <1>4 DEF Apart, Handles, Ends
    <3> QED
      BY <3>1, <3>2, Moves
  <2>2. run.at = "going" /\ run.pc \in 1 .. Len(script) /\ Running /\ Ins = script[run.pc]
    <3>1. run.pc \in 1 .. Len(script) /\ script[run.pc].do \in Waits /\ Running
      BY <2>1, ScriptShape DEF Losing, TypeInv, RunTyped, Running, Ins
    <3>2. ~Closes(script, run.pc)
      BY <3>1, ClosesOn, ScriptShape DEF TypeInv, Waits
    <3> QED
      BY <3>1, <3>2 DEF PlaceInv, Running, Ins
  <2>3. ~PastClose
    <3>1. ASSUME NEW i \in 1 .. run.pc - 1, script[i].do \in {"complete", "uploads"} PROVE FALSE
      <4>1. i \in 1 .. Len(script) /\ run.pc \in i .. Len(script)
        BY <2>2, ScriptShape DEF TypeInv
      <4> QED
        BY <2>1, <2>2, <3>1, <4>1, ScriptShape DEF TypeInv, Bounded, Losing
    <3> QED
      BY <3>1 DEF PastClose
  <2>4. Idle \/ On
    BY <1>4, <1>c, <2>1, <2>2, <2>3 DEF RunRecordInv, Losing, Waits
  <2>5. Steady
    <3>1. ~Recorder /\ ~Arrives /\ ~Switches
      <4>1. run' # run
        BY <2>1, <2>2 DEF Losing, TypeInv, RunTyped
      <4>2. run'.at = "handling"
        BY <2>1 DEF Losing, TypeInv, RunTyped
      <4>3. ~Recorder /\ ~Arrives /\ ~HandlerStops /\ ~HandlerForgets
        BY <4>1 DEF Recorder, TimerFires, UploadEnds, Arrives, HandlerStops, HandlerForgets
      <4>4. ~StartsRecording /\ ~StopsRecording /\ ~ForgetsRecording /\ ~UploadsSettled /\ ~SendFails
        BY <2>1 DEF Losing, Waits, StartsRecording, StopsRecording, ForgetsRecording, UploadsSettled,
                    SendFails, Doing
      <4> QED
        BY <4>3, <4>4 DEF Switches
    <3> QED
      BY <1>c, <3>1, QuietSteps, QuietKeeps
  <2>6. handler'.at = 1
    BY <2>1 DEF Losing
  <2> QED
    BY <2>4, <2>5, <2>6 DEF Steady
<1> QED
  BY <1>1, <1>2, <1>3, <1>4

\* While the run goes on undisturbed, it is at the end of a recording only after
\* the instruction that stopped it.
LEMMA StoppedAfterStop ==
  ASSUME TypeInv, Next, run'.at = "going", run' # run, run'.pc <= Len(script), script[run'.pc].do = "stopped"
  PROVE  run'.pc = run.pc + 1 /\ Doing("stop")
<1>1. /\ Running /\ run.pc \in 1 .. Len(script) /\ run'.pc \in run.pc + 1 .. Len(script) + 1
      /\ \/ run'.pc = run.pc + 1
         \/ run'.pc <= Len(script)
                => script[run'.pc].do \notin {"try", "forget", "completions", "stopped"}
  BY GoingOn
<1>2. run'.pc = run.pc + 1 /\ run'.pc \in 1 .. Len(script) /\ Len(script) \in Nat
  BY <1>1, ScriptShape DEF TypeInv
<1>3. script[run'.pc - 1].do = "stop"
  BY <1>2, ScriptShape DEF TypeInv, Ordered
<1>4. run'.pc - 1 = run.pc
  BY <1>1, <1>2
<1> QED
  BY <1>1, <1>2, <1>3, <1>4 DEF Doing, Ins

\* A recording on the way stays one that was started before, as long as no
\* instruction stops it.
LEMMA BegunStays ==
  ASSUME TypeInv, HandlerInv, Next, run'.at = "going", Begun, ~(StopsRecording \/ SendFails)
  PROVE  Begun'
<1>s. script' = script
  BY RulesStay, Numbers DEF rules
<1>1. PICK k \in 1 .. run.pc - 1 : script[k].do = "record" /\ \A q \in k .. run.pc - 1 : script[q].do # "stop"
  BY DEF Begun
<1>2. CASE UNCHANGED run
  BY <1>s, <1>1, <1>2 DEF Begun
<1>3. CASE run' # run
  <2>1. /\ Running /\ run.pc \in 1 .. Len(script) /\ run'.pc \in run.pc + 1 .. Len(script) + 1
        /\ Passes(script, run.pc, run'.pc)
    BY <1>3, GoingOn
  <2>2. script[run.pc].do # "stop"
    BY <1>3, <2>1, Executes DEF Still, Ins
  <2>3. k \in 1 .. run'.pc - 1 /\ \A q \in k .. run'.pc - 1 :
           q \in k .. run.pc - 1 \/ q = run.pc \/ q \in run.pc + 1 .. run'.pc - 1
    BY <1>1, <2>1
  <2>4. \A q \in k .. run'.pc - 1 : script[q].do # "stop"
    BY <1>1, <2>1, <2>2, <2>3 DEF Passes
  <2> QED
    BY <1>s, <1>1, <2>3, <2>4 DEF Begun
<1> QED
  BY <1>2, <1>3

\* A recording starts when no other is on the way.
LEMMA StartsFromIdle ==
  ASSUME TypeInv, Doing("record"), Idle \/ (On /\ Begun)
  PROVE  Idle
<1>s. Len(script) \in Nat /\ Numbered(script)
  BY ScriptShape DEF TypeInv
<1>1. run.pc \in 1 .. Len(script) /\ script[run.pc].do = "record"
  BY <1>s DEF TypeInv, RunTyped, Doing, Running, Ins
<1>2. ASSUME Begun PROVE FALSE
  <2>1. PICK k \in 1 .. run.pc - 1 : script[k].do = "record" /\ \A q \in k .. run.pc - 1 : script[q].do # "stop"
    BY <1>2 DEF Begun
  <2>2. k \in 1 .. Len(script) /\ k < run.pc
    BY <1>s, <1>1, <2>1
  <2>3. PICK q \in k .. run.pc : script[q].do = "stop"
    BY <1>s, <1>1, <2>1, <2>2 DEF Numbered
  <2>4. q = run.pc \/ q \in k .. run.pc - 1
    BY <1>1, <2>2
  <2> QED
    BY <1>1, <2>1, <2>3, <2>4
<1> QED
  BY <1>2

\* Between the instructions of an undisturbed run a recording is off or on.
LEMMA RunRecordStep ==
  ASSUME CoreInv, FreshInv, RunRecordInv, Next
  PROVE  RunRecordInv'
<1> USE DEF CoreInv
<1>s. script' = script /\ Len(script) \in Nat
  BY RulesStay, Numbers, ScriptShape DEF TypeInv, rules
<1> SUFFICES ASSUME Calm', handler'.at = 0, run'.at = "going", ~PastClose'
             PROVE  IF run'.pc <= Len(script) /\ script[run'.pc].do = "stopped" THEN Off'
                    ELSE Idle' \/ (On' /\ Begun')
  BY <1>s DEF RunRecordInv, Running, Ins
<1>1. /\ Calm /\ ~AdminReloads /\ ~aborted /\ run.at = "going" /\ handler.at = 0
  <2>1. handler.at = 0
    <3>1. ~Losing /\ ~Withdrawing
      BY DEF Losing, Withdrawing
    <3>2. ~Handles /\ ~Ends
      BY DEF Handles, Ends
    <3> QED
      BY <3>1, <3>2, Moves DEF Apart
  <2> QED
    BY <2>1, CalmBefore, GoingOn
<1>2. ~PastClose
  BY PastCloseStays
<1>3. IF Running /\ Ins.do = "stopped" THEN Off ELSE Idle \/ (On /\ Begun)
  BY <1>1, <1>2 DEF RunRecordInv
<1>4. Running <=> run.pc <= Len(script)
  BY <1>1 DEF Running
<1>5. ~HandlerStops /\ ~HandlerForgets
  BY <1>1 DEF HandlerStops, HandlerForgets
<1>6. CASE StartsRecording
  <2>1. Doing("record") /\ BeginsRecording /\ HearsStart(Ins.trial) /\ UNCHANGED <<cloud, posts>>
    BY <1>1, <1>6 DEF StartsRecording
  <2>2. run.pc \in 1 .. Len(script) /\ script[run.pc].do = "record" /\ Ins = script[run.pc] /\ run'.pc = run.pc + 1
    BY <1>s, <1>6 DEF StartsRecording, Doing, Running, Ins, TypeInv, RunTyped, Step, Go
  <2>3. Idle
    BY <1>3, <2>1, StartsFromIdle DEF Doing
  <2>4. ~(run'.pc <= Len(script) /\ script[run'.pc].do = "stopped")
    <3>1. run' # run
      BY <2>2
    <3> QED
      BY <3>1, <2>2, StoppedAfterStop DEF Doing
  <2>5. /\ Ins.trial \in Trials /\ cloud[Ins.trial] = "none"
        /\ \A m \in posts : m.kind = "status" => m.trial # Ins.trial
    BY <1>s, <1>1, <2>2, ScriptShape DEF TypeInv, Typed, FreshInv
  <2>6. recording' = Ins.trial /\ recStatus' = "recording"
        /\ admin'.timer = Ins.trial /\ admin'.on = admin.on /\ admin'.missed = admin.missed
    BY <2>1 DEF BeginsRecording, HearsStart, TypeInv, RecorderTyped
  <2>7. On'
    BY <2>1, <2>3, <2>5, <2>6, Numbers DEF On, Idle, Off
  <2>8. Begun'
    <3>1. run.pc \in 1 .. run'.pc - 1 /\ \A q \in run.pc .. run'.pc - 1 : q = run.pc
      BY <2>2
    <3> QED
      BY <1>s, <2>2, <3>1 DEF Begun
  <2> QED
    BY <2>4, <2>7, <2>8
<1>7. CASE StopsRecording
  <2>1. run.pc \in 1 .. Len(script) /\ script[run.pc].do = "stop" /\ Running /\ Ins = script[run.pc]
    BY <1>s, <1>7 DEF StopsRecording, Doing, Running, Ins, TypeInv, RunTyped
  <2>2. Idle \/ On
    BY <1>3, <2>1
  <2>3. CASE recording = 0
    <3>1. Idle /\ UNCHANGED <<recording, recorderVars>> /\ Go(run.pc + 2)
      BY <1>7, <2>2, <2>3 DEF StopsRecording, On
    <3>2. run'.pc = run.pc + 2 /\ run' # run
      BY <2>1, <3>1 DEF Go, TypeInv, RunTyped
    <3>3. ~(run'.pc <= Len(script) /\ script[run'.pc].do = "stopped")
      BY <2>1, <3>2, StoppedAfterStop
    <3> QED
      BY <3>1, <3>3 DEF Idle, Off, recorderVars
  <2>4. CASE recording # 0
    <3>1. HearsStop /\ Step
      BY <1>1, <1>7, <2>4 DEF StopsRecording
    <3>2. run'.pc = run.pc + 1
      BY <2>1, <3>1 DEF Step, Go, TypeInv, RunTyped
    <3>3. run'.pc <= Len(script) /\ script[run'.pc].do = "stopped"
      <4>1. run.pc < Len(script) /\ script[run.pc + 1].do = "stopped"
        BY <2>1, ScriptShape DEF TypeInv, Ordered
      <4> QED
        BY <1>s, <2>1, <3>2, <4>1
    <3>4. Off'
      BY <2>2, <3>1, StopTurnsOff DEF TypeInv, Idle
    <3> QED
      BY <3>3, <3>4
  <2> QED
    BY <2>3, <2>4
<1>8. CASE ForgetsRecording
  <2>1. run.pc \in 1 .. Len(script) /\ script[run.pc].do = "stopped" /\ Running /\ Ins = script[run.pc]
    BY <1>s, <1>8 DEF ForgetsRecording, Doing, Running, Ins, TypeInv, RunTyped
  <2>2. Off /\ recording' = 0 /\ UNCHANGED admin
    BY <1>3, <1>8, <2>1 DEF ForgetsRecording, recorderVars
  <2>3. run' # run
    BY <1>8, <2>1, StepMoves DEF ForgetsRecording, Still
  <2>4. ~(run'.pc <= Len(script) /\ script[run'.pc].do = "stopped")
    BY <2>1, <2>3, StoppedAfterStop DEF Doing
  <2> QED
    BY <2>2, <2>4 DEF Idle, Off
<1>9. CASE UploadsSettled
  <2>1. run.pc \in 1 .. Len(script) /\ script[run.pc].do = "uploads" /\ run'.pc = run.pc + 1
    BY <1>s, <1>9 DEF UploadsSettled, Doing, Running, Ins, TypeInv, RunTyped, Step, Go
  <2>2. run.pc \in 1 .. run'.pc - 1
    BY <2>1
  <2> QED
    BY <1>s, <2>1, <2>2 DEF PastClose
<1>10. CASE SendFails
  <2>1. ~Throw
    BY <1>1 DEF Throw, LeaveRules, TypeInv, RunTyped
  <2>2. /\ Doing("offer") /\ Step /\ UNCHANGED <<recording, recStatus, admin, cloud, posts>>
    BY <1>10, <2>1 DEF SendFails, recorderVars
  <2>3. run' # run
    BY <2>2, StepMoves DEF Still
  <2>4. ~(run'.pc <= Len(script) /\ script[run'.pc].do = "stopped")
    BY <2>2, <2>3, StoppedAfterStop DEF Doing
  <2>5. Idle \/ (On /\ Begun)
    BY <1>3, <2>2 DEF Doing
  <2>6. Begun => Begun'
    <3>1. run.pc \in 1 .. Len(script) /\ script[run.pc].do = "offer" /\ run'.pc = run.pc + 1
      BY <1>s, <2>2 DEF Doing, Running, Ins, TypeInv, RunTyped, Step, Go
    <3>2. ASSUME NEW k \in 1 .. run.pc - 1, script[k].do = "record", \A q \in k .. run.pc - 1 : script[q].do # "stop"
          PROVE  Begun'
      <4>1. k \in 1 .. run'.pc - 1 /\ \A q \in k .. run'.pc - 1 : q \in k .. run.pc - 1 \/ q = run.pc
        BY <3>1
      <4> QED
        BY <1>s, <3>1, <3>2, <4>1 DEF Begun
    <3> QED
      BY <3>2 DEF Begun
  <2> QED
    BY <2>2, <2>4, <2>5, <2>6 DEF Idle, Off, On
<1>11. CASE ~(StartsRecording \/ StopsRecording \/ ForgetsRecording \/ UploadsSettled \/ SendFails)
  <2>1. Steady
    <3>1. CASE Recorder \/ Arrives
      BY <3>1, RecorderKeeps
    <3> QED
      BY <1>1, <1>5, <1>11, <3>1, QuietSteps, QuietKeeps DEF Switches
  <2>2. CASE UNCHANGED run
    <3>1. Begun' <=> Begun
      BY <1>s, <2>2 DEF Begun
    <3> QED
      BY <1>3, <1>4, <2>1, <2>2, <3>1 DEF Steady, Ins
  <2>3. CASE run' # run
    <3>1. Running
      BY <2>3, GoingOn
    <3>2. Ins.do \notin {"stopped", "stop"}
      BY <1>11, <2>3, <3>1, Executes DEF Still
    <3>3. Idle \/ (On /\ Begun)
      BY <1>3, <3>2
    <3>4. ~(run'.pc <= Len(script) /\ script[run'.pc].do = "stopped")
      BY <2>3, <3>2, StoppedAfterStop DEF Doing
    <3>5. Begun => Begun'
      BY <1>11, BegunStays
    <3> QED
      BY <2>1, <3>3, <3>4, <3>5 DEF Steady
  <2> QED
    BY <2>2, <2>3
<1> QED
  BY <1>6, <1>7, <1>8, <1>9, <1>10, <1>11

\* In every session, once the handler of a loss that the run found is done, the
\* agent has ended the recording unless the message that stops it was refused, and
\* what the agent has ended the recorder has ended; unless the operator or a reload
\* of the admin's page came between (handleSharedParticipantDisconnect, agent.ts).
THEOREM PartialStopped == Spec => []PartialRecordingStopped
<1> DEFINE Inv == CoreInv /\ FreshInv /\ RunRecordInv /\ LossRecordInv
<1>1. Init => Inv
  <2> SUFFICES ASSUME Init PROVE Inv
    OBVIOUS
  <2>1. /\ handler.at = 0 /\ recording = 0 /\ posts = {} /\ admin.on = 0 /\ admin.timer = 0
        /\ cloud = [t \in Trials |-> "none"] /\ run.pc = 1
    BY DEF Init, FreshAdmin
  <2>2. CoreInv
    BY CoreStart
  <2>3. FreshInv
    <3>1. \A j \in 1 .. Len(script) : script[j].do = "record" => script[j].trial \in Trials
      BY <2>2, ScriptShape DEF CoreInv, TypeInv, Typed
    <3> QED
      BY <2>1, <3>1, Numbers DEF FreshInv
  <2> QED
    BY <2>1, <2>2, <2>3 DEF RunRecordInv, LossRecordInv, Idle, Off
<1>2. Inv /\ [Next]_vars => Inv'
  <2> SUFFICES ASSUME Inv, [Next]_vars PROVE Inv'
    OBVIOUS
  <2>1. CASE Next
    BY <2>1, CoreStep, FreshStep, RunRecordStep, LossRecordStep
  <2>2. CASE UNCHANGED vars
    <3>1. UNCHANGED <<run, script, handler, recording, recStatus, admin, cloud, posts, mishaps>>
      BY <2>2 DEF vars, session, rules, agentVars, recorderVars, historyVars
    <3>2. FreshInv'
      BY <3>1 DEF FreshInv
    <3>3. RunRecordInv' /\ LossRecordInv'
      BY <3>1 DEF RunRecordInv, LossRecordInv, Refused, Calm, Idle, Off, On, Begun, PastClose, Running, Ins, Troubles
    <3> QED
      BY <2>2, <3>2, <3>3, CoreStutter
  <2> QED
    BY <2>1, <2>2
<1>3. Inv => PartialRecordingStopped
  <2> SUFFICES ASSUME Inv, handler.at = 10, handler.by = "run", ~Happened({"stop", "reload"})
               PROVE  IF recording = 0 THEN admin.on = 0 \/ admin.missed ELSE Happened({"send"})
    BY DEF PartialRecordingStopped
  <2>1. Calm
    BY DEF Calm, Happened, Troubles
  <2>2. Idle \/ Refused
    BY <2>1 DEF LossRecordInv
  <2>3. "send" \in Troubles => Happened({"send"})
    BY DEF Troubles, Happened
  <2> QED
    BY <2>2, <2>3 DEF Idle, Off, Refused
<1> HIDE DEF Inv
<1> QED
  BY <1>1, <1>2, <1>3, PTL DEF Spec

-----------------------------------------------------------------------------
(* What a completed session has stored. *)

\* A recording that is on, or about to be, is not on its way to the cloud.
AheadInv ==
    /\ admin.on # 0 => cloud[admin.on] = "none" /\ admin.timer # admin.on
    /\ admin.timer # 0 => cloud[admin.timer] = "none"
\* What is reported as uploaded is stored, and what is reported as failed is lost.
ReportedInv ==
    /\ \A m \in posts : m.kind = "status" =>
          /\ m.says # "none"
          /\ m.says = "uploaded" => cloud[m.trial] = "stored"
          /\ m.says = "error" => cloud[m.trial] = "lost"
    /\ \A t \in Trials : /\ uploads[t] = "uploaded" => cloud[t] = "stored"
                         /\ uploads[t] = "error" => cloud[t] = "lost"

\* A recorder that is told to stop hands its recording, if it has one, to the
\* upload queue, with the metadata it was given.
LEMMA StopStores ==
  ASSUME RecordingTyped, RecorderTyped, HearsStop
  PROVE  /\ admin'.on = 0 /\ admin'.timer = admin.timer /\ admin'.pending = admin.pending
         /\ admin.on = 0 => UNCHANGED <<cloud, kept, posts>>
         /\ admin.on # 0 => /\ admin.on \in Trials
                            /\ cloud' = [cloud EXCEPT ![admin.on] = "uploading"]
                            /\ kept' = [kept EXCEPT ![admin.on] = admin.meta]
                            /\ \A m \in posts' : m \in posts \/ m.says = "queued"
<1>1. CASE admin.on = 0
  BY <1>1 DEF HearsStop, RecorderTyped
<1>2. CASE admin.on # 0
  <2>1. admin'.on = 0 /\ admin'.timer = admin.timer /\ admin'.pending = admin.pending
    BY <1>2 DEF HearsStop, StopRecording, RecorderTyped
  <2>2. /\ admin.on \in Trials
        /\ cloud' = [cloud EXCEPT ![admin.on] = "uploading"]
        /\ kept' = [kept EXCEPT ![admin.on] = admin.meta]
    BY <1>2 DEF HearsStop, StopRecording, RecorderTyped
  <2>3. \A m \in posts' : m \in posts \/ m.says = "queued"
    BY <1>2 DEF HearsStop
  <2> QED
    BY <1>2, <2>1, <2>2, <2>3
<1> QED
  BY <1>1, <1>2

\* An upload that ended is stored or lost, and said so.
LEMMA UploadStores ==
  ASSUME RecordingTyped, NEW t \in Trials, UploadEnds(t)
  PROVE  /\ cloud[t] = "uploading" /\ UNCHANGED <<recording, recStatus, uploads, admin, kept>>
         /\ \E end \in {"stored", "lost"} : cloud' = [cloud EXCEPT ![t] = end]
         /\ \A m \in posts' : \/ m \in posts
                              \/ m.trial = t /\ m.says = "uploaded" /\ cloud'[t] = "stored"
                              \/ m.trial = t /\ m.says = "error" /\ cloud'[t] = "lost"
<1>1. cloud[t] = "uploading" /\ UNCHANGED <<recording, recStatus, uploads, admin, kept>>
  BY DEF UploadEnds, agentVars
<1>2. CASE /\ cloud' = [cloud EXCEPT ![t] = "stored"]
           /\ posts' = posts \cup {[kind |-> "status", from |-> 0, trial |-> t, says |-> "uploaded"]}
  <2>1. cloud'[t] = "stored"
    BY <1>2 DEF RecordingTyped
  <2>2. \A m \in posts' : m \in posts \/ (m.trial = t /\ m.says = "uploaded")
    BY <1>2
  <2>3. \E end \in {"stored", "lost"} : cloud' = [cloud EXCEPT ![t] = end]
    BY <1>2
  <2> QED
    BY <1>1, <2>1, <2>2, <2>3
<1>3. CASE /\ cloud' = [cloud EXCEPT ![t] = "lost"]
           /\ posts' = posts \cup {[kind |-> "status", from |-> 0, trial |-> t, says |-> "error"]}
  <2>1. cloud'[t] = "lost" /\ \A m \in posts' : m \in posts \/ (m.trial = t /\ m.says = "error")
    BY <1>3 DEF RecordingTyped
  <2>2. \E end \in {"stored", "lost"} : cloud' = [cloud EXCEPT ![t] = end]
    BY <1>3
  <2> QED
    BY <1>1, <2>1, <2>2
<1> QED
  BY <1>2, <1>3 DEF UploadEnds

\* The timer of the recorder turns it on.
LEMMA TimerStarts ==
  ASSUME RecorderTyped, TimerFires
  PROVE  /\ admin.timer # 0 /\ UNCHANGED <<recording, recStatus, uploads, cloud, kept>>
         /\ admin'.on = admin.timer /\ admin'.timer = 0
         /\ admin'.meta = admin.pending /\ admin'.pending = 0
         /\ \A m \in posts' : m \in posts \/ m.says = "recording"
<1>1. admin.timer # 0 /\ UNCHANGED <<recording, recStatus, uploads, cloud, kept>>
  BY DEF TimerFires, agentVars
<1>2. /\ admin'.on = admin.timer /\ admin'.timer = 0
      /\ admin'.meta = admin.pending /\ admin'.pending = 0
  BY DEF TimerFires, StartRecording, RecorderTyped
<1>3. \A m \in posts' : m \in posts \/ m.says = "recording"
  BY DEF TimerFires
<1> QED
  BY <1>1, <1>2, <1>3

\* What a stop, of the run or of the handler, does to the recorder.
LEMMA StopHears ==
  ASSUME StopsRecording \/ HandlerStops
  PROVE  UNCHANGED recording /\ (HearsStop \/ UNCHANGED <<admin, cloud, kept, posts>>)
BY DEF StopsRecording, HandlerStops, recorderVars

\* A stored recording stays as it is, and what is on its way stays so.
LEMMA StoredStays ==
  ASSUME TypeInv, AheadInv, Next
  PROVE  \A t \in Trials : /\ cloud[t] = "stored" => cloud'[t] = "stored" /\ kept'[t] = kept[t]
                           /\ cloud[t] = "lost" => cloud'[t] = "lost"
                           /\ cloud[t] # "none" => cloud'[t] # "none"
<1> USE DEF TypeInv
<1>1. CASE UNCHANGED <<cloud, kept>>
  BY <1>1
<1>2. CASE StopsRecording \/ HandlerStops
  <2>1. CASE HearsStop
    <3>1. CASE admin.on = 0
      BY <2>1, <3>1, StopStores
    <3>2. CASE admin.on # 0
      <4>1. /\ admin.on \in Trials /\ cloud[admin.on] = "none"
            /\ cloud' = [cloud EXCEPT ![admin.on] = "uploading"]
            /\ kept' = [kept EXCEPT ![admin.on] = admin.meta]
        BY <2>1, <3>2, StopStores DEF AheadInv
      <4> QED
        BY <4>1 DEF RecordingTyped
    <3> QED
      BY <3>1, <3>2
  <2> QED
    BY <1>1, <1>2, <2>1, StopHears
<1>3. ASSUME NEW t \in Trials, UploadEnds(t)
      PROVE  \A r \in Trials : /\ cloud[r] = "stored" => cloud'[r] = "stored" /\ kept'[r] = kept[r]
                               /\ cloud[r] = "lost" => cloud'[r] = "lost"
                               /\ cloud[r] # "none" => cloud'[r] # "none"
  <2>1. cloud[t] = "uploading" /\ UNCHANGED kept
    BY <1>3, UploadStores
  <2>2. PICK end \in {"stored", "lost"} : cloud' = [cloud EXCEPT ![t] = end]
    BY <1>3, UploadStores
  <2> QED
    BY <2>1, <2>2 DEF RecordingTyped
<1>4. CASE AdminReloads
  <2>1. cloud' = [t \in Trials |-> IF cloud[t] = "uploading" THEN "lost" ELSE cloud[t]] /\ UNCHANGED kept
    BY <1>4 DEF AdminReloads
  <2> QED
    BY <2>1
<1>5. CASE TimerFires
  BY <1>1, <1>5, TimerStarts
<1>6. CASE StartsRecording \/ ForgetsRecording \/ HandlerForgets \/ UploadsSettled \/ SendFails \/ Arrives
  BY <1>1, <1>6 DEF StartsRecording, ForgetsRecording, HandlerForgets, UploadsSettled, SendFails, Arrives,
                    recorderVars, waiting
<1>7. CASE ~Switches /\ ~Recorder /\ ~AdminReloads /\ ~Arrives
  BY <1>1, <1>7, QuietSteps DEF Quiet
<1> QED
  BY <1>2, <1>3, <1>4, <1>5, <1>6, <1>7 DEF Switches, Recorder

\* Every step keeps AheadInv: a recording starts once.
LEMMA AheadStep ==
  ASSUME CoreInv, FreshInv, AheadInv, Next
  PROVE  AheadInv'
<1> USE DEF CoreInv, TypeInv
<1>1. CASE Quiet \/ (cloud' = cloud /\ admin' = admin)
  BY <1>1 DEF Quiet, AheadInv
<1>2. CASE StopsRecording \/ HandlerStops
  <2>1. CASE HearsStop
    <3>1. admin'.on = 0 /\ admin'.timer = admin.timer
      BY <2>1, StopStores
    <3>2. admin.timer # 0 => admin.timer \in Trials /\ cloud'[admin.timer] = cloud[admin.timer]
      <4>1. admin.timer # 0 => admin.timer \in Trials /\ admin.timer # admin.on
        BY DEF RecorderTyped, AheadInv
      <4> QED
        BY <2>1, <4>1, StopConcerns
    <3> QED
      BY <3>1, <3>2 DEF AheadInv
  <2> QED
    BY <1>1, <1>2, <2>1, StopHears
<1>3. ASSUME NEW t \in Trials, UploadEnds(t)
      PROVE  AheadInv'
  <2>1. cloud[t] = "uploading" /\ UNCHANGED admin
    BY <1>3, UploadStores
  <2>2. PICK end \in {"stored", "lost"} : cloud' = [cloud EXCEPT ![t] = end]
    BY <1>3, UploadStores
  <2>3. \A r \in Trials : cloud[r] = "none" => cloud'[r] = "none"
    BY <2>1, <2>2 DEF RecordingTyped
  <2> QED
    BY <2>1, <2>3 DEF AheadInv, RecorderTyped
<1>4. CASE AdminReloads
  BY <1>4 DEF AdminReloads, FreshAdmin, AheadInv
<1>5. CASE TimerFires
  BY <1>5, TimerStarts DEF AheadInv
<1>6. CASE StartsRecording
  <2>1. CASE UNCHANGED admin
    BY <1>1, <1>6, <2>1 DEF StartsRecording
  <2>2. CASE HearsStart(Ins.trial)
    <3>1. run.at = "going" /\ run.pc \in 1 .. Len(script) /\ script[run.pc].do = "record" /\ Ins = script[run.pc]
      <4>1. run.at = "going"
        BY <1>6, OnlyGoing
      <4> QED
        BY <1>6, <4>1, ScriptShape DEF StartsRecording, Doing, Running, Ins, RunTyped
    <3>2. cloud[Ins.trial] = "none" /\ Ins.trial # admin.on
      BY <3>1, ScriptShape DEF FreshInv
    <3>3. admin'.timer = Ins.trial /\ admin'.on = admin.on /\ UNCHANGED cloud
      BY <1>6, <2>2 DEF HearsStart, StartsRecording, RecorderTyped
    <3> QED
      BY <3>2, <3>3 DEF AheadInv
  <2> QED
    BY <1>6, <2>1, <2>2 DEF StartsRecording
<1>7. CASE ForgetsRecording \/ HandlerForgets \/ UploadsSettled \/ SendFails \/ Arrives
  BY <1>1, <1>7 DEF ForgetsRecording, HandlerForgets, UploadsSettled, SendFails, Arrives,
                    recorderVars, waiting
<1>8. CASE ~Switches /\ ~Recorder /\ ~AdminReloads /\ ~Arrives
  BY <1>1, <1>8, QuietSteps
<1> QED
  BY <1>2, <1>3, <1>4, <1>5, <1>6, <1>7, <1>8 DEF Switches, Recorder

\* What a step reports: an upload that was stored or lost, or none.
LEMMA PostsOnly ==
  ASSUME CoreInv, Next
  PROVE  \A m \in posts' : m.kind = "status" =>
            \/ m \in posts
            \/ m.says \in {"recording", "queued"}
            \/ m.says = "uploaded" /\ cloud'[m.trial] = "stored"
            \/ m.says = "error" /\ cloud'[m.trial] = "lost"
<1> USE DEF CoreInv, TypeInv
<1>1. CASE Quiet \/ posts' = posts
  BY <1>1 DEF Quiet
<1>2. CASE StopsRecording \/ HandlerStops
  BY <1>2, StopHears, StopStores
<1>3. ASSUME NEW t \in Trials, UploadEnds(t)
      PROVE  \A m \in posts' : \/ m \in posts
                               \/ m.says = "uploaded" /\ cloud'[m.trial] = "stored"
                               \/ m.says = "error" /\ cloud'[m.trial] = "lost"
  BY <1>3, UploadStores
<1>4. CASE TimerFires
  BY <1>4, TimerStarts
<1>5. CASE AdminReloads
  BY <1>5 DEF AdminReloads
<1>6. CASE Arrives
  BY <1>6 DEF Arrives
<1>7. CASE StartsRecording \/ ForgetsRecording \/ HandlerForgets \/ UploadsSettled \/ SendFails
  BY <1>1, <1>7 DEF StartsRecording, ForgetsRecording, HandlerForgets, UploadsSettled, SendFails, waiting
<1>8. CASE ~Switches /\ ~Recorder /\ ~AdminReloads /\ ~Arrives
  BY <1>1, <1>8, QuietSteps
<1> QED
  BY <1>2, <1>3, <1>4, <1>5, <1>6, <1>7, <1>8 DEF Switches, Recorder

\* What the agent writes into its table of uploads: its own commands, or what
\* was reported.
LEMMA UploadsOnly ==
  ASSUME CoreInv, Next
  PROVE  \A t \in Trials :
            \/ uploads'[t] = uploads[t]
            \/ uploads'[t] \in {"recording", "queued"}
            \/ \E m \in posts : m.kind = "status" /\ m.trial = t /\ uploads'[t] = m.says
<1> USE DEF CoreInv, TypeInv
<1>1. CASE UNCHANGED uploads
  BY <1>1
<1>2. CASE \E t \in Trials : uploads' = [uploads EXCEPT ![t] = "recording"]
  BY <1>2 DEF RecordingTyped
<1>3. CASE \E t \in Trials : uploads' = [uploads EXCEPT ![t] = "queued"]
  BY <1>3 DEF RecordingTyped
<1>4. CASE StartsRecording
  <2>1. Ins.trial \in Trials
    BY <1>4, ScriptShape DEF StartsRecording, Doing, Running, Ins, RunTyped, Typed
  <2> QED
    BY <1>1, <1>2, <1>4, <2>1 DEF StartsRecording, BeginsRecording
<1>5. CASE StopsRecording \/ HandlerStops
  <2>1. UNCHANGED uploads \/ (recording # 0 /\ QueuesUpload)
    BY <1>5 DEF StopsRecording, HandlerStops, RecordsOn
  <2> QED
    BY <1>1, <1>3, <2>1 DEF QueuesUpload, RecordingTyped
<1>6. CASE SendFails
  <2>1. CASE UNCHANGED uploads
    BY <1>1, <2>1
  <2>2. CASE Doing("record") /\ BeginsRecording
    <3>1. Ins.trial \in Trials
      BY <2>2, ScriptShape DEF Doing, Running, Ins, RunTyped, Typed
    <3> QED
      BY <1>2, <2>2, <3>1 DEF BeginsRecording
  <2>3. CASE recording # 0 /\ QueuesUpload
    BY <1>3, <2>3 DEF QueuesUpload, RecordingTyped
  <2> QED
    BY <1>6, <2>1, <2>2, <2>3 DEF SendFails
<1>7. CASE Arrives
  <2>1. PICK m \in posts : StatusArrives(m) \/ WithdrawArrives(m) \/ HitArrives(m)
    BY <1>7 DEF Arrives
  <2>2. CASE StatusArrives(m)
    <3>1. m.kind = "status" /\ uploads' = Ranked(m.trial, m.says)
      BY <2>2 DEF StatusArrives
    <3>2. \A t \in Trials : uploads'[t] = uploads[t] \/ (m.trial = t /\ uploads'[t] = m.says)
      BY <3>1 DEF Ranked, RecordingTyped
    <3> QED
      BY <3>1, <3>2
  <2>3. CASE WithdrawArrives(m) \/ HitArrives(m)
    BY <1>1, <2>3 DEF WithdrawArrives, HitArrives
  <2> QED
    BY <2>1, <2>2, <2>3
<1>8. CASE Recorder
  BY <1>1, <1>8, TimerStarts, UploadStores DEF Recorder
<1>9. CASE AdminReloads \/ ForgetsRecording \/ HandlerForgets \/ UploadsSettled
  BY <1>1, <1>9 DEF AdminReloads, ForgetsRecording, HandlerForgets, UploadsSettled, waiting, agentVars
<1>10. CASE ~Switches /\ ~Recorder /\ ~AdminReloads /\ ~Arrives
  BY <1>1, <1>10, QuietSteps DEF Quiet
<1> QED
  BY <1>4, <1>5, <1>6, <1>7, <1>8, <1>9, <1>10 DEF Switches

\* A report that is under way concerns a trial.
LEMMA StatusOfTrial ==
  ASSUME RecordingTyped, NEW m \in posts, m.kind = "status"
  PROVE  m.trial \in Trials
BY DEF RecordingTyped, Posts

\* Every step keeps what is reported true, and no trial of the table is dropped.
LEMMA ReportedStep ==
  ASSUME CoreInv, AheadInv, ReportedInv, Next
  PROVE  ReportedInv' /\ \A t \in Trials : uploads[t] # "none" => uploads'[t] # "none"
<1> USE DEF CoreInv, TypeInv
<1>1. ASSUME NEW m \in posts', m.kind = "status"
      PROVE  /\ m.says # "none"
             /\ m.says = "uploaded" => cloud'[m.trial] = "stored"
             /\ m.says = "error" => cloud'[m.trial] = "lost"
  <2>1. CASE m \in posts
    BY <1>1, <2>1, StatusOfTrial, StoredStays DEF ReportedInv
  <2> QED
    BY <1>1, <2>1, PostsOnly
<1>2. ASSUME NEW t \in Trials
      PROVE  /\ uploads'[t] = "uploaded" => cloud'[t] = "stored"
             /\ uploads'[t] = "error" => cloud'[t] = "lost"
             /\ uploads[t] # "none" => uploads'[t] # "none"
  <2>1. CASE uploads'[t] = uploads[t]
    BY <2>1, StoredStays DEF ReportedInv
  <2>2. ASSUME NEW m \in posts, m.kind = "status", m.trial = t, uploads'[t] = m.says
        PROVE  /\ uploads'[t] # "none"
               /\ uploads'[t] = "uploaded" => cloud'[t] = "stored"
               /\ uploads'[t] = "error" => cloud'[t] = "lost"
    BY <2>2, StoredStays DEF ReportedInv
  <2> QED
    BY <2>1, <2>2, UploadsOnly
<1> QED
  BY <1>1, <1>2 DEF ReportedInv

\* A session ends, completed by its rules alone, and does not begin again.
LEMMA StatusMoves ==
  ASSUME TypeInv, Next
  PROVE  \/ status' = status
         \/ status = "running" /\ RulesEnd /\ status' = "completed"
         \/ /\ status' \in {"stopped", "error"}
            /\ run'.at = "over" \/ HandlerEnds \/ OperatorStops
<1> USE DEF session, agentIdle, waiting, handling, onPage
<1>t. Throw => status' = status \/ (status' = "error" /\ run'.at = "over")
  BY DEF Throw, LeaveRules, TypeInv, RunTyped
<1>l. \A why, who : LosesParticipant(why, who) => status' = status \/ (status' = "error" /\ run'.at = "over")
  BY <1>t DEF LosesParticipant
<1>1. CASE EmptiesInbox \/ HitOrTimeout \/ GateOpens \/ GateStaysShut \/ AsksForStart \/ ManualStart
  BY <1>1 DEF EmptiesInbox, HitOrTimeout, GateOpens, GateStaysShut, AsksForStart, ManualStart
<1>2. CASE EnterRule \/ RulesEnd \/ Checks \/ Sleeps
  BY <1>2 DEF EnterRule, RulesEnd, Checks, Sleeps, LeaveRules
<1>b. CASE Block
  <2>1. LeaveRules("error") => status' = status \/ (status' = "error" /\ run'.at = "over")
    BY DEF LeaveRules, TypeInv, RunTyped
  <2> QED
    BY <1>b, <2>1 DEF Block
<1>3. CASE AssignsRoles \/ WaitEnds \/ Sends \/ AsksForLocks \/ Completes
  BY <1>3 DEF AssignsRoles, WaitEnds, Sends, AsksForLocks, Completes
<1>4. CASE WaitBreaks \/ WaitTimesOut \/ LocksBreak
  BY <1>l, <1>4 DEF WaitBreaks, WaitTimesOut, LocksBreak
<1>5. CASE LocksReported \/ LocksRecovered \/ UploadsSettled
  BY <1>5 DEF LocksReported, LocksRecovered, UploadsSettled
<1>6. CASE UploadsFail \/ UploadsTimeOut
  BY <1>t, <1>6 DEF UploadsFail, UploadsTimeOut
<1>7. CASE StartsRecording \/ StopsRecording \/ ForgetsRecording
  BY <1>7 DEF StartsRecording, StopsRecording, ForgetsRecording
<1>8. CASE SendFails
  BY <1>t, <1>8 DEF SendFails
<1>9. CASE HandlerEnds
  BY <1>9 DEF HandlerEnds
<1>10. CASE HandlerLists \/ HandlerSends \/ HandlerStops \/ HandlerForgets
  BY <1>10 DEF HandlerLists, HandlerSends, HandlerStops, HandlerForgets
<1>11. CASE PageStep \/ SafetyCleanup
  BY <1>11 DEF PageStep, SafetyCleanup, ClickNext, Lock, TrackDone, Reveal, Answer, AnswerFails, Finish
<1>12. CASE Recorder \/ DetectorFires \/ AdminReloads \/ ReportFails \/ Arrives
  BY <1>12 DEF Recorder, TimerFires, UploadEnds, DetectorFires, AdminReloads, ReportFails, Arrives
<1>13. CASE OperatorStops
  BY <1>13 DEF OperatorStops, StopAgent
<1>14. CASE OperatorStarts \/ \E p \in Faulty : Esc(p) \/ LockReportLost(p) \/ Leave(p) \/ Hang(p)
  BY <1>14 DEF OperatorStarts, Esc, LockReportLost, Leave, Hang
<1> QED
  BY <1>1, <1>2, <1>b, <1>3, <1>4, <1>5, <1>6, <1>7, <1>8, <1>9, <1>10, <1>11, <1>12, <1>13, <1>14
  DEF Next, RunStep, Others, Environment, HandlerStep

\* A run that was aborted is over, for the status.
StopInv == aborted => status # "running"
\* Every step keeps this.
LEMMA StopStep ==
  ASSUME TypeInv, StopInv, Next
  PROVE  StopInv'
<1>1. CASE OperatorStops
  BY <1>1 DEF OperatorStops, StopAgent, StopInv
<1>2. CASE HandlerEnds
  <2>1. status' \in {"stopped", "error"}
    BY <1>2 DEF HandlerEnds
  <2> QED
    BY <2>1 DEF StopInv
<1>3. CASE ~OperatorStops /\ ~HandlerEnds
  BY <1>3, AbortOnly, StatusMoves DEF StopInv
<1> QED
  BY <1>1, <1>2, <1>3

\* The session runs, and so do its rules.
RunsOn == status = "running" /\ run.at = "going"
\* What the rules recorded up to here is in the agent's table, and stored once
\* the uploads were awaited.
FiledInv ==
    RunsOn => \A k \in 1 .. run.pc - 1 : script[k].do = "record" =>
        /\ uploads[script[k].trial] # "none"
        /\ \A j \in k .. run.pc - 1 : script[j].do = "uploads" => cloud[script[k].trial] = "stored"

\* A session that runs ran before.
LEMMA RanBefore ==
  ASSUME TypeInv, StopInv, Next, RunsOn'
  PROVE  RunsOn /\ ~aborted /\ ~aborted'
<1>1. status = "running" /\ run.at = "going"
  BY StatusMoves, GoingOn DEF RunsOn
<1> QED
  BY <1>1, StopStep DEF RunsOn, StopInv

\* The agent goes on after the wait for the uploads only when every trial of its
\* table is stored.
LEMMA UploadsAwaited ==
  ASSUME TypeInv, ReportedInv, Doing("uploads"), ~aborted, Next, run'.at = "going", ~Still, HandlerInv
  PROVE  \A t \in Trials : uploads[t] # "none" => cloud[t] = "stored"
<1>1. ~Throw
  BY DEF Throw, LeaveRules, TypeInv, RunTyped
<1>2. UploadsSettled
  BY <1>1, Executes DEF Doing, UploadsFail, UploadsTimeOut
<1>3. Failed = {} /\ Pending = {}
  BY <1>2 DEF UploadsSettled
<1>4. ASSUME NEW t \in Trials, uploads[t] # "none"
      PROVE  uploads[t] = "uploaded"
  BY <1>3, <1>4 DEF Failed, Pending
<1> QED
  BY <1>4 DEF ReportedInv

\* Every step keeps FiledInv.
LEMMA FiledStep ==
  ASSUME CoreInv, StopInv, AheadInv, ReportedInv, FiledInv, Next
  PROVE  FiledInv'
<1> USE DEF CoreInv
<1>s. script' = script /\ Len(script) \in Nat /\ Typed(script)
  BY RulesStay, Numbers, ScriptShape DEF TypeInv, rules
<1> SUFFICES ASSUME RunsOn', NEW k \in 1 .. run'.pc - 1, script[k].do = "record"
             PROVE  /\ uploads'[script[k].trial] # "none"
                    /\ \A j \in k .. run'.pc - 1 : script[j].do = "uploads" => cloud'[script[k].trial] = "stored"
  BY <1>s DEF FiledInv
<1>1. RunsOn /\ ~aborted /\ run.pc \in 1 .. Len(script) + 1 /\ run'.pc \in 1 .. Len(script) + 1 /\ run'.at = "going"
  BY <1>s, RanBefore, RunType DEF TypeInv, RunTyped, RunsOn
<1>2. k \in 1 .. Len(script) /\ script[k].trial \in Trials
  BY <1>s, <1>1 DEF Typed
<1> DEFINE trial == script[k].trial
<1>3. /\ uploads[trial] # "none" => uploads'[trial] # "none"
      /\ cloud[trial] = "stored" => cloud'[trial] = "stored"
  BY <1>2, ReportedStep, StoredStays
<1>4. CASE k < run.pc
  <2>1. k \in 1 .. run.pc - 1
    BY <1>1, <1>4
  <2>2. uploads[trial] # "none"
    BY <1>1, <2>1 DEF FiledInv
  <2>3. ASSUME NEW j \in k .. run'.pc - 1, script[j].do = "uploads"
        PROVE  cloud[trial] = "stored"
    <3>1. CASE j < run.pc
      <4>1. j \in k .. run.pc - 1
        BY <1>1, <1>2, <2>1, <3>1
      <4> QED
        BY <1>1, <2>1, <2>3, <4>1 DEF FiledInv
    <3>2. CASE j >= run.pc
      <4>1. run'.pc # run.pc /\ run' # run
        BY <1>1, <3>2
      <4>2. Running /\ Passes(script, run.pc, run'.pc)
        BY <1>1, <4>1, GoingOn
      <4>3. j = run.pc
        <5>1. j = run.pc \/ j \in run.pc + 1 .. run'.pc - 1
          BY <1>1, <1>2, <3>2
        <5> QED
          BY <2>3, <4>2, <5>1 DEF Passes
      <4> QED
        BY <1>1, <1>2, <2>2, <2>3, <4>1, <4>2, <4>3, UploadsAwaited DEF Doing, Ins, Still
    <3> QED
      BY <1>1, <1>2, <3>1, <3>2
  <2> QED
    BY <1>3, <2>2, <2>3
<1>5. CASE k >= run.pc
  <2>1. run'.pc # run.pc /\ run' # run
    BY <1>1, <1>5
  <2>2. Running /\ Passes(script, run.pc, run'.pc)
    BY <1>1, <2>1, GoingOn
  <2>3. k = run.pc
    <3>1. k = run.pc \/ k \in run.pc + 1 .. run'.pc - 1
      BY <1>1, <1>2, <1>5
    <3> QED
      BY <2>2, <3>1 DEF Passes
  <2>4. StartsRecording
    <3>1. ~Throw
      BY <1>1 DEF Throw, LeaveRules, TypeInv, RunTyped
    <3>2. StartsRecording \/ SendFails
      BY <2>1, <2>2, <2>3, Executes DEF Ins, Still
    <3> QED
      BY <2>3, <3>1, <3>2 DEF SendFails, Doing, Ins
  <2>5. uploads'[trial] = "recording"
    BY <1>1, <1>2, <2>3, <2>4 DEF StartsRecording, BeginsRecording, Ins, TypeInv, RecordingTyped
  <2>6. ASSUME NEW j \in k .. run'.pc - 1
        PROVE  script[j].do # "uploads"
    <3>1. j = run.pc \/ j \in run.pc + 1 .. run'.pc - 1
      BY <1>1, <1>2, <2>3
    <3> QED
      BY <2>2, <2>3, <3>1 DEF Passes
  <2> QED
    BY <2>5, <2>6
<1> QED
  BY <1>1, <1>2, <1>4, <1>5

\* Instruction k, before i, starts a recording; an instruction before i ends it.
Starts(s, k, i) == k \in 1 .. i - 1 /\ s[k].do = "record"
Ended(s, k, i) == \E q \in k .. i - 1 : s[q].do = "stop"
Open(s, k, i) == Starts(s, k, i) /\ ~Ended(s, k, i)
\* The metadata that a recording got from the instructions before i.
Labelled(s, t, i) == \E q \in 1 .. i - 1 : Labels(s, q, t)
LabelOf(s, t, i) == IF Labelled(s, t, i) THEN t ELSE 0

\* What changes when the run goes from an instruction to another one and passes
\* nothing that concerns the recordings.
LEMMA Passage ==
  ASSUME NEW s, NEW i \in Nat \ {0}, NEW j \in Nat, i < j, Passes(s, i, j)
  PROVE  /\ \A k \in Nat : Starts(s, k, j) <=> Starts(s, k, i) \/ (k = i /\ s[i].do = "record")
         /\ \A k \in Nat : Starts(s, k, i) => (Ended(s, k, j) <=> Ended(s, k, i) \/ s[i].do = "stop")
         /\ s[i].do # "stop" => ~Ended(s, i, j)
         /\ \A t \in Trials : Labelled(s, t, j) <=> Labelled(s, t, i) \/ Labels(s, i, t)
<1>p. \A q \in i + 1 .. j - 1 : s[q].do \notin {"record", "stop"} /\ \A t \in Trials : ~Labels(s, q, t)
  BY DEF Passes
<1>1. ASSUME NEW k \in Nat
      PROVE  Starts(s, k, j) <=> Starts(s, k, i) \/ (k = i /\ s[i].do = "record")
  <2>1. k \in 1 .. j - 1 <=> k \in 1 .. i - 1 \/ k = i \/ k \in i + 1 .. j - 1
    OBVIOUS
  <2> QED
    BY <1>p, <2>1 DEF Starts
<1>2. ASSUME NEW k \in Nat, Starts(s, k, i)
      PROVE  Ended(s, k, j) <=> Ended(s, k, i) \/ s[i].do = "stop"
  <2>1. k \in 1 .. i - 1
    BY <1>2 DEF Starts
  <2>2. \A q : q \in k .. j - 1 <=> q \in k .. i - 1 \/ q = i \/ q \in i + 1 .. j - 1
    BY <2>1
  <2> QED
    BY <1>p, <2>2 DEF Ended
<1>3. s[i].do # "stop" => ~Ended(s, i, j)
  <2>1. \A q : q \in i .. j - 1 <=> q = i \/ q \in i + 1 .. j - 1
    OBVIOUS
  <2> QED
    BY <1>p, <2>1 DEF Ended
<1>4. ASSUME NEW t \in Trials
      PROVE  Labelled(s, t, j) <=> Labelled(s, t, i) \/ Labels(s, i, t)
  <2>1. \A q : q \in 1 .. j - 1 <=> q \in 1 .. i - 1 \/ q = i \/ q \in i + 1 .. j - 1
    OBVIOUS
  <2> QED
    BY <1>p, <2>1 DEF Labelled
<1> QED
  BY <1>1, <1>2, <1>3, <1>4

\* A recording is that of a trial.
LEMMA RecordsTrial ==
  ASSUME RulesTyped, NEW i \in 1 .. Len(script) + 1, NEW k, Starts(script, k, i)
  PROVE  k \in 1 .. Len(script) /\ k < i /\ script[k].do = "record" /\ script[k].trial \in Trials
<1>1. k \in 1 .. Len(script) /\ k < i /\ script[k].do = "record"
  BY ScriptShape DEF Starts
<1> QED
  BY <1>1, ScriptShape DEF Typed

\* A trial is recorded once.
LEMMA OneRecording ==
  ASSUME RulesTyped, NEW k \in 1 .. Len(script), NEW l \in 1 .. Len(script),
         script[k].do = "record", script[l].do = "record", script[k].trial = script[l].trial
  PROVE  k = l
<1>1. ~(k < l) /\ ~(l < k)
  BY ScriptShape DEF Numbered
<1> QED
  BY <1>1, ScriptShape

\* A recording starts after the end of the others.
LEMMA OneOpen ==
  ASSUME RulesTyped, NEW i \in 1 .. Len(script), script[i].do = "record", NEW k, Starts(script, k, i)
  PROVE  Ended(script, k, i) /\ script[k].trial # script[i].trial
<1>0. i \in 1 .. Len(script) + 1
  BY ScriptShape
<1>1. k \in 1 .. Len(script) /\ k < i /\ script[k].do = "record"
  BY <1>0, RecordsTrial
<1>2. script[k].trial # script[i].trial /\ \E q \in k .. i : script[q].do = "stop"
  BY <1>1, ScriptShape DEF Numbered
<1>3. PICK q \in k .. i : script[q].do = "stop"
  BY <1>2
<1>4. q \in k .. i - 1
  BY <1>1, <1>3
<1> QED
  BY <1>2, <1>3, <1>4 DEF Ended

\* Metadata is sent while the recording it belongs to goes on.
LEMMA LabelOpen ==
  ASSUME RulesTyped, NEW i \in 1 .. Len(script), NEW t \in Trials, Labels(script, i, t)
  PROVE  \E k \in 1 .. Len(script) : Open(script, k, i) /\ script[k].trial = t
<1>1. PICK k \in 1 .. i : /\ script[k].do = "record" /\ script[k].trial = t
                          /\ \A q \in k .. i : script[q].do # "stop"
  BY ScriptShape DEF Filed, During
<1>2. k # i
  BY <1>1 DEF Labels
<1>3. k \in 1 .. i - 1 /\ k \in 1 .. Len(script) /\ \A q \in k .. i - 1 : q \in k .. i
  BY <1>1, <1>2, ScriptShape
<1> QED
  BY <1>1, <1>3 DEF Open, Starts, Ended

\* A recording that is about to be stopped got its metadata, if there is any.
LEMMA LabelledAtStop ==
  ASSUME RulesTyped, NEW i \in 1 .. Len(script), script[i].do = "stop", NEW k, Open(script, k, i),
         script[k].trial \in Described
  PROVE  Labelled(script, script[k].trial, i)
<1> DEFINE t == script[k].trial
<1>1. k \in 1 .. Len(script) /\ k < i /\ script[k].do = "record" /\ t \in Trials
  BY ScriptShape, RecordsTrial DEF Open
<1>2. PICK q \in 1 .. Len(script) : Labels(script, q, t)
  BY ScriptShape DEF Described, Labels
<1>3. PICK l \in 1 .. Len(script) : Open(script, l, q) /\ script[l].trial = t
  BY <1>1, <1>2, LabelOpen
<1>4. l = k
  BY <1>1, <1>3, OneRecording DEF Open, Starts
<1>5. q < i
  <2>1. ~(i \in k .. q - 1) /\ i # q
    BY <1>2, <1>3, <1>4 DEF Open, Ended, Labels
  <2> QED
    BY <1>1, <2>1, ScriptShape
<1>6. q \in 1 .. i - 1
  BY <1>5
<1> QED
  BY <1>2, <1>6 DEF Labelled

\* Before its recording starts a trial has no metadata.
LEMMA NotLabelledYet ==
  ASSUME RulesTyped, NEW i \in 1 .. Len(script), script[i].do = "record"
  PROVE  ~Labelled(script, script[i].trial, i)
<1> SUFFICES ASSUME NEW q \in 1 .. i - 1, Labels(script, q, script[i].trial)
             PROVE  FALSE
  BY DEF Labelled
<1>1. q \in 1 .. Len(script) /\ q < i /\ script[i].trial \in Trials
  BY ScriptShape DEF Typed
<1>2. PICK k \in 1 .. Len(script) : Open(script, k, q) /\ script[k].trial = script[i].trial
  BY <1>1, LabelOpen
<1>3. k = i /\ k < q
  BY <1>1, <1>2, OneRecording DEF Open, Starts
<1> QED
  BY <1>1, <1>3

\* Nobody interferes: the session runs, no handler beside the rules, and the
\* admin's page was not reloaded.
Plain == RunsOn /\ handler.by # "report" /\ "reload" \notin Troubles
\* The run is at the end of a recording.
Stopping == run.pc <= Len(script) /\ script[run.pc].do = "stopped"
\* The recording on the way is that of the agent.
OpenInv ==
    /\ \A k \in Nat : Open(script, k, run.pc) =>
          recording = script[k].trial /\ cloud[script[k].trial] = "none"
    /\ recording # 0 /\ ~Stopping => \E k \in Nat : Open(script, k, run.pc)
\* A recording ended that the recorder never had.
Deficit ==
    \E k \in Nat : /\ Starts(script, k, run.pc) /\ Ended(script, k, run.pc)
                   /\ cloud[script[k].trial] = "none"
\* The recorder records a trial, or is about to, with the metadata that was sent.
InStep(a, t, label) ==
    \/ a.on = t /\ a.timer = 0 /\ a.pending = 0 /\ a.meta = label
    \/ a.on = 0 /\ a.timer = t /\ a.pending = label
AtRest(a) == a.on = 0 /\ a.timer = 0 /\ a.pending = 0
\* What ended was kept with its metadata, and the recorder does what the agent
\* thinks.
Sound ==
    /\ \A k \in Nat : Starts(script, k, run.pc) =>
          LET t == script[k].trial IN
          IF Ended(script, k, run.pc) THEN t \in Described => kept[t] = t
          ELSE InStep(admin, t, LabelOf(script, t, run.pc))
    /\ (\A k \in Nat : ~Open(script, k, run.pc)) => AtRest(admin)
LabelInv == Plain => OpenInv /\ (Deficit \/ Sound)

\* What is plain now was plain before.
LEMMA PlainBefore ==
  ASSUME CoreInv, StopInv, Next, Plain'
  PROVE  /\ Plain /\ ~aborted /\ run.at = "going" /\ run'.at = "going"
         /\ ~AdminReloads /\ ~HandlerStep /\ ~Throw
<1> USE DEF CoreInv, TypeInv
<1>1. RunsOn /\ ~aborted /\ run.at = "going" /\ run'.at = "going"
  BY RanBefore DEF Plain, RunsOn
<1>2. Troubles \subseteq Troubles' /\ MishapTyped
  BY MishapType
<1>3. handler.by # "report"
  BY Moves DEF HandlerInv, Apart, Losing, Withdrawing, Handles, Ends, Plain
<1>4. ~AdminReloads
  BY <1>2, MishapCounts DEF Plain, AdminReloads
<1>5. handler.at = 0
  BY <1>1, <1>3 DEF HandlerInv, HandlerTyped, HandlerStates
<1>6. ~HandlerStep
  BY <1>5 DEF HandlerStep, HandlerLists, HandlerSends, HandlerStops, HandlerForgets, HandlerEnds
<1>7. ~Throw
  BY <1>1 DEF Throw, LeaveRules, RunTyped
<1> QED
  BY <1>1, <1>2, <1>3, <1>4, <1>6, <1>7 DEF Plain

\* The agent's recording and the recorder.
recorderState == <<recording, cloud, kept, admin.on, admin.timer, admin.meta, admin.pending>>
\* The instruction sends metadata.
Labelling == Doing("send") /\ Ins.msg = "metadata"
\* The steps of a plain session that concern neither.
LEMMA RecorderUntouched ==
  ASSUME CoreInv, StopInv, Next, Plain', ~StartsRecording, ~StopsRecording, ~ForgetsRecording, ~Recorder,
         ~(Sends /\ Labelling)
  PROVE  UNCHANGED recorderState
<1> USE DEF CoreInv, TypeInv, recorderState
<1>0. ~AdminReloads /\ ~HandlerStep /\ ~Throw
  BY PlainBefore
<1>1. CASE UNCHANGED <<recording, cloud, kept, admin>>
  BY <1>1
<1>2. CASE Sends
  <2>1. UNCHANGED <<recording, cloud, kept>>
    BY <1>2 DEF Sends
  <2>2. CASE Send(Ins.msg, Ins.value)
    <3>1. Ins.msg # "metadata"
      <4>1. Doing("send") \/ Doing("set") \/ Doing("offer")
        BY <1>2 DEF Sends
      <4>2. run.pc \in 1 .. Len(script) /\ Ins = script[run.pc]
        BY <4>1, ScriptShape DEF Doing, Running, Ins, RunTyped
      <4>3. Ins.msg = "metadata" => Ins.do = "send"
        BY <4>1, <4>2, ScriptShape DEF Typed, Doing
      <4> QED
        BY <1>2, <4>1, <4>3 DEF Labelling, Doing
    <3> QED
      BY <2>1, <2>2, <3>1, NoteKeeps DEF Send
  <2> QED
    BY <1>1, <1>2, <2>1, <2>2 DEF Sends
<1>3. CASE AsksForLocks \/ Completes
  <2>1. UNCHANGED admin \/ Note("relock", Unlocked) \/ Note("complete", TRUE)
    BY <1>3 DEF AsksForLocks, Completes, Send
  <2>2. UNCHANGED <<recording, cloud, kept>>
    BY <1>3 DEF AsksForLocks, Completes
  <2>3. ASSUME NEW msg, NEW value, Note(msg, value), msg # "metadata"
        PROVE  /\ admin'.on = admin.on /\ admin'.timer = admin.timer
               /\ admin'.meta = admin.meta /\ admin'.pending = admin.pending
    BY <2>3, NoteKeeps
  <2> QED
    BY <2>1, <2>2, <2>3
<1>4. CASE DetectorFires
  <2>1. UNCHANGED <<recording, cloud, kept>> /\ admin' = [admin EXCEPT !.detector = 0]
    BY <1>4 DEF DetectorFires, agentVars
  <2> QED
    BY <2>1 DEF RecorderTyped
<1>5. CASE SendFails
  BY <1>0, <1>1, <1>5 DEF SendFails, recorderVars
<1>6. CASE Arrives
  BY <1>1, <1>6 DEF Arrives, StatusArrives, WithdrawArrives, HitArrives, recorderVars
<1>7. CASE ReportFails \/ UploadsSettled \/ \E p \in Pages : Leave(p)
  BY <1>1, <1>7 DEF ReportFails, UploadsSettled, Leave, waiting, agentVars, recorderVars
<1>8. CASE ~Records
  BY <1>1, <1>8, RecordsOnly, Numbers DEF recordingVars
<1> QED
  BY <1>0, <1>2, <1>3, <1>4, <1>5, <1>6, <1>7, <1>8 DEF Records, HandlerStep

\* The run stays, or passes nothing that concerns the recordings.
SamePlace(pc) ==
    /\ \A k \in Nat : Starts(script, k, pc) <=> Starts(script, k, run.pc)
    /\ \A k \in Nat : Starts(script, k, pc) => (Ended(script, k, pc) <=> Ended(script, k, run.pc))
    /\ \A t \in Trials : LabelOf(script, t, pc) = LabelOf(script, t, run.pc)
\* So it is where no recording starts or stops and no metadata is sent.
LEMMA StaysInPlace ==
  ASSUME CoreInv, Next, run'.at = "going", Still \/ (Ins.do \notin {"record", "stop"} /\ ~Labelling)
  PROVE  SamePlace(run'.pc)
<1> USE DEF CoreInv, TypeInv
<1>1. CASE Still
  BY <1>1 DEF Still, SamePlace
<1>2. CASE ~Still
  <2>1. /\ Running /\ run.pc \in 1 .. Len(script) /\ run'.pc \in run.pc + 1 .. Len(script) + 1
        /\ Passes(script, run.pc, run'.pc)
    BY <1>2, GoingOn DEF Still
  <2>2. script[run.pc].do \notin {"record", "stop"} /\ \A t \in Trials : ~Labels(script, run.pc, t)
    BY <1>2, <2>1 DEF Labelling, Doing, Ins, Labels
  <2>3. run.pc \in Nat \ {0} /\ run'.pc \in Nat /\ run.pc < run'.pc
    BY <2>1, ScriptShape
  <2>4. /\ \A k \in Nat : Starts(script, k, run'.pc) <=> Starts(script, k, run.pc)
        /\ \A k \in Nat : Starts(script, k, run.pc) =>
              (Ended(script, k, run'.pc) <=> Ended(script, k, run.pc))
        /\ \A t \in Trials : Labelled(script, t, run'.pc) <=> Labelled(script, t, run.pc)
    BY <2>1, <2>2, <2>3, Passage
  <2> QED
    BY <2>4 DEF SamePlace, LabelOf
<1> QED
  BY <1>1, <1>2

\* Where nothing starts or stops, and the recorder keeps in step, everything
\* stays as it is.
LEMMA FrameKeeps ==
  ASSUME CoreInv, Next, OpenInv, Deficit \/ Sound, SamePlace(run'.pc), Stopping => Stopping',
         UNCHANGED <<recording, kept>>, \A t \in Trials : cloud'[t] = "none" <=> cloud[t] = "none",
         \A t \in Trials, l \in Trials \cup {0} : InStep(admin, t, l) => InStep(admin', t, l),
         AtRest(admin) => AtRest(admin')
  PROVE  OpenInv' /\ (Deficit' \/ Sound')
<1> USE DEF CoreInv, TypeInv
<1>s. script' = script /\ Described' = Described
  BY RulesStay, Numbers DEF rules, Described
<1>t. \A k : Starts(script, k, run.pc) => script[k].trial \in Trials
  BY RecordsTrial DEF RunTyped
<1>o. \A k \in Nat : Open(script, k, run'.pc) <=> Open(script, k, run.pc)
  BY DEF Open, SamePlace
<1>1. OpenInv'
  <2>1. \A k \in Nat : Open(script, k, run'.pc) => recording' = script[k].trial /\ cloud'[script[k].trial] = "none"
    BY <1>t, <1>o DEF OpenInv, Open
  <2>2. recording' # 0 /\ ~Stopping' => \E k \in Nat : Open(script, k, run'.pc)
    BY <1>o DEF OpenInv
  <2> QED
    BY <1>s, <2>1, <2>2 DEF OpenInv
<1>2. ASSUME Deficit PROVE Deficit'
  <2>1. PICK k \in Nat : Starts(script, k, run.pc) /\ Ended(script, k, run.pc) /\ cloud[script[k].trial] = "none"
    BY <1>2 DEF Deficit
  <2>2. Starts(script, k, run'.pc) /\ Ended(script, k, run'.pc) /\ cloud'[script[k].trial] = "none"
    BY <1>t, <2>1 DEF SamePlace
  <2> QED
    BY <1>s, <2>2 DEF Deficit
<1>3. ASSUME Sound PROVE Sound'
  <2>1. ASSUME NEW k \in Nat, Starts(script, k, run'.pc)
        PROVE  LET t == script[k].trial IN
               IF Ended(script, k, run'.pc) THEN t \in Described => kept'[t] = t
               ELSE InStep(admin', t, LabelOf(script, t, run'.pc))
    <3> DEFINE t == script[k].trial
    <3>1. Starts(script, k, run.pc) /\ t \in Trials /\ (Ended(script, k, run'.pc) <=> Ended(script, k, run.pc))
      BY <1>t, <2>1 DEF SamePlace
    <3>2. LabelOf(script, t, run'.pc) = LabelOf(script, t, run.pc) /\ LabelOf(script, t, run.pc) \in Trials \cup {0}
      BY <3>1 DEF SamePlace, LabelOf
    <3>3. IF Ended(script, k, run.pc) THEN t \in Described => kept[t] = t
          ELSE InStep(admin, t, LabelOf(script, t, run.pc))
      BY <1>3, <3>1 DEF Sound
    <3> HIDE DEF t
    <3>4. IF Ended(script, k, run'.pc) THEN t \in Described => kept'[t] = t
          ELSE InStep(admin', t, LabelOf(script, t, run'.pc))
      BY <3>1, <3>2, <3>3
    <3> QED
      BY <3>4 DEF t
  <2>2. (\A k \in Nat : ~Open(script, k, run'.pc)) => AtRest(admin')
    BY <1>3, <1>o DEF Sound
  <2> QED
    BY <1>s, <2>1, <2>2 DEF Sound
<1> QED
  BY <1>1, <1>2, <1>3

\* Metadata comes to the recorder of its trial.
LEMMA LabelsStep ==
  ASSUME CoreInv, StopInv, OpenInv, Deficit \/ Sound, Next, Plain', Sends, Labelling
  PROVE  OpenInv' /\ (Deficit' \/ Sound')
<1> USE DEF CoreInv, TypeInv
<1>s. script' = script /\ Len(script) \in Nat /\ Described' = Described
  BY RulesStay, Numbers, ScriptShape DEF rules, Described
<1>0. run.pc \in 1 .. Len(script) /\ Ins = script[run.pc] /\ script[run.pc].do = "send" /\ run'.pc = run.pc + 1
  BY <1>s DEF Labelling, Doing, Running, Ins, RunTyped, Sends, Step, Go
<1> DEFINE v == Ins.value
<1>1. v \in Trials /\ v # 0 /\ Labels(script, run.pc, v)
  BY <1>0, ScriptShape, Numbers DEF Typed, Labels, Labelling
<1>2. UNCHANGED <<recording, cloud, kept>> /\ admin' = MetadataHeard(v)
  BY <1>0 DEF Sends, Labelling, Send, Note
<1> HIDE DEF v
<1>3. PICK k \in 1 .. Len(script) : Open(script, k, run.pc) /\ script[k].trial = v
  BY <1>0, <1>1, LabelOpen
<1>4. Passes(script, run.pc, run'.pc) /\ run.pc \in Nat \ {0} /\ run'.pc \in Nat /\ run.pc < run'.pc
  BY <1>0 DEF Passes
<1>5. /\ \A l \in Nat : Starts(script, l, run'.pc) <=> Starts(script, l, run.pc)
      /\ \A l \in Nat : Starts(script, l, run.pc) =>
            (Ended(script, l, run'.pc) <=> Ended(script, l, run.pc))
      /\ Labelled(script, v, run'.pc)
  BY <1>0, <1>1, <1>4, Passage
<1>o. \A l \in Nat : Open(script, l, run'.pc) <=> Open(script, l, run.pc)
  BY <1>5 DEF Open
<1>6. OpenInv'
  <2>1. ~Stopping
    BY <1>0 DEF Stopping
  <2>2. \A l \in Nat : Open(script, l, run'.pc) => recording' = script[l].trial /\ cloud'[script[l].trial] = "none"
    BY <1>2, <1>o DEF OpenInv
  <2>3. \E l \in Nat : Open(script, l, run'.pc)
    BY <1>3, <1>o
  <2> QED
    BY <1>s, <2>2, <2>3 DEF OpenInv
<1>7. ASSUME Deficit PROVE Deficit'
  <2>1. PICK l \in Nat : Starts(script, l, run.pc) /\ Ended(script, l, run.pc) /\ cloud[script[l].trial] = "none"
    BY <1>7 DEF Deficit
  <2>2. Starts(script, l, run'.pc) /\ Ended(script, l, run'.pc) /\ cloud'[script[l].trial] = "none"
    BY <1>2, <1>5, <2>1
  <2> QED
    BY <1>s, <2>2 DEF Deficit
<1>8. ASSUME Sound PROVE Sound'
  <2>1. InStep(admin, v, LabelOf(script, v, run.pc))
    BY <1>3, <1>8 DEF Sound, Open
  <2>2. InStep(admin', v, v)
    BY <1>1, <1>2, <2>1 DEF InStep, MetadataHeard, RecorderTyped
  <2>3. ASSUME NEW l \in Nat, Starts(script, l, run'.pc)
        PROVE  LET t == script[l].trial IN
               IF Ended(script, l, run'.pc) THEN t \in Described => kept'[t] = t
               ELSE InStep(admin', t, LabelOf(script, t, run'.pc))
    <3> DEFINE t == script[l].trial
    <3>1. Starts(script, l, run.pc) /\ (Ended(script, l, run'.pc) <=> Ended(script, l, run.pc)) /\ t \in Trials
      BY <1>5, <2>3, RecordsTrial DEF RunTyped
    <3>2. IF Ended(script, l, run.pc) THEN t \in Described => kept[t] = t
          ELSE InStep(admin, t, LabelOf(script, t, run.pc))
      BY <1>8, <3>1 DEF Sound
    <3>3. t # 0
      BY <3>1, Numbers
    <3> HIDE DEF t
    <3>4. ~Ended(script, l, run.pc) => t = v
      BY <1>1, <2>1, <3>2, <3>3 DEF InStep
    <3>5. LabelOf(script, v, run'.pc) = v
      BY <1>5 DEF LabelOf
    <3>6. IF Ended(script, l, run'.pc) THEN t \in Described => kept'[t] = t
          ELSE InStep(admin', t, LabelOf(script, t, run'.pc))
      BY <1>2, <2>2, <3>1, <3>2, <3>4, <3>5
    <3> QED
      BY <3>6 DEF t
  <2>4. ~\A l \in Nat : ~Open(script, l, run'.pc)
    BY <1>3, <1>o
  <2> QED
    BY <1>s, <2>3, <2>4 DEF Sound
<1> QED
  BY <1>6, <1>7, <1>8

\* A recording starts in step.
LEMMA RecordStep ==
  ASSUME CoreInv, StopInv, FreshInv, OpenInv, Deficit \/ Sound, Next, Plain', StartsRecording
  PROVE  OpenInv' /\ (Deficit' \/ Sound')
<1> USE DEF CoreInv, TypeInv
<1>s. script' = script /\ Len(script) \in Nat /\ Described' = Described
  BY RulesStay, Numbers, ScriptShape DEF rules, Described
<1>0. /\ run.pc \in 1 .. Len(script) /\ Ins = script[run.pc] /\ script[run.pc].do = "record"
      /\ run'.pc = run.pc + 1 /\ ~aborted /\ run.at = "going"
  BY <1>s, PlainBefore DEF StartsRecording, Doing, Running, Ins, RunTyped, Step, Go
<1> DEFINE v == Ins.trial
<1>1. v \in Trials /\ v # 0 /\ cloud[v] = "none"
  BY <1>0, ScriptShape, Numbers DEF Typed, FreshInv
<1>2. /\ recording' = v /\ UNCHANGED <<cloud, kept>>
      /\ admin'.on = admin.on /\ admin'.timer = v /\ admin'.pending = admin.pending
  BY <1>0 DEF StartsRecording, BeginsRecording, HearsStart, RecorderTyped
<1>n. ~Labelled(script, v, run.pc) /\ \A l : Starts(script, l, run.pc) => Ended(script, l, run.pc)
  BY <1>0, NotLabelledYet, OneOpen
<1>v. v = script[run.pc].trial
  BY <1>0
<1> HIDE DEF v
<1>4. Passes(script, run.pc, run'.pc) /\ run.pc \in Nat \ {0} /\ run'.pc \in Nat /\ run.pc < run'.pc
  BY <1>0 DEF Passes
<1>5. /\ \A l \in Nat : Starts(script, l, run'.pc) <=> Starts(script, l, run.pc) \/ l = run.pc
      /\ \A l \in Nat : Starts(script, l, run.pc) =>
            (Ended(script, l, run'.pc) <=> Ended(script, l, run.pc))
      /\ ~Ended(script, run.pc, run'.pc)
      /\ ~Labelled(script, v, run'.pc)
  <2>1. ~Labels(script, run.pc, v)
    BY <1>0 DEF Labels
  <2> QED
    BY <1>0, <1>1, <1>4, <1>n, <2>1, Passage
<1>o. \A l \in Nat : Open(script, l, run'.pc) <=> l = run.pc
  BY <1>4, <1>5, <1>n DEF Open
<1>6. OpenInv'
  <2>1. \A l \in Nat : Open(script, l, run'.pc) => recording' = script[l].trial /\ cloud'[script[l].trial] = "none"
    BY <1>1, <1>2, <1>o, <1>v
  <2>2. \E l \in Nat : Open(script, l, run'.pc)
    BY <1>4, <1>o
  <2> QED
    BY <1>s, <2>1, <2>2 DEF OpenInv
<1>7. ASSUME Deficit PROVE Deficit'
  <2>1. PICK l \in Nat : Starts(script, l, run.pc) /\ Ended(script, l, run.pc) /\ cloud[script[l].trial] = "none"
    BY <1>7 DEF Deficit
  <2>2. Starts(script, l, run'.pc) /\ Ended(script, l, run'.pc) /\ cloud'[script[l].trial] = "none"
    BY <1>2, <1>5, <2>1
  <2> QED
    BY <1>s, <2>2 DEF Deficit
<1>8. ASSUME Sound PROVE Sound'
  <2>1. AtRest(admin)
    BY <1>8, <1>n DEF Sound, Open
  <2>2. InStep(admin', v, 0)
    BY <1>2, <2>1 DEF AtRest, InStep
  <2>3. ASSUME NEW l \in Nat, Starts(script, l, run'.pc)
        PROVE  LET t == script[l].trial IN
               IF Ended(script, l, run'.pc) THEN t \in Described => kept'[t] = t
               ELSE InStep(admin', t, LabelOf(script, t, run'.pc))
    <3>1. CASE l = run.pc
      BY <1>5, <1>v, <2>2, <3>1 DEF LabelOf
    <3>2. CASE l # run.pc
      <4>1. Starts(script, l, run.pc) /\ Ended(script, l, run.pc) /\ Ended(script, l, run'.pc)
        BY <1>5, <1>n, <2>3, <3>2
      <4>2. script[l].trial \in Described => kept[script[l].trial] = script[l].trial
        BY <1>8, <4>1 DEF Sound
      <4> QED
        BY <1>2, <4>1, <4>2
    <3> QED
      BY <3>1, <3>2
  <2>4. ~\A l \in Nat : ~Open(script, l, run'.pc)
    BY <1>4, <1>o
  <2> QED
    BY <1>s, <2>3, <2>4 DEF Sound
<1> QED
  BY <1>6, <1>7, <1>8

\* A recording that is stopped is kept with its metadata, or was never there.
LEMMA EndStopStep ==
  ASSUME CoreInv, StopInv, AheadInv, OpenInv, Deficit \/ Sound, Next, Plain', StopsRecording
  PROVE  OpenInv' /\ (Deficit' \/ Sound')
<1> USE DEF CoreInv, TypeInv
<1>s. script' = script /\ Len(script) \in Nat /\ Described' = Described
  BY RulesStay, Numbers, ScriptShape DEF rules, Described
<1>0. run.pc \in 1 .. Len(script) /\ Ins = script[run.pc] /\ script[run.pc].do = "stop" /\ ~aborted
  BY <1>s, PlainBefore DEF StopsRecording, Doing, Running, Ins, RunTyped
<1>1. \/ recording = 0 /\ run'.pc = run.pc + 2 /\ UNCHANGED <<recording, admin, cloud, kept>>
      \/ recording # 0 /\ run'.pc = run.pc + 1 /\ UNCHANGED recording /\ HearsStop
  BY <1>0 DEF StopsRecording, Step, Go, RunTyped, recorderVars
<1>2. /\ Passes(script, run.pc, run'.pc) /\ run.pc \in Nat \ {0} /\ run'.pc \in Nat /\ run.pc < run'.pc
  <2>1. Passes(script, run.pc, run.pc + 1)
    BY <1>0 DEF Passes
  <2>2. Passes(script, run.pc, run.pc + 2)
    BY <1>0, ScriptShape DEF Jumps, Skips
  <2> QED
    BY <1>0, <1>1, <2>1, <2>2
<1>3. /\ \A l \in Nat : Starts(script, l, run'.pc) <=> Starts(script, l, run.pc)
      /\ \A l \in Nat : Starts(script, l, run.pc) => Ended(script, l, run'.pc)
  BY <1>0, <1>2, Passage
<1>t. \A l : Starts(script, l, run.pc) => script[l].trial \in Trials /\ l \in 1 .. Len(script) /\ script[l].do = "record"
  BY RecordsTrial DEF RunTyped
<1>o. \A l \in Nat : ~Open(script, l, run'.pc)
  BY <1>3 DEF Open
<1>4. OpenInv'
  <2>1. recording' # 0 => Stopping'
    <3>1. run.pc < Len(script) /\ script[run.pc + 1].do = "stopped"
      BY <1>0, ScriptShape DEF Ordered
    <3> QED
      BY <1>s, <1>0, <1>1, <3>1 DEF Stopping
  <2> QED
    BY <1>s, <1>o, <2>1 DEF OpenInv
<1>5. ASSUME NEW k \in Nat, Starts(script, k, run.pc), cloud'[script[k].trial] = "none"
      PROVE  Deficit'
  BY <1>s, <1>3, <1>5 DEF Deficit
<1>6. ASSUME AtRest(admin'),
             \A k \in Nat : Starts(script, k, run.pc) /\ script[k].trial \in Described =>
                kept'[script[k].trial] = script[k].trial
      PROVE  Sound'
  BY <1>s, <1>3, <1>6 DEF Sound
<1>7. CASE recording = 0
  <2>1. UNCHANGED <<admin, cloud, kept>> /\ \A k \in Nat : ~Open(script, k, run.pc)
    <3>1. \A k \in Nat : Open(script, k, run.pc) => script[k].trial = 0
      BY <1>7 DEF OpenInv
    <3> QED
      BY <1>1, <1>7, <1>t, <3>1, Numbers DEF Open
  <2>2. CASE Deficit
    <3>1. PICK k \in Nat : Starts(script, k, run.pc) /\ cloud[script[k].trial] = "none"
      BY <2>2 DEF Deficit
    <3> QED
      BY <1>4, <1>5, <2>1, <3>1
  <2>3. CASE Sound
    <3>1. AtRest(admin')
      BY <2>1, <2>3 DEF Sound
    <3>2. ASSUME NEW k \in Nat, Starts(script, k, run.pc), script[k].trial \in Described
          PROVE  kept'[script[k].trial] = script[k].trial
      <4>1. Ended(script, k, run.pc)
        BY <2>1, <3>2 DEF Open
      <4> QED
        BY <2>1, <2>3, <3>2, <4>1 DEF Sound
    <3> QED
      BY <1>4, <1>6, <3>1, <3>2
  <2> QED
    BY <1>4, <2>2, <2>3
<1>8. CASE recording # 0
  <2>1. HearsStop /\ ~Stopping
    BY <1>0, <1>1, <1>8 DEF Stopping
  <2>2. PICK k \in Nat : Open(script, k, run.pc)
    BY <1>8, <2>1 DEF OpenInv
  <2>3. Starts(script, k, run.pc) /\ script[k].trial \in Trials /\ cloud[script[k].trial] = "none"
    BY <1>t, <2>2 DEF OpenInv, Open
  <2>4. CASE admin.on = 0
    <3>1. cloud' = cloud
      BY <2>1, <2>4, StopStores
    <3> QED
      BY <1>4, <1>5, <2>3, <3>1
  <2>5. CASE admin.on # 0
    <3>1. /\ admin.on \in Trials
          /\ admin'.on = 0 /\ admin'.timer = admin.timer /\ admin'.pending = admin.pending
          /\ \A t \in Trials : t # admin.on => cloud'[t] = cloud[t] /\ kept'[t] = kept[t]
          /\ kept'[admin.on] = admin.meta
      BY <2>1, <2>5, StopStores DEF RecordingTyped
    <3>2. CASE script[k].trial # admin.on
      BY <1>4, <1>5, <2>3, <3>1, <3>2
    <3>3. CASE script[k].trial = admin.on
      <4>1. \A l \in Nat : Starts(script, l, run.pc) /\ script[l].trial = admin.on => l = k
        BY <1>t, <2>3, <3>3, OneRecording
      <4>2. CASE Deficit
        <5>1. PICK l \in Nat : Starts(script, l, run.pc) /\ Ended(script, l, run.pc) /\ cloud[script[l].trial] = "none"
          BY <4>2 DEF Deficit
        <5>2. script[l].trial # admin.on /\ script[l].trial \in Trials
          BY <1>t, <2>2, <4>1, <5>1 DEF Open
        <5>3. cloud'[script[l].trial] = "none"
          BY <3>1, <5>1, <5>2
        <5> QED
          BY <1>4, <1>5, <5>1, <5>3
      <4>3. CASE Sound
        <5>1. InStep(admin, admin.on, LabelOf(script, admin.on, run.pc))
          BY <2>2, <3>3, <4>3 DEF Sound, Open
        <5>2. admin.timer = 0 /\ admin.pending = 0 /\ admin.meta = LabelOf(script, admin.on, run.pc)
          BY <2>5, <5>1 DEF InStep
        <5>3. AtRest(admin')
          BY <3>1, <5>2 DEF AtRest
        <5>4. ASSUME NEW l \in Nat, Starts(script, l, run.pc), script[l].trial \in Described
              PROVE  kept'[script[l].trial] = script[l].trial
          <6>1. CASE script[l].trial = admin.on
            <7>1. Labelled(script, admin.on, run.pc)
              BY <1>0, <2>2, <3>3, <5>4, <6>1, LabelledAtStop
            <7> QED
              BY <3>1, <5>2, <6>1, <7>1 DEF LabelOf
          <6>2. CASE script[l].trial # admin.on
            <7>1. IF Ended(script, l, run.pc) THEN kept[script[l].trial] = script[l].trial
                  ELSE InStep(admin, script[l].trial, LabelOf(script, script[l].trial, run.pc))
              BY <4>3, <5>4 DEF Sound
            <7>2. kept[script[l].trial] = script[l].trial
              BY <2>5, <6>2, <7>1 DEF InStep
            <7> QED
              BY <1>t, <3>1, <5>4, <6>2, <7>2
          <6> QED
            BY <6>1, <6>2
        <5> QED
          BY <1>4, <1>6, <5>3, <5>4
      <4> QED
        BY <4>2, <4>3
    <3> QED
      BY <3>2, <3>3
  <2> QED
    BY <2>4, <2>5
<1> QED
  BY <1>7, <1>8

\* After a stop the agent forgets the recording.
LEMMA ForgetStep ==
  ASSUME CoreInv, StopInv, OpenInv, Deficit \/ Sound, Next, Plain', ForgetsRecording
  PROVE  OpenInv' /\ (Deficit' \/ Sound')
<1> USE DEF CoreInv, TypeInv
<1>s. script' = script /\ Len(script) \in Nat /\ Described' = Described
  BY RulesStay, Numbers, ScriptShape DEF rules, Described
<1>0. run.pc \in 1 .. Len(script) /\ script[run.pc].do = "stopped" /\ Ins = script[run.pc] /\ run'.at = "going"
  BY <1>s, PlainBefore DEF ForgetsRecording, Doing, Running, Ins, RunTyped
<1>1. recording' = 0 /\ UNCHANGED <<admin, cloud, kept>>
  BY DEF ForgetsRecording, recorderVars
<1>2. SamePlace(run'.pc)
  BY <1>0, StaysInPlace DEF Labelling, Doing
<1>3. \A k \in Nat : ~Open(script, k, run.pc)
  <2>1. run.pc > 1 /\ script[run.pc - 1].do = "stop"
    BY <1>0, ScriptShape DEF Ordered
  <2>2. ASSUME NEW k \in Nat, k \in 1 .. run.pc - 1 PROVE run.pc - 1 \in k .. run.pc - 1
    BY <1>0, <2>2
  <2> QED
    BY <2>1, <2>2 DEF Open, Starts, Ended
<1>4. \A k \in Nat : ~Open(script, k, run'.pc)
  BY <1>2, <1>3 DEF SamePlace, Open
<1>5. OpenInv'
  BY <1>s, <1>1, <1>4 DEF OpenInv
<1>6. ASSUME Deficit PROVE Deficit'
  <2>1. PICK k \in Nat : Starts(script, k, run.pc) /\ Ended(script, k, run.pc) /\ cloud[script[k].trial] = "none"
    BY <1>6 DEF Deficit
  <2>2. Starts(script, k, run'.pc) /\ Ended(script, k, run'.pc) /\ cloud'[script[k].trial] = "none"
    BY <1>1, <1>2, <2>1 DEF SamePlace
  <2> QED
    BY <1>s, <2>2 DEF Deficit
<1>7. ASSUME Sound PROVE Sound'
  <2>1. AtRest(admin')
    BY <1>1, <1>3, <1>7 DEF Sound
  <2>2. ASSUME NEW k \in Nat, Starts(script, k, run'.pc)
        PROVE  /\ Ended(script, k, run'.pc)
               /\ script[k].trial \in Described => kept'[script[k].trial] = script[k].trial
    <3>1. Starts(script, k, run.pc) /\ Ended(script, k, run.pc) /\ Ended(script, k, run'.pc)
      BY <1>2, <1>3, <2>2 DEF SamePlace, Open
    <3>2. script[k].trial \in Described => kept[script[k].trial] = script[k].trial
      BY <1>7, <3>1 DEF Sound
    <3> QED
      BY <1>1, <3>1, <3>2
  <2> QED
    BY <1>s, <2>1, <2>2 DEF Sound
<1> QED
  BY <1>5, <1>6, <1>7

\* Every step keeps LabelInv.
LEMMA LabelStep ==
  ASSUME CoreInv, StopInv, FreshInv, AheadInv, LabelInv, Next
  PROVE  LabelInv'
<1> SUFFICES ASSUME Plain' PROVE OpenInv' /\ (Deficit' \/ Sound')
  BY DEF LabelInv
<1> USE DEF CoreInv, TypeInv
<1>0. /\ OpenInv /\ (Deficit \/ Sound) /\ ~aborted /\ run.at = "going" /\ run'.at = "going"
      /\ ~AdminReloads /\ ~HandlerStep /\ ~Throw
  BY PlainBefore DEF LabelInv
<1>s. script' = script
  BY RulesStay, Numbers DEF rules
<1>1. CASE StartsRecording
  BY <1>0, <1>1, RecordStep
<1>2. CASE StopsRecording
  BY <1>0, <1>2, EndStopStep
<1>3. CASE ForgetsRecording
  BY <1>0, <1>3, ForgetStep
<1>4. CASE Sends /\ Labelling
  BY <1>0, <1>4, LabelsStep
<1>5. CASE Recorder
  <2>1. Still
    BY <1>5 DEF Recorder, TimerFires, UploadEnds, Still
  <2>2. SamePlace(run'.pc) /\ (Stopping => Stopping')
    BY <1>0, <1>s, <2>1, StaysInPlace DEF Stopping, Still
  <2>3. CASE TimerFires
    <3>1. /\ admin.timer # 0 /\ UNCHANGED <<recording, cloud, kept>>
          /\ admin'.on = admin.timer /\ admin'.timer = 0 /\ admin'.meta = admin.pending /\ admin'.pending = 0
      BY <2>3, TimerStarts
    <3>2. \A t \in Trials, l \in Trials \cup {0} : InStep(admin, t, l) => InStep(admin', t, l)
      BY <3>1 DEF InStep
    <3>3. AtRest(admin) => AtRest(admin')
      BY <3>1 DEF AtRest
    <3> QED
      BY <1>0, <2>2, <3>1, <3>2, <3>3, FrameKeeps
  <2>4. ASSUME NEW t \in Trials, UploadEnds(t)
        PROVE  OpenInv' /\ (Deficit' \/ Sound')
    <3>1. cloud[t] = "uploading" /\ UNCHANGED <<recording, admin, kept>>
      BY <2>4, UploadStores
    <3>2. PICK end \in {"stored", "lost"} : cloud' = [cloud EXCEPT ![t] = end]
      BY <2>4, UploadStores
    <3>3. \A r \in Trials : cloud'[r] = "none" <=> cloud[r] = "none"
      BY <3>1, <3>2 DEF RecordingTyped
    <3>4. \A r \in Trials, l \in Trials \cup {0} : InStep(admin, r, l) => InStep(admin', r, l)
      BY <3>1
    <3>5. AtRest(admin) => AtRest(admin')
      BY <3>1
    <3> QED
      BY <1>0, <2>2, <3>1, <3>3, <3>4, <3>5, FrameKeeps
  <2> QED
    BY <1>5, <2>3, <2>4 DEF Recorder
<1>6. CASE ~StartsRecording /\ ~StopsRecording /\ ~ForgetsRecording /\ ~Recorder /\ ~(Sends /\ Labelling)
  <2>1. UNCHANGED recorderState
    BY <1>6, RecorderUntouched
  <2>2. Still \/ (Running /\ Ins.do \notin {"record", "stop", "stopped"} /\ ~Labelling)
    <3>1. CASE ~Still
      <4>1. Running
        BY <1>0, <3>1, GoingOn DEF Still
      <4>2. SendFails => Doing("offer")
        BY <1>0 DEF SendFails
      <4>3. Ins.do \notin {"record", "stop", "stopped"}
        BY <1>6, <3>1, <4>1, <4>2, Executes DEF Doing
      <4>4. ~Labelling
        BY <1>6, <3>1, <4>1, <4>2, Executes DEF Labelling, Doing
      <4> QED
        BY <4>1, <4>3, <4>4
    <3> QED
      BY <3>1
  <2>3. SamePlace(run'.pc)
    BY <1>0, <2>2, StaysInPlace
  <2>4. Stopping => Stopping'
    BY <1>s, <2>2 DEF Stopping, Still, Ins
  <2>5. UNCHANGED <<recording, kept, cloud>>
    BY <2>1 DEF recorderState
  <2>6. \A t \in Trials, l \in Trials \cup {0} : InStep(admin, t, l) => InStep(admin', t, l)
    BY <2>1 DEF recorderState, InStep
  <2>7. AtRest(admin) => AtRest(admin')
    BY <2>1 DEF recorderState, AtRest
  <2> QED
    BY <1>0, <2>3, <2>4, <2>5, <2>6, <2>7, FrameKeeps
<1> QED
  BY <1>1, <1>2, <1>3, <1>4, <1>5, <1>6

\* What a completed session has stored.
DoneInv ==
    status = "completed" =>
        /\ \A t \in Recorded : cloud[t] = "stored"
        /\ \A t \in Described : "reload" \in Troubles \/ handler.by = "report" \/ kept[t] = t

\* What is recorded are trials, and metadata is sent for those only.
LEMMA DescribedRecorded ==
  ASSUME RulesTyped
  PROVE  Described \subseteq Recorded /\ Recorded \subseteq Trials
<1>1. Recorded \subseteq Trials
  BY ScriptShape DEF Recorded, Typed
<1>2. ASSUME NEW t \in Described
      PROVE  t \in Recorded
  <2>1. PICK i \in 1 .. Len(script) : script[i].do = "send" /\ script[i].msg = "metadata" /\ script[i].value = t
    BY ScriptShape DEF Described
  <2>2. t \in Trials
    BY <2>1, ScriptShape DEF Typed
  <2>3. PICK k \in 1 .. Len(script) : Open(script, k, i) /\ script[k].trial = t
    BY <2>1, <2>2, LabelOpen DEF Labels
  <2>4. script[k].do = "record"
    BY <2>3 DEF Open, Starts
  <2> QED
    BY <2>3, <2>4, ScriptShape DEF Recorded
<1> QED
  BY <1>1, <1>2

\* At the end of the rules everything is stored.
LEMMA CompletesStored ==
  ASSUME CoreInv, AheadInv, FiledInv, LabelInv, RulesEnd, status = "running"
  PROVE  /\ \A t \in Recorded : cloud[t] = "stored"
         /\ \A t \in Described : "reload" \in Troubles \/ handler.by = "report" \/ kept[t] = t
<1> USE DEF CoreInv, TypeInv
<1>1. run.pc = Len(script) + 1 /\ Len(script) \in Nat /\ RunsOn
  BY ScriptShape DEF RulesEnd, RunTyped, RunsOn
<1>2. ASSUME NEW k \in 1 .. Len(script), script[k].do = "record"
      PROVE  cloud[script[k].trial] = "stored" /\ Starts(script, k, run.pc)
  <2>1. PICK j \in k .. Len(script) : script[j].do = "uploads"
    BY <1>2, ScriptShape DEF Filed
  <2>2. k \in 1 .. run.pc - 1 /\ j \in k .. run.pc - 1
    BY <1>1, <2>1
  <2> QED
    BY <1>1, <1>2, <2>1, <2>2 DEF FiledInv, Starts
<1>3. \A t \in Recorded : \E k \in 1 .. Len(script) : script[k].do = "record" /\ script[k].trial = t
  BY <1>1 DEF Recorded
<1>4. ASSUME NEW t \in Described, "reload" \notin Troubles, handler.by # "report"
      PROVE  kept[t] = t
  <2>1. PICK k \in 1 .. Len(script) : script[k].do = "record" /\ script[k].trial = t
    BY <1>3, DescribedRecorded
  <2>2. cloud[t] = "stored" /\ Starts(script, k, run.pc) /\ k \in Nat
    BY <1>2, <2>1
  <2>3. OpenInv /\ (Deficit \/ Sound)
    BY <1>1, <1>4 DEF LabelInv, Plain
  <2>4. Ended(script, k, run.pc)
    BY <2>1, <2>2, <2>3 DEF OpenInv, Open
  <2>5. ~Deficit
    <3>1. ASSUME NEW l \in Nat, Starts(script, l, run.pc) PROVE cloud[script[l].trial] = "stored"
      <4>1. l \in 1 .. Len(script) /\ script[l].do = "record"
        BY <3>1, RecordsTrial DEF RunTyped
      <4> QED
        BY <1>2, <4>1
    <3> QED
      BY <3>1 DEF Deficit
  <2> QED
    BY <2>1, <2>2, <2>3, <2>4, <2>5 DEF Sound
<1> QED
  BY <1>2, <1>3, <1>4

\* Every step keeps DoneInv.
LEMMA DoneStep ==
  ASSUME CoreInv, AheadInv, FiledInv, LabelInv, DoneInv, Next
  PROVE  DoneInv'
<1> USE DEF CoreInv, TypeInv
<1>s. Recorded' = Recorded /\ Described' = Described
  BY RulesStay, Numbers DEF rules, Recorded, Described
<1> SUFFICES ASSUME status' = "completed"
             PROVE  /\ \A t \in Recorded : cloud'[t] = "stored"
                    /\ \A t \in Described : "reload" \in Troubles' \/ handler'.by = "report" \/ kept'[t] = t
  BY <1>s DEF DoneInv
<1>1. /\ \A t \in Recorded : cloud[t] = "stored"
      /\ \A t \in Described : "reload" \in Troubles \/ handler.by = "report" \/ kept[t] = t
  BY StatusMoves, CompletesStored DEF DoneInv
<1>2. Troubles \subseteq Troubles'
  BY MishapType
<1>3. handler.by = "report" => handler'.by = "report"
  BY Moves DEF HandlerInv, Apart, Losing, Withdrawing, Handles, Ends
<1> QED
  BY <1>1, <1>2, <1>3, StoredStays, DescribedRecorded

\* What is known of the recordings of a session.
RecordInv == CoreInv /\ FreshInv /\ StopInv /\ AheadInv /\ ReportedInv /\ LabelInv
\* It holds at the start.
LEMMA RecordStarts == Init => RecordInv
<1> SUFFICES ASSUME Init PROVE RecordInv
  OBVIOUS
<1>1. /\ handler.at = 0 /\ recording = 0 /\ posts = {} /\ AtRest(admin) /\ admin.timer = 0
      /\ cloud = [t \in Trials |-> "none"] /\ run.pc = 1 /\ status = "running" /\ aborted = FALSE
      /\ uploads = [t \in Trials |-> "none"]
  BY DEF Init, FreshAdmin, AtRest
<1>2. CoreInv
  BY CoreStart
<1>3. FreshInv
  <2>1. \A j \in 1 .. Len(script) : script[j].do = "record" => script[j].trial \in Trials
    BY <1>2, ScriptShape DEF CoreInv, TypeInv, Typed
  <2> QED
    BY <1>1, <2>1, Numbers DEF FreshInv, AtRest
<1>4. LabelInv
  <2>1. \A k \in Nat : ~Starts(script, k, run.pc)
    BY <1>1 DEF Starts
  <2> QED
    BY <1>1, <2>1 DEF LabelInv, OpenInv, Sound, Open
<1> QED
  BY <1>1, <1>2, <1>3, <1>4 DEF RecordInv, StopInv, AheadInv, ReportedInv, AtRest

\* A stuttering step keeps it.
LEMMA RecordStutters ==
  ASSUME RecordInv, UNCHANGED vars
  PROVE  RecordInv'
<1>1. UNCHANGED <<run, script, handler, recording, recStatus, uploads, admin, cloud, kept, posts, mishaps,
                  status, aborted>>
  BY DEF vars, session, rules, agentVars, recorderVars, historyVars
<1>2. FreshInv' /\ StopInv' /\ AheadInv' /\ ReportedInv'
  BY <1>1 DEF RecordInv, FreshInv, StopInv, AheadInv, ReportedInv
<1>3. UNCHANGED <<Plain, OpenInv, Deficit, Sound>>
  <2>1. UNCHANGED <<Plain, Described, Stopping>>
    BY <1>1 DEF Plain, RunsOn, Described, Troubles, Stopping
  <2> QED
    BY <1>1, <2>1 DEF OpenInv, Deficit, Sound
<1>4. LabelInv'
  BY <1>3 DEF RecordInv, LabelInv
<1> QED
  BY <1>2, <1>4, CoreStutter DEF RecordInv

\* Every step keeps it.
LEMMA RecordSteps ==
  ASSUME RecordInv, Next
  PROVE  RecordInv'
<1> USE DEF RecordInv
<1>1. CoreInv' /\ FreshInv'
  BY CoreStep, FreshStep
<1>2. StopInv' /\ AheadInv' /\ ReportedInv' /\ LabelInv'
  BY StopStep, AheadStep, ReportedStep, LabelStep DEF CoreInv
<1> QED
  BY <1>1, <1>2

\* Every session that completed has each trial of its rules stored, with the
\* metadata of that trial unless a reload of the admin's page or a handler beside
\* the run came between (waitForRecordingUploadsAfterCompletion, agent.ts).
THEOREM CompletedStores == Spec => []CompletedIsStored
<1> DEFINE Inv == RecordInv /\ FiledInv /\ DoneInv
<1>1. Init => Inv
  <2> SUFFICES ASSUME Init PROVE Inv
    OBVIOUS
  <2>1. run.pc = 1 /\ status = "running"
    BY DEF Init
  <2> QED
    BY <2>1, RecordStarts DEF FiledInv, DoneInv
<1>2. Inv /\ [Next]_vars => Inv'
  <2> SUFFICES ASSUME Inv, [Next]_vars PROVE Inv'
    OBVIOUS
  <2>1. CASE Next
    <3>1. FiledInv' /\ DoneInv'
      BY <2>1, FiledStep, DoneStep DEF RecordInv
    <3> QED
      BY <2>1, <3>1, RecordSteps
  <2>2. CASE UNCHANGED vars
    <3>1. UNCHANGED <<run, script, handler, uploads, cloud, kept, mishaps, status>>
      BY <2>2 DEF vars, session, rules, agentVars, recorderVars, historyVars
    <3>2. UNCHANGED <<Recorded, Described, Troubles, RunsOn>>
      BY <3>1 DEF Recorded, Described, Troubles, RunsOn
    <3>3. FiledInv' /\ DoneInv'
      BY <3>1, <3>2 DEF FiledInv, DoneInv
    <3> QED
      BY <2>2, <3>3, RecordStutters
  <2> QED
    BY <2>1, <2>2
<1>3. Inv => CompletedIsStored
  BY DEF DoneInv, CompletedIsStored, Happened, Troubles
<1> HIDE DEF Inv
<1> QED
  BY <1>1, <1>2, <1>3, PTL DEF Spec

-----------------------------------------------------------------------------
(* When the wait for the uploads fails. *)

\* What the agent and the recorder deal with are recordings of the rules.
OfRulesInv ==
    /\ {recording, admin.on, admin.timer} \subseteq Recorded \cup {0}
    /\ \A t \in Trials : cloud[t] # "none" \/ uploads[t] # "none" => t \in Recorded
    /\ \A m \in posts : m.kind = "status" => m.trial \in Recorded

\* Only these recordings are reported, stored or lost by a step.
LEMMA ReportsRecordings ==
  ASSUME CoreInv, Next
  PROVE  /\ \A m \in posts' : m.kind = "status" =>
               \/ m \in posts
               \/ m.trial \in {admin.on, admin.timer} \ {0}
               \/ cloud[m.trial] # "none"
         /\ \A t \in Trials : cloud'[t] # "none" => cloud[t] # "none" \/ t = admin.on
<1> USE DEF CoreInv, TypeInv
<1> DEFINE NewPosts == \A m \in posts' : m.kind = "status" => \/ m \in posts
                                                             \/ m.trial \in {admin.on, admin.timer} \ {0}
                                                             \/ cloud[m.trial] # "none"
           NewCloud == \A t \in Trials : cloud'[t] # "none" => cloud[t] # "none" \/ t = admin.on
<1>1. CASE UNCHANGED cloud /\ (Quiet \/ posts' = posts)
  BY <1>1 DEF Quiet
<1>2. CASE HearsStop
  <2>1. CASE admin.on = 0
    BY <2>1, <1>2, <1>1, StopStores
  <2>2. CASE admin.on # 0
    <3>1. posts' = posts \cup {[kind |-> "status", from |-> 0, trial |-> admin.on, says |-> "queued"]}
      BY <1>2, <2>2 DEF HearsStop
    <3>2. cloud' = [cloud EXCEPT ![admin.on] = "uploading"]
      BY <1>2, <2>2, StopStores
    <3>3. NewPosts
      BY <2>2, <3>1
    <3>4. NewCloud
      BY <3>2 DEF RecordingTyped
    <3> QED
      BY <3>3, <3>4
  <2> QED
    BY <2>1, <2>2
<1>3. CASE StopsRecording \/ HandlerStops
  BY <1>1, <1>2, <1>3, StopHears
<1>4. ASSUME NEW t \in Trials, UploadEnds(t)
      PROVE  NewPosts /\ NewCloud
  <2>1. cloud[t] = "uploading"
    BY <1>4, UploadStores
  <2>2. PICK end \in {"stored", "lost"} : cloud' = [cloud EXCEPT ![t] = end]
    BY <1>4, UploadStores
  <2>3. NewCloud
    BY <2>1, <2>2 DEF RecordingTyped
  <2>4. \A m \in posts' : m \in posts \/ m.trial = t
    BY <1>4, UploadStores
  <2> QED
    BY <2>1, <2>3, <2>4
<1>5. CASE TimerFires
  <2>1. UNCHANGED cloud /\ admin.timer # 0
    BY <1>5, TimerStarts
  <2>2. posts' = posts \cup {[kind |-> "status", from |-> 0, trial |-> admin.timer, says |-> "recording"]}
    BY <1>5 DEF TimerFires
  <2> QED
    BY <2>1, <2>2
<1>6. CASE AdminReloads
  <2>1. cloud' = [t \in Trials |-> IF cloud[t] = "uploading" THEN "lost" ELSE cloud[t]]
    BY <1>6 DEF AdminReloads
  <2>2. \A m \in posts' : m \in posts
    BY <1>6 DEF AdminReloads
  <2> QED
    BY <2>1, <2>2
<1>7. CASE Arrives
  <2>1. UNCHANGED cloud /\ \A m \in posts' : m \in posts
    BY <1>7 DEF Arrives, recorderVars
  <2> QED
    BY <2>1
<1>8. CASE StartsRecording \/ ForgetsRecording \/ HandlerForgets \/ UploadsSettled \/ SendFails
  BY <1>1, <1>8 DEF StartsRecording, ForgetsRecording, HandlerForgets, UploadsSettled, SendFails,
                    recorderVars, waiting
<1>9. CASE ~Switches /\ ~Recorder /\ ~AdminReloads /\ ~Arrives
  BY <1>1, <1>9, QuietSteps DEF Quiet
<1> QED
  BY <1>3, <1>4, <1>5, <1>6, <1>7, <1>8, <1>9 DEF Switches, Recorder

\* The agent names a recording of its rules, or none, and the recorder too.
LEMMA NamesRecordings ==
  ASSUME CoreInv, OfRulesInv, Next
  PROVE  /\ {recording', admin'.on, admin'.timer} \subseteq Recorded \cup {0}
         /\ \A t \in Trials : uploads'[t] # "none" => uploads[t] # "none" \/ t \in Recorded
<1> USE DEF CoreInv, TypeInv
<1> DEFINE Named == {recording', admin'.on, admin'.timer} \subseteq Recorded \cup {0}
           Table == \A t \in Trials : uploads'[t] # "none" => uploads[t] # "none" \/ t \in Recorded
<1>d. \A w : Doing(w) => run.pc \in 1 .. Len(script) /\ Ins = script[run.pc] /\ Ins.do = w
  BY ScriptShape DEF Doing, Running, Ins, RunTyped
<1>b. Doing("record") => Ins.trial \in Recorded /\ Ins.trial \in Trials
  BY <1>d, ScriptShape DEF Recorded, Typed
<1>1. CASE Quiet
  BY <1>1 DEF Quiet, OfRulesInv
<1>2. CASE UNCHANGED <<recording, admin, uploads>>
  BY <1>2 DEF OfRulesInv
<1>3. CASE StartsRecording
  <2>1. CASE ~aborted
    <3>1. recording' = Ins.trial /\ uploads' = [uploads EXCEPT ![Ins.trial] = "recording"]
      BY <1>3, <2>1 DEF StartsRecording, BeginsRecording
    <3>2. admin'.on = admin.on /\ admin'.timer = Ins.trial
      BY <1>3, <2>1 DEF StartsRecording, HearsStart, RecorderTyped
    <3>3. Ins.trial \in Recorded
      BY <1>b, <1>3 DEF StartsRecording
    <3>4. Table
      BY <3>1, <3>3 DEF RecordingTyped
    <3> QED
      BY <3>1, <3>2, <3>3, <3>4 DEF OfRulesInv
  <2> QED
    BY <1>2, <1>3, <2>1 DEF StartsRecording
<1>4. ASSUME QueuesUpload, recording # 0
      PROVE  Table
  <2>1. uploads' = [uploads EXCEPT ![recording] = "queued"] /\ recording \in Recorded
    BY <1>4 DEF QueuesUpload, OfRulesInv
  <2> QED
    BY <2>1 DEF RecordingTyped
<1>5. CASE StopsRecording \/ HandlerStops
  <2>1. Named
    BY <1>5, StopHears, StopStores DEF OfRulesInv
  <2>2. Table
    BY <1>4, <1>5 DEF StopsRecording, HandlerStops, RecordsOn
  <2> QED
    BY <2>1, <2>2
<1>6. CASE ForgetsRecording \/ HandlerForgets
  BY <1>6 DEF ForgetsRecording, HandlerForgets, recorderVars, OfRulesInv
<1>7. CASE SendFails
  <2>1. UNCHANGED admin
    BY <1>7 DEF SendFails, recorderVars
  <2>2. CASE Doing("record") /\ BeginsRecording
    <3>1. recording' = Ins.trial /\ uploads' = [uploads EXCEPT ![Ins.trial] = "recording"]
      BY <2>2 DEF BeginsRecording
    <3>2. Table
      BY <1>b, <2>2, <3>1 DEF RecordingTyped
    <3> QED
      BY <1>b, <2>1, <2>2, <3>1, <3>2 DEF OfRulesInv
  <2>3. CASE recording # 0 /\ QueuesUpload /\ UNCHANGED recording
    BY <1>4, <2>1, <2>3 DEF OfRulesInv
  <2>4. CASE UNCHANGED <<recording, uploads>>
    BY <1>2, <2>1, <2>4
  <2> QED
    BY <1>7, <2>2, <2>3, <2>4 DEF SendFails
<1>8. CASE Arrives
  <2>1. UNCHANGED <<recording, admin>>
    BY <1>8 DEF Arrives, StatusArrives, WithdrawArrives, HitArrives, recorderVars
  <2>2. PICK m \in posts : StatusArrives(m) \/ UNCHANGED uploads
    BY <1>8 DEF Arrives, WithdrawArrives, HitArrives
  <2>3. CASE StatusArrives(m)
    <3>1. m.trial \in Recorded /\ uploads' = Ranked(m.trial, m.says)
      BY <2>3 DEF StatusArrives, OfRulesInv
    <3>2. Table
      BY <3>1 DEF Ranked, RecordingTyped
    <3> QED
      BY <2>1, <3>2 DEF OfRulesInv
  <2> QED
    BY <1>2, <2>1, <2>2, <2>3
<1>9. CASE Recorder
  <2>1. CASE TimerFires
    BY <2>1, TimerStarts DEF OfRulesInv
  <2>2. CASE \E t \in Trials : UploadEnds(t)
    BY <1>2, <2>2, UploadStores
  <2> QED
    BY <1>9, <2>1, <2>2 DEF Recorder
<1>10. CASE AdminReloads
  BY <1>10 DEF AdminReloads, FreshAdmin, agentVars, OfRulesInv
<1>11. CASE UploadsSettled
  BY <1>2, <1>11 DEF UploadsSettled, waiting, recorderVars
<1>12. CASE ~Switches /\ ~Recorder /\ ~AdminReloads /\ ~Arrives
  BY <1>1, <1>12, QuietSteps
<1> QED
  BY <1>3, <1>5, <1>6, <1>7, <1>8, <1>9, <1>10, <1>11, <1>12 DEF Switches

\* Every step keeps OfRulesInv.
LEMMA OfRulesStep ==
  ASSUME CoreInv, OfRulesInv, Next
  PROVE  OfRulesInv'
<1>s. Recorded' = Recorded /\ Recorded \subseteq Trials /\ 0 \notin Trials
  BY RulesStay, Numbers, DescribedRecorded DEF CoreInv, TypeInv, rules, Recorded
<1>1. {recording', admin'.on, admin'.timer} \subseteq Recorded \cup {0}
  BY NamesRecordings
<1>2. \A t \in Trials : cloud'[t] # "none" \/ uploads'[t] # "none" => t \in Recorded
  BY <1>s, NamesRecordings, ReportsRecordings DEF OfRulesInv
<1>3. ASSUME NEW m \in posts', m.kind = "status"
      PROVE  m.trial \in Recorded
  <2>1. RecordingTyped'
    BY TypeStep DEF CoreInv, TypeInv
  <2>2. m.trial \in Trials
    BY <1>3, <2>1 DEF RecordingTyped, Posts
  <2> QED
    BY <1>3, <2>2, ReportsRecordings DEF OfRulesInv
<1> QED
  BY <1>s, <1>1, <1>2, <1>3 DEF OfRulesInv

\* Nobody misled the agent: no report got lost, and nobody but the rules stops a
\* recording.
Informed == RunsOn /\ ~disrupted /\ "status" \notin Troubles /\ "reload" \notin Troubles
\* The agent knows that a recording is stored, or will be told.
Heard(t) ==
    \/ uploads[t] = "uploaded"
    \/ \E m \in posts : m.kind = "status" /\ m.trial = t /\ m.says = "uploaded"
ToldInv == Informed => \A t \in Trials : cloud[t] = "stored" => Heard(t)

\* Only an arrival, a failure and a reload take a report away.
LEMMA PostsStay ==
  ASSUME CoreInv, Next, ~Arrives, ~ReportFails, ~AdminReloads
  PROVE  posts \subseteq posts'
<1>1. CASE ~Records
  BY <1>1, RecordsOnly, Numbers DEF recordingVars
<1>2. CASE Sends \/ AsksForLocks \/ Completes \/ StartsRecording \/ ForgetsRecording \/ SendFails
  BY <1>2 DEF Sends, AsksForLocks, Completes, StartsRecording, ForgetsRecording, SendFails
<1>3. CASE StopsRecording \/ HandlerStops
  <2>1. HearsStop => posts \subseteq posts'
    BY DEF HearsStop
  <2> QED
    BY <1>3, <2>1 DEF StopsRecording, HandlerStops
<1>4. CASE UploadsSettled \/ HandlerSends \/ HandlerForgets
  BY <1>4 DEF UploadsSettled, HandlerSends, HandlerForgets, waiting
<1>5. CASE Recorder \/ DetectorFires \/ \E p \in Pages : Leave(p)
  BY <1>5 DEF Recorder, TimerFires, UploadEnds, DetectorFires, Leave
<1> QED
  BY <1>1, <1>2, <1>3, <1>4, <1>5 DEF Records

\* An agent that is informed now was informed before.
LEMMA InformedBefore ==
  ASSUME CoreInv, StopInv, Next, Informed'
  PROVE  /\ Informed /\ Plain /\ Plain' /\ ~aborted /\ run.at = "going"
         /\ ~AdminReloads /\ ~HandlerStep /\ ~Throw
         /\ ReportFails => \A m \in posts : m.kind = "status" => m \in posts'
<1> USE DEF CoreInv, TypeInv
<1>1. RunsOn /\ Troubles \subseteq Troubles'
  BY RanBefore, MishapType DEF Informed
<1>2. ~disrupted
  BY Moves DEF Apart, Losing, Withdrawing, Handles, Ends, Informed
<1>3. HandlerInv'
  BY CoreStep
<1>4. handler'.by = "nobody"
  BY <1>3 DEF HandlerInv, Informed
<1>5. Plain'
  BY <1>4 DEF Plain, Informed
<1>6. ReportFails => \A m \in posts : m.kind = "status" => m \in posts'
  <2> SUFFICES ASSUME ReportFails PROVE \A m \in posts : m.kind = "status" => m \in posts'
    OBVIOUS
  <2>1. PICK n \in posts : Mishap(n.kind) /\ posts' = posts \ {n}
    BY DEF ReportFails
  <2>2. n.kind # "status"
    BY <2>1, MishapCounts DEF Informed
  <2> QED
    BY <2>1, <2>2
<1> QED
  BY <1>1, <1>2, <1>5, <1>6, PlainBefore DEF Informed

\* A recording that is stored is no longer that of the agent, whose commands
\* leave its entry in the table alone; reports only confirm it.
LEMMA HeardStays ==
  ASSUME CoreInv, StopInv, FreshInv, ReportedInv, LabelInv, Next, Informed',
         NEW t \in Trials, cloud[t] = "stored", Heard(t)
  PROVE  Heard(t)'
<1> USE DEF CoreInv, TypeInv
<1>0. /\ Plain /\ Plain' /\ ~aborted /\ run.at = "going"
      /\ ~AdminReloads /\ ~HandlerStep /\ ~Throw
  BY InformedBefore
<1>1. CASE UNCHANGED uploads /\ \A m \in posts : m.kind = "status" => m \in posts'
  BY <1>1 DEF Heard
<1>2. ASSUME ~Arrives
      PROVE  \A m \in posts : m.kind = "status" => m \in posts'
  BY <1>0, <1>2, InformedBefore, PostsStay
<1>3. ASSUME NEW r \in Trials, cloud[r] = "none", NEW says, uploads' = [uploads EXCEPT ![r] = says], ~Arrives
      PROVE  Heard(t)'
  <2>1. uploads'[t] = uploads[t]
    BY <1>3 DEF RecordingTyped
  <2> QED
    BY <1>2, <1>3, <2>1 DEF Heard
<1>4. CASE StartsRecording
  <2>1. run.pc \in 1 .. Len(script) /\ Ins = script[run.pc] /\ script[run.pc].do = "record"
    BY <1>4, ScriptShape DEF StartsRecording, Doing, Running, Ins, RunTyped
  <2>2. Ins.trial \in Trials /\ cloud[Ins.trial] = "none"
    BY <1>0, <2>1, ScriptShape DEF Typed, FreshInv
  <2>3. uploads' = [uploads EXCEPT ![Ins.trial] = "recording"] /\ ~Arrives
    BY <1>0, <1>4 DEF StartsRecording, BeginsRecording, Arrives, Step, Go, RunTyped
  <2> QED
    BY <1>3, <2>2, <2>3
<1>5. CASE StopsRecording
  <2>1. ~Arrives
    BY <1>5 DEF StopsRecording, Step, Go, Arrives, RunTyped
  <2>2. CASE recording = 0
    BY <1>0, <1>1, <1>2, <1>5, <2>1, <2>2 DEF StopsRecording
  <2>3. CASE recording # 0
    <3>1. ~Stopping
      BY <1>5 DEF StopsRecording, Doing, Ins, Stopping
    <3>2. PICK k \in Nat : Open(script, k, run.pc)
      BY <1>0, <2>3, <3>1 DEF LabelInv, OpenInv
    <3>3. recording = script[k].trial /\ cloud[script[k].trial] = "none"
      BY <1>0, <3>2 DEF LabelInv, OpenInv
    <3>4. recording \in Trials /\ cloud[recording] = "none"
      BY <2>3, <3>3 DEF RecordingTyped
    <3>5. uploads' = [uploads EXCEPT ![recording] = "queued"]
      BY <1>0, <1>5, <2>3 DEF StopsRecording, QueuesUpload
    <3> QED
      BY <1>3, <2>1, <3>4, <3>5
  <2> QED
    BY <2>2, <2>3
<1>6. CASE Arrives
  <2>1. PICK m \in posts : /\ StatusArrives(m) \/ WithdrawArrives(m) \/ HitArrives(m)
                           /\ posts' = posts \ {m}
    BY <1>6 DEF Arrives
  <2>2. CASE ~StatusArrives(m)
    <3>1. UNCHANGED uploads /\ m.kind # "status"
      BY <2>1, <2>2 DEF WithdrawArrives, HitArrives
    <3> QED
      BY <1>1, <2>1, <3>1
  <2>3. CASE StatusArrives(m)
    <3>1. m.kind = "status" /\ uploads' = Ranked(m.trial, m.says) /\ m.trial \in Trials /\ m.says \in DOMAIN rank
      BY <2>3 DEF StatusArrives, RecordingTyped, Posts
    <3>2. m.trial = t => m.says # "error"
      BY <3>1 DEF ReportedInv
    <3>3. uploads[t] = "uploaded" => uploads'[t] = "uploaded"
      <4>1. m.trial = t /\ rank[m.says] >= rank["uploaded"] => m.says = "uploaded"
        BY <3>1, <3>2, RankDomain DEF rank
      <4> QED
        BY <3>1, <4>1 DEF Ranked, RecordingTyped
    <3>4. m.trial = t /\ m.says = "uploaded" => uploads'[t] = "uploaded"
      <4>1. \A u \in DOMAIN rank : rank["uploaded"] >= rank[u]
        BY RankDomain DEF rank
      <4>2. uploads[t] \in DOMAIN rank
        BY DEF RecordingTyped
      <4> QED
        BY <3>1, <4>1, <4>2 DEF Ranked, RecordingTyped
    <3> QED
      BY <2>1, <3>3, <3>4 DEF Heard
  <2> QED
    BY <2>2, <2>3
<1>7. CASE Recorder
  <2>1. UNCHANGED uploads
    BY <1>7, TimerStarts, UploadStores DEF Recorder
  <2>2. ~Arrives \/ Arrives
    OBVIOUS
  <2> QED
    BY <1>1, <1>2, <1>6, <2>1
<1>8. CASE ForgetsRecording \/ UploadsSettled \/ SendFails
  <2>1. UNCHANGED uploads
    BY <1>0, <1>8 DEF ForgetsRecording, UploadsSettled, SendFails, waiting
  <2> QED
    BY <1>1, <1>2, <1>6, <2>1
<1>9. CASE ~Switches /\ ~Recorder /\ ~Arrives
  <2>1. UNCHANGED uploads
    BY <1>0, <1>9, QuietSteps DEF Quiet
  <2> QED
    BY <1>1, <1>2, <1>9, <2>1
<1> QED
  BY <1>0, <1>4, <1>5, <1>6, <1>7, <1>8, <1>9 DEF Switches, HandlerStep

\* Every step keeps ToldInv: whatever is stored is reported.
LEMMA ToldStep ==
  ASSUME CoreInv, StopInv, FreshInv, AheadInv, ReportedInv, LabelInv, ToldInv, Next
  PROVE  ToldInv'
<1> USE DEF CoreInv, TypeInv
<1> SUFFICES ASSUME Informed', NEW t \in Trials, cloud'[t] = "stored"
             PROVE  Heard(t)'
  BY DEF ToldInv
<1>0. Informed /\ ~AdminReloads /\ ~HandlerStep
  BY InformedBefore
<1>1. CASE cloud[t] = "stored"
  BY <1>0, <1>1, HeardStays DEF ToldInv
<1>2. CASE cloud[t] # "stored"
  <2>1. CASE cloud'[t] = cloud[t]
    BY <1>2, <2>1
  <2>2. ASSUME NEW r \in Trials, UploadEnds(r)
        PROVE  Heard(t)'
    <3>1. PICK end \in {"stored", "lost"} : cloud' = [cloud EXCEPT ![r] = end]
      BY <2>2, UploadStores
    <3>2. t = r
      BY <1>2, <3>1 DEF RecordingTyped
    <3>3. cloud' = [cloud EXCEPT ![r] = "lost"] => cloud'[t] = "lost"
      BY <3>2 DEF RecordingTyped
    <3> DEFINE report == [kind |-> "status", from |-> 0, trial |-> r, says |-> "uploaded"]
    <3>4. posts' = posts \cup {report}
      BY <2>2, <3>3 DEF UploadEnds
    <3>5. report.kind = "status" /\ report.trial = t /\ report.says = "uploaded"
      BY <3>2
    <3> HIDE DEF report
    <3>6. \E m \in posts' : m.kind = "status" /\ m.trial = t /\ m.says = "uploaded"
      BY <3>4, <3>5
    <3> QED
      BY <3>6 DEF Heard
  <2>3. CASE StopsRecording
    <3>1. \/ UNCHANGED cloud
          \/ cloud' = [cloud EXCEPT ![admin.on] = "uploading"]
      BY <2>3, StopHears, StopStores
    <3> QED
      BY <1>2, <2>1, <3>1 DEF RecordingTyped
  <2>4. CASE TimerFires
    BY <2>1, <2>4, TimerStarts
  <2>5. CASE StartsRecording \/ ForgetsRecording \/ UploadsSettled \/ SendFails \/ Arrives
    BY <2>1, <2>5 DEF StartsRecording, ForgetsRecording, UploadsSettled, SendFails, Arrives,
                      recorderVars, waiting
  <2>6. CASE ~Switches /\ ~Recorder /\ ~Arrives
    BY <1>0, <2>1, <2>6, QuietSteps DEF Quiet
  <2> QED
    BY <1>0, <2>2, <2>3, <2>4, <2>5, <2>6 DEF Switches, Recorder, HandlerStep
<1> QED
  BY <1>1, <1>2

\* A wait for the uploads that fails has found a recording that is not stored, or
\* of which a report is still under way.
LEMMA AlarmTrue ==
  ASSUME CoreInv, ReportedInv, OfRulesInv, ToldInv, Next,
         Doing("uploads"), status = "running", status' = "error"
  PROVE  \/ disrupted \/ Happened({"status", "reload"})
         \/ \E t \in Recorded : cloud[t] # "stored" \/ Unsettled(t)
<1> USE DEF CoreInv, TypeInv
<1> SUFFICES ASSUME ~disrupted, "status" \notin Troubles, "reload" \notin Troubles
             PROVE  \E t \in Recorded : cloud[t] # "stored" \/ Unsettled(t)
  BY DEF Happened, Troubles
<1>1. UploadsFail \/ UploadsTimeOut
  <2>h. ~HandlerEnds
    BY DEF HandlerEnds, HandlerInv
  <2>o. ~OperatorStops
    BY DEF OperatorStops, StopAgent
  <2>1. run'.at = "over"
    BY <2>h, <2>o, StatusMoves
  <2>2. Running /\ Ins.do = "uploads" /\ ~Still
    BY <2>1 DEF Doing, Running, Still
  <2>3. ~UploadsSettled
    BY DEF UploadsSettled
  <2> QED
    BY <2>2, <2>3, Executes
<1>2. run.at = "going"
  <2>1. run.at \in {"going", "throwing"} /\ run.pc \in 1 .. Len(script) /\ script[run.pc].do = "uploads"
    BY ScriptShape DEF RunTyped, Doing, Running, Ins
  <2>2. ~Closes(script, run.pc)
    BY <2>1, ScriptShape DEF Bounded
  <2> QED
    BY <2>1, <2>2 DEF PlaceInv
<1>3. Informed
  BY <1>2 DEF Informed, RunsOn
<1>4. ASSUME NEW t \in Failed
      PROVE  t \in Recorded /\ cloud[t] # "stored"
  BY DEF Failed, OfRulesInv, ReportedInv
<1>5. ASSUME NEW t \in Pending
      PROVE  t \in Recorded /\ (cloud[t] # "stored" \/ Unsettled(t))
  <2>1. t \in Trials /\ uploads[t] \notin {"none", "uploaded"}
    BY DEF Pending
  <2>2. cloud[t] = "stored" => \E m \in posts : m.kind = "status" /\ m.trial = t
    BY <1>3, <2>1 DEF ToldInv, Heard
  <2> QED
    BY <2>1, <2>2 DEF OfRulesInv, Unsettled
<1> QED
  BY <1>1, <1>4, <1>5 DEF UploadsFail, UploadsTimeOut

\* The wait for the uploads raises no false alarm: what it finds missing is not
\* stored, is still on its way, or a report of it got lost (reportRecordingStatus,
\* waitForRecordingUploadsAfterCompletion, agent.ts).
THEOREM AlarmsAreTrue == Spec => NoFalseAlarm
<1> DEFINE Inv == RecordInv /\ OfRulesInv /\ ToldInv
           Alarm == Doing("uploads") /\ status = "running" /\ status' = "error" =>
                        \/ disrupted \/ Happened({"status", "reload"})
                        \/ \E t \in Recorded : cloud[t] # "stored" \/ Unsettled(t)
<1>1. Init => Inv
  <2> SUFFICES ASSUME Init PROVE Inv
    OBVIOUS
  <2>1. RecordInv
    BY RecordStarts
  <2>2. /\ recording = 0 /\ posts = {} /\ admin.on = 0 /\ admin.timer = 0
        /\ cloud = [t \in Trials |-> "none"] /\ uploads = [t \in Trials |-> "none"]
    BY DEF Init, FreshAdmin
  <2> QED
    BY <2>1, <2>2 DEF OfRulesInv, ToldInv
<1>2. Inv /\ [Next]_vars => Inv'
  <2> SUFFICES ASSUME Inv, [Next]_vars PROVE Inv'
    OBVIOUS
  <2>1. CASE Next
    <3>1. OfRulesInv' /\ ToldInv'
      BY <2>1, OfRulesStep, ToldStep DEF RecordInv
    <3> QED
      BY <2>1, <3>1, RecordSteps
  <2>2. CASE UNCHANGED vars
    <3>1. RecordInv'
      BY <2>2, RecordStutters
    <3>2. UNCHANGED <<run, script, recording, uploads, admin, cloud, posts, mishaps, status, disrupted>>
      BY <2>2 DEF vars, session, rules, agentVars, recorderVars, historyVars
    <3>3. OfRulesInv' /\ ToldInv'
      <4>1. UNCHANGED <<Recorded, Informed>> /\ \A t \in Trials : Heard(t)' <=> Heard(t)
        BY <3>2 DEF Recorded, Informed, RunsOn, Troubles, Heard
      <4> QED
        BY <3>2, <4>1 DEF OfRulesInv, ToldInv
    <3> QED
      BY <3>1, <3>3
  <2> QED
    BY <2>1, <2>2
<1>3. Inv /\ [Next]_vars => [Alarm]_vars
  BY AlarmTrue DEF RecordInv
<1> HIDE DEF Inv
<1>4. Spec => []Inv
  BY <1>1, <1>2, PTL DEF Spec
<1> QED
  BY <1>3, <1>4, PTL DEF Spec, NoFalseAlarm
=============================================================================
