------------------------ MODULE PairedSessionProofs ------------------------
(***************************************************************************)
(* What holds of PairedSession for every set of participants, of runs and  *)
(* of reports.                                                             *)
(***************************************************************************)
EXTENDS PairedSession, TLAPS

\* What a request makes of the study, and a failure of the status, is always
\* looked into.
USE DEF StudyPaused, StudyStarted, RequestFails, SafeOutcome

-----------------------------------------------------------------------------
(* Type correctness, in parts: the flags of the agent, its other fields     *)
(* with the fibers, the environment, and the history of usurpation.         *)

FlagType == handled \in BOOLEAN /\ restart \in BOOLEAN /\ pausedStudy \in BOOLEAN

AgentType ==
    /\ status \in Status
    /\ signals \in Nat
    /\ ctl \in 0..signals
    /\ aborted \subseteq 1..signals
    /\ paired \subseteq Participants
    /\ reports \subseteq Participants
    /\ sessions \subseteq Participants
    /\ recovery \in RecoveryStatus
    /\ pc \in [Fibers -> Pc]
    /\ sig \in [Fibers -> 0..signals]
    /\ loc \in [Fibers -> Locals]

EnvType ==
    /\ connected \subseteq Participants
    /\ studyOpen \in BOOLEAN
    /\ submission \in [Participants -> Submission]
    /\ started \subseteq Participants

Typed == FlagType /\ AgentType /\ EnvType

\* TypeOK is the conjunction of its parts.
LEMMA TypeParts == TypeOK <=> Typed /\ usurped \in BOOLEAN
  BY DEF TypeOK, Typed, FlagType, AgentType, EnvType

\* The fields the constructor of ExperimentAgent sets have their types.
LEMMA TypeInit == Init => TypeOK
  <1> SUFFICES ASSUME Init PROVE TypeOK
    OBVIOUS
  <1>1. NoLocals \in Locals
    BY DEF NoLocals, Locals, NoWindow
  <1>2. FlagType
    BY DEF Init, FlagType
  <1>3. AgentType
    BY <1>1 DEF Init, AgentType, Status, RecoveryStatus, Pc
  <1>4. EnvType
    BY DEF Init, EnvType, Submission
  <1> QED
    BY <1>2, <1>3, <1>4, TypeParts DEF Init, Typed

\* What the assignments to the local variables of a fiber leave behind.
LEMMA LocalsType ==
  /\ NoLocals \in Locals
  /\ \A l \in Locals :
       /\ \A v \in SUBSET Participants : [l EXCEPT !.known = v] \in Locals
       /\ \A v \in {"none", "noMatch", "startTimeout", "disconnect"} :
            [l EXCEPT !.why = v] \in Locals
       /\ \A v \in BOOLEAN : [l EXCEPT !.armed = v] \in Locals
       /\ \A v \in BOOLEAN : [l EXCEPT !.joined = v] \in Locals
       /\ \A v \in (SUBSET Participants) \cup {NoWindow} : [l EXCEPT !.window = v] \in Locals
  BY DEF NoLocals, Locals, NoWindow

\* An abort hits a signal that exists.
LEMMA AbortType ==
  ASSUME AgentType, AbortCurrent
  PROVE  aborted' \subseteq 1..signals
  BY DEF AgentType, AbortCurrent

\* The three ways to leave a fiber, and the way into the next session.
LEMMA ClearType ==
  ASSUME AgentType, NEW r \in Runs, ClearSession, EnterWait(r),
         status' \in Status, sessions' \subseteq Participants,
         aborted' \subseteq 1..signals
  PROVE  FlagType' /\ AgentType'
  <1>1. FlagType'
    BY DEF ClearSession, FlagType
  <1>2. signals' = signals + 1 /\ signals' \in Nat /\ ctl' \in 0..signals'
    BY DEF ClearSession, AgentType
  <1>3. aborted' \subseteq 1..signals'
    BY <1>2 DEF AgentType
  <1>4. sig' \in [Fibers -> 0..signals']
    <2>1. 0..signals \subseteq 0..signals' /\ signals + 1 \in 0..signals'
      BY <1>2 DEF AgentType
    <2> QED
      BY <2>1 DEF EnterWait, AgentType
  <1>5. pc' \in [Fibers -> Pc] /\ loc' \in [Fibers -> Locals]
    BY LocalsType DEF EnterWait, Goto, AgentType, Pc, WaitPc
  <1> QED
    BY <1>1, <1>2, <1>3, <1>4, <1>5 DEF ClearSession, AgentType, RecoveryStatus

\* Leaving a function keeps the types of the program counters and locals.
LEMMA ReturnType ==
  ASSUME AgentType, NEW f \in Fibers, NEW l \in Pc, Return(f, l)
  PROVE  pc' \in [Fibers -> Pc] /\ loc' \in [Fibers -> Locals]
  BY LocalsType DEF Return, Goto, AgentType

\* The tail of the loop of start() keeps the types.
LEMMA RunReturnsType ==
  ASSUME FlagType, AgentType, NEW r \in Runs, RunReturns(r)
  PROVE  FlagType' /\ AgentType'
  <1>1. CASE status = "running" /\ restart
    BY <1>1, ClearType DEF RunReturns, AgentType
  <1>2. CASE ~(status = "running" /\ restart)
    <2>1. status' \in Status /\ Return(r, "done")
      BY <1>2 DEF RunReturns, Finished, AgentType, Status
    <2>2. UNCHANGED <<ctl, aborted, signals, handled, restart, paired, reports,
                      sessions, pausedStudy, recovery, sig>>
      BY <1>2 DEF RunReturns
    <2>3. pc' \in [Fibers -> Pc] /\ loc' \in [Fibers -> Locals]
      BY <2>1, ReturnType DEF Fibers, Pc
    <2> QED
      BY <2>1, <2>2, <2>3 DEF FlagType, AgentType
  <1> QED
    BY <1>1, <1>2

\* The two catch blocks that receive a plain Error keep the types.
LEMMA ThrowsErrorType ==
  ASSUME FlagType, AgentType, NEW f \in Fibers, ThrowsError(f)
  PROVE  FlagType' /\ AgentType'
  <1>1. status' \in Status
    BY DEF ThrowsError, AgentType, Status
  <1>2. aborted' \subseteq 1..signals
    BY AbortType DEF ThrowsError, AgentType
  <1>3. pc' \in [Fibers -> Pc] /\ loc' \in [Fibers -> Locals]
    BY ReturnType DEF ThrowsError, Pc
  <1> QED
    BY <1>1, <1>2, <1>3 DEF ThrowsError, FlagType, AgentType

\* PairedSessionStoppedError leaves every field with its type.
LEMMA ThrowsStoppedType ==
  ASSUME FlagType, AgentType, NEW f \in Fibers, ThrowsStopped(f)
  PROVE  FlagType' /\ AgentType'
  <1>1. CASE f \in Runs /\ RunReturns(f)
    BY <1>1, RunReturnsType
  <1>2. CASE f \in Reports /\ Return(f, "done") /\ UNCHANGED <<agentVars, sig>>
    BY <1>2, ReturnType DEF FlagType, AgentType, agentVars, Pc
  <1> QED
    BY <1>1, <1>2 DEF ThrowsStopped

\* A recovery that stops safely keeps the types.
LEMMA FailSafelyType ==
  ASSUME FlagType, AgentType, NEW f \in Fibers, FailSafely(f)
  PROVE  FlagType' /\ AgentType'
  <1>1. status' \in Status /\ recovery' \in RecoveryStatus
    BY DEF FailSafely, Status, RecoveryStatus
  <1>2. aborted' \subseteq 1..signals
    BY AbortType DEF FailSafely
  <1>3. pc' \in [Fibers -> Pc] /\ loc' \in [Fibers -> Locals]
    BY ReturnType DEF FailSafely, Pc
  <1> QED
    BY <1>1, <1>2, <1>3 DEF FailSafely, FlagType, AgentType

\* Every endpoint (start, stop, reset, START press, registration, withdrawal)
\* keeps the types.
LEMMA TypeRequests == TypeOK /\ Requests => Typed'
  <1> SUFFICES ASSUME FlagType, AgentType, EnvType, Requests
               PROVE  FlagType' /\ AgentType' /\ EnvType'
    BY TypeParts DEF Typed
  <1>1. ASSUME NEW r \in Runs, Start(r) PROVE FlagType' /\ AgentType' /\ EnvType'
    <2>1. FlagType' /\ AgentType'
      BY <1>1, ClearType DEF Start, Status, AgentType
    <2> QED
      BY <1>1, <2>1 DEF Start, EnvType, envVars
  <1>2. CASE Stop
    <2>1. aborted' \subseteq 1..signals
      BY <1>2, AbortType DEF Stop
    <2> QED
      BY <1>2, <2>1 DEF Stop, FlagType, AgentType, EnvType, Status, fiberVars, envVars
  <1>3. CASE Reset
    <2>1. FlagType'
      BY <1>3 DEF Reset, FlagType
    <2>2. ctl' \in 0..signals /\ aborted' \subseteq 1..signals
      <3>1. CASE status = "running"
        BY <1>3, <3>1, AbortType DEF Reset, AgentType
      <3>2. CASE status # "running"
        BY <1>3, <3>2 DEF Reset, AgentType
      <3> QED
        BY <3>1, <3>2
    <2>3. UNCHANGED <<signals, sessions, fiberVars, envVars, started>>
      BY <1>3 DEF Reset
    <2>4. status' \in Status /\ recovery' \in RecoveryStatus
          /\ paired' \subseteq Participants /\ reports' \subseteq Participants
      BY <1>3 DEF Reset, Status, RecoveryStatus
    <2> QED
      BY <2>1, <2>2, <2>3, <2>4 DEF AgentType, EnvType, fiberVars, envVars
  <1>4. ASSUME NEW p \in Participants, PressStart(p) PROVE FlagType' /\ AgentType' /\ EnvType'
    BY <1>4 DEF PressStart, FlagType, AgentType, EnvType, fiberVars, envVars
  <1>5. ASSUME NEW p \in Participants, Register(p) PROVE FlagType' /\ AgentType' /\ EnvType'
    BY <1>5 DEF Register, FlagType, AgentType, EnvType, fiberVars, envVars
  <1>6. ASSUME NEW w \in Reports, NEW p \in Participants, Withdraw(w, p)
        PROVE  FlagType' /\ AgentType' /\ EnvType'
    <2>1. [NoLocals EXCEPT !.known = {p}, !.why = "disconnect"] \in Locals
      BY DEF NoLocals, Locals, NoWindow
    <2>2. FlagType'
      BY <1>6 DEF Withdraw, FlagType
    <2> QED
      BY <1>6, <2>1, <2>2 DEF Withdraw, Goto, AgentType, EnvType, Pc, HandlerPc, Fibers, envVars
  <1> QED
    BY <1>1, <1>2, <1>3, <1>4, <1>5, <1>6 DEF Requests

\* Participants and Prolific keep the types.
LEMMA TypeEnvironment == TypeOK /\ Environment => Typed'
  <1> SUFFICES ASSUME TypeOK, NEW p \in Participants,
                      Enroll(p) \/ Leave(p) \/ Rejoin(p) \/ SubmissionEnds(p)
               PROVE  Typed'
    BY DEF Environment
  <1> QED
    BY DEF Enroll, Leave, Rejoin, SubmissionEnds, SubmissionReturned, SubmissionSettled,
       Submission, TypeOK, Typed, FlagType, AgentType, EnvType, agentVars, fiberVars

\* listParticipants() names participants only.
LEMMA RoomType == EnvType => /\ \A here \in RoomAnswers : here \subseteq Participants
                              /\ \A there \in RoomAnswers : FirstTwo(there) \subseteq Participants
  BY DEF EnvType, RoomAnswers, FirstTwo

\* The request of pauseProlificStudyAfterStart(), and its answer.
LEMMA PauseAfterStartType ==
  ASSUME AgentType, NEW f \in Fibers, NEW S, NEW l \in Pc, NEW m \in Pc,
         PauseAfterStart(f, S, l, m)
  PROVE  /\ status' \in Status /\ recovery' \in RecoveryStatus
         /\ aborted' \subseteq 1..signals
         /\ pc' \in [Fibers -> Pc]
  <1>1. CASE S \cap sessions = {}
    BY <1>1 DEF PauseAfterStart, Goto, AgentType
  <1>2. CASE S \cap sessions # {} /\ S \subseteq sessions /\ HasGateway
    <2>1. Goto(f, IF pausedStudy THEN l ELSE m) /\ UNCHANGED <<status, aborted>>
          /\ recovery' = IF pausedStudy THEN "paused-after-start" ELSE recovery
      BY <1>2 DEF PauseAfterStart
    <2>2. recovery' \in RecoveryStatus
      BY <2>1 DEF AgentType, RecoveryStatus
    <2>3. pc' \in [Fibers -> Pc]
      BY <2>1 DEF AgentType, Goto
    <2> QED
      BY <2>1, <2>2, <2>3 DEF AgentType
  <1>3. CASE S \cap sessions # {} /\ ~(S \subseteq sessions /\ HasGateway)
    <2>1. aborted' \subseteq 1..signals
      BY <1>3, AbortType DEF PauseAfterStart, AgentType
    <2>2. status' \in Status /\ recovery' \in RecoveryStatus
      BY <1>3 DEF PauseAfterStart, AgentType, Status
    <2>3. pc' \in [Fibers -> Pc]
      BY <1>3 DEF PauseAfterStart, AgentType, Goto, Pc
    <2> QED
      BY <2>1, <2>2, <2>3
  <1> QED
    BY <1>1, <1>2, <1>3

\* The second half of pauseProlificStudyAfterStart() keeps the types.
LEMMA PauseAnsweredType ==
  ASSUME FlagType, AgentType, EnvType, NEW f \in Fibers, NEW l \in Pc, PauseAnswered(f, l)
  PROVE  FlagType' /\ AgentType' /\ studyOpen' \in BOOLEAN
  <1>1. CASE ApiFails /\ studyOpen' \in {studyOpen, FALSE} /\ ThrowsError(f)
    BY <1>1, ThrowsErrorType DEF EnvType
  <1>2. CASE ~(ApiFails /\ studyOpen' \in {studyOpen, FALSE} /\ ThrowsError(f))
    <2>1. studyOpen' = FALSE /\ pausedStudy' = TRUE /\ recovery' = "paused-after-start"
          /\ Goto(f, l)
          /\ UNCHANGED <<status, ctl, aborted, signals, handled, restart, paired,
                         reports, sessions, sig, loc>>
      BY <1>2 DEF PauseAnswered
    <2>2. FlagType' /\ studyOpen' \in BOOLEAN
      BY <2>1 DEF FlagType
    <2> QED
      BY <2>1, <2>2 DEF AgentType, RecoveryStatus, Goto
  <1> QED
    BY <1>1, <1>2

\* Every step of the wait phase keeps the types.
LEMMA TypeWait == TypeOK /\ (\E r \in Runs : WaitStep(r)) => Typed'
  <1> SUFFICES ASSUME FlagType, AgentType, EnvType, NEW r \in Runs, WaitStep(r)
               PROVE  FlagType' /\ AgentType' /\ EnvType'
    BY TypeParts DEF Typed
  <1>f. r \in Fibers /\ loc[r] \in Locals
    BY DEF Fibers, AgentType
  <1>0. CASE GateEnters(r)
    <2>1. EnvType'
      BY <1>0 DEF GateEnters, EnvType, envVars
    <2>2. CASE ThrowsError(r)
      BY <2>1, <2>2, <1>f, ThrowsErrorType
    <2>3. CASE Goto(r, "gate") /\ UNCHANGED <<agentVars, sig, loc>>
      BY <2>1, <2>3 DEF FlagType, AgentType, agentVars, Goto, Pc, WaitPc
    <2> QED
      BY <1>0, <2>2, <2>3 DEF GateEnters
  <1>1. CASE GatePoll(r)
    <2>1. pc' \in [Fibers -> Pc]
      BY <1>1 DEF GatePoll, Goto, AgentType, Pc, WaitPc
    <2>2. loc' \in [Fibers -> Locals]
      <3>1. CASE loc' = [loc EXCEPT ![r].joined = TRUE]
        BY <3>1, <1>f DEF AgentType, Locals
      <3>2. CASE loc' = [loc EXCEPT ![r].joined = loc[r].joined \/ connected # {},
                                    ![r].window = NoWindow]
        <4> DEFINE seen == loc[r].joined \/ connected # {}
        <4>1. seen \in BOOLEAN
          OBVIOUS
        <4>2. loc' = [loc EXCEPT ![r].joined = seen, ![r].window = NoWindow]
          BY <3>2
        <4> HIDE DEF seen
        <4> QED
          BY <4>1, <4>2, <1>f DEF AgentType, Locals
      <3> QED
        BY <1>1, <3>1, <3>2 DEF GatePoll
    <2> QED
      BY <1>1, <2>1, <2>2 DEF GatePoll, FlagType, AgentType, EnvType, agentVars, envVars
  <1>2. CASE GateIdentities(r)
    <2> PICK here \in RoomAnswers : GateAnswered(r, FirstTwo(here))
      BY <1>2 DEF GateIdentities
    <2> DEFINE ids == FirstTwo(here)
               kept == IF loc[r].window = ids THEN reports ELSE reports \cap ids
               allPressed == Cardinality(ids) = 2 /\ ids \subseteq kept
    <2>1. ids \subseteq Participants
      BY RoomType
    <2>2. reports' \subseteq Participants
      BY DEF GateAnswered, AgentType
    <2>3. FlagType' /\ ctl' = ctl /\ signals' = signals /\ sessions' = sessions /\ sig' = sig
          /\ UNCHANGED envVars
      BY DEF GateAnswered, FlagType
    <2>4. CASE /\ paired' = ids /\ started' = started \cup ids
               /\ PauseAfterStart(r, ids, "work", "pausing")
               /\ loc' = [loc EXCEPT ![r] = NoLocals]
      <3>1. /\ status' \in Status /\ recovery' \in RecoveryStatus
            /\ aborted' \subseteq 1..signals
            /\ pc' \in [Fibers -> Pc]
        <4>1. "work" \in Pc /\ "pausing" \in Pc
          BY DEF Pc, WaitPc
        <4> HIDE DEF ids
        <4> QED
          BY <2>4, <4>1, <1>f, PauseAfterStartType
      <3>2. loc' \in [Fibers -> Locals]
        BY <2>4, LocalsType DEF AgentType
      <3> QED
        BY <2>1, <2>2, <2>3, <2>4, <3>1, <3>2 DEF AgentType, EnvType, envVars
    <2>5. CASE /\ \/ Goto(r, "gate") /\ loc' = [loc EXCEPT ![r].window = ids]
                  \/ Goto(r, "expired")
                     /\ loc' = [loc EXCEPT ![r].known = ids, ![r].why = "startTimeout"]
               /\ UNCHANGED <<status, aborted, recovery, paired, started>>
      <3>1. pc' \in [Fibers -> Pc]
        BY <2>5 DEF Goto, AgentType, Pc, WaitPc
      <3>2. loc' \in [Fibers -> Locals]
        <4> HIDE DEF ids
        <4> QED
          BY <2>5, <2>1, <1>f DEF AgentType, Locals, NoWindow
      <3> QED
        BY <2>2, <2>3, <2>5, <3>1, <3>2 DEF AgentType, EnvType, envVars
    <2> QED
      BY <2>4, <2>5 DEF GateAnswered
  <1>3. CASE GatePaused(r)
    <2>1. FlagType' /\ AgentType' /\ studyOpen' \in BOOLEAN
      BY <1>3, <1>f, PauseAnsweredType DEF GatePaused, Pc
    <2> QED
      BY <1>3, <2>1 DEF GatePaused, EnvType
  <1>4. CASE GateNoMatch(r)
    <2>1. pc' \in [Fibers -> Pc]
      BY <1>4 DEF GateNoMatch, Goto, AgentType, Pc, WaitPc
    <2>2. loc' \in [Fibers -> Locals]
      BY <1>4, <1>f DEF GateNoMatch, AgentType, Locals, NoWindow
    <2> QED
      BY <1>4, <2>1, <2>2 DEF GateNoMatch, FlagType, AgentType, EnvType, agentVars, envVars
  <1>5. CASE GateWaiting(r)
    <2>1. pc' \in [Fibers -> Pc]
      BY <1>5 DEF GateWaiting, Goto, AgentType, Pc, WaitPc
    <2>2. loc' \in [Fibers -> Locals]
      BY <1>5, <1>f, RoomType DEF GateWaiting, AgentType, Locals, NoWindow
    <2> QED
      BY <1>5, <2>1, <2>2 DEF GateWaiting, FlagType, AgentType, EnvType, agentVars, envVars
  <1>6. CASE GateSafetyTimeout(r)
    <2>1. pc' \in [Fibers -> Pc] /\ loc' \in [Fibers -> Locals]
      BY <1>6, <1>f, ReturnType DEF GateSafetyTimeout, Pc
    <2> QED
      BY <1>6, <2>1 DEF GateSafetyTimeout, FlagType, AgentType, EnvType, agentVars, envVars
  <1>7. CASE GateRecovery(r)
    <2>1. EnvType'
      BY <1>7 DEF GateRecovery, EnvType, envVars
    <2>2. CASE FailSafely(r)
      BY <2>1, <2>2, <1>f, FailSafelyType
    <2>3. CASE ~FailSafely(r)
      <3>1. recovery' = "pausing" /\ Goto(r, "r_pause")
            /\ UNCHANGED <<status, ctl, aborted, signals, handled, restart, paired,
                           reports, sessions, pausedStudy, sig, loc>>
        BY <1>7, <2>3 DEF GateRecovery
      <3> QED
        BY <2>1, <3>1 DEF FlagType, AgentType, RecoveryStatus, Goto, Pc, RecoverPc
    <2> QED
      BY <2>2, <2>3
  <1> QED
    BY <1>0, <1>1, <1>2, <1>3, <1>4, <1>5, <1>6, <1>7 DEF WaitStep

\* Every step of a run keeps the types.
LEMMA TypeRun == TypeOK /\ (\E r \in Runs : RunStep(r)) => Typed'
  <1> SUFFICES ASSUME FlagType, AgentType, EnvType, NEW r \in Runs, RunStep(r), ~WaitStep(r)
               PROVE  FlagType' /\ AgentType' /\ EnvType'
    BY TypeWait, TypeParts DEF Typed
  <1>f. r \in Fibers
    BY DEF Fibers
  <1>1. CASE RunAborted(r) \/ WorkDone(r)
    BY <1>1, RunReturnsType DEF RunAborted, WorkDone, EnvType, envVars
  <1>2. CASE WorkInterrupted(r)
    <2>1. EnvType'
      BY <1>2 DEF WorkInterrupted, EnvType, envVars
    <2>2. PICK responsible \in Interruptions :
            \/ /\ handled' = TRUE /\ Goto(r, "h_ident")
               /\ loc' = [loc EXCEPT ![r].known = responsible, ![r].why = "disconnect"]
               /\ UNCHANGED <<status, ctl, aborted, signals, restart, paired, reports,
                              sessions, pausedStudy, recovery, sig>>
            \/ ThrowsStopped(r) \/ ThrowsError(r)
      BY <1>2 DEF WorkInterrupted
    <2>3. responsible \in SUBSET Participants
      BY DEF Interruptions, AgentType
    <2>4. CASE ThrowsStopped(r) \/ ThrowsError(r)
      BY <2>1, <2>4, <1>f, ThrowsStoppedType, ThrowsErrorType
    <2>5. CASE ~(ThrowsStopped(r) \/ ThrowsError(r))
      <3>1. FlagType'
        BY <2>2, <2>5 DEF FlagType
      <3>2. pc' \in [Fibers -> Pc] /\ loc' \in [Fibers -> Locals]
        BY <2>2, <2>3, <2>5, <1>f DEF Goto, AgentType, Pc, HandlerPc, Locals
      <3> QED
        BY <2>1, <2>2, <2>5, <3>1, <3>2 DEF AgentType
    <2> QED
      BY <2>4, <2>5
  <1> QED
    BY <1>1, <1>2 DEF RunStep

\* Every step of the disconnect handler keeps the types.
LEMMA TypeHandler == TypeOK /\ (\E f \in Fibers : HandlerStep(f)) => Typed'
  <1> SUFFICES ASSUME FlagType, AgentType, EnvType, NEW f \in Fibers, HandlerStep(f)
               PROVE  FlagType' /\ AgentType' /\ EnvType'
    BY TypeParts DEF Typed
  <1>f. loc[f] \in Locals
    BY DEF AgentType
  <1>1. CASE HandlerIdentities(f)
    <2>1. PICK active \in RoomAnswers :
            loc' = [loc EXCEPT ![f].known = loc[f].known \cup paired \cup active,
                               ![f].armed = (loc[f].known \cup paired \cup active \subseteq sessions)]
      BY <1>1 DEF HandlerIdentities
    <2>2. loc' \in [Fibers -> Locals]
      <3> DEFINE known == loc[f].known \cup paired \cup active
                 armed == known \subseteq sessions
      <3>1. known \in SUBSET Participants /\ armed \in BOOLEAN
        BY <1>f, RoomType DEF AgentType, Locals
      <3>2. loc' = [loc EXCEPT ![f].known = known, ![f].armed = armed]
        BY <2>1
      <3> HIDE DEF known, armed
      <3> QED
        BY <1>f, <3>1, <3>2 DEF AgentType, Locals
    <2>3. pc' \in [Fibers -> Pc]
      BY <1>1 DEF HandlerIdentities, Goto, AgentType, Pc, HandlerPc
    <2> QED
      BY <1>1, <2>2, <2>3 DEF HandlerIdentities, FlagType, AgentType, EnvType, agentVars, envVars
  <1>2. CASE HandlerDecide(f)
    <2>1. EnvType'
      BY <1>2 DEF HandlerDecide, EnvType, envVars
    <2>2. CASE FailSafely(f)
      BY <2>1, <2>2, FailSafelyType
    <2>3. CASE /\ PauseAfterStart(f, loc[f].known, "h_leave", "h_pause")
               /\ UNCHANGED <<ctl, signals, handled, restart, paired, reports,
                              sessions, pausedStudy, sig, loc>>
      <3>1. "h_leave" \in Pc /\ "h_pause" \in Pc
        BY DEF Pc, HandlerPc
      <3>2. /\ status' \in Status /\ recovery' \in RecoveryStatus
            /\ aborted' \subseteq 1..signals
            /\ pc' \in [Fibers -> Pc]
        BY <2>3, <3>1, PauseAfterStartType
      <3> QED
        BY <2>1, <2>3, <3>2 DEF FlagType, AgentType
    <2>4. CASE /\ recovery' = "pausing" /\ Goto(f, "r_pause")
               /\ UNCHANGED <<status, ctl, aborted, signals, handled, restart, paired,
                              reports, sessions, pausedStudy, sig, loc>>
      BY <2>1, <2>4 DEF FlagType, AgentType, RecoveryStatus, Goto, Pc, RecoverPc
    <2> QED
      BY <1>2, <2>2, <2>3, <2>4 DEF HandlerDecide
  <1>3. CASE HandlerPaused(f)
    <2>1. FlagType' /\ AgentType' /\ studyOpen' \in BOOLEAN
      BY <1>3, PauseAnsweredType DEF HandlerPaused, Pc, HandlerPc
    <2> QED
      BY <1>3, <2>1 DEF HandlerPaused, EnvType
  <1>4. CASE HandlerRemoves(f)
    BY <1>4 DEF HandlerRemoves, Goto, FlagType, AgentType, EnvType, agentVars, Pc, HandlerPc
  <1>5. CASE HandlerStops(f)
    <2>1. FlagType' /\ status' \in Status /\ recovery' \in RecoveryStatus
      BY <1>5 DEF HandlerStops, FlagType, Status, RecoveryStatus
    <2>2. aborted' \subseteq 1..signals
      BY <1>5, AbortType DEF HandlerStops
    <2>3. pc' \in [Fibers -> Pc] /\ loc' \in [Fibers -> Locals]
      BY <1>5, ReturnType DEF HandlerStops, Pc
    <2> QED
      BY <1>5, <2>1, <2>2, <2>3 DEF HandlerStops, AgentType, EnvType, envVars
  <1> QED
    BY <1>1, <1>2, <1>3, <1>4, <1>5 DEF HandlerStep

\* Every step of a Prolific recovery keeps the types.
LEMMA TypeRecover == TypeOK /\ (\E f \in Fibers : RecoverStep(f)) => Typed'
  <1> SUFFICES ASSUME FlagType, AgentType, EnvType, NEW f \in Fibers, RecoverStep(f)
               PROVE  FlagType' /\ AgentType' /\ EnvType'
    BY TypeParts DEF Typed
  <1>f. loc[f] \in Locals /\ RecoverPc \subseteq Pc
    BY DEF AgentType, Pc
  <1>1. ASSUME NEW l \in RecoverPc, Goto(f, l), UNCHANGED <<agentVars, sig, loc>>
        PROVE  FlagType' /\ AgentType'
    BY <1>1, <1>f DEF Goto, FlagType, AgentType, agentVars
  <1>2. CASE RecoverPause(f) \/ RecoverReturn(f) \/ RecoverPoll(f) \/ RecoverStart(f)
    <2>1. EnvType'
      BY <1>2 DEF RecoverPause, RecoverReturn, RecoverPoll, RecoverStart, EnvType, envVars
    <2>2. \/ FailSafely(f)
          \/ \E l \in RecoverPc : Goto(f, l) /\ UNCHANGED <<agentVars, sig, loc>>
      BY <1>2 DEF RecoverPause, RecoverReturn, RecoverPoll, RecoverStart, RecoverPc
    <2> QED
      BY <2>1, <2>2, <1>1, FailSafelyType
  <1>3. CASE RecoverRemoves(f)
    <2>1. EnvType'
      BY <1>3 DEF RecoverRemoves, EnvType
    <2> QED
      BY <1>3, <1>1, <2>1 DEF RecoverRemoves, RecoverPc
  <1>4. CASE RecoverStatus(f)
    <2>1. EnvType'
      BY <1>4 DEF RecoverStatus, EnvType, envVars
    <2>2. CASE FailSafely(f)
      BY <2>1, <2>2, FailSafelyType
    <2>3. CASE ~FailSafely(f)
      <3>1. recovery' = "waiting-for-release" /\ (Goto(f, "r_start") \/ Goto(f, "r_poll"))
            /\ UNCHANGED <<status, ctl, aborted, signals, handled, restart, paired, reports,
                           sessions, pausedStudy, sig, loc>>
        BY <1>4, <2>3 DEF RecoverStatus
      <3> QED
        BY <2>1, <3>1 DEF FlagType, AgentType, RecoveryStatus, Goto, Pc, RecoverPc
    <2> QED
      BY <2>2, <2>3
  <1>5. CASE RecoverDone(f)
    <2>1. EnvType' /\ sessions' \subseteq Participants
      BY <1>5 DEF RecoverDone, EnvType, AgentType, envVars
    <2>2. CASE /\ f \in Runs /\ AbortCurrent /\ ClearSession /\ EnterWait(f)
               /\ UNCHANGED status
      BY <2>1, <2>2, ClearType, AbortType DEF AgentType
    <2>3. CASE /\ reports' = reports \ loc[f].known
               /\ recovery' = "idle"
               /\ Goto(f, "gate")
               /\ loc' = [loc EXCEPT ![f] = NoLocals]
               /\ UNCHANGED <<status, ctl, aborted, signals, handled, restart, paired,
                              pausedStudy, sig>>
      <3>1. pc' \in [Fibers -> Pc] /\ loc' \in [Fibers -> Locals]
        BY <2>3, LocalsType DEF Goto, AgentType, Pc, WaitPc
      <3> QED
        BY <2>1, <2>3, <3>1 DEF FlagType, AgentType, RecoveryStatus
    <2>4. CASE /\ reports' = reports \ loc[f].known
               /\ recovery' = "idle" /\ restart' = TRUE
               /\ AbortCurrent /\ Return(f, "done")
               /\ UNCHANGED <<status, ctl, signals, handled, paired, pausedStudy, sig>>
      <3>1. pc' \in [Fibers -> Pc] /\ loc' \in [Fibers -> Locals]
        BY <2>4, ReturnType DEF Pc
      <3>2. aborted' \subseteq 1..signals
        BY <2>4, AbortType
      <3>3. FlagType'
        BY <2>4 DEF FlagType
      <3> QED
        BY <2>1, <2>4, <3>1, <3>2, <3>3 DEF AgentType, RecoveryStatus
    <2> QED
      BY <1>5, <2>2, <2>3, <2>4 DEF RecoverDone
  <1> QED
    BY <1>2, <1>3, <1>4, <1>5 DEF RecoverStep

\* What a step of a run adds to the history, ...
LEMMA HistoryOfRun ==
  ASSUME NEW r \in Runs, RunStep(r)
  PROVE  UNCHANGED usurped \/ usurped' = (usurped \/ Usurps(r))
  <1>1. CASE GateEnters(r) \/ GatePoll(r) \/ GateNoMatch(r) \/ GateWaiting(r) \/ GateSafetyTimeout(r)
             \/ GateRecovery(r)
    BY <1>1 DEF GateEnters, GatePoll, GateNoMatch, GateWaiting, GateSafetyTimeout, GateRecovery,
       ThrowsError
  <1>2. CASE GateIdentities(r) \/ GatePaused(r)
    BY <1>2 DEF GateIdentities, GateAnswered, GatePaused, PauseAnswered, PauseAfterStart, ThrowsError
  <1>3. CASE RunAborted(r) \/ WorkDone(r) \/ WorkInterrupted(r)
    BY <1>3 DEF RunAborted, WorkDone, WorkInterrupted, ThrowsStopped, ThrowsError, RunReturns
  <1> QED
    BY <1>1, <1>2, <1>3 DEF RunStep, WaitStep

\* ... a step of the disconnect handler ...
LEMMA HistoryOfHandler ==
  ASSUME NEW f \in Fibers, HandlerStep(f)
  PROVE  UNCHANGED usurped \/ usurped' = (usurped \/ Usurps(f))
  BY DEF HandlerStep, HandlerIdentities, HandlerDecide, HandlerPaused, HandlerRemoves,
     HandlerStops, PauseAfterStart, PauseAnswered, ThrowsError

\* ... and a step of a recovery.
LEMMA HistoryOfRecovery ==
  ASSUME NEW f \in Fibers, RecoverStep(f)
  PROVE  UNCHANGED usurped
  BY DEF RecoverStep, RecoverPause, RecoverReturn, RecoverRemoves, RecoverPoll,
     RecoverStatus, RecoverStart, RecoverDone

\* The history keeps its type.
LEMMA TypeHistory == TypeOK /\ Next => usurped' \in BOOLEAN
  <1> SUFFICES ASSUME usurped \in BOOLEAN, Next PROVE usurped' \in BOOLEAN
    BY TypeParts
  <1>1. ASSUME NEW X, usurped' = (usurped \/ X) PROVE usurped' \in BOOLEAN
    BY <1>1
  <1>2. UNCHANGED usurped \/ \E f \in Fibers : usurped' = (usurped \/ Usurps(f))
    <2>1. ASSUME Requests \/ Environment PROVE UNCHANGED usurped
      BY <2>1 DEF Requests, Start, Stop, Reset, PressStart, Register, Withdraw,
         Environment, Enroll, Leave, Rejoin, SubmissionEnds, SubmissionReturned,
         SubmissionSettled
    <2>2. ASSUME NEW r \in Runs, RunStep(r)
          PROVE  UNCHANGED usurped \/ usurped' = (usurped \/ Usurps(r))
      BY <2>2, HistoryOfRun
    <2>3. ASSUME NEW f \in Fibers, HandlerStep(f) \/ RecoverStep(f)
          PROVE  UNCHANGED usurped \/ usurped' = (usurped \/ Usurps(f))
      BY <2>3, HistoryOfHandler, HistoryOfRecovery
    <2> QED
      BY <2>1, <2>2, <2>3 DEF Next, Fibers
  <1> QED
    BY <1>1, <1>2

\* Every field keeps its type (and every abort hits an existing signal), whatever
\* the number of participants, runs and reports.
THEOREM TypeCorrect == Spec => []TypeOK
  <1>1. TypeOK /\ [Next]_vars => TypeOK'
    <2> SUFFICES ASSUME TypeOK, [Next]_vars PROVE TypeOK'
      OBVIOUS
    <2>1. CASE UNCHANGED vars
      BY <2>1 DEF TypeOK, vars, agentVars, fiberVars, envVars
    <2>2. CASE Next
      <3>1. Typed'
        BY <2>2, TypeRequests, TypeEnvironment, TypeRun, TypeHandler, TypeRecover DEF Next
      <3>2. usurped' \in BOOLEAN
        BY <2>2, TypeHistory
      <3> QED
        BY <3>1, <3>2 DEF TypeOK, Typed, FlagType, AgentType, EnvType
    <2> QED
      BY <2>1, <2>2
  <1> QED
    BY <1>1, TypeInit, PTL DEF Spec

-----------------------------------------------------------------------------
(* What one step of fiber f may do to the rest of the agent.                *)

Terminal == {"off", "done"}

\* It moves no other fiber; it lets the agent go on running only if it goes on
\* itself; it stops the agent only with the current signal aborted; no abort is
\* ever taken back.
Orderly(f) ==
    /\ \A g \in Fibers \ {f} : pc'[g] = pc[g] /\ loc'[g] = loc[g]
    /\ status' = "running" => status = "running" /\ (f \in Runs => pc'[f] \notin Terminal)
    /\ status' = "stopped" => (status = "stopped" /\ ctl' = ctl) \/ ctl' \in aborted' \cup {0}
    /\ aborted \subseteq aborted'

\* The tail of the loop of start() is orderly: it goes on or reports an
\* outcome.
LEMMA RunReturnsOrderly ==
  ASSUME TypeOK, NEW r \in Runs, RunReturns(r)
  PROVE  Orderly(r)
  BY DEF RunReturns, Finished, ClearSession, EnterWait, Return, Goto, Orderly, Terminal,
     TypeOK, Fibers, Status

\* A plain Error leaves start() or a report orderly: neither leaves the agent
\* running without a runner.
LEMMA ThrowsErrorOrderly ==
  ASSUME TypeOK, NEW f \in Fibers, ThrowsError(f)
  PROVE  Orderly(f)
  BY PairedSessionAssumption
  DEF ThrowsError, AbortCurrent, Return, Goto, Orderly, Terminal, TypeOK, Fibers, Status

\* Stopping safely is orderly: the current signal is aborted with it.
LEMMA FailSafelyOrderly ==
  ASSUME TypeOK, NEW f \in Fibers, FailSafely(f)
  PROVE  Orderly(f)
  BY DEF FailSafely, AbortCurrent, Return, Goto, Orderly, TypeOK

\* PairedSessionStoppedError leaves a fiber orderly.
LEMMA ThrowsStoppedOrderly ==
  ASSUME TypeOK, NEW f \in Fibers, ThrowsStopped(f)
  PROVE  Orderly(f)
  <1>1. CASE f \in Runs /\ RunReturns(f)
    BY <1>1, RunReturnsOrderly
  <1>2. CASE f \in Reports /\ Return(f, "done") /\ UNCHANGED <<agentVars, sig>>
    BY <1>2, PairedSessionAssumption DEF Return, Goto, Orderly, TypeOK, agentVars
  <1> QED
    BY <1>1, <1>2 DEF ThrowsStopped

\* A step that only moves the fiber on.
LEMMA GoesOn ==
  ASSUME TypeOK, NEW f \in Fibers, NEW l \in Pc \ Terminal, Goto(f, l),
         \A g \in Fibers \ {f} : loc'[g] = loc[g],
         UNCHANGED <<status, ctl, aborted>>
  PROVE  Orderly(f)
  BY DEF Goto, Orderly, TypeOK

\* pauseProlificStudyAfterStart() is orderly up to its request, its errors
\* included.
LEMMA PauseAfterStartOrderly ==
  ASSUME TypeOK, NEW f \in Fibers, NEW S, NEW l \in Pc \ Terminal, NEW m \in Pc \ Terminal,
         PauseAfterStart(f, S, l, m), \A g \in Fibers \ {f} : loc'[g] = loc[g],
         UNCHANGED ctl
  PROVE  Orderly(f)
  <1>1. CASE S \cap sessions = {} \/ (S \subseteq sessions /\ HasGateway)
    <2>1. \E k \in Pc \ Terminal : Goto(f, k)
      BY <1>1 DEF PauseAfterStart
    <2>2. UNCHANGED <<status, aborted>>
      BY <1>1 DEF PauseAfterStart
    <2> QED
      BY <2>1, <2>2, GoesOn
  <1>2. CASE S \cap sessions # {} /\ ~(S \subseteq sessions /\ HasGateway)
    BY <1>2, PairedSessionAssumption
    DEF PauseAfterStart, AbortCurrent, Goto, Orderly, Terminal, TypeOK, Fibers, Status
  <1> QED
    BY <1>1, <1>2

\* The answer to its request is taken in an orderly way.
LEMMA PauseAnsweredOrderly ==
  ASSUME TypeOK, NEW f \in Fibers, NEW l \in Pc \ Terminal, PauseAnswered(f, l)
  PROVE  Orderly(f)
  <1>1. CASE ThrowsError(f)
    BY <1>1, ThrowsErrorOrderly
  <1>2. CASE ~ThrowsError(f)
    BY <1>2, GoesOn DEF PauseAnswered
  <1> QED
    BY <1>1, <1>2

\* Every step of a run is orderly.
LEMMA RunOrderly ==
  ASSUME TypeOK, NEW r \in Runs, RunStep(r)
  PROVE  Orderly(r)
  <1>f. r \in Fibers /\ WaitPc \cup {"work", "h_ident", "r_pause"} \subseteq Pc \ Terminal
    BY DEF Fibers, Pc, WaitPc, HandlerPc, RecoverPc, Terminal
  <1>0. CASE GateEnters(r)
    <2>1. CASE ThrowsError(r)
      BY <2>1, <1>f, ThrowsErrorOrderly
    <2>2. CASE Goto(r, "gate") /\ UNCHANGED <<agentVars, loc>>
      <3>1. "gate" \in Pc \ Terminal
        BY <1>f DEF WaitPc
      <3> QED
        BY <2>2, <3>1, <1>f, GoesOn DEF agentVars
    <2> QED
      BY <1>0, <2>1, <2>2 DEF GateEnters
  <1>1. CASE GatePoll(r) \/ GateNoMatch(r) \/ GateWaiting(r)
    <2>1. \A g \in Fibers \ {r} : pc'[g] = pc[g] /\ loc'[g] = loc[g]
      BY <1>1 DEF GatePoll, GateNoMatch, GateWaiting, Goto, TypeOK
    <2>2. pc'[r] \in WaitPc /\ UNCHANGED <<status, ctl, aborted>>
      BY <1>1, <1>f DEF GatePoll, GateNoMatch, GateWaiting, Goto, TypeOK, WaitPc, agentVars
    <2> QED
      BY <2>1, <2>2, <1>f DEF Orderly
  <1>2. CASE GateIdentities(r)
    <2> PICK ids : GateAnswered(r, ids)
      BY <1>2 DEF GateIdentities
    <2>1. \A g \in Fibers \ {r} : loc'[g] = loc[g]
      BY DEF GateAnswered, TypeOK
    <2>2. CASE PauseAfterStart(r, ids, "work", "pausing")
      <3>1. "work" \in Pc \ Terminal /\ "pausing" \in Pc \ Terminal
        BY <1>f DEF WaitPc
      <3> QED
        BY <2>1, <2>2, <3>1, <1>f, PauseAfterStartOrderly DEF GateAnswered
    <2>3. CASE (Goto(r, "gate") \/ Goto(r, "expired")) /\ UNCHANGED <<status, aborted>>
      <3>1. "gate" \in Pc \ Terminal /\ "expired" \in Pc \ Terminal
        BY <1>f DEF WaitPc
      <3> QED
        BY <2>1, <2>3, <3>1, <1>f, GoesOn DEF GateAnswered
    <2> QED
      BY <2>2, <2>3 DEF GateAnswered
  <1>3. CASE GatePaused(r)
    BY <1>3, <1>f, PauseAnsweredOrderly DEF GatePaused
  <1>4. CASE GateSafetyTimeout(r)
    BY <1>4, <1>f DEF GateSafetyTimeout, Return, Goto, Orderly, TypeOK, agentVars
  <1>5. CASE GateRecovery(r)
    <2>1. CASE FailSafely(r)
      BY <2>1, <1>f, FailSafelyOrderly
    <2>2. CASE ~FailSafely(r)
      BY <1>5, <2>2, <1>f, GoesOn DEF GateRecovery
    <2> QED
      BY <2>1, <2>2
  <1>6. CASE RunAborted(r) \/ WorkDone(r)
    BY <1>6, RunReturnsOrderly DEF RunAborted, WorkDone
  <1>7. CASE WorkInterrupted(r)
    <2>1. CASE ThrowsStopped(r) \/ ThrowsError(r)
      BY <2>1, <1>f, ThrowsStoppedOrderly, ThrowsErrorOrderly
    <2>2. CASE ~(ThrowsStopped(r) \/ ThrowsError(r))
      <3>1. Goto(r, "h_ident") /\ (\A g \in Fibers \ {r} : loc'[g] = loc[g])
            /\ UNCHANGED <<status, ctl, aborted>>
        BY <1>7, <2>2 DEF WorkInterrupted, TypeOK
      <3> QED
        BY <3>1, <1>f, GoesOn
    <2> QED
      BY <2>1, <2>2
  <1> QED
    BY <1>0, <1>1, <1>2, <1>3, <1>4, <1>5, <1>6, <1>7 DEF RunStep, WaitStep

\* Every step of the disconnect handler is orderly.
LEMMA HandlerOrderly ==
  ASSUME TypeOK, NEW f \in Fibers, HandlerStep(f)
  PROVE  Orderly(f)
  <1>f. HandlerPc \cup {"r_pause"} \subseteq Pc \ Terminal
    BY DEF Pc, HandlerPc, RecoverPc, Terminal
  <1>1. CASE HandlerIdentities(f)
    <2>1. \A g \in Fibers \ {f} : loc'[g] = loc[g]
      BY <1>1 DEF HandlerIdentities, TypeOK
    <2>2. "h_send" \in Pc \ Terminal
      BY <1>f DEF HandlerPc
    <2> QED
      BY <1>1, <2>1, <2>2, GoesOn DEF HandlerIdentities, agentVars
  <1>2. CASE HandlerDecide(f)
    <2>1. CASE FailSafely(f)
      BY <2>1, FailSafelyOrderly
    <2>2. CASE PauseAfterStart(f, loc[f].known, "h_leave", "h_pause") /\ UNCHANGED <<ctl, loc>>
      <3>1. "h_leave" \in Pc \ Terminal /\ "h_pause" \in Pc \ Terminal
        BY <1>f DEF HandlerPc
      <3> QED
        BY <2>2, <3>1, PauseAfterStartOrderly
    <2>3. CASE Goto(f, "r_pause") /\ UNCHANGED <<status, ctl, aborted, loc>>
      BY <2>3, <1>f, GoesOn
    <2> QED
      BY <1>2, <2>1, <2>2, <2>3 DEF HandlerDecide
  <1>3. CASE HandlerPaused(f)
    <2>1. "h_leave" \in Pc \ Terminal
      BY <1>f DEF HandlerPc
    <2> QED
      BY <1>3, <2>1, PauseAnsweredOrderly DEF HandlerPaused
  <1>4. CASE HandlerRemoves(f)
    <2>1. "h_stop" \in Pc \ Terminal
      BY <1>f DEF HandlerPc
    <2> QED
      BY <1>4, <2>1, GoesOn DEF HandlerRemoves, agentVars
  <1>5. CASE HandlerStops(f)
    BY <1>5 DEF HandlerStops, AbortCurrent, Return, Goto, Orderly, TypeOK
  <1> QED
    BY <1>1, <1>2, <1>3, <1>4, <1>5 DEF HandlerStep

\* Every step of a recovery is orderly.
LEMMA RecoverOrderly ==
  ASSUME TypeOK, NEW f \in Fibers, RecoverStep(f)
  PROVE  Orderly(f)
  <1>f. RecoverPc \cup {"gate"} \subseteq Pc \ Terminal
    BY DEF Pc, WaitPc, RecoverPc, Terminal
  <1>1. CASE FailSafely(f)
    BY <1>1, FailSafelyOrderly
  <1>2. CASE (\E l \in RecoverPc : Goto(f, l)) /\ UNCHANGED <<status, ctl, aborted, loc>>
    BY <1>2, <1>f, GoesOn
  <1>3. CASE RecoverDone(f)
    <2>1. CASE Goto(f, "gate") /\ loc' = [loc EXCEPT ![f] = NoLocals]
               /\ UNCHANGED <<status, ctl, aborted>>
      <3>1. \A g \in Fibers \ {f} : loc'[g] = loc[g]
        BY <2>1 DEF TypeOK
      <3> QED
        BY <2>1, <3>1, <1>f, GoesOn
    <2>2. CASE status = "running" /\ AbortCurrent /\ EnterWait(f) /\ UNCHANGED status
      BY <2>2, <1>f DEF AbortCurrent, EnterWait, Goto, Orderly, TypeOK, Terminal
    <2>3. CASE ~(f \in Runs /\ status = "running") /\ AbortCurrent /\ Return(f, "done")
               /\ UNCHANGED <<status, ctl>>
      BY <2>3 DEF AbortCurrent, Return, Goto, Orderly, TypeOK
    <2> QED
      BY <1>3, <2>1, <2>2, <2>3 DEF RecoverDone
  <1> QED
    BY <1>1, <1>2, <1>3 DEF RecoverStep, RecoverPause, RecoverReturn, RecoverRemoves,
       RecoverPoll, RecoverStatus, RecoverStart, RecoverPc, agentVars

\* Whatever fiber moves, it moves in an orderly way.
LEMMA FiberOrderly ==
  ASSUME TypeOK,
         \/ \E r \in Runs : RunStep(r)
         \/ \E f \in Fibers : HandlerStep(f) \/ RecoverStep(f)
  PROVE  \E f \in Fibers : Orderly(f)
  BY RunOrderly, HandlerOrderly, RecoverOrderly DEF Fibers

\* Every way out of start() reports an outcome.
THEOREM RunningAgentHasRunner == Spec => []RunningHasRunner
  <1>1. Init => RunningHasRunner
    BY DEF Init, RunningHasRunner
  <1>2. TypeOK /\ RunningHasRunner /\ [Next]_vars => RunningHasRunner'
    <2> SUFFICES ASSUME TypeOK, RunningHasRunner, [Next]_vars, status' = "running"
                 PROVE  \E r \in Runs : pc'[r] \notin Terminal
      BY DEF RunningHasRunner, Live, Terminal
    <2>1. ASSUME NEW r \in Runs, Start(r) PROVE pc'[r] \notin Terminal
      BY <2>1 DEF Start, EnterWait, Goto, TypeOK, Fibers, Terminal
    <2>2. CASE status = "running" /\ UNCHANGED pc
      BY <2>2 DEF RunningHasRunner, Live, Terminal
    <2>3. ASSUME NEW w \in Reports, NEW p \in Participants, Withdraw(w, p)
          PROVE  \E r \in Runs : pc'[r] \notin Terminal
      BY <2>3, PairedSessionAssumption
      DEF Withdraw, Goto, RunningHasRunner, Live, TypeOK, Fibers, Terminal
    <2>4. ASSUME NEW f \in Fibers, Orderly(f)
          PROVE  \E r \in Runs : pc'[r] \notin Terminal
      BY <2>4 DEF Orderly, RunningHasRunner, Live, Terminal, Fibers
    <2>5. CASE Environment \/ UNCHANGED vars
      BY <2>2, <2>5 DEF Environment, Enroll, Leave, Rejoin, SubmissionEnds, SubmissionReturned,
         SubmissionSettled, vars, agentVars, fiberVars
    <2>6. CASE Stop \/ Reset \/ \E p \in Participants : PressStart(p) \/ Register(p)
      BY <2>2, <2>6 DEF Stop, Reset, PressStart, Register, fiberVars
    <2> QED
      BY <2>1, <2>3, <2>4, <2>5, <2>6, FiberOrderly DEF Next, Requests
  <1> QED
    BY <1>1, <1>2, TypeCorrect, PTL DEF Spec

\* "stopped" is never reported over a signal that somebody may still be polling.
THEOREM StoppedAgentIsAborted == Spec => []StoppedIsAborted
  <1>1. Init => StoppedIsAborted
    BY DEF Init, StoppedIsAborted
  <1>2. TypeOK /\ StoppedIsAborted /\ [Next]_vars => StoppedIsAborted'
    <2> SUFFICES ASSUME TypeOK, StoppedIsAborted, [Next]_vars, status' = "stopped"
                 PROVE  ctl' = 0 \/ ctl' \in aborted'
      BY DEF StoppedIsAborted
    <2>1. CASE Requests
      <3>1. CASE (\E r \in Runs : Start(r)) \/ Stop \/ Reset
        BY <3>1 DEF Start, Stop, Reset
      <3>2. ASSUME NEW p \in Participants, PressStart(p) \/ Register(p)
            PROVE  UNCHANGED <<status, ctl, aborted>>
        BY <3>2 DEF PressStart, Register
      <3>3. ASSUME NEW w \in Reports, NEW p \in Participants, Withdraw(w, p)
            PROVE  UNCHANGED <<status, ctl, aborted>>
        BY <3>3 DEF Withdraw
      <3> QED
        BY <2>1, <3>1, <3>2, <3>3 DEF Requests, StoppedIsAborted
    <2>2. CASE Environment \/ UNCHANGED vars
      BY <2>2 DEF Environment, Enroll, Leave, Rejoin, SubmissionEnds, SubmissionReturned,
         SubmissionSettled, vars, agentVars, StoppedIsAborted
    <2>3. ASSUME NEW f \in Fibers, Orderly(f) PROVE ctl' = 0 \/ ctl' \in aborted'
      BY <2>3 DEF Orderly, StoppedIsAborted
    <2> QED
      BY <2>1, <2>2, <2>3, FiberOrderly DEF Next
  <1> QED
    BY <1>1, <1>2, TypeCorrect, PTL DEF Spec

-----------------------------------------------------------------------------
(* Only a recovery's own steps lead past the request that pauses the study. *)

Paused == {"r_return", "r_leave", "r_poll", "r_status", "r_start"}
Reopening == Paused \cup {"r_open"}

\* No step of a run leads behind that request.
LEMMA RunNotReopening ==
  ASSUME TypeOK, NEW r \in Runs, RunStep(r)
  PROVE  pc'[r] \notin Reopening /\ UNCHANGED submission
  <1>f. r \in Fibers
    BY DEF Fibers
  <1>0. CASE GateEnters(r)
    BY <1>0, <1>f DEF GateEnters, ThrowsError, Return, Goto, TypeOK, Reopening, Paused, envVars
  <1>1. CASE GatePoll(r) \/ GateNoMatch(r) \/ GateWaiting(r) \/ GateSafetyTimeout(r)
    BY <1>1, <1>f DEF GatePoll, GateNoMatch, GateWaiting, GateSafetyTimeout, Return, Goto,
       TypeOK, Reopening, Paused, envVars
  <1>2. CASE GateIdentities(r)
    <2> PICK ids : GateAnswered(r, ids)
      BY <1>2 DEF GateIdentities
    <2>1. \E l \in {"work", "pausing", "done", "gate", "expired"} : Goto(r, l)
      BY DEF GateAnswered, PauseAfterStart
    <2> QED
      BY <2>1, <1>f DEF GateAnswered, Goto, TypeOK, Reopening, Paused, envVars
  <1>3. CASE GatePaused(r)
    BY <1>3, <1>f DEF GatePaused, PauseAnswered, ThrowsError, Return, Goto, TypeOK, Reopening, Paused
  <1>4. CASE GateRecovery(r)
    BY <1>4, <1>f DEF GateRecovery, FailSafely, Return, Goto, TypeOK, Reopening, Paused, envVars
  <1>5. CASE RunAborted(r) \/ WorkDone(r)
    BY <1>5, <1>f DEF RunAborted, WorkDone, RunReturns, EnterWait, Return, Goto,
       TypeOK, Reopening, Paused, envVars
  <1>6. CASE WorkInterrupted(r)
    BY <1>6, <1>f DEF WorkInterrupted, ThrowsStopped, ThrowsError, RunReturns, EnterWait,
       Return, Goto, TypeOK, Reopening, Paused, envVars
  <1> QED
    BY <1>0, <1>1, <1>2, <1>3, <1>4, <1>5, <1>6 DEF RunStep, WaitStep

\* Neither does a step of the disconnect handler.
LEMMA HandlerNotReopening ==
  ASSUME TypeOK, NEW f \in Fibers, HandlerStep(f)
  PROVE  pc'[f] \notin Reopening /\ UNCHANGED submission
  <1>1. CASE HandlerIdentities(f) \/ HandlerRemoves(f) \/ HandlerStops(f)
    BY <1>1 DEF HandlerIdentities, HandlerRemoves, HandlerStops, Return, Goto, TypeOK,
       Reopening, Paused, envVars
  <1>2. CASE HandlerDecide(f)
    BY <1>2 DEF HandlerDecide, PauseAfterStart, FailSafely, Return, Goto, TypeOK,
       Reopening, Paused, envVars
  <1>3. CASE HandlerPaused(f)
    BY <1>3 DEF HandlerPaused, PauseAnswered, ThrowsError, Return, Goto, TypeOK, Reopening, Paused
  <1> QED
    BY <1>1, <1>2, <1>3 DEF HandlerStep

\* No step of a recovery changes a submission.
LEMMA RecoverSubmission ==
  ASSUME NEW f, RecoverStep(f)
  PROVE  UNCHANGED submission
  BY DEF RecoverStep, RecoverPause, RecoverReturn, RecoverRemoves, RecoverPoll,
     RecoverStatus, RecoverStart, RecoverDone, envVars

-----------------------------------------------------------------------------
(* One run at a time.  Without withdraw reports and without an operator the *)
(* agent is driven by the calls of start() alone, and these exclude each    *)
(* other: whoever is live holds the current signal.                         *)

Solo ==
    \A r \in Runs : pc[r] \notin Terminal =>
        /\ status = "running"
        /\ sig[r] = ctl /\ ctl # 0
        /\ \A q \in Runs : pc[q] \notin Terminal => q = r

\* A live fiber that holds the current signal goes on holding it, or ends.
Holds(f) == pc'[f] \notin Terminal => status' = "running" /\ sig'[f] = ctl' /\ ctl' # 0

\* The tail of the loop of start() ends the run or gives it the new signal.
LEMMA RunReturnsHolds ==
  ASSUME TypeOK, NEW r \in Runs, RunReturns(r)
  PROVE  Holds(r)
  BY DEF RunReturns, ClearSession, EnterWait, Return, Goto, Holds, Terminal, TypeOK, Fibers

\* A plain Error ends the fiber.
LEMMA ThrowsErrorHolds ==
  ASSUME TypeOK, NEW f \in Fibers, ThrowsError(f)
  PROVE  Holds(f)
  BY DEF ThrowsError, Return, Goto, Holds, Terminal, TypeOK

\* Who stops safely while holding the current signal ends: it has aborted
\* itself.
LEMMA FailSafelyHolds ==
  ASSUME TypeOK, NEW f \in Fibers, FailSafely(f), sig[f] = ctl, ctl # 0
  PROVE  Holds(f)
  <1>1. sig[f] \in aborted'
    BY DEF FailSafely, AbortCurrent
  <1> QED
    BY <1>1 DEF FailSafely, Return, Goto, Holds, Terminal, TypeOK

\* PairedSessionStoppedError ends the fiber or begins the next session in it.
LEMMA ThrowsStoppedHolds ==
  ASSUME TypeOK, NEW f \in Fibers, ThrowsStopped(f)
  PROVE  Holds(f)
  BY RunReturnsHolds DEF ThrowsStopped, Return, Goto, Holds, Terminal, TypeOK

\* pauseProlificStudyAfterStart() keeps the signal, or ends the run by an
\* error.
LEMMA PauseAfterStartHolds ==
  ASSUME TypeOK, NEW f \in Runs, NEW S, NEW l, NEW m,
         PauseAfterStart(f, S, l, m), UNCHANGED <<ctl, sig>>,
         status = "running", sig[f] = ctl, ctl # 0
  PROVE  Holds(f)
  BY PairedSessionAssumption DEF PauseAfterStart, Goto, Holds, Terminal, TypeOK, Fibers

\* So does the answer to its request.
LEMMA PauseAnsweredHolds ==
  ASSUME TypeOK, NEW f \in Fibers, NEW l, PauseAnswered(f, l),
         status = "running", sig[f] = ctl, ctl # 0
  PROVE  Holds(f)
  BY ThrowsErrorHolds DEF PauseAnswered, Holds

\* A run with the current signal keeps it through each of its steps, or ends.
LEMMA RunHolds ==
  ASSUME TypeOK, NEW r \in Runs, RunStep(r), status = "running", sig[r] = ctl, ctl # 0
  PROVE  Holds(r)
  <1>f. r \in Fibers
    BY DEF Fibers
  <1>0. CASE GateEnters(r)
    BY <1>0, <1>f, ThrowsErrorHolds DEF GateEnters, agentVars, Holds
  <1>1. CASE GatePoll(r) \/ GateNoMatch(r) \/ GateWaiting(r) \/ GateSafetyTimeout(r)
    BY <1>1 DEF GatePoll, GateNoMatch, GateWaiting, GateSafetyTimeout, agentVars, Holds
  <1>2. CASE GateIdentities(r)
    <2> PICK ids : GateAnswered(r, ids)
      BY <1>2 DEF GateIdentities
    <2>1. UNCHANGED <<ctl, sig>>
      BY DEF GateAnswered
    <2>2. CASE PauseAfterStart(r, ids, "work", "pausing")
      BY <2>1, <2>2, PauseAfterStartHolds
    <2>3. CASE ~PauseAfterStart(r, ids, "work", "pausing")
      <3>1. UNCHANGED status
        BY <2>3 DEF GateAnswered
      <3> QED
        BY <2>1, <3>1 DEF Holds
    <2> QED
      BY <2>2, <2>3
  <1>3. CASE GatePaused(r)
    BY <1>3, <1>f, PauseAnsweredHolds DEF GatePaused
  <1>4. CASE GateRecovery(r)
    BY <1>4, <1>f, FailSafelyHolds DEF GateRecovery, Holds
  <1>5. CASE RunAborted(r) \/ WorkDone(r)
    BY <1>5, RunReturnsHolds DEF RunAborted, WorkDone
  <1>6. CASE WorkInterrupted(r)
    BY <1>6, <1>f, ThrowsStoppedHolds, ThrowsErrorHolds DEF WorkInterrupted, Holds
  <1> QED
    BY <1>0, <1>1, <1>2, <1>3, <1>4, <1>5, <1>6 DEF RunStep, WaitStep

\* The same of the disconnect handler.
LEMMA HandlerHolds ==
  ASSUME TypeOK, NEW f \in Runs, HandlerStep(f), status = "running", sig[f] = ctl, ctl # 0
  PROVE  Holds(f)
  <1>f. f \in Fibers
    BY DEF Fibers
  <1>1. CASE HandlerIdentities(f) \/ HandlerRemoves(f)
    BY <1>1 DEF HandlerIdentities, HandlerRemoves, agentVars, Holds
  <1>2. CASE HandlerDecide(f)
    <2>1. CASE FailSafely(f)
      BY <2>1, <1>f, FailSafelyHolds
    <2>2. CASE PauseAfterStart(f, loc[f].known, "h_leave", "h_pause") /\ UNCHANGED <<ctl, sig>>
      BY <2>2, PauseAfterStartHolds
    <2>3. CASE UNCHANGED <<status, ctl, sig>>
      BY <2>3 DEF Holds
    <2> QED
      BY <1>2, <2>1, <2>2, <2>3 DEF HandlerDecide
  <1>3. CASE HandlerPaused(f)
    BY <1>3, <1>f, PauseAnsweredHolds DEF HandlerPaused
  <1>4. CASE HandlerStops(f)
    BY <1>4, <1>f DEF HandlerStops, Return, Goto, Holds, Terminal, TypeOK
  <1> QED
    BY <1>1, <1>2, <1>3, <1>4 DEF HandlerStep

\* The same of a recovery.
LEMMA RecoverHolds ==
  ASSUME TypeOK, NEW f \in Runs, RecoverStep(f), status = "running", sig[f] = ctl, ctl # 0
  PROVE  Holds(f)
  <1>f. f \in Fibers
    BY DEF Fibers
  <1>1. CASE FailSafely(f)
    BY <1>1, <1>f, FailSafelyHolds
  <1>2. CASE UNCHANGED <<status, ctl, sig>>
    BY <1>2 DEF Holds
  <1>3. CASE RecoverDone(f)
    BY <1>2, <1>3 DEF RecoverDone, ClearSession, EnterWait, Goto, Holds, TypeOK, Fibers
  <1> QED
    BY <1>1, <1>2, <1>3 DEF RecoverStep, RecoverPause, RecoverReturn, RecoverRemoves,
       RecoverPoll, RecoverStatus, RecoverStart, agentVars

\* A fiber that has not begun, or has ended, takes no step.
LEMMA ActiveFiber ==
  ASSUME NEW f, pc[f] \in Terminal
  PROVE  ~HandlerStep(f) /\ ~RecoverStep(f) /\ ~RunStep(f)
  <1>1. ~HandlerStep(f)
    BY DEF Terminal, HandlerStep, HandlerIdentities, HandlerDecide, HandlerPaused,
       HandlerRemoves, HandlerStops
  <1>2. ~RecoverStep(f)
    BY DEF Terminal, RecoverStep, RecoverPause, RecoverReturn, RecoverRemoves, RecoverPoll,
       RecoverStatus, RecoverStart, RecoverDone
  <1>3. ~RunStep(f)
    BY DEF Terminal, RunStep, WaitStep, GateEnters, GatePoll, GateIdentities, GateAnswered, GatePaused,
       GateNoMatch, GateWaiting, GateSafetyTimeout, GateRecovery, RunAborted, WorkDone,
       WorkInterrupted
  <1> QED
    BY <1>1, <1>2, <1>3

\* When one run is live at a time, the fiber that steps is that run, and the
\* others stay where they are.
LEMMA SoloFiber ==
  ASSUME TypeOK, Solo, Reports = {}, NEW f \in Fibers,
         (f \in Runs /\ RunStep(f)) \/ HandlerStep(f) \/ RecoverStep(f)
  PROVE  /\ pc[f] \notin Terminal /\ status = "running" /\ sig[f] = ctl /\ ctl # 0
         /\ \A q \in Fibers \ {f} : pc[q] \in Terminal /\ pc'[q] = pc[q] /\ loc'[q] = loc[q]
         /\ Holds(f)
  <1>1. f \in Runs /\ Fibers = Runs
    BY DEF Fibers
  <1>2. pc[f] \notin Terminal
    BY ActiveFiber
  <1>3. status = "running" /\ sig[f] = ctl /\ ctl # 0
    BY <1>1, <1>2 DEF Solo
  <1>4. Holds(f)
    BY <1>1, <1>3, RunHolds, HandlerHolds, RecoverHolds
  <1>5. Orderly(f)
    BY <1>1, RunOrderly, HandlerOrderly, RecoverOrderly
  <1>6. \A q \in Fibers \ {f} : pc[q] \in Terminal
    BY <1>1, <1>2 DEF Solo
  <1> QED
    BY <1>2, <1>3, <1>4, <1>5, <1>6 DEF Orderly

\* Left to the calls of start() alone, whoever is live is the only one, and
\* holds the current signal of a running agent.
THEOREM SoloCorrect ==
  ASSUME Reports = {}, Operator = FALSE
  PROVE  Spec => []Solo
  <1>1. Init => Solo
    BY DEF Init, Solo, Terminal, Fibers
  <1>2. TypeOK /\ Solo /\ [Next]_vars => Solo'
    <2> SUFFICES ASSUME TypeOK, Solo, [Next]_vars PROVE Solo'
      OBVIOUS
    <2>1. ASSUME NEW r \in Runs, Start(r) PROVE Solo'
      <3>1. status # "running" /\ status' = "running"
        BY <2>1 DEF Start
      <3>2. \A q \in Runs \ {r} : pc'[q] \in Terminal
        BY <2>1, <3>1 DEF Start, EnterWait, Goto, TypeOK, Fibers, Solo
      <3>3. sig'[r] = ctl' /\ ctl' # 0
        BY <2>1 DEF Start, ClearSession, EnterWait, TypeOK, Fibers
      <3> QED
        BY <3>1, <3>2, <3>3 DEF Solo
    <2>2. CASE UNCHANGED <<pc, status, sig, ctl>>
      BY <2>2 DEF Solo
    <2>3. ASSUME NEW f \in Fibers,
                 (f \in Runs /\ RunStep(f)) \/ HandlerStep(f) \/ RecoverStep(f)
          PROVE  Solo'
      BY <2>3, SoloFiber DEF Solo, Holds, Fibers
    <2>4. CASE Environment \/ UNCHANGED vars
      BY <2>2, <2>4 DEF Environment, Enroll, Leave, Rejoin, SubmissionEnds, SubmissionReturned,
         SubmissionSettled, vars, agentVars, fiberVars
    <2>5. CASE \E p \in Participants : PressStart(p) \/ Register(p)
      BY <2>2, <2>5 DEF PressStart, Register, fiberVars
    <2>6. ~Stop /\ ~Reset
      BY DEF Stop, Reset
    <2> QED
      BY <2>1, <2>3, <2>4, <2>5, <2>6 DEF Next, Requests, Fibers
  <1> QED
    BY <1>1, <1>2, TypeCorrect, PTL DEF Spec

-----------------------------------------------------------------------------
(* A started pair's study stays paused.  Inductively: the pair is known     *)
(* before its study is paused, and from then on nobody waits or recovers.   *)

PauseInv ==
    /\ pausedStudy => ~studyOpen /\ Cardinality(paired) = 2
    /\ \A f \in Fibers :
         /\ pc[f] \in WaitPc \cup RecoverPc => ~pausedStudy
         /\ pc[f] \in {"pausing", "h_pause"} => Cardinality(paired) = 2

\* PauseInv after a step of f, the only fiber that is not terminal.
Pauses(f) ==
    /\ pausedStudy' => ~studyOpen' /\ Cardinality(paired') = 2
    /\ pc'[f] \in WaitPc \cup RecoverPc => ~pausedStudy'
    /\ pc'[f] \in {"pausing", "h_pause"} => Cardinality(paired') = 2

\* The tail of the loop of start() keeps PauseInv: the next session knows no
\* paused study.
LEMMA RunReturnsPauses ==
  ASSUME TypeOK, PauseInv, NEW r \in Runs, RunReturns(r), UNCHANGED studyOpen
  PROVE  Pauses(r)
  BY DEF RunReturns, ClearSession, EnterWait, Return, Goto, PauseInv, Pauses, TypeOK, Fibers,
     WaitPc, RecoverPc

\* An error keeps PauseInv: it can only have closed the study.
LEMMA ThrowsErrorPauses ==
  ASSUME TypeOK, PauseInv, NEW f \in Fibers, ThrowsError(f), studyOpen' \in {studyOpen, FALSE}
  PROVE  Pauses(f)
  <1>1. UNCHANGED <<pausedStudy, paired>> /\ pc'[f] = "done"
    BY DEF ThrowsError, Return, Goto, TypeOK
  <1>2. ~studyOpen => ~studyOpen'
    OBVIOUS
  <1> QED
    BY <1>1, <1>2 DEF PauseInv, Pauses, WaitPc, RecoverPc

\* Stopping safely keeps PauseInv: the request that failed was one of a
\* recovery.
LEMMA FailSafelyPauses ==
  ASSUME TypeOK, PauseInv, NEW f \in Fibers, FailSafely(f),
         studyOpen' = studyOpen \/ pc[f] \in RecoverPc
  PROVE  Pauses(f)
  BY DEF FailSafely, Return, Goto, PauseInv, Pauses, TypeOK, WaitPc, RecoverPc

\* The answer to the pause of a started pair keeps PauseInv: the pair is
\* known by then.
LEMMA PauseAnsweredPauses ==
  ASSUME TypeOK, PauseInv, NEW f \in Fibers, NEW l \in {"work", "h_leave"},
         PauseAnswered(f, l), pc[f] \in {"pausing", "h_pause"}
  PROVE  Pauses(f)
  <1>1. CASE ThrowsError(f) /\ studyOpen' \in {studyOpen, FALSE}
    BY <1>1, ThrowsErrorPauses
  <1>2. CASE studyOpen' = FALSE /\ Goto(f, l) /\ UNCHANGED paired
    BY <1>2 DEF Goto, PauseInv, Pauses, TypeOK, WaitPc, RecoverPc
  <1> QED
    BY <1>1, <1>2 DEF PauseAnswered

\* Every step of the wait phase keeps PauseInv.
LEMMA WaitPauses ==
  ASSUME TypeOK, PauseInv, NEW r \in Runs, WaitStep(r)
  PROVE  Pauses(r)
  <1>f. r \in Fibers
    BY DEF Fibers
  <1>0. CASE GateEnters(r)
    <2>1. pc[r] \in WaitPc /\ UNCHANGED studyOpen
      BY <1>0 DEF GateEnters, WaitPc, envVars
    <2>2. CASE ThrowsError(r)
      BY <2>1, <2>2, <1>f, ThrowsErrorPauses
    <2>3. CASE Goto(r, "gate") /\ UNCHANGED agentVars
      BY <2>1, <2>3, <1>f DEF Goto, PauseInv, Pauses, TypeOK, agentVars
    <2> QED
      BY <1>0, <2>2, <2>3 DEF GateEnters
  <1>1. CASE GatePoll(r) \/ GateNoMatch(r) \/ GateWaiting(r) \/ GateSafetyTimeout(r)
    BY <1>1, <1>f DEF GatePoll, GateNoMatch, GateWaiting, GateSafetyTimeout, Return, Goto,
       PauseInv, Pauses, TypeOK, agentVars, envVars, WaitPc, RecoverPc
  <1>2. CASE GateIdentities(r)
    <2> PICK ids : GateAnswered(r, ids)
      BY <1>2 DEF GateIdentities
    <2>1. ~pausedStudy /\ UNCHANGED <<pausedStudy, studyOpen>>
      BY <1>f DEF GateAnswered, PauseInv, WaitPc, envVars
    <2>2. CASE paired' = ids /\ Cardinality(ids) = 2
      BY <2>1, <2>2 DEF Pauses
    <2>3. CASE Goto(r, "gate") \/ Goto(r, "expired")
      BY <2>1, <2>3, <1>f DEF Goto, Pauses, TypeOK
    <2> QED
      BY <2>2, <2>3 DEF GateAnswered
  <1>3. CASE GatePaused(r)
    BY <1>3, <1>f, PauseAnsweredPauses DEF GatePaused
  <1>4. CASE GateRecovery(r)
    <2>1. CASE FailSafely(r) /\ UNCHANGED envVars
      BY <2>1, <1>f, FailSafelyPauses DEF envVars
    <2>2. CASE Goto(r, "r_pause") /\ UNCHANGED <<pausedStudy, envVars, paired>>
      BY <1>4, <2>2, <1>f DEF GateRecovery, Goto, PauseInv, Pauses, TypeOK, WaitPc, envVars
    <2> QED
      BY <1>4, <2>1, <2>2 DEF GateRecovery
  <1> QED
    BY <1>0, <1>1, <1>2, <1>3, <1>4 DEF WaitStep

\* Every other step of a run keeps PauseInv.
LEMMA RunPauses ==
  ASSUME TypeOK, PauseInv, NEW r \in Runs, RunStep(r), ~WaitStep(r), Reports = {}
  PROVE  Pauses(r)
  <1>f. r \in Fibers
    BY DEF Fibers
  <1>1. CASE RunAborted(r) \/ WorkDone(r)
    BY <1>1, RunReturnsPauses DEF RunAborted, WorkDone, envVars
  <1>2. CASE WorkInterrupted(r)
    <2>1. UNCHANGED studyOpen
      BY <1>2 DEF WorkInterrupted, envVars
    <2>2. CASE ThrowsStopped(r)
      BY <2>1, <2>2, RunReturnsPauses DEF ThrowsStopped
    <2>3. CASE ThrowsError(r)
      BY <2>1, <2>3, <1>f, ThrowsErrorPauses
    <2>4. CASE Goto(r, "h_ident") /\ UNCHANGED <<pausedStudy, paired>>
      BY <2>1, <2>4, <1>f DEF Goto, PauseInv, Pauses, TypeOK, WaitPc, RecoverPc
    <2> QED
      BY <1>2, <2>2, <2>3, <2>4 DEF WorkInterrupted
  <1> QED
    BY <1>1, <1>2 DEF RunStep

\* Every step of the disconnect handler keeps PauseInv: it releases no
\* started pair.
LEMMA HandlerPauses ==
  ASSUME TypeOK, PauseInv, NEW f \in Fibers, HandlerStep(f)
  PROVE  Pauses(f)
  <1>1. CASE HandlerIdentities(f) \/ HandlerRemoves(f) \/ HandlerStops(f)
    BY <1>1 DEF HandlerIdentities, HandlerRemoves, HandlerStops, Return, Goto,
       PauseInv, Pauses, TypeOK, agentVars, envVars, WaitPc, RecoverPc
  <1>2. CASE HandlerDecide(f)
    <2>1. UNCHANGED studyOpen
      BY <1>2 DEF HandlerDecide, envVars
    <2>2. CASE FailSafely(f)
      BY <2>1, <2>2, FailSafelyPauses
    <2>3. CASE /\ PairStarted /\ UNCHANGED <<paired, pausedStudy>>
               /\ PauseAfterStart(f, loc[f].known, "h_leave", "h_pause")
      <3>1. \E l \in {"h_leave", "h_pause", "done"} : Goto(f, l)
        BY <2>3 DEF PauseAfterStart
      <3> QED
        BY <2>1, <2>3, <3>1 DEF PairStarted, Goto, PauseInv, Pauses, TypeOK, WaitPc, RecoverPc
    <2>4. CASE ~PairStarted /\ Goto(f, "r_pause") /\ UNCHANGED <<paired, pausedStudy>>
      BY <2>1, <2>4 DEF PairStarted, Goto, PauseInv, Pauses, TypeOK
    <2> QED
      BY <1>2, <2>2, <2>3, <2>4 DEF HandlerDecide
  <1>3. CASE HandlerPaused(f)
    BY <1>3, PauseAnsweredPauses DEF HandlerPaused
  <1> QED
    BY <1>1, <1>2, <1>3 DEF HandlerStep

\* Every step of a recovery keeps PauseInv: no study is held while it runs.
LEMMA RecoverPauses ==
  ASSUME TypeOK, PauseInv, NEW f \in Fibers, RecoverStep(f)
  PROVE  Pauses(f)
  <1>1. pc[f] \in RecoverPc /\ ~pausedStudy
    BY DEF RecoverStep, RecoverPause, RecoverReturn, RecoverRemoves, RecoverPoll,
       RecoverStatus, RecoverStart, RecoverDone, RecoverPc, PauseInv
  <1>2. CASE FailSafely(f)
    BY <1>1, <1>2, FailSafelyPauses
  <1>3. ASSUME NEW l \in Pc \ {"pausing", "h_pause"}, Goto(f, l), pausedStudy' = pausedStudy
        PROVE  Pauses(f)
    BY <1>1, <1>3 DEF Goto, Pauses, TypeOK
  <1>4. CASE RecoverPause(f) \/ RecoverReturn(f) \/ RecoverRemoves(f)
             \/ RecoverPoll(f) \/ RecoverStatus(f) \/ RecoverStart(f)
    <2>1. CASE \E l \in RecoverPc : Goto(f, l) /\ pausedStudy' = pausedStudy
      <3>1. RecoverPc \subseteq Pc \ {"pausing", "h_pause"}
        BY DEF Pc, RecoverPc
      <3> QED
        BY <2>1, <3>1, <1>3
    <2> QED
      BY <1>2, <1>4, <2>1 DEF RecoverPause, RecoverReturn, RecoverRemoves, RecoverPoll,
         RecoverStatus, RecoverStart, RecoverPc, agentVars
  <1>5. CASE RecoverDone(f)
    <2>1. pausedStudy' = FALSE \/ pausedStudy' = pausedStudy
      BY <1>5 DEF RecoverDone, ClearSession
    <2>2. Goto(f, "enter") \/ Goto(f, "gate") \/ Goto(f, "done")
      BY <1>5 DEF RecoverDone, EnterWait, Return
    <2> QED
      BY <1>1, <2>1, <2>2 DEF Goto, Pauses, TypeOK
  <1> QED
    BY <1>4, <1>5 DEF RecoverStep

\* Left to the calls of start() alone, the agent knows a started pair before it
\* pauses the study, and nobody waits or recovers from then on.
THEOREM PauseCorrect ==
  ASSUME Reports = {}, Operator = FALSE
  PROVE  Spec => []PauseInv
  <1>1. Init => PauseInv
    BY DEF Init, PauseInv, Fibers, WaitPc, RecoverPc
  <1>2. TypeOK /\ Solo /\ PauseInv /\ [Next]_vars => PauseInv'
    <2> SUFFICES ASSUME TypeOK, Solo, PauseInv, [Next]_vars PROVE PauseInv'
      OBVIOUS
    <2>1. ASSUME NEW r \in Runs, Start(r) PROVE PauseInv'
      <3>1. pausedStudy' = FALSE
        BY <2>1 DEF Start, ClearSession
      <3>2. \A q \in Fibers : pc'[q] \in Terminal \cup {"enter"}
        BY <2>1 DEF Start, EnterWait, Goto, TypeOK, Fibers, Solo
      <3> QED
        BY <3>1, <3>2 DEF PauseInv, Terminal
    <2>2. CASE UNCHANGED <<pc, pausedStudy, studyOpen, paired>>
      BY <2>2 DEF PauseInv
    <2>3. ASSUME NEW f \in Fibers,
                 (f \in Runs /\ RunStep(f)) \/ HandlerStep(f) \/ RecoverStep(f)
          PROVE  PauseInv'
      <3>1. Pauses(f)
        BY <2>3, WaitPauses, RunPauses, HandlerPauses, RecoverPauses DEF RunStep
      <3>2. \A q \in Fibers \ {f} : pc'[q] \in Terminal
        BY <2>3, SoloFiber
      <3> QED
        BY <3>1, <3>2 DEF Pauses, PauseInv, Terminal, WaitPc, RecoverPc
    <2>4. CASE Environment \/ UNCHANGED vars
      BY <2>2, <2>4 DEF Environment, Enroll, Leave, Rejoin, SubmissionEnds, SubmissionReturned,
         SubmissionSettled, vars, agentVars, fiberVars, envVars
    <2>5. CASE \E p \in Participants : PressStart(p) \/ Register(p)
      BY <2>2, <2>5 DEF PressStart, Register, fiberVars, envVars
    <2>6. ~Stop /\ ~Reset
      BY DEF Stop, Reset
    <2> QED
      BY <2>1, <2>3, <2>4, <2>5, <2>6 DEF Next, Requests, Fibers
  <1> QED
    BY <1>1, <1>2, TypeCorrect, SoloCorrect, PTL DEF Spec

\* Left to the calls of start() alone, the agent keeps the study of a started
\* pair paused, whatever number of participants comes, leaves and fails.
THEOREM PausedForGood ==
  ASSUME Reports = {}, Operator = FALSE
  PROVE  Spec => []StudyStaysPaused
  <1>1. PauseInv => StudyStaysPaused
    BY DEF PauseInv, StudyStaysPaused
  <1> QED
    BY <1>1, PauseCorrect, PTL

-----------------------------------------------------------------------------
(* The session implements Recruitment, one run at a time.  Inductively: no  *)
(* recovery hands its restart to another fiber; behind its first request    *)
(* the study stays paused, so that nobody comes who was not counted when    *)
(* the last submission was seen gone; and the answer of startStudy() finds  *)
(* the study open.                                                          *)

Over == {"completed", "stopped", "error"}

\* What RecruitInv asks of a run at the program counter l.
Prepared(l, isOpen, holds) ==
    /\ l \in Paused => ~isOpen
    /\ l = "r_start" => ~holds
    /\ l = "r_open" => isOpen

RecruitInv ==
    /\ ~restart
    /\ status = "idle" => ~pausedStudy
    /\ \A r \in Runs : Prepared(pc[r], studyOpen, HeldSubmissions # {})

\* A study is opened only when it holds nobody.
Reopenable == studyOpen \/ HeldSubmissions = {}

\* What a step of the run f is to the study: nothing, ...
LeavesStudy(f) ==
    /\ status' = "running"
    /\ UNCHANGED <<pausedStudy, studyOpen>>
    /\ pc[f] \in RecoverPc <=> pc'[f] \in RecoverPc

\* ... the confirmed pause of a started pair, ...
HoldsStudy(f) ==
    /\ status' = "running"
    /\ pausedStudy' /\ studyOpen' = FALSE
    /\ pc[f] \notin RecoverPc /\ pc'[f] \notin RecoverPc

\* ... the beginning of a release, ...
BeginsRelease(f) ==
    /\ status' = "running"
    /\ ~pausedStudy /\ UNCHANGED <<pausedStudy, studyOpen>>
    /\ pc[f] \notin RecoverPc /\ pc'[f] \in RecoverPc

\* ... a confirmed request of the release, ...
Releases(f) ==
    /\ status' = "running"
    /\ ~pausedStudy /\ ~pausedStudy'
    /\ studyOpen' \in BOOLEAN /\ (studyOpen' => Reopenable)
    /\ pc[f] \in RecoverPc /\ pc'[f] \in RecoverPc

\* ... the return to the START gate behind the reopened study, ...
RecruitsAgain(f) ==
    /\ status' = "running"
    /\ ~pausedStudy /\ ~pausedStudy'
    /\ studyOpen /\ UNCHANGED studyOpen
    /\ pc[f] \in RecoverPc /\ pc'[f] \notin RecoverPc

\* ... or the end.
EndsSession(f) ==
    /\ status' \in Over /\ pc'[f] # "off"
    /\ \/ UNCHANGED studyOpen
       \/ pc[f] \notin RecoverPc /\ studyOpen' = FALSE
       \/ pc[f] \in RecoverPc /\ studyOpen' \in BOOLEAN /\ (studyOpen' => Reopenable)

StudyStep(f) ==
    \/ LeavesStudy(f) \/ HoldsStudy(f) \/ BeginsRelease(f)
    \/ Releases(f) \/ RecruitsAgain(f) \/ EndsSession(f)

\* Each of these is a step of Recruitment, or none.
LEMMA StudyStepRecruits ==
  ASSUME TypeOK, PauseInv, NEW f \in Fibers, StudyStep(f), status = "running",
         \A q \in Fibers \ {f} : pc[q] \in Terminal /\ pc'[q] = pc[q],
         UNCHANGED submission
  PROVE  [Recruiting!Next]_<<Phase, studyOpen, HeldSubmissions # {}>>
  <1>0. HeldSubmissions' = HeldSubmissions
    BY DEF HeldSubmissions
  <1>1. \A q \in Fibers \ {f} : pc[q] \notin RecoverPc /\ pc'[q] \notin RecoverPc
    BY DEF Terminal, RecoverPc
  <1>2. /\ (\E q \in Fibers : pc[q] \in RecoverPc) <=> pc[f] \in RecoverPc
        /\ (\E q \in Fibers : pc'[q] \in RecoverPc) <=> pc'[f] \in RecoverPc
    BY <1>1
  <1>3. Phase = IF pausedStudy THEN "held"
                ELSE IF pc[f] \in RecoverPc THEN "releasing" ELSE "recruiting"
    BY <1>2 DEF Phase
  <1>4. status' = "running" =>
          Phase' = IF pausedStudy' THEN "held"
                   ELSE IF pc'[f] \in RecoverPc THEN "releasing" ELSE "recruiting"
    BY <1>2 DEF Phase
  <1>5. status' \in Over => Phase' = "over"
    BY DEF Phase, Over
  <1>6. /\ pausedStudy => ~studyOpen
        /\ pc[f] \in RecoverPc => ~pausedStudy
        /\ studyOpen \in BOOLEAN /\ pausedStudy \in BOOLEAN
    BY DEF PauseInv, TypeOK
  <1>7. CASE LeavesStudy(f)
    BY <1>0, <1>3, <1>4, <1>7 DEF LeavesStudy
  <1>8. CASE HoldsStudy(f)
    <2>1. Phase' = "held" /\ studyOpen' = FALSE
      BY <1>4, <1>8 DEF HoldsStudy
    <2>2. CASE pausedStudy
      BY <1>0, <1>3, <1>6, <2>1, <2>2
    <2>3. CASE ~pausedStudy
      BY <1>0, <1>3, <1>8, <2>1, <2>3
      DEF HoldsStudy, Recruiting!Next, Recruiting!Agent, Recruiting!Hold
    <2> QED
      BY <2>2, <2>3
  <1>9. CASE BeginsRelease(f)
    BY <1>0, <1>3, <1>4, <1>9
    DEF BeginsRelease, Recruiting!Next, Recruiting!Agent, Recruiting!Release
  <1>10. CASE Releases(f)
    BY <1>0, <1>3, <1>4, <1>10
    DEF Releases, Reopenable, Recruiting!Next, Recruiting!Agent, Recruiting!Pause,
        Recruiting!Reopen, Recruiting!Reopens
  <1>11. CASE RecruitsAgain(f)
    BY <1>0, <1>3, <1>4, <1>11
    DEF RecruitsAgain, Recruiting!Next, Recruiting!Agent, Recruiting!Recruit
  <1>12. CASE EndsSession(f)
    <2>1. Phase # "over" /\ Phase' = "over"
      BY <1>3, <1>5, <1>12 DEF EndsSession
    <2>2. \/ UNCHANGED studyOpen
          \/ Phase = "recruiting" /\ studyOpen' = FALSE
          \/ Phase = "releasing" /\ studyOpen' \in BOOLEAN /\ (studyOpen' => Reopenable)
      BY <1>3, <1>6, <1>12 DEF EndsSession
    <2> QED
      BY <1>0, <2>1, <2>2
      DEF Reopenable, Recruiting!Next, Recruiting!Agent, Recruiting!End, Recruiting!Reopens
  <1> QED
    BY <1>7, <1>8, <1>9, <1>10, <1>11, <1>12 DEF StudyStep

\* Without a restart in wait, the tail of the loop of start() ends the session.
LEMMA RunReturnsStudy ==
  ASSUME TypeOK, RecruitInv, NEW r \in Runs, RunReturns(r), status = "running",
         UNCHANGED studyOpen
  PROVE  EndsSession(r)
  BY DEF RunReturns, Finished, Return, Goto, RecruitInv, EndsSession, Over, TypeOK, Fibers

\* So does an Error, ...
LEMMA ThrowsErrorStudy ==
  ASSUME TypeOK, NEW f \in Runs, ThrowsError(f), status = "running", pc[f] \notin RecoverPc,
         studyOpen' \in {studyOpen, FALSE}
  PROVE  EndsSession(f)
  BY PairedSessionAssumption DEF ThrowsError, Return, Goto, EndsSession, Over, TypeOK, Fibers

\* ... a recovery that stops safely ...
LEMMA FailSafelyStudy ==
  ASSUME TypeOK, NEW f \in Runs, FailSafely(f),
         \/ studyOpen' = studyOpen
         \/ pc[f] \in RecoverPc /\ studyOpen' \in BOOLEAN /\ (studyOpen' => Reopenable)
  PROVE  EndsSession(f)
  BY PairedSessionAssumption DEF FailSafely, Return, Goto, EndsSession, Over, TypeOK, Fibers

\* ... and a pause that cannot be requested.
LEMMA PauseAfterStartStudy ==
  ASSUME TypeOK, NEW f \in Runs, NEW S, NEW l \in Pc \ RecoverPc, NEW m \in Pc \ RecoverPc,
         PauseAfterStart(f, S, l, m), status = "running", pc[f] \notin RecoverPc,
         UNCHANGED <<pausedStudy, studyOpen>>
  PROVE  StudyStep(f)
  <1>1. CASE status' = status /\ \E k \in Pc \ RecoverPc : Goto(f, k)
    <2>1. f \in Fibers
      BY DEF Fibers
    <2>2. pc'[f] \notin RecoverPc
      BY <1>1, <2>1 DEF Goto, TypeOK
    <2> QED
      BY <1>1, <2>2 DEF StudyStep, LeavesStudy
  <1>2. CASE status' = "error" /\ Goto(f, "done")
    BY <1>2 DEF StudyStep, EndsSession, Over, Goto, TypeOK, Fibers
  <1> QED
    BY <1>1, <1>2, PairedSessionAssumption DEF PauseAfterStart

\* The answer to the pause holds the study, or ends the session.
LEMMA PauseAnsweredStudy ==
  ASSUME TypeOK, NEW f \in Runs, NEW l \in Pc \ RecoverPc, PauseAnswered(f, l),
         status = "running", pc[f] \notin RecoverPc
  PROVE  StudyStep(f)
  <1>1. CASE ThrowsError(f) /\ studyOpen' \in {studyOpen, FALSE}
    BY <1>1, ThrowsErrorStudy DEF StudyStep
  <1>2. CASE Goto(f, l) /\ studyOpen' = FALSE /\ pausedStudy' = TRUE /\ status' = status
    BY <1>2 DEF StudyStep, HoldsStudy, Goto, TypeOK, Fibers
  <1> QED
    BY <1>1, <1>2 DEF PauseAnswered

\* Every step of a run is a step of Recruitment, and asks for no restart.
LEMMA RunStudy ==
  ASSUME TypeOK, PauseInv, RecruitInv, NEW r \in Runs, RunStep(r), status = "running",
         Reports = {}
  PROVE  StudyStep(r) /\ ~restart'
  <1>f. r \in Fibers
    BY DEF Fibers
  <1>0. CASE GateEnters(r)
    <2>1. UNCHANGED <<studyOpen, restart, pausedStudy>> /\ pc[r] \notin RecoverPc
      BY <1>0 DEF GateEnters, ThrowsError, agentVars, envVars, RecoverPc
    <2>2. CASE ThrowsError(r)
      BY <2>1, <2>2, ThrowsErrorStudy DEF StudyStep, RecruitInv
    <2>3. CASE Goto(r, "gate") /\ UNCHANGED status
      <3>1. pc'[r] \notin RecoverPc
        BY <2>3, <1>f DEF Goto, TypeOK, RecoverPc
      <3> QED
        BY <2>1, <2>3, <3>1 DEF StudyStep, LeavesStudy, RecruitInv
    <2> QED
      BY <1>0, <2>2, <2>3 DEF GateEnters, agentVars
  <1>1. CASE GatePoll(r) \/ GateNoMatch(r) \/ GateWaiting(r) \/ GateSafetyTimeout(r)
    <2>1. pc[r] \notin RecoverPc /\ pc'[r] \notin RecoverPc
      BY <1>1, <1>f DEF GatePoll, GateNoMatch, GateWaiting, GateSafetyTimeout, Return, Goto,
         TypeOK, RecoverPc
    <2>2. UNCHANGED <<status, pausedStudy, studyOpen, restart>>
      BY <1>1 DEF GatePoll, GateNoMatch, GateWaiting, GateSafetyTimeout, agentVars, envVars
    <2> QED
      BY <2>1, <2>2 DEF StudyStep, LeavesStudy, RecruitInv
  <1>2. CASE GateIdentities(r)
    <2> PICK ids : GateAnswered(r, ids)
      BY <1>2 DEF GateIdentities
    <2>1. /\ pc[r] \notin RecoverPc /\ ~restart'
          /\ UNCHANGED <<pausedStudy, studyOpen>>
      BY DEF GateAnswered, RecoverPc, RecruitInv, envVars
    <2>2. CASE PauseAfterStart(r, ids, "work", "pausing")
      <3>1. "work" \in Pc \ RecoverPc /\ "pausing" \in Pc \ RecoverPc
        BY DEF Pc, WaitPc, RecoverPc
      <3> QED
        BY <2>1, <2>2, <3>1, PauseAfterStartStudy
    <2>3. CASE (Goto(r, "gate") \/ Goto(r, "expired")) /\ UNCHANGED status
      <3>1. pc'[r] \notin RecoverPc
        BY <2>3, <1>f DEF Goto, TypeOK, RecoverPc
      <3> QED
        BY <2>1, <2>3, <3>1 DEF StudyStep, LeavesStudy
    <2> QED
      BY <2>1, <2>2, <2>3 DEF GateAnswered
  <1>3. CASE GatePaused(r)
    <2>1. "work" \in Pc \ RecoverPc /\ pc[r] \notin RecoverPc
      BY <1>3 DEF GatePaused, Pc, RecoverPc
    <2>2. StudyStep(r)
      BY <1>3, <2>1, PauseAnsweredStudy DEF GatePaused
    <2>3. restart' = restart
      BY <1>3 DEF GatePaused, PauseAnswered, ThrowsError
    <2> QED
      BY <2>2, <2>3 DEF RecruitInv
  <1>4. CASE GateRecovery(r)
    <2>1. UNCHANGED <<studyOpen, restart, pausedStudy>> /\ pc[r] \in WaitPc
      BY <1>4 DEF GateRecovery, FailSafely, envVars, WaitPc
    <2>2. CASE FailSafely(r)
      BY <2>1, <2>2, FailSafelyStudy DEF StudyStep, RecruitInv
    <2>3. CASE Goto(r, "r_pause") /\ UNCHANGED status
      <3>1. pc[r] \notin RecoverPc /\ pc'[r] \in RecoverPc
        BY <2>1, <2>3, <1>f DEF Goto, TypeOK, WaitPc, RecoverPc
      <3>2. ~pausedStudy
        BY <2>1, <1>f DEF PauseInv
      <3> QED
        BY <2>1, <2>3, <3>1, <3>2 DEF StudyStep, BeginsRelease, RecruitInv
    <2> QED
      BY <1>4, <2>2, <2>3 DEF GateRecovery
  <1>5. ASSUME RunReturns(r), UNCHANGED studyOpen
        PROVE  StudyStep(r) /\ ~restart'
    <2>1. EndsSession(r)
      BY <1>5, RunReturnsStudy
    <2>2. restart' = restart
      BY <1>5 DEF RunReturns, RecruitInv
    <2> QED
      BY <2>1, <2>2 DEF StudyStep, RecruitInv
  <1>6. CASE RunAborted(r) \/ WorkDone(r)
    BY <1>5, <1>6 DEF RunAborted, WorkDone, envVars
  <1>7. CASE WorkInterrupted(r)
    <2>1. UNCHANGED studyOpen /\ pc[r] \notin RecoverPc
      BY <1>7 DEF WorkInterrupted, envVars, RecoverPc
    <2>2. CASE ThrowsError(r)
      BY <2>1, <2>2, ThrowsErrorStudy DEF StudyStep, ThrowsError, RecruitInv
    <2>3. CASE Goto(r, "h_ident") /\ UNCHANGED <<status, restart, pausedStudy>>
      <3>1. pc'[r] \notin RecoverPc
        BY <2>3, <1>f DEF Goto, TypeOK, RecoverPc
      <3> QED
        BY <2>1, <2>3, <3>1 DEF StudyStep, LeavesStudy, RecruitInv
    <2> QED
      BY <1>7, <2>2, <2>3 DEF WorkInterrupted
  <1> QED
    BY <1>0, <1>1, <1>2, <1>3, <1>4, <1>6, <1>7 DEF RunStep, WaitStep

\* So is every step of the disconnect handler.
LEMMA HandlerStudy ==
  ASSUME TypeOK, PauseInv, RecruitInv, NEW f \in Runs, HandlerStep(f), status = "running"
  PROVE  StudyStep(f) /\ ~restart'
  <1>f. f \in Fibers
    BY DEF Fibers
  <1>1. pc[f] \notin RecoverPc
    BY DEF HandlerStep, HandlerIdentities, HandlerDecide, HandlerPaused, HandlerRemoves,
       HandlerStops, RecoverPc
  <1>2. CASE HandlerIdentities(f) \/ HandlerRemoves(f)
    <2>1. pc'[f] \notin RecoverPc
      BY <1>2, <1>f DEF HandlerIdentities, HandlerRemoves, Goto, TypeOK, RecoverPc
    <2>2. UNCHANGED <<status, pausedStudy, studyOpen, restart>>
      BY <1>2 DEF HandlerIdentities, HandlerRemoves, agentVars, envVars
    <2> QED
      BY <1>1, <2>1, <2>2 DEF StudyStep, LeavesStudy, RecruitInv
  <1>3. CASE HandlerDecide(f)
    <2>1. UNCHANGED <<studyOpen, restart, pausedStudy>>
      BY <1>3 DEF HandlerDecide, FailSafely, envVars
    <2>2. CASE FailSafely(f)
      BY <2>1, <2>2, FailSafelyStudy DEF StudyStep, RecruitInv
    <2>3. CASE PauseAfterStart(f, loc[f].known, "h_leave", "h_pause")
      <3>1. "h_leave" \in Pc \ RecoverPc /\ "h_pause" \in Pc \ RecoverPc
        BY DEF Pc, HandlerPc, RecoverPc
      <3>2. StudyStep(f)
        BY <1>1, <2>1, <2>3, <3>1, PauseAfterStartStudy
      <3> QED
        BY <2>1, <3>2 DEF RecruitInv
    <2>4. CASE ~PairStarted /\ Goto(f, "r_pause") /\ UNCHANGED status
      <3>1. pc'[f] \in RecoverPc
        BY <2>4, <1>f DEF Goto, TypeOK, RecoverPc
      <3>2. ~pausedStudy
        BY <2>4 DEF PairStarted, PauseInv
      <3> QED
        BY <1>1, <2>1, <2>4, <3>1, <3>2 DEF StudyStep, BeginsRelease, RecruitInv
    <2> QED
      BY <1>3, <2>2, <2>3, <2>4 DEF HandlerDecide
  <1>4. CASE HandlerPaused(f)
    <2>1. "h_leave" \in Pc \ RecoverPc
      BY DEF Pc, HandlerPc, RecoverPc
    <2>2. StudyStep(f)
      BY <1>1, <1>4, <2>1, PauseAnsweredStudy DEF HandlerPaused
    <2>3. restart' = restart
      BY <1>4 DEF HandlerPaused, PauseAnswered, ThrowsError
    <2> QED
      BY <2>2, <2>3 DEF RecruitInv
  <1>5. CASE HandlerStops(f)
    BY <1>5, <1>f DEF HandlerStops, Return, Goto, StudyStep, EndsSession, Over, envVars, TypeOK
  <1> QED
    BY <1>2, <1>3, <1>4, <1>5 DEF HandlerStep

\* And every step of a recovery.
LEMMA RecoverStudy ==
  ASSUME TypeOK, PauseInv, RecruitInv, NEW f \in Runs, RecoverStep(f), status = "running"
  PROVE  StudyStep(f) /\ ~restart' /\ Prepared(pc'[f], studyOpen', HeldSubmissions # {})
  <1>f. f \in Fibers
    BY DEF Fibers
  <1>1. pc[f] \in RecoverPc /\ ~pausedStudy
    BY <1>f DEF RecoverStep, RecoverPause, RecoverReturn, RecoverRemoves, RecoverPoll,
       RecoverStatus, RecoverStart, RecoverDone, RecoverPc, PauseInv
  <1>2. Prepared(pc[f], studyOpen, HeldSubmissions # {}) /\ studyOpen \in BOOLEAN
    BY DEF RecruitInv, TypeOK
  <1>3. ASSUME FailSafely(f), studyOpen' \in BOOLEAN, studyOpen' => Reopenable
        PROVE  StudyStep(f) /\ ~restart' /\ Prepared(pc'[f], studyOpen', HeldSubmissions # {})
    <2>1. EndsSession(f)
      BY <1>1, <1>3, FailSafelyStudy
    <2>2. pc'[f] \in {"work", "done"}
      BY <1>3, <1>f DEF FailSafely, Return, Goto, TypeOK
    <2> QED
      BY <1>3, <2>1, <2>2 DEF StudyStep, FailSafely, RecruitInv, Prepared, Paused
  <1>4. ASSUME NEW l \in RecoverPc, Goto(f, l), UNCHANGED <<status, restart, pausedStudy>>,
               studyOpen' \in BOOLEAN, studyOpen' => Reopenable,
               Prepared(l, studyOpen', HeldSubmissions # {})
        PROVE  StudyStep(f) /\ ~restart' /\ Prepared(pc'[f], studyOpen', HeldSubmissions # {})
    <2>1. pc'[f] = l
      BY <1>4, <1>f DEF Goto, TypeOK
    <2> QED
      BY <1>1, <1>4, <2>1 DEF StudyStep, Releases, RecruitInv
  <1>5. CASE RecoverPause(f)
    <2>1. CASE FailSafely(f)
      BY <1>2, <1>3, <1>5, <2>1 DEF RecoverPause, Reopenable
    <2>2. CASE studyOpen' = FALSE /\ Goto(f, "r_return") /\ UNCHANGED agentVars
      BY <1>4, <2>2 DEF agentVars, RecoverPc, Prepared
    <2> QED
      BY <1>5, <2>1, <2>2 DEF RecoverPause
  <1>6. CASE RecoverReturn(f) \/ RecoverRemoves(f) \/ RecoverPoll(f) \/ RecoverStatus(f)
    <2>1. studyOpen' = studyOpen /\ ~studyOpen
      BY <1>2, <1>6 DEF RecoverReturn, RecoverRemoves, RecoverPoll, RecoverStatus, envVars,
         Prepared, Paused
    <2>2. \/ FailSafely(f)
          \/ /\ UNCHANGED <<status, restart, pausedStudy>>
             /\ \/ \E l \in {"r_leave", "r_poll", "r_status"} : Goto(f, l)
                \/ Goto(f, "r_start") /\ Released(f)
      BY <1>6 DEF RecoverReturn, RecoverRemoves, RecoverPoll, RecoverStatus, agentVars
    <2>3. ASSUME NEW l \in {"r_leave", "r_poll", "r_status"}, Goto(f, l),
                 UNCHANGED <<status, restart, pausedStudy>>
          PROVE  StudyStep(f) /\ ~restart' /\ Prepared(pc'[f], studyOpen', HeldSubmissions # {})
      <3>1. l \in RecoverPc /\ Prepared(l, studyOpen', HeldSubmissions # {})
        BY <2>1 DEF RecoverPc, Prepared
      <3> QED
        BY <1>2, <1>4, <2>1, <2>3, <3>1
    <2>4. ASSUME Goto(f, "r_start"), Released(f), UNCHANGED <<status, restart, pausedStudy>>
          PROVE  StudyStep(f) /\ ~restart' /\ Prepared(pc'[f], studyOpen', HeldSubmissions # {})
      <3>1. "r_start" \in RecoverPc /\ Prepared("r_start", studyOpen', HeldSubmissions # {})
        BY <2>1, <2>4 DEF RecoverPc, Prepared, Released
      <3> QED
        BY <1>2, <1>4, <2>1, <2>4, <3>1
    <2> QED
      BY <1>2, <1>3, <2>1, <2>2, <2>3, <2>4
  <1>7. CASE RecoverStart(f)
    <2>1. Reopenable
      BY <1>2, <1>7 DEF RecoverStart, Prepared, Reopenable
    <2>2. CASE FailSafely(f)
      BY <1>2, <1>3, <1>7, <2>1, <2>2 DEF RecoverStart
    <2>3. CASE studyOpen' = TRUE /\ Goto(f, "r_open") /\ UNCHANGED agentVars
      BY <1>4, <2>1, <2>3 DEF agentVars, RecoverPc, Prepared, Paused
    <2> QED
      BY <1>7, <2>2, <2>3 DEF RecoverStart
  <1>8. CASE RecoverDone(f)
    <2>1. studyOpen /\ UNCHANGED studyOpen
      BY <1>2, <1>8 DEF RecoverDone, Prepared, envVars
    <2>2. status' = "running" /\ ~restart' /\ ~pausedStudy'
      BY <1>1, <1>8 DEF RecoverDone, ClearSession, RecruitInv
    <2>3. pc'[f] \in {"enter", "gate"}
      BY <1>8, <1>f DEF RecoverDone, EnterWait, Goto, TypeOK
    <2> QED
      BY <1>1, <2>1, <2>2, <2>3 DEF StudyStep, RecruitsAgain, RecoverPc, Prepared, Paused
  <1> QED
    BY <1>5, <1>6, <1>7, <1>8 DEF RecoverStep

\* A fiber that runs alone changes the study as Recruitment allows, and keeps
\* what that rests on.
LEMMA FiberStudy ==
  ASSUME TypeOK, Solo, PauseInv, RecruitInv, Reports = {}, NEW f \in Fibers,
         (f \in Runs /\ RunStep(f)) \/ HandlerStep(f) \/ RecoverStep(f)
  PROVE  RecruitInv' /\ [Recruiting!Next]_<<Phase, studyOpen, HeldSubmissions # {}>>
  <1>1. /\ pc[f] \notin Terminal /\ status = "running"
        /\ \A q \in Fibers \ {f} : pc[q] \in Terminal /\ pc'[q] = pc[q]
    BY SoloFiber
  <1>2. f \in Runs /\ Fibers = Runs
    BY DEF Fibers
  <1>3. StudyStep(f) /\ ~restart'
    BY <1>1, <1>2, RunStudy, HandlerStudy, RecoverStudy
  <1>4. UNCHANGED submission
    BY <1>2, RunNotReopening, HandlerNotReopening, RecoverSubmission
  <1>5. [Recruiting!Next]_<<Phase, studyOpen, HeldSubmissions # {}>>
    BY <1>1, <1>3, <1>4, StudyStepRecruits
  <1>6. HeldSubmissions' = HeldSubmissions
    BY <1>4 DEF HeldSubmissions
  <1>7. Prepared(pc'[f], studyOpen', HeldSubmissions # {})
    <2>1. CASE pc'[f] \notin Reopening
      BY <2>1 DEF Reopening, Paused, Prepared
    <2>2. CASE RecoverStep(f)
      BY <1>1, <1>2, <2>2, RecoverStudy
    <2> QED
      BY <1>2, <2>1, <2>2, RunNotReopening, HandlerNotReopening
  <1>8. \A q \in Fibers \ {f} : Prepared(pc'[q], studyOpen', HeldSubmissions # {})
    BY <1>1 DEF Terminal, Prepared, Paused
  <1>9. status' # "idle"
    BY <1>3 DEF StudyStep, LeavesStudy, HoldsStudy, BeginsRelease, Releases,
       RecruitsAgain, EndsSession, Over
  <1> QED
    BY <1>2, <1>3, <1>5, <1>6, <1>7, <1>8, <1>9 DEF RecruitInv

\* People come only while the study recruits, so that nobody new is there when
\* a recovery reopens it.
LEMMA PeopleStudy ==
  ASSUME TypeOK, RecruitInv, Environment
  PROVE  RecruitInv' /\ [Recruiting!Next]_<<Phase, studyOpen, HeldSubmissions # {}>>
  <1>1. UNCHANGED <<status, restart, pausedStudy, pc, studyOpen>>
    BY DEF Environment, Enroll, Leave, Rejoin, SubmissionEnds, SubmissionReturned,
       SubmissionSettled, agentVars, fiberVars
  <1>2. Phase' = Phase
    BY <1>1 DEF Phase
  <1>3. studyOpen \/ HeldSubmissions' \subseteq HeldSubmissions
    BY DEF Environment, Enroll, Leave, Rejoin, SubmissionEnds, SubmissionReturned,
       SubmissionSettled, HeldSubmissions, TypeOK
  <1>4. RecruitInv'
    BY <1>1, <1>3 DEF RecruitInv, Prepared, Paused
  <1>5. studyOpen \in BOOLEAN
    BY DEF TypeOK
  <1>6. CASE studyOpen \/ HeldSubmissions' = {}
    <2>1. (HeldSubmissions # {})' \in {FALSE, studyOpen}
      BY <1>5, <1>6
    <2> QED
      BY <1>1, <1>2, <1>4, <2>1 DEF Recruiting!Next, Recruiting!People
  <1>7. CASE HeldSubmissions # {} /\ HeldSubmissions' # {}
    BY <1>1, <1>2, <1>4, <1>7
  <1> QED
    BY <1>3, <1>6, <1>7

\* A call of start() begins the next session, with the study as it was left.
LEMMA StartStudy ==
  ASSUME TypeOK, Solo, RecruitInv, Reports = {}, NEW r \in Runs, Start(r)
  PROVE  RecruitInv' /\ [Recruiting!Next]_<<Phase, studyOpen, HeldSubmissions # {}>>
  <1>1. /\ status # "running" /\ status' = "running" /\ ~restart' /\ ~pausedStudy'
        /\ UNCHANGED <<studyOpen, submission>>
    BY DEF Start, ClearSession, envVars
  <1>2. Fibers = Runs /\ \A q \in Fibers : pc[q] \in Terminal
    BY <1>1 DEF Solo, Fibers
  <1>3. \A q \in Fibers : pc'[q] \in Terminal \cup {"enter"}
    BY <1>2 DEF Start, EnterWait, Goto, TypeOK
  <1>4. HeldSubmissions' = HeldSubmissions
    BY <1>1 DEF HeldSubmissions
  <1>5. RecruitInv'
    BY <1>1, <1>2, <1>3 DEF RecruitInv, Prepared, Paused, Terminal
  <1>6. Phase' = "recruiting"
    BY <1>1, <1>3 DEF Phase, Terminal, RecoverPc
  <1>7. CASE status = "idle"
    <2>1. Phase = "recruiting"
      BY <1>2, <1>7 DEF RecruitInv, Phase, Terminal, RecoverPc
    <2> QED
      BY <1>1, <1>4, <1>5, <1>6, <2>1
  <1>8. CASE status # "idle"
    <2>1. Phase = "over"
      BY <1>1, <1>8 DEF Phase, TypeOK, Status
    <2> QED
      BY <1>1, <1>4, <1>5, <1>6, <2>1 DEF Recruiting!Next, Recruiting!Agent, Recruiting!Begin
  <1> QED
    BY <1>7, <1>8

\* Whatever step is taken, recruitment changes as Recruitment allows it.
LEMMA StudySteps ==
  ASSUME Reports = {}, Operator = FALSE, TypeOK, Solo, PauseInv, RecruitInv, [Next]_vars
  PROVE  RecruitInv' /\ [Recruiting!Next]_<<Phase, studyOpen, HeldSubmissions # {}>>
  <1>1. CASE UNCHANGED <<status, restart, pausedStudy, pc, studyOpen, submission>>
    BY <1>1 DEF RecruitInv, Prepared, Phase, HeldSubmissions
  <1>2. CASE UNCHANGED vars \/ \E p \in Participants : PressStart(p) \/ Register(p)
    BY <1>1, <1>2 DEF PressStart, Register, vars, agentVars, fiberVars, envVars
  <1>3. ~Stop /\ ~Reset
    BY DEF Stop, Reset
  <1> QED
    BY <1>2, <1>3, StartStudy, PeopleStudy, FiberStudy DEF Next, Requests, Fibers

\* Left to the calls of start() alone, recruitment begins in order.
LEMMA RecruitCorrect ==
  ASSUME Reports = {}, Operator = FALSE
  PROVE  Spec => [](TypeOK /\ Solo /\ PauseInv /\ RecruitInv)
  <1>1. Init => RecruitInv
    BY DEF Init, RecruitInv, Prepared, Paused, Fibers
  <1>2. TypeOK /\ Solo /\ PauseInv /\ RecruitInv /\ [Next]_vars => RecruitInv'
    BY StudySteps
  <1> QED
    BY <1>1, <1>2, TypeCorrect, SoloCorrect, PauseCorrect, PTL DEF Spec

\* Any number of calls of start(), without operator and withdraw reports:
\* whatever the participants do and whichever requests fail, the agent changes
\* the recruitment of the study only as Recruitment allows it.
THEOREM RecruitsInOrder ==
  ASSUME Reports = {}, Operator = FALSE
  PROVE  Spec => RefinesRecruitment
  <1>1. Init => Recruiting!Init
    BY DEF Init, Recruiting!Init, Phase, HeldSubmissions, Fibers, RecoverPc
  <1>2. TypeOK /\ Solo /\ PauseInv /\ RecruitInv /\ [Next]_vars
        => [Recruiting!Next]_<<Phase, studyOpen, HeldSubmissions # {}>>
    BY StudySteps
  <1> QED
    BY <1>1, <1>2, RecruitCorrect, PTL DEF Spec, RefinesRecruitment, Recruiting!Spec

\* Under the same assumptions a paused study is reopened only when it holds no
\* submission, also none of a third person: from the first request of a recovery
\* on it admits nobody, and nobody else reopens it in between.
THEOREM ReopensEmpty ==
  ASSUME Reports = {}, Operator = FALSE
  PROVE  Spec => ReopenedEmpty
  <1>1. TypeOK /\ Solo /\ PauseInv /\ RecruitInv /\ [Next]_vars
        => [~studyOpen /\ studyOpen' => HeldSubmissions = {}]_vars
    <2> SUFFICES ASSUME TypeOK, Solo, PauseInv, RecruitInv, [Next]_vars, ~studyOpen, studyOpen'
                 PROVE  HeldSubmissions = {}
      OBVIOUS
    <2>1. [Recruiting!Next]_<<Phase, studyOpen, HeldSubmissions # {}>>
      BY StudySteps
    <2>2. studyOpen \in BOOLEAN
      BY DEF TypeOK
    <2> QED
      BY <2>1, <2>2
      DEF Recruiting!Next, Recruiting!People, Recruiting!Agent, Recruiting!Hold,
          Recruiting!Release, Recruiting!Pause, Recruiting!Reopen, Recruiting!Reopens,
          Recruiting!Recruit, Recruiting!End, Recruiting!Begin
  <1> QED
    BY <1>1, RecruitCorrect, PTL DEF Spec, ReopenedEmpty

-----------------------------------------------------------------------------
(* One handler per session, with one withdraw report.  A step of a fiber    *)
(* leaves the session alone, enters its disconnect handler or begins the    *)
(* next session.                                                            *)

Leaves(f) ==
    /\ UNCHANGED <<handled, ctl, signals, sig>>
    /\ pc'[f] \notin Terminal /\ loc'[f].why = "disconnect" => loc[f].why = "disconnect"

Enters(f) ==
    /\ f \in Runs /\ ~handled /\ sig[f] \notin aborted
    /\ handled' /\ UNCHANGED <<ctl, signals, sig, aborted>>

Renews(f) == f \in Runs /\ status' = "running" /\ ClearSession /\ EnterWait(f)

\* The tail of the loop of start() ends the run or begins the next session.
LEMMA RunReturnsSession ==
  ASSUME TypeOK, NEW r \in Runs, RunReturns(r)
  PROVE  Leaves(r) \/ Renews(r)
  BY DEF RunReturns, Return, Goto, Leaves, Renews, Terminal, TypeOK, Fibers

\* An Error leaves the session, ...
LEMMA ThrowsErrorSession ==
  ASSUME TypeOK, NEW f \in Fibers, ThrowsError(f)
  PROVE  Leaves(f)
  BY DEF ThrowsError, Return, Goto, Leaves, Terminal, TypeOK

\* ... stopping safely too.
LEMMA FailSafelySession ==
  ASSUME TypeOK, NEW f \in Fibers, FailSafely(f)
  PROVE  Leaves(f)
  BY DEF FailSafely, Return, NoLocals, Leaves, TypeOK

\* The answer to a pause goes on in the session, or leaves it.
LEMMA PauseAnsweredSession ==
  ASSUME TypeOK, NEW f \in Fibers, NEW l, PauseAnswered(f, l)
  PROVE  Leaves(f)
  BY ThrowsErrorSession DEF PauseAnswered, Leaves

\* What a step of a run is to its session.
LEMMA RunSession ==
  ASSUME TypeOK, NEW r \in Runs, RunStep(r)
  PROVE  Leaves(r) \/ Enters(r) \/ Renews(r)
  <1>f. r \in Fibers
    BY DEF Fibers
  <1>0. CASE GateEnters(r)
    BY <1>0, <1>f, ThrowsErrorSession DEF GateEnters, agentVars, Leaves
  <1>1. CASE GatePoll(r) \/ GateNoMatch(r) \/ GateWaiting(r) \/ GateSafetyTimeout(r)
    <2>1. UNCHANGED <<handled, ctl, signals, sig>>
      BY <1>1 DEF GatePoll, GateNoMatch, GateWaiting, GateSafetyTimeout, agentVars
    <2>2. loc'[r].why = "disconnect" => loc[r].why = "disconnect"
      <3>1. CASE GatePoll(r)
        BY <3>1, <1>f DEF GatePoll, TypeOK, Locals
      <3>2. CASE GateNoMatch(r) \/ GateSafetyTimeout(r)
        BY <3>2, <1>f DEF GateNoMatch, GateSafetyTimeout, Return, NoLocals, TypeOK, Locals
      <3>3. CASE GateWaiting(r)
        BY <3>3, <1>f DEF GateWaiting, TypeOK, Locals
      <3> QED
        BY <1>1, <3>1, <3>2, <3>3
    <2> QED
      BY <2>1, <2>2 DEF Leaves
  <1>2. CASE GateIdentities(r)
    <2> PICK ids : GateAnswered(r, ids)
      BY <1>2 DEF GateIdentities
    <2>1. UNCHANGED <<handled, ctl, signals, sig>>
      BY DEF GateAnswered
    <2>2. loc'[r].why = "disconnect" => loc[r].why = "disconnect"
      BY <1>f DEF GateAnswered, NoLocals, TypeOK, Locals
    <2> QED
      BY <2>1, <2>2 DEF Leaves
  <1>3. CASE GatePaused(r)
    BY <1>3, <1>f, PauseAnsweredSession DEF GatePaused
  <1>4. CASE GateRecovery(r)
    <2>1. CASE FailSafely(r)
      BY <2>1, <1>f, FailSafelySession
    <2>2. CASE UNCHANGED <<handled, ctl, signals, sig, loc>>
      BY <2>2 DEF Leaves
    <2> QED
      BY <1>4, <2>1, <2>2 DEF GateRecovery
  <1>5. CASE RunAborted(r) \/ WorkDone(r)
    BY <1>5, RunReturnsSession DEF RunAborted, WorkDone
  <1>6. CASE WorkInterrupted(r)
    <2>1. CASE ThrowsStopped(r)
      BY <2>1, RunReturnsSession, PairedSessionAssumption DEF ThrowsStopped
    <2>2. CASE ThrowsError(r)
      BY <2>2, <1>f, ThrowsErrorSession
    <2>3. CASE /\ Unhandled /\ ~SignalAborted(r) /\ handled' = TRUE
               /\ UNCHANGED <<ctl, signals, sig, aborted>>
      BY <2>3 DEF Unhandled, SignalAborted, Enters
    <2> QED
      BY <1>6, <2>1, <2>2, <2>3 DEF WorkInterrupted
  <1> QED
    BY <1>0, <1>1, <1>2, <1>3, <1>4, <1>5, <1>6 DEF RunStep, WaitStep

\* Once inside, the disconnect handler does not enter again.
LEMMA HandlerSession ==
  ASSUME TypeOK, NEW f \in Fibers, HandlerStep(f)
  PROVE  Leaves(f)
  <1>1. CASE HandlerIdentities(f)
    <2>1. UNCHANGED <<handled, ctl, signals, sig>>
      BY <1>1 DEF HandlerIdentities, agentVars
    <2>2. loc'[f].why = loc[f].why
      BY <1>1 DEF HandlerIdentities, TypeOK, Locals
    <2> QED
      BY <2>1, <2>2 DEF Leaves
  <1>2. CASE HandlerDecide(f)
    <2>1. CASE FailSafely(f)
      BY <2>1, FailSafelySession
    <2>2. CASE UNCHANGED <<handled, ctl, signals, sig, loc>>
      BY <2>2 DEF Leaves
    <2> QED
      BY <1>2, <2>1, <2>2 DEF HandlerDecide
  <1>3. CASE HandlerPaused(f)
    BY <1>3, PauseAnsweredSession DEF HandlerPaused
  <1>4. CASE HandlerRemoves(f)
    BY <1>4 DEF HandlerRemoves, agentVars, Leaves
  <1>5. CASE HandlerStops(f)
    BY <1>5 DEF HandlerStops, Return, Goto, NoLocals, Leaves, TypeOK
  <1> QED
    BY <1>1, <1>2, <1>3, <1>4, <1>5 DEF HandlerStep

\* A recovery begins the next session only inside a run.
LEMMA RecoverSession ==
  ASSUME TypeOK, NEW f \in Fibers, RecoverStep(f)
  PROVE  Leaves(f) \/ Renews(f)
  <1>1. CASE FailSafely(f)
    BY <1>1, FailSafelySession
  <1>2. CASE UNCHANGED <<handled, ctl, signals, sig, loc>>
    BY <1>2 DEF Leaves
  <1>3. CASE RecoverDone(f)
    <2>1. CASE f \in Runs /\ status' = "running" /\ ClearSession /\ EnterWait(f)
      BY <2>1 DEF Renews
    <2>2. CASE UNCHANGED <<handled, ctl, signals, sig>> /\ loc' = [loc EXCEPT ![f] = NoLocals]
      BY <2>2 DEF NoLocals, Leaves, TypeOK
    <2> QED
      BY <1>3, <2>1, <2>2 DEF RecoverDone, Return
  <1> QED
    BY <1>1, <1>2, <1>3 DEF RecoverStep, RecoverPause, RecoverReturn, RecoverRemoves,
       RecoverPoll, RecoverStatus, RecoverStart, agentVars

\* A report that changes the status has ended, and none begins twice.
LEMMA ReportEnds ==
  ASSUME TypeOK, NEW w \in Reports, HandlerStep(w) \/ RecoverStep(w)
  PROVE  Leaves(w) /\ pc'[w] # "off" /\ (status' = status \/ pc'[w] = "done")
  <1>f. w \in Fibers /\ w \notin Runs
    BY PairedSessionAssumption DEF Fibers
  <1>1. Leaves(w)
    BY <1>f, HandlerSession, RecoverSession DEF Renews
  <1>2. CASE FailSafely(w) \/ ThrowsError(w) \/ Return(w, "done")
    BY <1>1, <1>2, <1>f DEF FailSafely, ThrowsError, Return, Goto, TypeOK
  <1>3. CASE (\E l \in Pc \ {"off", "done"} : Goto(w, l)) /\ status' = status
    BY <1>1, <1>3, <1>f DEF Goto, TypeOK
  <1>4. CASE HandlerStep(w)
    <2>1. CASE HandlerDecide(w)
      BY <1>1, <1>2, <2>1, <1>f DEF HandlerDecide, PauseAfterStart, Goto, TypeOK
    <2>2. CASE HandlerIdentities(w) \/ HandlerRemoves(w)
      BY <1>1, <2>2, <1>f DEF HandlerIdentities, HandlerRemoves, Goto, TypeOK, agentVars
    <2>3. CASE HandlerPaused(w)
      BY <1>1, <1>2, <2>3, <1>f DEF HandlerPaused, PauseAnswered, Goto, TypeOK
    <2>4. CASE HandlerStops(w)
      BY <1>2, <2>4 DEF HandlerStops
    <2> QED
      BY <1>4, <2>1, <2>2, <2>3, <2>4 DEF HandlerStep
  <1>5. CASE RecoverStep(w)
    <2>1. CASE RecoverDone(w)
      BY <1>1, <1>2, <2>1, <1>f DEF RecoverDone, Goto, TypeOK
    <2>2. CASE ~RecoverDone(w)
      <3>1. RecoverPc \subseteq Pc \ {"off", "done"}
        BY DEF RecoverPc, Pc
      <3>2. FailSafely(w) \/ \E l \in RecoverPc : Goto(w, l) /\ status' = status
        BY <1>5, <2>2 DEF RecoverStep, RecoverPause, RecoverReturn, RecoverRemoves,
           RecoverPoll, RecoverStatus, RecoverStart, RecoverPc, agentVars
      <3> QED
        BY <1>2, <1>3, <3>1, <3>2
    <2> QED
      BY <2>1, <2>2
  <1> QED
    BY <1>4, <1>5

\* Inductively: live runs hold different signals; whoever handles the disconnect
\* of the current session was noticed; until the report begins, whoever is live
\* holds the current signal of a running agent, and so it stays as long as the
\* session the report handles is the current one and not aborted; a later
\* session leaves no live run behind with the report's signal, unless aborted.
RunsApart ==
    \A q, r \in Runs : pc[q] \notin Terminal /\ pc[r] \notin Terminal /\ sig[q] = sig[r] => q = r

Noticed == \A f \in Fibers : InHandler(f) /\ sig[f] = ctl => handled

HandlersApart ==
    \A w \in Reports, r \in Runs : InHandler(w) /\ InHandler(r) => sig[w] # sig[r]

BeforeReport ==
    \A w \in Reports, r \in Runs : pc[w] = "off" /\ pc[r] \notin Terminal =>
        status = "running" /\ sig[r] = ctl /\ ctl # 0

DuringReport ==
    \A w \in Reports, r \in Runs : pc[w] \notin Terminal /\ pc[r] \notin Terminal =>
        \/ sig[w] = ctl /\ ctl \in aborted
        \/ sig[w] = ctl /\ ctl # 0 /\ sig[r] = ctl /\ status = "running"
        \/ sig[w] # ctl /\ (sig[r] = sig[w] => sig[r] \in aborted)

HandlerInv == RunsApart /\ Noticed /\ HandlersApart /\ BeforeReport /\ DuringReport

\* A step inside a session keeps who is live in it.
LEMMA LiveKept ==
  ASSUME TypeOK, RunsApart, BeforeReport, DuringReport, NEW f \in Fibers, Orderly(f),
         pc[f] \notin Terminal, UNCHANGED <<ctl, sig>>,
         \A v, w \in Reports : v = w,
         f \in Runs /\ status = "running" /\ sig[f] = ctl /\ ctl # 0 => Holds(f),
         f \in Reports => pc'[f] # "off" /\ (status' = status \/ pc'[f] = "done")
  PROVE  RunsApart' /\ BeforeReport' /\ DuringReport'
  <1>1. \A g \in Fibers : pc'[g] \notin Terminal => pc[g] \notin Terminal
    BY DEF Orderly
  <1>2. RunsApart'
    BY <1>1 DEF RunsApart, Fibers
  <1>3. ASSUME NEW r \in Runs, pc'[r] \notin Terminal, status = "running", sig[r] = ctl, ctl # 0,
               f \in Runs => sig[f] = ctl, f \in Reports => status' = status
        PROVE  status' = "running"
    <2>1. CASE f \in Runs
      <3>1. f = r
        BY <1>1, <1>3, <2>1 DEF RunsApart, Fibers
      <3> QED
        BY <1>3, <2>1, <3>1 DEF Holds
    <2> QED
      BY <1>3, <2>1 DEF Fibers
  <1>4. BeforeReport'
    <2> SUFFICES ASSUME NEW w \in Reports, NEW r \in Runs, pc'[w] = "off", pc'[r] \notin Terminal
                 PROVE  status' = "running" /\ sig'[r] = ctl' /\ ctl' # 0
      BY DEF BeforeReport
    <2>1. pc[w] = "off" /\ f \notin Reports
      BY DEF Orderly, Fibers
    <2>2. status = "running" /\ sig[r] = ctl /\ ctl # 0 /\ sig[f] = ctl
      BY <2>1, <1>1 DEF BeforeReport, Fibers
    <2> QED
      BY <1>3, <2>1, <2>2
  <1>5. DuringReport'
    <2> SUFFICES ASSUME NEW w \in Reports, NEW r \in Runs,
                        pc'[w] \notin Terminal, pc'[r] \notin Terminal
                 PROVE  \/ sig'[w] = ctl' /\ ctl' \in aborted'
                        \/ sig'[w] = ctl' /\ ctl' # 0 /\ sig'[r] = ctl' /\ status' = "running"
                        \/ sig'[w] # ctl' /\ (sig'[r] = sig'[w] => sig'[r] \in aborted')
      BY DEF DuringReport
    <2>1. pc[w] \notin Terminal /\ pc[r] \notin Terminal /\ aborted \subseteq aborted'
      BY <1>1 DEF Orderly, Fibers
    <2>2. f \in Reports => status' = status
      BY DEF Terminal
    <2>3. CASE sig[w] = ctl /\ ctl \notin aborted
      <3>1. status = "running" /\ sig[r] = ctl /\ ctl # 0
        BY <2>1, <2>3 DEF DuringReport
      <3>2. f \in Runs => sig[f] = ctl
        BY <2>1, <2>3 DEF DuringReport
      <3> QED
        BY <1>3, <2>2, <2>3, <3>1, <3>2
    <2>4. CASE ~(sig[w] = ctl /\ ctl \notin aborted)
      BY <2>1, <2>4 DEF DuringReport
    <2> QED
      BY <2>3, <2>4
  <1> QED
    BY <1>2, <1>4, <1>5

\* A step that leaves the session alone enters no handler.
LEMMA LeavesHandler ==
  ASSUME TypeOK, HandlerInv, NEW f \in Fibers, Orderly(f), Leaves(f), pc[f] \notin Terminal
  PROVE  Noticed' /\ HandlersApart'
  <1>1. ASSUME NEW g \in Fibers, pc'[g] \notin Terminal, loc'[g].why = "disconnect"
        PROVE  InHandler(g)
    BY <1>1 DEF Orderly, Leaves, InHandler, Live, Terminal
  <1>2. ASSUME NEW g \in Fibers, pc'[g] \notin Terminal, loc'[g].why = "disconnect", sig'[g] = ctl'
        PROVE  handled'
    <2>1. handled
      BY <1>1, <1>2 DEF HandlerInv, Noticed, Leaves
    <2> QED
      BY <2>1 DEF Leaves
  <1>3. Noticed'
    BY <1>2 DEF Noticed, InHandler, Live, Terminal
  <1>4. HandlersApart'
    BY <1>1 DEF HandlerInv, HandlersApart, InHandler, Live, Terminal, Leaves, Fibers
  <1> QED
    BY <1>3, <1>4

\* A run enters the handler of a session only when nobody else is in it.
LEMMA EntersHandler ==
  ASSUME TypeOK, HandlerInv, NEW f \in Fibers, Orderly(f), Enters(f), pc[f] \notin Terminal
  PROVE  Noticed' /\ HandlersApart'
  <1>1. Noticed'
    BY DEF Noticed, Enters
  <1>2. HandlersApart'
    <2> SUFFICES ASSUME NEW w \in Reports, NEW r \in Runs,
                        pc'[w] \notin Terminal, loc'[w].why = "disconnect",
                        pc'[r] \notin Terminal, loc'[r].why = "disconnect",
                        sig'[w] = sig'[r]
                 PROVE  FALSE
      BY DEF HandlersApart, InHandler, Live, Terminal
    <2>1. w # f /\ InHandler(w)
      BY PairedSessionAssumption DEF Enters, Orderly, InHandler, Live, Terminal, Fibers
    <2>2. CASE r = f
      <3>1. sig[w] = ctl => handled
        BY <2>1 DEF HandlerInv, Noticed, Fibers
      <3>2. sig[w] # ctl => sig[f] \in aborted
        BY <2>1, <2>2 DEF HandlerInv, DuringReport, InHandler, Live, Terminal, Enters
      <3>3. sig[w] = ctl /\ sig[w] # ctl
        BY <3>1, <3>2 DEF Enters
      <3> QED
        BY <3>3
    <2>3. CASE r # f
      BY <2>1, <2>3 DEF HandlerInv, HandlersApart, Enters, Orderly, InHandler, Live, Terminal, Fibers
    <2> QED
      BY <2>2, <2>3
  <1> QED
    BY <1>1, <1>2

\* The next session has a signal that nobody else holds, ...
LEMMA RenewsApart ==
  ASSUME TypeOK, RunsApart, NEW f \in Runs, Renews(f),
         \A q \in Runs \ {f} : pc'[q] \notin Terminal => pc[q] \notin Terminal
  PROVE  /\ RunsApart' /\ status' = "running"
         /\ sig'[f] = ctl' /\ ctl' # 0 /\ ctl' # ctl
         /\ \A q \in Fibers \ {f} : sig'[q] = sig[q] /\ sig[q] # ctl'
  <1>1. /\ ctl' = signals + 1 /\ signals \in Nat
        /\ sig' = [sig EXCEPT ![f] = signals + 1] /\ status' = "running"
    BY DEF Renews, ClearSession, EnterWait, TypeOK
  <1>2. /\ sig'[f] = ctl' /\ ctl' # 0 /\ ctl' # ctl
        /\ \A q \in Fibers \ {f} : sig'[q] = sig[q] /\ sig[q] # ctl'
    BY <1>1 DEF TypeOK, Fibers
  <1>3. RunsApart'
    BY <1>2 DEF RunsApart, Fibers
  <1> QED
    BY <1>1, <1>2, <1>3

\* ... and none that anybody is handling.
LEMMA RenewsHandler ==
  ASSUME TypeOK, HandlerInv, NEW f \in Runs, Renews(f), aborted \subseteq aborted',
         pc[f] \notin Terminal \/ status # "running"
  PROVE  HandlerInv'
  <1>f. f \in Fibers /\ \A w \in Reports : w # f /\ w \in Fibers
    BY PairedSessionAssumption DEF Fibers
  <1>1. /\ ctl' = signals + 1 /\ signals \in Nat
        /\ sig' = [sig EXCEPT ![f] = signals + 1]
        /\ pc' = [pc EXCEPT ![f] = "enter"] /\ loc' = [loc EXCEPT ![f] = NoLocals]
    BY DEF Renews, ClearSession, EnterWait, Goto, TypeOK
  <1>2. /\ pc'[f] = "enter" /\ sig'[f] = ctl' /\ loc'[f].why # "disconnect"
        /\ \A g \in Fibers \ {f} : pc'[g] = pc[g] /\ loc'[g] = loc[g] /\ sig'[g] = sig[g]
    BY <1>1, <1>f DEF TypeOK, NoLocals
  <1>3. ctl' # 0 /\ ctl' # ctl /\ \A g \in Fibers : sig[g] # ctl'
    BY <1>1 DEF TypeOK
  <1>4. RunsApart'
    BY <1>2, <1>3 DEF HandlerInv, RunsApart, Fibers
  <1>5. \A g \in Fibers : sig'[g] = ctl' => g = f
    BY <1>2, <1>3
  <1>6. Noticed'
    BY <1>2, <1>5 DEF Noticed, InHandler
  <1>7. HandlersApart'
    BY <1>2, <1>f DEF HandlerInv, HandlersApart, InHandler, Live, Fibers
  <1>8. BeforeReport'
    <2> SUFFICES ASSUME NEW w \in Reports, NEW r \in Runs, pc'[w] = "off", pc'[r] \notin Terminal
                 PROVE  r = f
      BY <1>2, <1>3 DEF BeforeReport, Renews
    <2>1. pc[w] = "off"
      BY <1>2, <1>f
    <2>2. CASE r # f
      <3>1. pc[r] \notin Terminal
        BY <1>2, <2>2 DEF Fibers
      <3>2. status = "running" /\ sig[r] = ctl
        BY <2>1, <3>1 DEF HandlerInv, BeforeReport
      <3>3. sig[f] = ctl /\ pc[f] \notin Terminal
        BY <2>1, <3>2 DEF HandlerInv, BeforeReport
      <3> QED
        BY <3>1, <3>2, <3>3 DEF HandlerInv, RunsApart
    <2> QED
      BY <2>2
  <1>9. DuringReport'
    <2> SUFFICES ASSUME NEW w \in Reports, NEW r \in Runs,
                        pc'[w] \notin Terminal, pc'[r] \notin Terminal, sig'[r] = sig'[w]
                 PROVE  sig'[r] \in aborted'
      BY <1>f, <1>2, <1>3 DEF DuringReport
    <2>1. pc[w] \notin Terminal /\ sig'[w] = sig[w] /\ sig[w] # ctl'
      BY <1>2, <1>3, <1>f
    <2>2. r # f /\ pc[r] \notin Terminal /\ sig'[r] = sig[r] /\ sig[r] = sig[w]
      BY <1>2, <2>1 DEF Fibers
    <2>3. CASE sig[w] = ctl /\ ctl \notin aborted
      <3>1. status = "running" /\ sig[r] = ctl
        BY <2>1, <2>2, <2>3 DEF HandlerInv, DuringReport
      <3>2. pc[f] \notin Terminal /\ sig[f] = ctl
        BY <2>1, <2>3, <3>1 DEF HandlerInv, DuringReport
      <3> QED
        BY <2>2, <3>1, <3>2 DEF HandlerInv, RunsApart
    <2>4. CASE ~(sig[w] = ctl /\ ctl \notin aborted)
      <3>1. sig[r] \in aborted
        BY <2>1, <2>2, <2>4 DEF HandlerInv, DuringReport
      <3> QED
        BY <2>2, <3>1
    <2> QED
      BY <2>3, <2>4
  <1> QED
    BY <1>4, <1>6, <1>7, <1>8, <1>9 DEF HandlerInv

\* Every fiber keeps HandlerInv.
LEMMA FiberKeepsHandlers ==
  ASSUME TypeOK, HandlerInv, \A v, w \in Reports : v = w, NEW f \in Fibers,
         (f \in Runs /\ RunStep(f)) \/ HandlerStep(f) \/ RecoverStep(f)
  PROVE  HandlerInv'
  <1>1. pc[f] \notin Terminal
    BY ActiveFiber
  <1>2. Orderly(f)
    BY RunOrderly, HandlerOrderly, RecoverOrderly
  <1>3. Leaves(f) \/ Enters(f) \/ Renews(f)
    BY RunSession, HandlerSession, RecoverSession
  <1>4. CASE Renews(f)
    BY <1>1, <1>2, <1>4, RenewsHandler DEF Renews, Orderly
  <1>5. CASE Leaves(f) \/ Enters(f)
    <2>1. UNCHANGED <<ctl, sig>>
      BY <1>5 DEF Leaves, Enters
    <2>2. f \in Runs /\ status = "running" /\ sig[f] = ctl /\ ctl # 0 => Holds(f)
      BY RunHolds, HandlerHolds, RecoverHolds
    <2>3. f \in Reports => pc'[f] # "off" /\ (status' = status \/ pc'[f] = "done")
      BY ReportEnds, PairedSessionAssumption
    <2>4. RunsApart' /\ BeforeReport' /\ DuringReport'
      BY <1>1, <1>2, <2>1, <2>2, <2>3, LiveKept DEF HandlerInv
    <2>5. Noticed' /\ HandlersApart'
      BY <1>1, <1>2, <1>5, LeavesHandler, EntersHandler
    <2> QED
      BY <2>4, <2>5 DEF HandlerInv
  <1> QED
    BY <1>3, <1>4, <1>5

\* The withdraw report begins its handler on a session that nobody handles.
LEMMA WithdrawKeepsHandlers ==
  ASSUME TypeOK, HandlerInv, \A v, w \in Reports : v = w,
         NEW w \in Reports, NEW p \in Participants, Withdraw(w, p)
  PROVE  HandlerInv'
  <1>1. w \in Fibers /\ \A r \in Runs : r # w /\ r \in Fibers
    BY PairedSessionAssumption DEF Fibers
  <1>2. /\ pc[w] = "off" /\ ~handled /\ handled' = TRUE
        /\ ctl # 0 /\ UNCHANGED <<ctl, status, aborted>>
        /\ pc'[w] = "h_ident" /\ sig'[w] = ctl
        /\ \A g \in Fibers \ {w} : pc'[g] = pc[g] /\ loc'[g] = loc[g] /\ sig'[g] = sig[g]
    BY <1>1 DEF Withdraw, Unhandled, Goto, TypeOK
  <1>3. RunsApart'
    BY <1>1, <1>2 DEF HandlerInv, RunsApart
  <1>4. Noticed'
    BY <1>2 DEF Noticed
  <1>5. HandlersApart'
    <2> SUFFICES ASSUME NEW v \in Reports, NEW r \in Runs, InHandler(r)', sig'[v] = sig'[r]
                 PROVE  FALSE
      BY DEF HandlersApart
    <2>1. v = w /\ InHandler(r) /\ sig[r] = ctl
      BY <1>1, <1>2 DEF InHandler, Live
    <2> QED
      BY <1>1, <1>2, <2>1 DEF HandlerInv, Noticed
  <1>6. BeforeReport'
    BY <1>2 DEF BeforeReport
  <1>7. DuringReport'
    BY <1>1, <1>2 DEF HandlerInv, BeforeReport, DuringReport
  <1> QED
    BY <1>3, <1>4, <1>5, <1>6, <1>7 DEF HandlerInv

\* With one withdraw report and no operator, the disconnect of a session is
\* handled once, for any number of calls of start(): the report and the rules of
\* the run that notice it exclude each other, in whatever order they come.
THEOREM HandledOnce ==
  ASSUME Operator = FALSE, \A v, w \in Reports : v = w
  PROVE  Spec => []OneHandlerPerSession
  <1>1. Init => HandlerInv
    BY DEF Init, HandlerInv, RunsApart, Noticed, HandlersApart, BeforeReport, DuringReport,
       InHandler, Live, Terminal, Fibers
  <1>2. TypeOK /\ HandlerInv /\ [Next]_vars => HandlerInv'
    <2> SUFFICES ASSUME TypeOK, HandlerInv, [Next]_vars PROVE HandlerInv'
      OBVIOUS
    <2>1. ASSUME NEW r \in Runs, Start(r) PROVE HandlerInv'
      <3>1. Renews(r) /\ aborted' = aborted /\ status # "running"
        BY <2>1 DEF Start, Renews
      <3> QED
        BY <3>1, RenewsHandler
    <2>2. CASE UNCHANGED <<pc, sig, loc, ctl, handled, status, aborted>>
      BY <2>2 DEF HandlerInv, RunsApart, Noticed, HandlersApart, BeforeReport, DuringReport,
         InHandler, Live
    <2>3. ASSUME NEW f \in Fibers,
                 (f \in Runs /\ RunStep(f)) \/ HandlerStep(f) \/ RecoverStep(f)
          PROVE  HandlerInv'
      BY <2>3, FiberKeepsHandlers
    <2>4. CASE Environment \/ UNCHANGED vars
      BY <2>2, <2>4 DEF Environment, Enroll, Leave, Rejoin, SubmissionEnds, SubmissionReturned,
         SubmissionSettled, vars, agentVars, fiberVars
    <2>5. CASE \E p \in Participants : PressStart(p) \/ Register(p)
      BY <2>2, <2>5 DEF PressStart, Register, fiberVars
    <2>6. ~Stop /\ ~Reset
      BY DEF Stop, Reset
    <2>7. ASSUME NEW w \in Reports, NEW p \in Participants, Withdraw(w, p) PROVE HandlerInv'
      BY <2>7, WithdrawKeepsHandlers
    <2> QED
      BY <2>1, <2>3, <2>4, <2>5, <2>6, <2>7 DEF Next, Requests, Fibers
  <1>3. HandlerInv => OneHandlerPerSession
    <2> SUFFICES ASSUME HandlerInv, NEW f \in Fibers, NEW g \in Fibers,
                        InHandler(f), InHandler(g), sig[f] = sig[g]
                 PROVE  f = g
      BY DEF OneHandlerPerSession
    <2>1. CASE f \in Runs /\ g \in Runs
      BY <2>1 DEF HandlerInv, RunsApart, InHandler, Live, Terminal
    <2>2. CASE f \in Reports /\ g \in Reports
      BY <2>2
    <2>3. ~(f \in Runs /\ g \in Reports) /\ ~(f \in Reports /\ g \in Runs)
      BY DEF HandlerInv, HandlersApart
    <2> QED
      BY <2>1, <2>2, <2>3 DEF Fibers
  <1> QED
    BY <1>1, <1>2, <1>3, TypeCorrect, PTL DEF Spec

-----------------------------------------------------------------------------
(* Two live runs.  Inductively: whoever executes rules without having been  *)
(* stopped holds the current signal of a running agent; a step that takes   *)
(* that away aborts the signal, is the run's own, or is a usurpation.       *)

LiveInv ==
    /\ RunsApart
    /\ usurped \/ \A r \in Runs : pc[r] \notin Terminal /\ sig[r] \notin aborted =>
                                    sig[r] = ctl /\ ctl # 0 /\ status = "running"

\* What a step of f may do to a session that is not f's own.
Respects(f) ==
    /\ usurped => usurped'
    /\ status = "running" /\ (status' # "running" \/ ctl' # ctl) =>
          ctl \in aborted' \cup {0} \/ usurped'
          \/ (f \in Runs /\ (sig[f] = ctl \/ sig[f] \notin aborted))

\* The tail of the loop of start() respects a later session, or usurps it.
LEMMA RunReturnsRespects ==
  ASSUME NEW r \in Runs, RunReturns(r)
  PROVE  Respects(r)
  BY DEF RunReturns, Usurps, SignalAborted, Respects

\* So does an Error: a report that throws one aborts the session.
LEMMA ThrowsErrorRespects ==
  ASSUME NEW f \in Fibers, ThrowsError(f)
  PROVE  Respects(f)
  BY DEF ThrowsError, AbortCurrent, Usurps, SignalAborted, Respects

\* So do the request that pauses the study of a started pair ...
LEMMA PauseAfterStartRespects ==
  ASSUME NEW f \in Fibers, NEW S, NEW l, NEW m, PauseAfterStart(f, S, l, m), UNCHANGED ctl
  PROVE  Respects(f)
  <1>1. CASE UNCHANGED <<status, usurped>>
    BY <1>1 DEF Respects
  <1>2. CASE usurped' = (usurped \/ Usurps(f)) /\ (f \in Reports => AbortCurrent)
    BY <1>2 DEF AbortCurrent, Usurps, SignalAborted, Respects, Fibers
  <1> QED
    BY <1>1, <1>2 DEF PauseAfterStart

\* ... and its answer.
LEMMA PauseAnsweredRespects ==
  ASSUME NEW f \in Fibers, NEW l, PauseAnswered(f, l)
  PROVE  Respects(f)
  <1>1. CASE UNCHANGED <<status, ctl, usurped>>
    BY <1>1 DEF Respects
  <1> QED
    BY <1>1, ThrowsErrorRespects DEF PauseAnswered

\* Whatever ends the session ends it for everybody, or is the run's own affair.
LEMMA RunRespects ==
  ASSUME NEW r \in Runs, RunStep(r)
  PROVE  Respects(r)
  <1>f. r \in Fibers
    BY DEF Fibers
  <1>1. CASE GateEnters(r)
    BY <1>1, <1>f, ThrowsErrorRespects DEF GateEnters, agentVars, Respects
  <1>2. CASE GatePoll(r) \/ GateNoMatch(r) \/ GateWaiting(r) \/ GateSafetyTimeout(r)
    BY <1>2 DEF GatePoll, GateNoMatch, GateWaiting, GateSafetyTimeout, agentVars, Respects
  <1>3. CASE GateIdentities(r)
    <2> PICK ids : GateAnswered(r, ids)
      BY <1>3 DEF GateIdentities
    <2>1. CASE PauseAfterStart(r, ids, "work", "pausing")
      BY <2>1, <1>f, PauseAfterStartRespects DEF GateAnswered
    <2>2. CASE UNCHANGED <<status, usurped>>
      BY <2>2 DEF GateAnswered, Respects
    <2> QED
      BY <2>1, <2>2 DEF GateAnswered
  <1>4. CASE GatePaused(r)
    BY <1>4, <1>f, PauseAnsweredRespects DEF GatePaused
  <1>5. CASE GateRecovery(r)
    BY <1>5 DEF GateRecovery, FailSafely, AbortCurrent, Respects
  <1>6. CASE RunAborted(r) \/ WorkDone(r)
    BY <1>6, RunReturnsRespects DEF RunAborted, WorkDone
  <1>7. CASE WorkInterrupted(r)
    BY <1>7, <1>f, RunReturnsRespects, ThrowsErrorRespects, PairedSessionAssumption
    DEF WorkInterrupted, ThrowsStopped, Respects
  <1> QED
    BY <1>1, <1>2, <1>3, <1>4, <1>5, <1>6, <1>7 DEF RunStep, WaitStep

\* The same of the disconnect handler ...
LEMMA HandlerRespects ==
  ASSUME NEW f \in Fibers, HandlerStep(f)
  PROVE  Respects(f)
  <1>1. CASE HandlerIdentities(f) \/ HandlerRemoves(f)
    BY <1>1 DEF HandlerIdentities, HandlerRemoves, agentVars, Respects
  <1>2. CASE HandlerDecide(f)
    <2>1. CASE FailSafely(f) /\ UNCHANGED usurped
      BY <2>1 DEF FailSafely, AbortCurrent, Respects
    <2>2. CASE PauseAfterStart(f, loc[f].known, "h_leave", "h_pause") /\ UNCHANGED ctl
      BY <2>2, PauseAfterStartRespects
    <2>3. CASE UNCHANGED <<status, ctl, usurped>>
      BY <2>3 DEF Respects
    <2> QED
      BY <1>2, <2>1, <2>2, <2>3 DEF HandlerDecide
  <1>3. CASE HandlerPaused(f)
    BY <1>3, PauseAnsweredRespects DEF HandlerPaused
  <1>4. CASE HandlerStops(f)
    BY <1>4 DEF HandlerStops, AbortCurrent, Respects
  <1> QED
    BY <1>1, <1>2, <1>3, <1>4 DEF HandlerStep

\* ... and of a recovery.
LEMMA RecoverRespects ==
  ASSUME NEW f \in Fibers, RecoverStep(f)
  PROVE  Respects(f)
  <1>1. CASE FailSafely(f)
    BY <1>1, HistoryOfRecovery DEF FailSafely, AbortCurrent, Respects
  <1>2. CASE UNCHANGED <<status, ctl>>
    BY <1>2, HistoryOfRecovery DEF Respects
  <1>3. CASE RecoverDone(f)
    BY <1>2, <1>3 DEF RecoverDone, AbortCurrent, Respects
  <1> QED
    BY <1>1, <1>2, <1>3 DEF RecoverStep, RecoverPause, RecoverReturn, RecoverRemoves,
       RecoverPoll, RecoverStatus, RecoverStart, agentVars

\* Every fiber keeps LiveInv.
LEMMA FiberKeepsLive ==
  ASSUME TypeOK, LiveInv, NEW f \in Fibers,
         (f \in Runs /\ RunStep(f)) \/ HandlerStep(f) \/ RecoverStep(f)
  PROVE  LiveInv'
  <1>1. pc[f] \notin Terminal
    BY ActiveFiber
  <1>2. Orderly(f) /\ Respects(f)
    BY RunOrderly, HandlerOrderly, RecoverOrderly, RunRespects, HandlerRespects, RecoverRespects
  <1>3. Leaves(f) \/ Enters(f) \/ Renews(f)
    BY RunSession, HandlerSession, RecoverSession
  <1>4. \A q \in Fibers : pc'[q] \notin Terminal => pc[q] \notin Terminal
    BY <1>1, <1>2 DEF Orderly
  <1>5. ASSUME ~usurped', NEW r \in Runs, r # f, pc[r] \notin Terminal,
               sig[r] \notin aborted'
        PROVE  sig[r] = ctl /\ ctl # 0 /\ status' = "running" /\ ctl' = ctl
    <2>1. ~usurped /\ sig[r] \notin aborted
      BY <1>2, <1>5 DEF Respects, Orderly
    <2>2. sig[r] = ctl /\ ctl # 0 /\ status = "running"
      BY <1>5, <2>1 DEF LiveInv
    <2>3. ~(f \in Runs /\ (sig[f] = ctl \/ sig[f] \notin aborted))
      BY <1>1, <1>5, <2>1, <2>2 DEF LiveInv, RunsApart
    <2> QED
      BY <1>2, <1>5, <2>2, <2>3 DEF Respects
  <1>6. CASE Leaves(f) \/ Enters(f)
    <2>1. UNCHANGED <<ctl, sig>>
      BY <1>6 DEF Leaves, Enters
    <2>2. RunsApart'
      BY <1>4, <2>1 DEF LiveInv, RunsApart, Fibers
    <2>3. ASSUME ~usurped', f \in Runs, pc'[f] \notin Terminal, sig[f] \notin aborted'
          PROVE  sig[f] = ctl /\ ctl # 0 /\ status' = "running"
      <3>1. sig[f] = ctl /\ ctl # 0 /\ status = "running"
        BY <1>1, <1>2, <2>3 DEF LiveInv, Respects, Orderly
      <3>2. Holds(f)
        BY <2>3, <3>1, RunHolds, HandlerHolds, RecoverHolds
      <3> QED
        BY <2>3, <3>1, <3>2 DEF Holds
    <2> QED
      BY <1>4, <1>5, <2>1, <2>2, <2>3 DEF LiveInv, Fibers
  <1>7. CASE Renews(f)
    <2>1. RunsApart' /\ sig'[f] = ctl' /\ ctl' # 0 /\ ctl' # ctl /\ status' = "running"
          /\ \A q \in Fibers \ {f} : sig'[q] = sig[q]
      BY <1>4, <1>7, RenewsApart DEF LiveInv, Renews, Fibers
    <2>2. ASSUME ~usurped', NEW r \in Runs, pc'[r] \notin Terminal, sig'[r] \notin aborted'
          PROVE  r = f
      <3>1. ASSUME r # f PROVE pc[r] \notin Terminal /\ sig[r] \notin aborted'
        BY <1>4, <2>1, <2>2, <3>1 DEF Fibers
      <3> QED
        BY <1>5, <2>1, <2>2, <3>1
    <2> QED
      BY <2>1, <2>2 DEF LiveInv
  <1> QED
    BY <1>3, <1>6, <1>7

\* For any number of runs and reports, with and without operator: two calls of
\* start() both execute rules without having been told to stop only once a
\* stopped run has written the status of a later one.
THEOREM SoleRun == Spec => []OneLiveRun
  <1>1. Init => LiveInv
    BY DEF Init, LiveInv, RunsApart, Terminal, Fibers
  <1>2. TypeOK /\ LiveInv /\ [Next]_vars => LiveInv'
    <2> SUFFICES ASSUME TypeOK, LiveInv, [Next]_vars PROVE LiveInv'
      OBVIOUS
    <2>1. ASSUME NEW r \in Runs, Start(r) PROVE LiveInv'
      <3>1. Renews(r) /\ aborted' = aborted /\ usurped' = usurped /\ status # "running"
            /\ \A q \in Fibers \ {r} : pc'[q] = pc[q]
        BY <2>1 DEF Start, Renews, EnterWait, Goto, TypeOK
      <3>2. \A q \in Runs \ {r} : pc'[q] \notin Terminal => pc[q] \notin Terminal
        BY <3>1 DEF Fibers
      <3>3. RunsApart' /\ sig'[r] = ctl' /\ ctl' # 0 /\ ctl' # ctl /\ status' = "running"
            /\ \A q \in Fibers \ {r} : sig'[q] = sig[q]
        BY <3>1, <3>2, RenewsApart DEF LiveInv
      <3>4. ASSUME ~usurped', NEW q \in Runs, pc'[q] \notin Terminal, sig'[q] \notin aborted'
            PROVE  q = r
        BY <3>1, <3>2, <3>3, <3>4 DEF LiveInv, Fibers
      <3> QED
        BY <3>3, <3>4 DEF LiveInv
    <2>2. CASE UNCHANGED <<pc, sig, ctl, status, aborted, usurped>>
      BY <2>2 DEF LiveInv, RunsApart
    <2>3. ASSUME NEW f \in Fibers,
                 (f \in Runs /\ RunStep(f)) \/ HandlerStep(f) \/ RecoverStep(f)
          PROVE  LiveInv'
      BY <2>3, FiberKeepsLive
    <2>4. CASE Environment \/ UNCHANGED vars
      BY <2>2, <2>4 DEF Environment, Enroll, Leave, Rejoin, SubmissionEnds, SubmissionReturned,
         SubmissionSettled, vars, agentVars, fiberVars
    <2>5. CASE \E p \in Participants : PressStart(p) \/ Register(p)
      BY <2>2, <2>5 DEF PressStart, Register, fiberVars
    <2>6. CASE Stop \/ Reset
      <3>1. /\ UNCHANGED <<pc, sig, usurped>> /\ aborted \subseteq aborted'
            /\ status # "running" \/ ctl \in aborted' \cup {0}
        BY <2>6 DEF Stop, Reset, AbortCurrent, fiberVars
      <3> QED
        BY <3>1 DEF LiveInv, RunsApart
    <2>7. ASSUME NEW w \in Reports, NEW p \in Participants, Withdraw(w, p) PROVE LiveInv'
      <3>1. /\ \A r \in Runs : pc'[r] = pc[r] /\ sig'[r] = sig[r]
            /\ UNCHANGED <<ctl, status, aborted, usurped>>
        BY <2>7, PairedSessionAssumption DEF Withdraw, Goto, TypeOK, Fibers
      <3> QED
        BY <3>1 DEF LiveInv, RunsApart
    <2> QED
      BY <2>1, <2>3, <2>4, <2>5, <2>6, <2>7 DEF Next, Requests, Fibers
  <1>3. LiveInv => OneLiveRun
    BY DEF LiveInv, RunsApart, OneLiveRun, Live, SignalAborted, Terminal
  <1> QED
    BY <1>1, <1>2, <1>3, TypeCorrect, PTL DEF Spec
=============================================================================
