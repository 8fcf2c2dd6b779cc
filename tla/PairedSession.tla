--------------------------- MODULE PairedSession ---------------------------
(***************************************************************************)
(* The paired-session core of ExperimentAgent (packages/server/src/        *)
(* agent.ts) together with the Prolific recovery it drives                 *)
(* (prolific-recovery.ts).                                                 *)
(*                                                                         *)
(* The agent is one JavaScript object.  Its code runs in fibers that       *)
(* interleave at every await: each call of start() is a Run, each          *)
(* POST /agent/participant-withdraw that gets past the early returns is a  *)
(* Report.  An action below is the code between two awaits.  The room      *)
(* (LiveKit), the Prolific study and the participants are the environment. *)
(***************************************************************************)
EXTENDS Naturals, FiniteSets

CONSTANTS
    Participants,      \* identities, numbered in localeCompare order
    Runs,              \* calls of start(), numbered in call order
    Reports,           \* withdraw reports that enter the disconnect handler
    HasGateway,        \* is PROLIFIC_API_TOKEN configured?
    ApiFails,          \* may Prolific and LiveKit requests fail?
    Operator           \* may the operator press Stop and Reset?

ASSUME PairedSessionAssumption ==
    /\ Participants \subseteq Nat \ {0}
    /\ Runs \subseteq Nat \ {0}
    /\ Reports \cap Runs = {}
    /\ HasGateway \in BOOLEAN /\ ApiFails \in BOOLEAN /\ Operator \in BOOLEAN

Fibers == Runs \cup Reports

VARIABLES
    \* ExperimentAgent fields
    status,         \* this.status
    ctl,            \* this.abortController: the number of its signal, 0 for null
    aborted,        \* the signals that were aborted
    signals,        \* how many AbortControllers were created
    handled,        \* _sharedDisconnectHandled
    restart,        \* _restartRequested
    paired,         \* _pairedParticipantIdentities
    reports,        \* the keys of _participantStartReports
    sessions,       \* the keys of _prolificSessions
    pausedStudy,    \* _pausedProlificStudyId # null
    recovery,       \* _prolificRecovery.status
    \* one entry per fiber
    pc,             \* the await the fiber is suspended at
    sig,            \* the signal the fiber was given
    loc,            \* the local variables of the fiber
    \* environment
    connected,      \* the participants in the LiveKit room
    studyOpen,      \* is the Prolific study recruiting?
    submission,     \* the Prolific submission of each participant
    \* history
    started,        \* participants of a pair whose two START presses were accepted
    usurped         \* has a run that was stopped decided the status of a later one?

agentVars == <<status, ctl, aborted, signals, handled, restart, paired,
               reports, sessions, pausedStudy, recovery>>
fiberVars == <<pc, sig, loc>>
envVars   == <<connected, studyOpen, submission>>
vars      == <<agentVars, fiberVars, envVars, started, usurped>>

NoWindow == {0}     \* participantStartWindowStartedAt = null

\* Local variables: the identities under recovery, why they are recovered,
\* whether all of them had a registered session when that was looked up, the
\* open START window and whether a first participant was seen.
NoLocals == [known |-> {}, why |-> "none", armed |-> FALSE,
             window |-> NoWindow, joined |-> FALSE]

Status == {"idle", "running", "completed", "stopped", "error"}
RecoveryStatus ==
    {"idle", "pausing", "waiting-for-release", "paused-after-start", "error"}
WaitPc    == {"enter", "gate", "ident", "pausing", "alone", "unmatched", "expired"}
HandlerPc == {"h_ident", "h_send", "h_pause", "h_leave", "h_stop"}
RecoverPc == {"r_pause", "r_return", "r_leave", "r_poll", "r_status", "r_start", "r_open"}
Pc == {"off", "work", "done"} \cup WaitPc \cup HandlerPc \cup RecoverPc

\* RESERVED and ACTIVE; RETURNED and TIMED-OUT; AWAITING REVIEW, APPROVED,
\* REJECTED and SCREENED OUT.
Submission == {"none", "active", "returned", "settled"}

Locals == [known : SUBSET Participants,
           why : {"none", "noMatch", "startTimeout", "disconnect"},
           armed : BOOLEAN,
           window : (SUBSET Participants) \cup {NoWindow},
           joined : BOOLEAN]

TypeOK ==
    /\ status \in Status
    /\ signals \in Nat
    /\ ctl \in 0..signals
    /\ aborted \subseteq 1..signals
    /\ handled \in BOOLEAN /\ restart \in BOOLEAN /\ pausedStudy \in BOOLEAN
    /\ paired \subseteq Participants
    /\ reports \subseteq Participants
    /\ sessions \subseteq Participants
    /\ recovery \in RecoveryStatus
    /\ pc \in [Fibers -> Pc]
    /\ sig \in [Fibers -> 0..signals]
    /\ loc \in [Fibers -> Locals]
    /\ connected \subseteq Participants
    /\ studyOpen \in BOOLEAN
    /\ submission \in [Participants -> Submission]
    /\ started \subseteq Participants
    /\ usurped \in BOOLEAN

Init ==
    /\ status = "idle" /\ ctl = 0 /\ aborted = {} /\ signals = 0
    /\ handled = FALSE /\ restart = FALSE
    /\ paired = {} /\ reports = {} /\ sessions = {}
    /\ pausedStudy = FALSE /\ recovery = "idle"
    /\ pc = [f \in Fibers |-> "off"]
    /\ sig = [f \in Fibers |-> 0]
    /\ loc = [f \in Fibers |-> NoLocals]
    /\ connected = {} /\ studyOpen = TRUE
    /\ submission = [p \in Participants |-> "none"]
    /\ started = {} /\ usurped = FALSE

-----------------------------------------------------------------------------
(* Small steps shared by the handlers.                                     *)

Goto(f, l)   == pc' = [pc EXCEPT ![f] = l]
\* mutant of AbortCurrent: the call forgotten
AbortCurrent_Forgotten == UNCHANGED aborted
\* this.abortController?.abort()
AbortCurrent == aborted' = aborted \cup ({ctl} \ {0})
\* Leave f's current function: its local variables are gone.
Return(f, l) == Goto(f, l) /\ loc' = [loc EXCEPT ![f] = NoLocals]
Live(f)      == pc[f] \notin {"off", "done"}
SignalAborted(f) == sig[f] \in aborted

\* getExperimentParticipantIdentities(): a failed request yields nobody.
RoomAnswers == {connected} \cup (IF ApiFails THEN {{}} ELSE {})

\* The two first identities: sort(localeCompare).slice(0, 2).
FirstTwo(S) == {p \in S : Cardinality({q \in S : q < p}) < 2}

\* The fields that start() and prepareForRecoveredSessionRestart() both reset.
ClearSession ==
    /\ ctl' = signals + 1
    /\ signals' = signals + 1
    /\ handled' = FALSE /\ restart' = FALSE
    /\ paired' = {} /\ reports' = {}
    /\ pausedStudy' = FALSE /\ recovery' = "idle"

EnterWait(r) ==
    /\ Goto(r, "enter")
    /\ sig' = [sig EXCEPT ![r] = signals + 1]
    /\ loc' = [loc EXCEPT ![r] = NoLocals]

\* f is a run that was stopped, and the agent has a session of a later one.
\* What it makes of this.status is history from here on.
Usurps(f) == f \in Runs /\ SignalAborted(f) /\ sig[f] # ctl /\ status = "running"

\* mutant of Finished: the loop of start() is left without an outcome
Finished_Unset == status
\* The status with which a run leaves the loop of start().
Finished == IF status = "running" THEN "completed" ELSE status

\* executeRules() came back: leave the loop of start(), or begin the next
\* session in it when a recovery asked for that.
RunReturns(r) ==
    /\ usurped' = (usurped \/ Usurps(r))
    /\ \/ /\ status = "running" /\ restart
          /\ ClearSession /\ EnterWait(r)
          /\ UNCHANGED <<status, aborted, sessions>>
       \/ /\ ~(status = "running" /\ restart)
          /\ status' = Finished
          /\ Return(r, "done")
          /\ UNCHANGED <<ctl, aborted, signals, handled, restart, paired, reports,
                         sessions, pausedStudy, recovery, sig>>

\* A plain Error leaves the fiber: the catch of start() for a run, the catch
\* of reportParticipantWithdraw() for a report.
ThrowsError(f) ==
    /\ Return(f, "done")
    /\ usurped' = (usurped \/ Usurps(f))
    /\ \/ /\ f \in Runs
          /\ status' = IF status = "running" THEN "error" ELSE status
          /\ UNCHANGED aborted
       \/ /\ f \in Reports
          /\ status' = "error"
          /\ AbortCurrent
    /\ UNCHANGED <<ctl, signals, handled, restart, paired, reports, sessions,
                   pausedStudy, recovery, sig>>

\* PairedSessionStoppedError leaves the fiber without any field having changed.
ThrowsStopped(f) ==
    \/ f \in Runs /\ RunReturns(f)
    \/ f \in Reports /\ Return(f, "done") /\ UNCHANGED <<agentVars, sig, usurped>>

\* mutant of SafeOutcome: the failed recovery reports nothing
SafeOutcome_Unset(f) == status
\* The status a recovery leaves that failed.
SafeOutcome(f) == IF f \in Reports THEN "error" ELSE "stopped"

\* "... stopped safely": a recovery that cannot start, or that failed.  The
\* wait phase just returns, so a run whose own signal is not the one aborted
\* here goes on; out of the disconnect handler an Error is thrown, which the
\* withdraw report turns into status "error".
FailSafely(f) ==
    /\ recovery' = "error"
    /\ status' = SafeOutcome(f)
    /\ AbortCurrent
    /\ Return(f, IF f \in Runs /\ loc[f].why # "disconnect" /\ sig[f] \notin aborted'
                   THEN "work" ELSE "done")
    /\ UNCHANGED <<ctl, signals, handled, restart, paired, reports, sessions,
                   pausedStudy, sig>>

-----------------------------------------------------------------------------
(* Operator and participant requests.                                      *)

\* start(), from POST /agent/start or from the first START press.
Start(r) ==
    /\ pc[r] = "off"
    /\ \A q \in Runs : q < r => pc[q] # "off"
    /\ status # "running"
    /\ status' = "running"
    /\ ClearSession
    /\ EnterWait(r)
    /\ UNCHANGED <<aborted, sessions, envVars, started, usurped>>

Stop ==
    /\ Operator
    /\ status = "running"
    /\ AbortCurrent
    /\ ctl' = 0
    /\ status' = "stopped"
    /\ UNCHANGED <<signals, handled, restart, paired, reports, sessions,
                   pausedStudy, recovery, fiberVars, envVars, started, usurped>>

Reset ==
    /\ Operator
    /\ status # "idle"
    /\ IF status = "running"
         THEN AbortCurrent /\ ctl' = 0
         ELSE UNCHANGED <<aborted, ctl>>
    /\ status' = "idle"
    /\ handled' = FALSE /\ restart' = FALSE
    /\ paired' = {} /\ reports' = {}
    /\ pausedStudy' = FALSE /\ recovery' = "idle"
    /\ UNCHANGED <<signals, sessions, fiberVars, envVars, started, usurped>>

\* confirmParticipantStart() once the agent is no longer idle; StartGate
\* models the bootstrap of an idle agent.
PressStart(p) ==
    /\ p \in connected \ reports
    /\ status # "idle"
    /\ reports' = reports \cup {p}
    /\ UNCHANGED <<status, ctl, aborted, signals, handled, restart, paired,
                   sessions, pausedStudy, recovery, fiberVars, envVars, started, usurped>>

\* registerProlificSession(): the submission must still be joinable.
Register(p) ==
    /\ HasGateway
    /\ p \notin sessions
    /\ submission[p] = "active"
    /\ sessions' = sessions \cup {p}
    /\ UNCHANGED <<status, ctl, aborted, signals, handled, restart, paired,
                   reports, pausedStudy, recovery, fiberVars, envVars, started, usurped>>

\* mutant of Unhandled: the flag is not consulted
Unhandled_Always == TRUE
\* !this._sharedDisconnectHandled
Unhandled == ~handled

\* reportParticipantWithdraw(): the early returns, then the entry of
\* handleSharedParticipantDisconnect(), which runs before its first await.
\* Only somebody whom Prolific sent to the experiment reports a withdrawal.
Withdraw(w, p) ==
    /\ pc[w] = "off"
    /\ submission[p] # "none"
    /\ status = "running"
    /\ Unhandled
    /\ ctl # 0 /\ ctl \notin aborted
    /\ handled' = TRUE
    /\ Goto(w, "h_ident")
    /\ sig' = [sig EXCEPT ![w] = ctl]
    /\ loc' = [loc EXCEPT ![w] = [NoLocals EXCEPT !.known = {p}, !.why = "disconnect"]]
    /\ UNCHANGED <<status, ctl, aborted, signals, restart, paired, reports,
                   sessions, pausedStudy, recovery, envVars, started, usurped>>

-----------------------------------------------------------------------------
(* pauseProlificStudyAfterStart(S) up to its await.  `skip` is where the    *)
(* caller goes on when nothing has to be awaited, `await` where it resumes. *)
PauseAfterStart(f, S, skip, await) ==
    \/ /\ S \cap sessions = {}
       /\ Goto(f, skip)
       /\ UNCHANGED <<status, aborted, recovery, usurped>>
    \/ /\ S \cap sessions # {} /\ S \subseteq sessions /\ HasGateway
       /\ Goto(f, IF pausedStudy THEN skip ELSE await)
       /\ recovery' = IF pausedStudy THEN "paused-after-start" ELSE recovery
       /\ UNCHANGED <<status, aborted, usurped>>
    \/ /\ S \cap sessions # {} /\ ~(S \subseteq sessions /\ HasGateway)
       /\ Goto(f, "done")
       /\ status' = IF f \in Reports THEN "error"
                    ELSE IF status = "running" THEN "error" ELSE status
       /\ IF f \in Reports THEN AbortCurrent ELSE UNCHANGED aborted
       /\ usurped' = (usurped \/ Usurps(f))
       /\ UNCHANGED recovery

\* The transitions of the study that Prolific confirms.
StudyPaused == studyOpen' = FALSE
StudyStarted == studyOpen' = TRUE

\* A transition that is refused, or whose answer is lost after it was made.
RequestFails(wanted) ==
    /\ ApiFails
    /\ studyOpen' \in {studyOpen, wanted}

\* The answer to its gateway.pauseStudy().  A failed request may or may not
\* have reached Prolific.
PauseAnswered(f, next) ==
    \/ /\ StudyPaused
       /\ pausedStudy' = TRUE
       /\ recovery' = "paused-after-start"
       /\ Goto(f, next)
       /\ UNCHANGED <<status, ctl, aborted, signals, handled, restart, paired,
                      reports, sessions, sig, loc, usurped>>
    \/ RequestFails(FALSE) /\ ThrowsError(f)

-----------------------------------------------------------------------------
(* execWaitForParticipants() with the participant START gate.               *)

\* The messages that set the room up for the wait, which may be refused.
GateEnters(r) ==
    /\ pc[r] = "enter"
    /\ \/ /\ Goto(r, "gate")
          /\ UNCHANGED <<agentVars, sig, loc, usurped>>
       \/ ApiFails /\ ThrowsError(r)
    /\ UNCHANGED <<envVars, started>>

\* Top of the polling loop: the answer to listParticipants().
GatePoll(r) ==
    /\ pc[r] = "gate" /\ ~SignalAborted(r)
    /\ \/ /\ Cardinality(connected) >= 2
          /\ Goto(r, "ident")
          /\ loc' = [loc EXCEPT ![r].joined = TRUE]
       \/ /\ Cardinality(connected) < 2
          /\ loc' = [loc EXCEPT ![r].joined = @ \/ connected # {}, ![r].window = NoWindow]
          /\ UNCHANGED pc
    /\ UNCHANGED <<agentVars, sig, envVars, started, usurped>>

\* getExperimentParticipantIdentities() answered: open or keep the START
\* window, forget START presses of identities outside a new window, and go on
\* when everyone in it has pressed.
GateAnswered(r, ids) ==
    LET kept == IF loc[r].window = ids THEN reports ELSE reports \cap ids
        allPressed == Cardinality(ids) = 2 /\ ids \subseteq kept
    IN  /\ pc[r] = "ident"
        /\ reports' = kept
        /\ \/ /\ allPressed
              /\ paired' = ids
              /\ started' = started \cup ids
              /\ PauseAfterStart(r, ids, "work", "pausing")
              /\ loc' = [loc EXCEPT ![r] = NoLocals]
           \/ /\ ~allPressed
              /\ Goto(r, "gate")
              /\ loc' = [loc EXCEPT ![r].window = ids]
              /\ UNCHANGED <<status, aborted, recovery, paired, started, usurped>>
           \/ \* hasParticipantStartTimedOut(): never in the poll that opens the window
              /\ ~allPressed /\ Cardinality(ids) = 2 /\ loc[r].window = ids
              /\ Goto(r, "expired")
              /\ loc' = [loc EXCEPT ![r].known = ids, ![r].why = "startTimeout"]
              /\ UNCHANGED <<status, aborted, recovery, paired, started, usurped>>
        /\ UNCHANGED <<ctl, signals, handled, restart, sessions, pausedStudy, sig, envVars>>

GateIdentities(r) == \E here \in RoomAnswers : GateAnswered(r, FirstTwo(here))

GatePaused(r) ==
    /\ pc[r] = "pausing"
    /\ PauseAnswered(r, "work")
    /\ UNCHANGED <<connected, submission, started>>

\* Five minutes after the first arrival nobody, or one participant, is left.
GateNoMatch(r) ==
    /\ pc[r] = "gate" /\ ~SignalAborted(r)
    /\ loc[r].joined /\ Cardinality(connected) < 2
    /\ Goto(r, "alone")
    /\ loc' = [loc EXCEPT ![r].why = "noMatch", ![r].window = NoWindow]
    /\ UNCHANGED <<agentVars, sig, envVars, started, usurped>>

\* The room is asked again for the one to release; a partner may have arrived.
GateWaiting(r) ==
    /\ pc[r] = "alone"
    /\ \E here \in RoomAnswers :
         \/ here = {} /\ UNCHANGED loc
         \/ \E p \in here : loc' = [loc EXCEPT ![r].known = {p}]
    /\ Goto(r, "unmatched")
    /\ UNCHANGED <<agentVars, sig, envVars, started, usurped>>

\* Ten minutes after the wait began: "Absolute timeout. Proceeding".
GateSafetyTimeout(r) ==
    /\ pc[r] = "gate" /\ ~SignalAborted(r)
    /\ Cardinality(connected) < 2
    /\ Return(r, "work")
    /\ UNCHANGED <<agentVars, sig, envVars, started, usurped>>

\* The outcome was sent to the waiting participant (noMatch) or to both
\* participants of the expired START window: recover, or stop safely.
GateRecovery(r) ==
    /\ pc[r] \in {"unmatched", "expired"}
    /\ \/ /\ HasGateway /\ loc[r].known # {} /\ loc[r].known \subseteq sessions
          /\ recovery' = "pausing"
          /\ Goto(r, "r_pause")
          /\ UNCHANGED <<status, ctl, aborted, signals, handled, restart, paired,
                         reports, sessions, pausedStudy, sig, loc>>
       \/ /\ ~(HasGateway /\ loc[r].known # {} /\ loc[r].known \subseteq sessions)
          /\ FailSafely(r)
    /\ UNCHANGED <<envVars, started, usurped>>

\* The while condition of a polling loop fails after an abort; every rule
\* that follows returns at once.
RunAborted(r) ==
    /\ pc[r] \in {"gate", "work"} /\ SignalAborted(r)
    /\ RunReturns(r)
    /\ UNCHANGED <<envVars, started>>

-----------------------------------------------------------------------------
(* The rules after the gate.  One "work" step stands for the instruction,   *)
(* tracking and questionnaire loops, which poll the room in the same way.   *)

\* Every remaining rule ran to its end.
WorkDone(r) ==
    /\ pc[r] = "work" /\ ~SignalAborted(r)
    /\ RunReturns(r)
    /\ UNCHANGED <<envVars, started>>

\* A polling loop found a partner missing, or one silent for too long.  Without
\* a pair (the gate was left by its safety timeout) no silent one is known.
Interruptions ==
    (IF Cardinality(connected) < 2 \/ paired = {} THEN {{}} ELSE {})
        \cup {{p} : p \in paired}

\* It calls handleSharedParticipantDisconnect(), which runs to its first await
\* or throws at once.  The signal was checked before the room was polled.
WorkInterrupted(r) ==
    /\ pc[r] = "work"
    /\ \E responsible \in Interruptions :
         \/ /\ Unhandled /\ ~SignalAborted(r)
            /\ handled' = TRUE
            /\ Goto(r, "h_ident")
            /\ loc' = [loc EXCEPT ![r].known = responsible, ![r].why = "disconnect"]
            /\ UNCHANGED <<status, ctl, aborted, signals, restart, paired, reports,
                           sessions, pausedStudy, recovery, sig, usurped>>
         \/ /\ ~Unhandled \/ SignalAborted(r)
            /\ IF status = "stopped" THEN ThrowsStopped(r) ELSE ThrowsError(r)
    /\ UNCHANGED <<envVars, started>>

-----------------------------------------------------------------------------
(* handleSharedParticipantDisconnect() after its first await.               *)

\* The identities still in the room, with the pair and the one responsible.
HandlerIdentities(f) ==
    /\ pc[f] = "h_ident"
    /\ \E active \in RoomAnswers :
         LET known == loc[f].known \cup paired \cup active IN
         loc' = [loc EXCEPT ![f].known = known, ![f].armed = known \subseteq sessions]
    /\ Goto(f, "h_send")
    /\ UNCHANGED <<agentVars, sig, envVars, started, usurped>>

\* mutant of PairStarted: recovery does not tell a started pair from a waiting one
PairStarted_Ignored == FALSE
PairStarted == Cardinality(paired) = 2

\* The clients were told; choose between ending the started pair for good,
\* stopping safely, and releasing a pair that has not started.
HandlerDecide(f) ==
    LET recoverable == HasGateway /\ loc[f].armed /\ Cardinality(loc[f].known) = 2
    IN  /\ pc[f] = "h_send"
        /\ \/ /\ recoverable /\ PairStarted
              /\ PauseAfterStart(f, loc[f].known, "h_leave", "h_pause")
              /\ UNCHANGED <<ctl, signals, handled, restart, paired, reports,
                             sessions, pausedStudy, sig, loc>>
           \/ /\ ~recoverable
              /\ FailSafely(f)
              /\ UNCHANGED usurped
           \/ /\ recoverable /\ ~PairStarted
              /\ recovery' = "pausing"
              /\ Goto(f, "r_pause")
              /\ UNCHANGED <<status, ctl, aborted, signals, handled, restart, paired,
                             reports, sessions, pausedStudy, sig, loc, usurped>>
        /\ UNCHANGED <<envVars, started>>

HandlerPaused(f) ==
    /\ pc[f] = "h_pause"
    /\ PauseAnswered(f, "h_leave")
    /\ UNCHANGED <<connected, submission, started>>

\* One second later both participants are removed from the room.
HandlerRemoves(f) ==
    /\ pc[f] = "h_leave"
    /\ connected' = connected \ loc[f].known
    /\ Goto(f, "h_stop")
    /\ UNCHANGED <<agentVars, sig, loc, studyOpen, submission, started, usurped>>

\* A started pair ends: status "stopped", then PairedSessionStoppedError.
HandlerStops(f) ==
    /\ pc[f] = "h_stop"
    /\ recovery' = "paused-after-start"
    /\ status' = "stopped"
    /\ restart' = FALSE
    /\ AbortCurrent
    /\ Return(f, "done")
    /\ UNCHANGED <<ctl, signals, handled, paired, reports, sessions, pausedStudy,
                   sig, envVars, started, usurped>>

-----------------------------------------------------------------------------
(* recoverProlificStudySubmissions().                                       *)

RecoverPause(f) ==
    /\ pc[f] = "r_pause"
    /\ \/ /\ StudyPaused
          /\ Goto(f, "r_return")
          /\ UNCHANGED <<agentVars, sig, loc>>
       \/ RequestFails(FALSE) /\ FailSafely(f)
    /\ UNCHANGED <<connected, submission, started, usurped>>

\* The return requests were answered.  Whether the participants follow them
\* is up to them (SubmissionEnds).
RecoverReturn(f) ==
    /\ pc[f] = "r_return"
    /\ \/ /\ Goto(f, "r_leave")
          /\ UNCHANGED <<agentVars, sig, loc>>
       \/ ApiFails /\ FailSafely(f)
    /\ UNCHANGED <<envVars, started, usurped>>

\* onReturnRequested(): remove the released participants from the room.
RecoverRemoves(f) ==
    /\ pc[f] = "r_leave"
    /\ connected' = connected \ loc[f].known
    /\ Goto(f, "r_poll")
    /\ UNCHANGED <<agentVars, sig, loc, studyOpen, submission, started, usurped>>

\* while (!signal?.aborted)
RecoverPoll(f) ==
    /\ pc[f] = "r_poll"
    /\ \/ SignalAborted(f) /\ FailSafely(f)
       \/ /\ ~SignalAborted(f)
          /\ Goto(f, "r_status")
          /\ UNCHANGED <<agentVars, sig, loc>>
    /\ UNCHANGED <<envVars, started, usurped>>

\* getStudySubmissionCounts(): what the study holds ACTIVE or RESERVED.
HeldSubmissions == {p \in Participants : submission[p] = "active"}

\* mutant of Released: the counts of the study are not asked for
Released_Uncounted(f) == \A p \in loc[f].known : submission[p] = "returned"
\* Every released submission is RETURNED or TIMED-OUT and the study holds no
\* ACTIVE or RESERVED one.
Released(f) ==
    /\ \A p \in loc[f].known : submission[p] = "returned"
    /\ HeldSubmissions = {}

RecoverStatus(f) ==
    /\ pc[f] = "r_status"
    /\ \/ /\ recovery' = "waiting-for-release"
          /\ Goto(f, IF Released(f) THEN "r_start" ELSE "r_poll")
          /\ UNCHANGED <<status, ctl, aborted, signals, handled, restart, paired,
                         reports, sessions, pausedStudy, sig, loc>>
       \/ ApiFails /\ FailSafely(f)
    /\ UNCHANGED <<envVars, started, usurped>>

\* gateway.startStudy() reaches Prolific, or fails before or after it did.
RecoverStart(f) ==
    /\ pc[f] = "r_start"
    /\ \/ /\ StudyStarted
          /\ Goto(f, "r_open")
          /\ UNCHANGED <<agentVars, sig, loc>>
       \/ RequestFails(TRUE) /\ FailSafely(f)
    /\ UNCHANGED <<connected, submission, started, usurped>>

\* Its answer: the caller forgets the released participants, and either keeps
\* waiting in the same run or asks for a new session and throws
\* PairedSessionRecoveredError, which the run itself catches and follows.
RecoverDone(f) ==
    /\ pc[f] = "r_open"
    /\ sessions' = sessions \ loc[f].known
    /\ \/ /\ loc[f].why # "disconnect"
          /\ reports' = reports \ loc[f].known
          /\ recovery' = "idle"
          /\ Goto(f, "gate")
          /\ loc' = [loc EXCEPT ![f] = NoLocals]
          /\ UNCHANGED <<status, ctl, aborted, signals, handled, restart, paired,
                         pausedStudy, sig>>
       \/ /\ loc[f].why = "disconnect" /\ f \in Runs /\ status = "running"
          /\ AbortCurrent
          /\ ClearSession /\ EnterWait(f)
          /\ UNCHANGED status
       \/ /\ loc[f].why = "disconnect" /\ ~(f \in Runs /\ status = "running")
          /\ reports' = reports \ loc[f].known
          /\ recovery' = "idle"
          /\ restart' = TRUE
          /\ AbortCurrent
          /\ Return(f, "done")
          /\ UNCHANGED <<status, ctl, signals, handled, paired, pausedStudy, sig>>
    /\ UNCHANGED <<envVars, started, usurped>>

-----------------------------------------------------------------------------
(* Environment.                                                             *)

\* Prolific admits a participant, whose client joins the room.
Enroll(p) ==
    /\ studyOpen
    /\ submission[p] = "none"
    /\ submission' = [submission EXCEPT ![p] = "active"]
    /\ connected' = connected \cup {p}
    /\ UNCHANGED <<agentVars, fiberVars, studyOpen, started, usurped>>

Leave(p) ==
    /\ p \in connected
    /\ connected' = connected \ {p}
    /\ UNCHANGED <<agentVars, fiberVars, studyOpen, submission, started, usurped>>

Rejoin(p) ==
    /\ p \notin connected
    /\ submission[p] # "none"
    /\ connected' = connected \cup {p}
    /\ UNCHANGED <<agentVars, fiberVars, studyOpen, submission, started, usurped>>

\* RETURNED by the participant or TIMED-OUT by Prolific; or it ends otherwise:
\* the participant hands it in or is screened out, a researcher decides on it.
\* One that awaits its review can still be returned.
SubmissionReturned(p) ==
    /\ submission[p] \in {"active", "settled"}
    /\ submission' = [submission EXCEPT ![p] = "returned"]
    /\ UNCHANGED <<agentVars, fiberVars, connected, studyOpen, started, usurped>>

SubmissionSettled(p) ==
    /\ submission[p] = "active"
    /\ submission' = [submission EXCEPT ![p] = "settled"]
    /\ UNCHANGED <<agentVars, fiberVars, connected, studyOpen, started, usurped>>

SubmissionEnds(p) == SubmissionReturned(p) \/ SubmissionSettled(p)

-----------------------------------------------------------------------------
WaitStep(r) ==
    \/ GateEnters(r) \/ GatePoll(r) \/ GateIdentities(r) \/ GatePaused(r)
    \/ GateNoMatch(r) \/ GateWaiting(r) \/ GateSafetyTimeout(r) \/ GateRecovery(r)

RunStep(r) == WaitStep(r) \/ RunAborted(r) \/ WorkDone(r) \/ WorkInterrupted(r)

HandlerStep(f) ==
    \/ HandlerIdentities(f) \/ HandlerDecide(f) \/ HandlerPaused(f)
    \/ HandlerRemoves(f) \/ HandlerStops(f)

RecoverStep(f) ==
    \/ RecoverPause(f) \/ RecoverReturn(f) \/ RecoverRemoves(f)
    \/ RecoverPoll(f) \/ RecoverStatus(f) \/ RecoverStart(f) \/ RecoverDone(f)

Requests ==
    \/ \E r \in Runs : Start(r)
    \/ Stop \/ Reset
    \/ \E p \in Participants : PressStart(p) \/ Register(p)
    \/ \E w \in Reports, p \in Participants : Withdraw(w, p)

Environment ==
    \E p \in Participants : Enroll(p) \/ Leave(p) \/ Rejoin(p) \/ SubmissionEnds(p)

Next ==
    \/ Requests
    \/ Environment
    \/ \E r \in Runs : RunStep(r)
    \/ \E f \in Fibers : HandlerStep(f) \/ RecoverStep(f)

Spec == Init /\ [][Next]_vars

(* An answer always comes; Prolific times a submission out if nothing else   *)
(* ends it.  Nothing is assumed of the operator and of the participants.    *)
Fairness ==
    /\ \A r \in Runs : WF_vars(RunStep(r))
    /\ \A f \in Fibers : WF_vars(HandlerStep(f) \/ RecoverStep(f))
    /\ \A p \in Participants : WF_vars(submission[p] = "active" /\ SubmissionEnds(p))

FairSpec == Spec /\ Fairness

-----------------------------------------------------------------------------
(* Properties.                                                              *)

\* The agent never claims to run an experiment that no call of start() is
\* executing any more: every way out of start() reports an outcome (the catch
\* and the tail of its loop), also when another fiber aborted it.
RunningHasRunner == status = "running" => \E r \in Runs : Live(r)

\* When the agent says "stopped" its current signal is aborted or gone, so no
\* polling loop of the current session survives; stop() and the four places of
\* the recovery code that set the status each abort in their own order.
StoppedIsAborted == status = "stopped" => ctl = 0 \/ ctl \in aborted

\* However stops, starts, recoveries and withdrawals interleave, at most one
\* call of start() executes rules without having been told to stop; two would
\* both drive the participants' screens.  The one way to two is that a stopped
\* run writes the status of a later one, so that a third start() is accepted
\* beside it (finding paired_zombie).
OneLiveRun ==
    usurped \/ \A q, r \in Runs :
        Live(q) /\ Live(r) /\ ~SignalAborted(q) /\ ~SignalAborted(r) => q = r

\* A study that was paused is reopened only when it holds no submission at all:
\* neither one that was asked back nor that of a third person who was admitted
\* meanwhile.  The counts that say so are read one await before the request.
ReopenedEmpty == [][~studyOpen /\ studyOpen' => HeldSubmissions = {}]_vars

InHandler(f) == Live(f) /\ loc[f].why = "disconnect"

\* The disconnect of one session is handled once, although the rules of the run
\* and the participants' withdraw reports can all notice it.
OneHandlerPerSession ==
    \A f, g \in Fibers : InHandler(f) /\ InHandler(g) /\ sig[f] = sig[g] => f = g

\* While the agent remembers that it paused the study of a started pair, the
\* study does not recruit: nothing on the way to the end of that session
\* restarts it.
StudyStaysPaused == pausedStudy => ~studyOpen

\* Once a pair has started, recruitment is never reopened: "never call START to
\* reopen recruitment" (agent.ts, before the end of a started pair).
NoReopenAfterStart == [][~studyOpen /\ studyOpen' => started = {}]_vars

\* A disconnect that the agent began to handle leads to a fresh session or to
\* the end of the run: it is never left half-handled with the flag up, which
\* would make every later disconnect end in an error.  One thing keeps it so: a
\* submission asked back that ended otherwise than by its return is never
\* "released", and is polled for ever.
NeverReleased(f) == \E p \in loc[f].known : submission[p] = "settled"
InterruptionResolved ==
    handled ~> (\/ ~handled \/ status # "running"
                \/ \E f \in Fibers : InHandler(f) /\ NeverReleased(f))

\* A run whose signal was aborted, and that is no longer the current one, does
\* not decide the state of the agent any more: "Stop Agent" ends a run at once.
StoppedRunIsGone ==
    [][\A r \in Runs : SignalAborted(r) /\ sig[r] # ctl /\ pc'[r] # pc[r]
         => status' = status /\ aborted' = aborted]_vars

(* The session as an implementation of Recruitment.                         *)
Phase ==
    IF status \in {"completed", "stopped", "error"} THEN "over"
    ELSE IF pausedStudy THEN "held"
    ELSE IF \E f \in Fibers : pc[f] \in RecoverPc THEN "releasing"
    ELSE "recruiting"

Recruiting == INSTANCE Recruitment
                WITH phase <- Phase, open <- studyOpen, holds <- HeldSubmissions # {}

\* One session after the other, the agent changes the recruitment of the study
\* only as Recruitment allows it: holding it for good once a pair started, and
\* recruiting again only behind a reopened study.
RefinesRecruitment == Recruiting!Spec
=============================================================================
