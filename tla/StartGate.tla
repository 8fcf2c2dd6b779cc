----------------------------- MODULE StartGate -----------------------------
(***************************************************************************)
(* The START gate between two participants and ExperimentAgent: what a     *)
(* participant's page believes about its START press (packages/web/src/    *)
(* App.tsx, waiting-target.ts), how the agent takes the press and starts   *)
(* itself on the first one (confirmParticipantStart), and how the polling  *)
(* loop of the waiting rule counts and forgets presses                     *)
(* (execWaitForParticipants).                                              *)
(*                                                                         *)
(* A press is an HTTP request that waits at one or two room listings; the  *)
(* gate waits at two more in every round.  PairedSession follows the pair  *)
(* on from here, with the withdrawals and what a stopped run still does.   *)
(***************************************************************************)
EXTENDS Naturals, FiniteSets

CONSTANTS
    Members,        \* participant identities, numbered in localeCompare order
    Presses,        \* bound: START requests, numbered in the order they are sent
    MaxSessions     \* bound: sessions begun (by START, the operator, a restart)

ASSUME StartGateAssumption ==
    /\ Members \subseteq Nat \ {0} /\ IsFiniteSet(Members)
    /\ Presses \subseteq Nat \ {0}
    /\ MaxSessions \in Nat

VARIABLES
    \* ExperimentAgent fields
    status,         \* this.status
    task,           \* this.config.taskType, where the gate tells them apart
    gate,           \* where the run of start() is
    reports,        \* the keys of _participantStartReports
    paired,         \* _pairedParticipantIdentities
    count,          \* this.participantCount
    window,         \* participantStartWindowIdentities, {0} while no window is open
    \* START requests and the participants' pages
    press,          \* the state of every request
    clicked,        \* participantStartClicked
    pending,        \* participantStartRequestPending
    \* environment
    present,        \* the participants in the room
    flaky,          \* may a room listing fail?
    \* history
    session,        \* sessions begun so far
    counted         \* whose press was recorded since the session began

agentVars  == <<status, task, gate, reports, paired, count, window>>
clientVars == <<press, clicked, pending>>
roomVars   == <<present, flaky>>
history    == <<session, counted>>
vars       == <<agentVars, clientVars, roomVars, history>>

Places   == 2       \* minParticipants of the rule and places of the study
NoWindow == {0}     \* participantStartWindowStartedAt = null
NoPress  == [by |-> 0, at |-> "unused", heard |-> FALSE]
Answered == [by |-> 0, at |-> "answered", heard |-> FALSE]

\* "over" stands for completed, stopped and error: a run has ended and the
\* operator has not reset the agent.
Statuses == {"idle", "running", "over"}
GateAt   == {"off", "startup", "poll", "ident", "expired", "passed", "reopening"}
PressAt  == {"unused", "listing", "counting", "accepted", "refused", "answered"}

TypeOK ==
    /\ status \in Statuses
    /\ task \in {"task1", "task9"}
    /\ gate \in GateAt
    /\ reports \subseteq Members
    /\ paired \subseteq Members
    /\ count \in Nat
    /\ window \in (SUBSET Members) \cup {NoWindow}
    /\ press \in [Presses -> [by : Members \cup {0}, at : PressAt, heard : BOOLEAN]]
    /\ clicked \in [Members -> BOOLEAN]
    /\ pending \in [Members -> BOOLEAN]
    /\ present \subseteq Members
    /\ flaky \in BOOLEAN
    /\ session \in Nat
    /\ counted \subseteq Members

Init ==
    /\ status = "idle" /\ task = "task9" /\ gate = "off"
    /\ reports = {} /\ paired = {} /\ window = NoWindow
    /\ count = 0
    /\ press = [k \in Presses |-> NoPress]
    /\ clicked = [p \in Members |-> FALSE]
    /\ pending = [p \in Members |-> FALSE]
    /\ present = {}
    /\ flaky \in BOOLEAN
    /\ session = 0
    /\ counted = {}

-----------------------------------------------------------------------------
(* Room listings.                                                          *)

\* getExperimentParticipantIdentities(): a failed request yields nobody.
RoomAnswers == {present} \cup (IF flaky THEN {{}} ELSE {})

\* getParticipantCount(): a failed request yields the count known before.
CountAnswers == {Cardinality(present)} \cup (IF flaky THEN {count} ELSE {})

\* .sort(localeCompare).slice(0, rule.minParticipants)
FirstPlaces(S) == {p \in S : Cardinality({q \in S : q < p}) < Places}

-----------------------------------------------------------------------------
(* The participant's page.                                                 *)

\* The pages after the room changed to here: somebody who left took the page
\* along; below two participants every page forgets its confirmation.
PagesSee(here) ==
    /\ clicked' = [p \in Members |-> clicked[p] /\ p \in here /\ Cardinality(here) >= 2]
    /\ pending' = [p \in Members |-> pending[p] /\ p \in here /\ Cardinality(here) >= 2]
    /\ press' = [k \in Presses |->
                   [press[k] EXCEPT !.heard = press[k].heard /\ press[k].by \in here]]
    /\ present' = here

Join(p) ==
    /\ p \notin present /\ Cardinality(present) < Places
    /\ PagesSee(present \cup {p})
    /\ UNCHANGED <<agentVars, flaky, history>>

Leave(p) ==
    /\ p \in present
    /\ PagesSee(present \ {p})
    /\ UNCHANGED <<agentVars, flaky, history>>

\* The START button is shown to two waiting participants, and is disabled
\* while a press is pending or confirmed.
StartShown(p) ==
    /\ p \in present \ paired
    /\ Cardinality(present) >= 2
    /\ ~(gate = "expired" /\ p \in window)
    /\ ~clicked[p] /\ ~pending[p]

\* handleParticipantStartClick(), up to the answer of the request
Click(p, k) ==
    /\ StartShown(p)
    /\ press[k].at = "unused"
    /\ \A j \in Presses : j < k => press[j].at # "unused"
    /\ press' = [press EXCEPT ![k] = [by |-> p, at |-> "listing", heard |-> TRUE]]
    /\ pending' = [pending EXCEPT ![p] = TRUE]
    /\ UNCHANGED <<agentVars, clicked, roomVars, history>>

\* The rest of handleParticipantStartClick(): the page believes the answer.
Answer(k) ==
    /\ press[k].at \in {"accepted", "refused", "answered"}
    /\ press' = [press EXCEPT ![k] = Answered]
    /\ IF press[k].heard
         THEN /\ clicked' = [clicked EXCEPT ![press[k].by] = press[k].at = "accepted"]
              /\ pending' = [pending EXCEPT ![press[k].by] = FALSE]
         ELSE UNCHANGED <<clicked, pending>>
    /\ UNCHANGED <<agentVars, roomVars, history>>

-----------------------------------------------------------------------------
(* confirmParticipantStart().                                              *)

\* The synchronous part of start(), which also begins every new session.
BeginSession ==
    /\ status' = "running" /\ gate' = "startup"
    /\ paired' = {} /\ window' = NoWindow
    /\ session' = session + 1

\* mutant of Cleared: start() leaves the presses of the last session
Cleared_Kept == reports
\* this._participantStartReports.clear()
Cleared == {}

PressGoes(k, l) == press' = [press EXCEPT ![k].at = l]

\* The listing that confirmParticipantStart() begins with was answered.
Listed(k) ==
    /\ press[k].at = "listing"
    /\ \E here \in RoomAnswers :
         \/ /\ press[k].by \notin here
            /\ PressGoes(k, "refused")
            /\ UNCHANGED <<reports, counted>>
         \/ /\ press[k].by \in here /\ status = "idle"
            /\ PressGoes(k, "counting")
            /\ UNCHANGED <<reports, counted>>
         \/ /\ press[k].by \in here /\ status # "idle" /\ task # "task9"
            /\ PressGoes(k, "refused")
            /\ UNCHANGED <<reports, counted>>
         \/ /\ press[k].by \in here /\ status # "idle" /\ task = "task9"
            /\ PressGoes(k, "accepted")
            /\ reports' = reports \cup {press[k].by}
            /\ counted' = counted \cup {press[k].by}
    /\ UNCHANGED <<status, task, gate, paired, count, window,
                   clicked, pending, roomVars, session>>

\* mutant of MayConfigure: neither setConfig() nor start() looks at the status
MayConfigure_Always == TRUE
\* setConfig() throws while the agent runs, and so does start().
MayConfigure == status # "running"

\* refreshRoomConnectionCounts() of the first press was answered; a failed
\* request leaves the counts as they were.  The recording admin is part of the
\* environment: if it is not connected, or a partner is missing, the press is
\* refused.
Bootstrap(k) ==
    /\ press[k].at = "counting"
    /\ count' \in CountAnswers
    /\ \/ /\ count' >= Places /\ MayConfigure
          /\ session < MaxSessions
          /\ BeginSession
          /\ task' = "task9"
          /\ reports' = Cleared \cup {press[k].by}
          /\ counted' = {press[k].by}
          /\ PressGoes(k, "accepted")
       \/ /\ PressGoes(k, "refused")
          /\ UNCHANGED <<status, task, gate, reports, paired, window, history>>
    /\ UNCHANGED <<clicked, pending, roomVars>>

-----------------------------------------------------------------------------
(* The run of start(): the rules before the gate, the gate, the session.   *)

\* POST /agent/config and /agent/start: the operator picks the task.
OperatorStart(t) ==
    /\ MayConfigure
    /\ session < MaxSessions
    /\ BeginSession
    /\ task' = t
    /\ reports' = Cleared /\ counted' = {}
    /\ UNCHANGED <<count, clientVars, roomVars>>

\* stop(), or reset() to begin again with an idle agent
OperatorStop(s) ==
    /\ s = "over" => status = "running"
    /\ s = "idle" => status # "idle"
    /\ status' = s /\ gate' = "off"
    /\ IF s = "idle" THEN reports' = {} /\ paired' = {}
                     ELSE UNCHANGED <<reports, paired>>
    /\ window' = NoWindow
    /\ UNCHANGED <<task, count, clientVars, roomVars, history>>

\* setCursorVisibility, hideYesNoAreas and the entry of the waiting rule; a
\* message to the room that cannot be sent ends the run.
GateEntered ==
    /\ gate = "startup"
    /\ \/ gate' = "poll" /\ UNCHANGED status
       \/ flaky /\ gate' = "off" /\ status' = "over"
    /\ UNCHANGED <<task, reports, paired, count, window,
                   clientVars, roomVars, history>>

\* Every round begins with the participant count; below two no window is open.
GatePoll ==
    /\ gate = "poll"
    /\ count' \in CountAnswers
    /\ IF count' >= Places
         THEN gate' = "ident" /\ UNCHANGED window
         ELSE window' = NoWindow /\ UNCHANGED gate
    /\ UNCHANGED <<status, task, reports, paired, clientVars, roomVars, history>>

\* mutant of StillCounted: a changed pair begins with no presses at all
StillCounted_None(ids) == {}
\* for (reported of reports) if (!identities.includes(reported)) delete reported
StillCounted(ids) == reports \cap ids

\* mutant of AllPressed: some() in place of every()
AllPressed_Some(ids, counting) == Cardinality(ids) >= Places /\ ids \cap counting # {}
\* mutant of AllPressed: one participant more than the rule asks for
AllPressed_OffByOne(ids, counting) == Cardinality(ids) > Places /\ ids \subseteq counting
\* allPressed, over the presses that still count
AllPressed(ids, counting) == Cardinality(ids) >= Places /\ ids \subseteq counting

\* The second listing of the round: the window follows the pair, then the
\* presses of the pair are looked at.
GateIdentities ==
    /\ gate = "ident"
    /\ \E here \in RoomAnswers :
         LET ids == FirstPlaces(here)
             counting == IF window # ids THEN StillCounted(ids) ELSE reports
         IN  /\ reports' = counting
             /\ \/ /\ AllPressed(ids, counting)
                   /\ paired' = ids /\ window' = NoWindow
                   /\ gate' = "passed"
                \/ /\ ~AllPressed(ids, counting)
                   /\ window' = ids /\ UNCHANGED paired
                   /\ \/ gate' = "poll"
                      \/ Cardinality(ids) >= Places /\ window = ids /\ gate' = "expired"
    /\ UNCHANGED <<status, task, count, clientVars, roomVars, history>>

\* mutant of CountReset: the places are subtracted
CountReset_Subtracted == count - Places
\* this.participantCount = 0
CountReset == 0

\* The recovery that follows a START timeout (both participants are told and
\* removed from the room) or a missing partner (the one who waits is): the
\* gate goes on with a fresh window, or the run stops safely.
Dismiss(gone) ==
    \/ /\ PagesSee(present \ gone)
       /\ reports' = reports \ gone
       /\ count' = CountReset
       /\ window' = NoWindow /\ gate' = "poll" /\ UNCHANGED status
    \/ /\ status' = "over" /\ gate' = "off"
       /\ PagesSee(present \ gone)
       /\ UNCHANGED <<reports, count, window>>

StartTimedOut ==
    /\ gate = "expired"
    /\ Dismiss(window)
    /\ UNCHANGED <<task, paired, flaky, history>>

NoPartner ==
    /\ gate = "poll" /\ count = 1 /\ Cardinality(present) = 1
    /\ Dismiss(present)
    /\ UNCHANGED <<task, paired, flaky, history>>

\* Twice the waiting time after the gate was entered: "Proceeding".
GateGivesUp ==
    /\ gate = "poll" /\ count < Places
    /\ gate' = "passed"
    /\ UNCHANGED <<status, task, reports, paired, count, window,
                   clientVars, roomVars, history>>

\* One of the pair disconnects; both submissions are recovered and the room
\* is cleared of the pair, while the run goes on.
PairRecovered ==
    /\ gate = "passed" /\ paired # {}
    /\ gate' = "reopening"
    /\ PagesSee(present \ paired)
    /\ UNCHANGED <<status, task, reports, paired, count, window,
                   flaky, history>>

\* prepareForRecoveredSessionRestart()
Restart ==
    /\ gate = "reopening" /\ session < MaxSessions
    /\ BeginSession
    /\ reports' = Cleared /\ counted' = {}
    /\ count' = CountReset
    /\ UNCHANGED <<task, clientVars, roomVars>>

SessionOver ==
    /\ gate \in {"passed", "reopening"}
    /\ gate' = "off"
    /\ status' = "over"
    /\ UNCHANGED <<task, reports, paired, count, window,
                   clientVars, roomVars, history>>

-----------------------------------------------------------------------------
Page(p) == Join(p) \/ Leave(p) \/ \E k \in Presses : Click(p, k)

Request(k) == Listed(k) \/ Bootstrap(k) \/ Answer(k)

Operator ==
    \/ \E t \in {"task1", "task9"} : OperatorStart(t)
    \/ \E s \in {"over", "idle"} : OperatorStop(s)

Gate == GateEntered \/ GatePoll \/ GateIdentities

Run ==
    \/ Gate
    \/ StartTimedOut \/ NoPartner \/ GateGivesUp
    \/ PairRecovered \/ Restart \/ SessionOver

Next ==
    \/ \E p \in Members : Page(p)
    \/ \E k \in Presses : Request(k)
    \/ Operator
    \/ Run

Spec == Init /\ [][Next]_vars

\* Room listings are answered, so the gate polls on, four times a second.
FairSpec == Spec /\ WF_vars(Gate)

-----------------------------------------------------------------------------
(* Properties.                                                             *)

GateOpen == gate \in {"startup", "poll", "ident"}

\* A press counts in the session it was made in: neither start() nor the
\* restart after a recovery lets the presses of an earlier pair through.
PressesAreOfThisSession == reports \subseteq counted

\* A page that shows "START confirmed" is right: as long as its session waits
\* at the gate and the room can be listed, the agent still has the press, so
\* the participant, whose button is disabled, need not press again.
ConfirmedIsRecorded ==
    \A p \in Members :
        ~flaky /\ GateOpen /\ clicked[p] /\ p \in counted => p \in reports

\* With a room that can be listed, the agent forgets the press of somebody in
\* the room only together with that participant or with the session: not on a
\* poll that finds another pair, and not on a racing second first press, which
\* found the agent idle before START was given and would begin it anew.
PressKept ==
    [][\A p \in reports \cap present :
         ~flaky /\ gate \in {"startup", "poll", "ident", "expired"} /\ p \notin reports'
           => p \notin present' \/ status' # "running"]_vars

\* The gate lets a pair through only on presses of this session that both
\* made, and never takes back who the pair is while the session runs.
PairPressed ==
    [][paired' # paired =>
         \/ paired' = {}
         \/ /\ paired' \subseteq reports' \cap counted
            /\ Cardinality(paired') = Places]_vars

\* Two participants who pressed START and stay get through the gate, whatever
\* the timing of their presses, if the room can be listed.
GateOpens ==
    \A p, q \in Members :
        (p < q /\ ~flaky /\ GateOpen /\ {p, q} \subseteq present \cap reports)
        ~> (paired # {} \/ ~({p, q} \subseteq present) \/ ~GateOpen)
=============================================================================
