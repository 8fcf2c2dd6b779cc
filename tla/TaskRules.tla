----------------------------- MODULE TaskRules -----------------------------
(***************************************************************************)
(* The rules an experiment consists of, as packages/server/src/experiments *)
(* generates them from the operator's configuration, and what the agent    *)
(* does for one rule: agent.ts executes a rule as a fixed sequence of      *)
(* awaited instructions, so a rule's script is a sequence of them.         *)
(*                                                                         *)
(* A configuration names the task and the number of trials of every phase. *)
(* "practice", "main" and "solo" of Shared/Single and "pre", "rotation"    *)
(* and "post" of Reaching are its phases baseline, shared, solo and        *)
(* baseline, adaptation, washout.  What a trial does to the cursor (gain,  *)
(* rotation and their ramps) is only drawn and recorded, and left out.     *)
(***************************************************************************)
EXTENDS Integers, Sequences, FiniteSets, SequencesExt

CursorControlTasks == {"cursor-control-20260706", "task8", "task9"}
SharedTasks == CursorControlTasks \cup {"shared-single-cursor-control"}
StartGateTasks == {"cursor-control-20260706", "task9"}

Phases == {"baseline", "adaptation", "shared", "solo", "washout"}

-----------------------------------------------------------------------------
(* Task 9 counts its shared trials from 0 to alternate the roles of a pair *)

SharedTrialIndex(trial, baseline) ==
    IF trial > baseline THEN trial - baseline - 1 ELSE 0

-----------------------------------------------------------------------------
(* Rules *)

Plain(type) == [type |-> type]
Instruction(says, display, next) ==
    [type |-> "showInstruction", says |-> says, display |-> display,
     next |-> next, virtual |-> "keep", overlay |-> "keep", unlock |-> FALSE]
\* How the gate opens: both participants press START, the operator starts the
\* session, or enough participants have joined; and what the room does meanwhile.
Waiting(opens, mode) == [type |-> "waitForParticipants", opens |-> opens, mode |-> mode]
Overlay(show) == [type |-> "setClickAreaOverlay", show |-> show]
TaskMode(mode) == [type |-> "setTaskMode", mode |-> mode]
EnableVirtualCursor == Plain("enableVirtualCursor")
Wait == Plain("wait")
EndSession == Plain("endSession")

Trial(cfg, number, total, phase, display) ==
    [type |-> "executeTrial", task |-> cfg.task, trial |-> number, total |-> total,
     phase |-> phase, display |-> display]

\* `count` trials of a phase, numbered from first + 1.
PhaseTrials(cfg, phase, display, first, count, total) ==
    [i \in 1 .. count |-> Trial(cfg, first + i, total, phase, display)]

If(condition, rules) == IF condition THEN rules ELSE << >>

SharedNext == Instruction("shared-next", "self", FALSE)
OwnNext    == Instruction("own-next", "self", FALSE)

\* Task 8 explains the split of the axes on a page with an OK button, for which
\* the pointer is released and locked again.
SplitNext ==
    << [Instruction("split-next", "self", TRUE) EXCEPT
            !.virtual = "off", !.overlay = "hide", !.unlock = TRUE],
       EnableVirtualCursor, Overlay(FALSE) >>

\* generateTrialSequence() of Task 1, Task 8 and Task 9; only Task 9 has no
\* adaptation phase.
CursorControlTrials(cfg) ==
    LET n == cfg.trials
        adaptation == IF cfg.task = "task9" THEN 0 ELSE n["adaptation"]
        adapted    == n["baseline"] + adaptation
        shared     == adapted + n["shared"]
        total      == shared + n["washout"]
        Block(phase, display, first, count) ==
            PhaseTrials(cfg, phase, display, first, count, total)
    IN  Block("baseline", "self", 0, n["baseline"])
     \o Block("adaptation", "avgOnly", n["baseline"], adaptation)
     \o If(n["shared"] > 0, IF cfg.task = "task8" THEN SplitNext ELSE <<SharedNext>>)
     \o Block("shared", "avgOnly", adapted, n["shared"])
     \o If(n["washout"] > 0, <<OwnNext>>)
     \o Block("washout", "self", shared, n["washout"])

SharedSingleTrials(cfg) ==
    LET n      == cfg.trials
        shared == n["baseline"] + n["shared"]
        total  == shared + n["solo"]
        Block(phase, display, first, count) ==
            PhaseTrials(cfg, phase, display, first, count, total)
    IN  Block("baseline", "self", 0, n["baseline"])
     \o If(n["shared"] + n["solo"] > 0,
           <<Instruction("baseline-done", "self", FALSE), SharedNext>>)
     \o Block("shared", "avgOnly", n["baseline"], n["shared"])
     \o Block("solo", "avgOnly", shared, n["solo"])

ReachingTrials(cfg) ==
    LET n       == cfg.trials
        rotated == n["baseline"] + n["adaptation"]
        total   == rotated + n["washout"]
        Block(phase, first, count) == PhaseTrials(cfg, phase, cfg.display, first, count, total)
    IN  Block("baseline", 0, n["baseline"])
     \o Block("adaptation", n["baseline"], n["adaptation"])
     \o Block("washout", rotated, n["washout"])

\* Group circle tracking: split, split anew, everyone in one group.
GroupTrials(cfg) ==
    LET each == IF cfg.trials["baseline"] > 1 THEN cfg.trials["baseline"] ELSE 1
        Groups(count) == <<[type |-> "computeGroups", groups |-> count]>>
        Block(first)  == PhaseTrials(cfg, "baseline", cfg.display, first, each, 3 * each)
    IN  Groups(2) \o Block(0) \o Groups(2) \o Block(each) \o Groups(1) \o Block(2 * each)

\* The trial loop of the other tasks, built from buildExecuteTrialRule().
PlainTrials(cfg) ==
    LET n == cfg.trials["baseline"]
    IN  PhaseTrials(cfg, "baseline", cfg.display, 0, n, n)

TrialSequence(cfg) ==
    CASE cfg.task \in CursorControlTasks -> CursorControlTrials(cfg)
      [] cfg.task = "shared-single-cursor-control" -> SharedSingleTrials(cfg)
      [] cfg.task = "reaching" -> ReachingTrials(cfg)
      [] cfg.task = "group-circle-target-tracking" -> GroupTrials(cfg)
      [] OTHER -> PlainTrials(cfg)

-----------------------------------------------------------------------------
(* Flow around the trials *)

\* wrapInstructionWithYesNo()
Confirmed(instruction) ==
    << instruction, Plain("showYesNoAreas"), Plain("hideYesNoAreas") >>

\* While the last common instruction previews the trials, the participant's own
\* cursor must stay visible to confirm it.
PreviewDisplay(display) == IF display = "avgOnly" THEN "self" ELSE display

CommonInstructions(cfg) ==
    LET Says(step, display) == Instruction(step, display, FALSE)
        Virtual == [Says("4", "self") EXCEPT !.virtual = "on", !.overlay = "show"]
    IN  << Says("1", "self"), Says("2", "self"), Says("3", "self"), Virtual,
           [Says("5", "self") EXCEPT !.overlay = "show"],
           [Says("6", "self") EXCEPT !.overlay = "hide"],
           Says("7", "all-without-avg"), Says("8", "all-with-avg-no-lines"),
           Says("9", "all-with-avg-no-lines"), Says("10", "all-with-avg-no-lines"),
           Says("11", PreviewDisplay(cfg.display)) >>

\* Every instruction of the list becomes three rules.
Wrapped(instructions) == FlattenSeq([i \in DOMAIN instructions |-> Confirmed(instructions[i])])

WaitPhase(cfg) ==
    << Plain("setCursorVisibility"), Waiting("joined", "target-tracking"),
       TaskMode("manual-instruction") >>

FinalInstructions(cfg) ==
    If(cfg.task \notin SharedTasks, <<Instruction("all-done", "keep", FALSE)>>)
    \o << Instruction("ends", "all-without-avg", FALSE), Instruction("reward", "keep", FALSE),
          EndSession >>

\* What the room is told the task is.
LiveKitTaskMode(task) ==
    CASE task \in SharedTasks -> "shared-single-cursor"
      [] task = "group-circle-target-tracking" -> "circle-target-tracking"
      [] task = "non-guide-tracking" -> "manual-instruction"
      [] OTHER -> task

\* generateSharedSingleCursorRules()
Opens(cfg) ==
    CASE cfg.task \in StartGateTasks -> "presses"
      [] cfg.task \in CursorControlTasks \ StartGateTasks -> "operator"
      [] OTHER -> "joined"
SharedRules(cfg) ==
    << Plain("setCursorVisibility"), Plain("hideYesNoAreas"),
       Waiting(Opens(cfg), "manual-instruction"),
       Instruction("task", "self", TRUE), EnableVirtualCursor, Overlay(FALSE), Wait,
       TaskMode(LiveKitTaskMode(cfg.task)) >>
    \o TrialSequence(cfg) \o FinalInstructions(cfg)

LegacyRules(cfg) ==
    WaitPhase(cfg) \o Wrapped(CommonInstructions(cfg))
    \o Wrapped(<<Instruction("task", "self", FALSE)>>)
    \o <<Wait, TaskMode(LiveKitTaskMode(cfg.task))>>
    \o TrialSequence(cfg) \o FinalInstructions(cfg)

\* generateRulesFromConfig()
Rules(cfg) == IF cfg.task \in SharedTasks THEN SharedRules(cfg) ELSE LegacyRules(cfg)
=============================================================================
