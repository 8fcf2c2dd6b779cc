---------------------------- MODULE TaskScripts ----------------------------
(***************************************************************************)
(* What the agent awaits to execute a rule (exec... in agent.ts, and the   *)
(* runTrialBody of every task): a sequence of instructions that            *)
(* TrialSession interprets.                                                *)
(*                                                                         *)
(*   send    sends a message to the room, which may be refused             *)
(*   set     the same, by a helper that sends nothing once aborted         *)
(*   offer   the same, by a helper that goes on after a refusal            *)
(*   sleep   sleeps, or returns at once when the run is aborted            *)
(*   check   `if (signal.aborted) return`                                  *)
(*   leave   the same inside a try block: the finally block still runs     *)
(*   try, finally, end    delimit such a block                             *)
(* and one instruction for every polling loop and for what the agent       *)
(* itself remembers.  What is only drawn (positions, offsets, rotations,   *)
(* areas, overlays, groups) is a message "draw": it changes nothing that   *)
(* is modelled, but it is awaited and may be refused like any other.       *)
(***************************************************************************)
EXTENDS TaskRules

Do(what)         == [do |-> what]
On(what, trial)  == [do |-> what, trial |-> trial]
Send(msg, value) == [do |-> "send", msg |-> msg, value |-> value]
Set(msg, value)  == [do |-> "set", msg |-> msg, value |-> value]
Offer(msg, value) == [do |-> "offer", msg |-> msg, value |-> value]
Check == Do("check")
Sleep == Do("sleep")

-----------------------------------------------------------------------------
(* The operations of a TrialContext *)

TargetVisible(on)    == Send("target", on)
SharedCursor(phase)  == Send("shared", phase)
VirtualCursor(on)    == Send("virtual", on)
UnlockPointers       == Send("unlock", TRUE)
Metadata(trial)      == Send("metadata", trial)
BottomNotice(notice) == Offer("notice", notice)
DisplayMode(mode)    == Set("display", mode)
SetTaskMode(mode)    == Set("mode", mode)

\* The admin's page moves the target until it is told to stop.
StartTrajectory(trial) == Send("trajectory", trial)
StopTrajectory         == Send("trajectory", 0)
Trajectory(trial) ==
    << StartTrajectory(trial), Do("try"), Sleep, Do("finally"), Offer("trajectory", 0), Do("end") >>

\* What is only drawn.
CursorsAtStart   == Send("draw", "virtual cursors")
AvgCursorOffset  == Send("draw", "offset of the average cursor")
NoOffset         == Send("draw", "offset of the average cursor")
CursorRotation   == Send("draw", "rotation")
GuideRunning     == Send("draw", "guide")
StaticTarget     == Send("draw", "target")
InitialTarget    == Send("draw", "target and trajectory")
ClickOverlay     == Send("draw", "overlay")
Groups           == << Check, Send("draw", "groups") >>
CursorVisibility == Set("draw", "cursors")
HideYesNoAreas   == Set("draw", "areas")
ClickAreaOverlay == Set("draw", "overlay")
ResetCursors     == Set("draw", "virtual cursors")

\* Polls of what pages report about cursors and areas.  The rules go on
\* alike after the report and after the timeout.
AreaPositions  == Send("draw", "areas")
AreaChosen     == Sleep
YesNoAreas     == << Check, AreaPositions, AreaChosen >>
CursorMoves    == Sleep

\* The admin's page watches for the hit and reports it once.
StartDetector(trial) == Send("detector", trial)
StopDetector         == Send("detector", 0)
SketchEvent(trial) ==
    << StartDetector(trial), Do("try"), Do("empty"), On("hit", trial),
       Do("finally"), StopDetector, Do("end") >>

-----------------------------------------------------------------------------
(* Trial bodies *)

\* The pointer is released for the question and the virtual cursor switched off.
Questionnaire(trial) ==
    << UnlockPointers, VirtualCursor(FALSE), ClickOverlay, Send("ask", trial),
       On("answers", trial), Send("hide", TRUE) >>

\* Task 9: a timed game with the roles of the pair; nobody reports completion.
PointToPointBody(cfg, r) ==
    << SharedCursor(r.phase), CursorsAtStart, Check >>
    \o If(r.phase = "shared",
          << [do |-> "roles", trial |-> r.trial, seed |-> cfg.seed,
              index |-> SharedTrialIndex(r.trial, cfg.trials["baseline"])] >>)
    \o << Metadata(r.trial), BottomNotice("none"), InitialTarget, TargetVisible(TRUE),
          Do("try"), Sleep, Do("leave"), CursorsAtStart, Sleep,
          Do("finally"), TargetVisible(FALSE), SharedCursor("off"), Do("end"), Check >>
    \o If(r.phase = "shared", Questionnaire(r.trial) \o <<VirtualCursor(TRUE)>>)

\* The target moves along a trajectory until both pages report completion.  A
\* notice is put up before the cursors are placed, or cleared afterwards.
Tracking(r, before, afterwards) ==
    << SharedCursor(r.phase) >> \o before \o << CursorsAtStart, Check >> \o afterwards
    \o << TargetVisible(TRUE), Metadata(r.trial), InitialTarget, StartTrajectory(r.trial),
          Do("try"), Do("forget"), On("completions", r.trial),
          Do("finally"), StopTrajectory, Do("end"),
          TargetVisible(FALSE), SharedCursor("off"), Check >>

\* Task 1 restores the virtual cursor after the question, Shared/Single does
\* not; Task 8 asks no question and leaves the upload notice standing.
CursorControlBody(r) ==
    Tracking(r, << >>, If(r.trial > 1, <<BottomNotice("none")>>))
    \o If(r.phase = "shared", Questionnaire(r.trial) \o <<VirtualCursor(TRUE)>>)
Task8Body(r) == Tracking(r, << >>, << >>)
SharedSingleBody(r) ==
    Tracking(r, <<BottomNotice("home")>>, << >>)
    \o If(r.phase # "baseline", Questionnaire(r.trial))

\* The first half with a target, the second from memory.
CircleBody(r) ==
    << TargetVisible(TRUE) >> \o Trajectory(r.trial) \o << TargetVisible(FALSE), Check, Sleep >>

\* Circular motion, with a guide for the first half or without any.
GuideBody(r) == << GuideRunning, Sleep, GuideRunning, Check, Sleep >>
NonGuideBody(r) == << BottomNotice("smooth"), Sleep, Check, Sleep >>

\* A yellow target, a delay, then red until the sketch reports the hit.
ReachingBody(r) ==
    << CursorRotation, AvgCursorOffset, StaticTarget, TargetVisible(TRUE), Check,
       CursorMoves, Check, StaticTarget >>
    \o SketchEvent(r.trial) \o << TargetVisible(FALSE) >>

Body(cfg, r) ==
    CASE r.task = "task9" -> PointToPointBody(cfg, r)
      [] r.task = "cursor-control-20260706" -> CursorControlBody(r)
      [] r.task = "task8" -> Task8Body(r)
      [] r.task = "shared-single-cursor-control" -> SharedSingleBody(r)
      [] r.task \in {"circle-target-tracking", "group-circle-target-tracking"} -> CircleBody(r)
      [] r.task = "reaching" -> ReachingBody(r)
      [] r.task = "guide-tracking" -> GuideBody(r)
      [] r.task = "non-guide-tracking" -> NonGuideBody(r)

-----------------------------------------------------------------------------
(* Rules *)

\* execExecuteTrial(): cursor control tasks check the pointer locks first and
\* keep the upload notice up between trials; the others announce the trial.
TrialScript(cfg, r) ==
    LET control == r.task \in CursorControlTasks
        shared  == r.task \in SharedTasks
        placed  == r.task \in {"reaching", "task9"}
        Placed  == << CursorsAtStart, Sleep, AvgCursorOffset >>
        Stop    == << On("stop", r.trial), On("stopped", r.trial) >>
    IN  << Check, TargetVisible(FALSE) >>
        \o (IF control THEN << Check, Do("locks"), Do("relock"), Check >>
                       ELSE << BottomNotice("none"), Sleep, Check >>)
        \o << DisplayMode(r.display) >>
        \o (IF placed THEN Placed ELSE << NoOffset, ResetCursors >>)
        \o << On("record", r.trial), Check >>
        \o If(~shared, << Send("draw", "Start"), Sleep, Check >>)
        \o Body(cfg, r) \o <<Check>>
        \o << BottomNotice(IF control /\ r.trial < r.total THEN "upload" ELSE "none") >>
        \o If(control, Stop) \o If(shared, << Sleep, Check >>) \o If(~control, Stop)
        \o << DisplayMode("self") >>
        \o (IF placed THEN Placed ELSE << ResetCursors >>)

\* execShowInstruction(); a rule that waits for Next shows its pages.
InstructionScript(r) ==
    << Check, TargetVisible(FALSE) >>
    \o If(r.display # "keep", << DisplayMode(r.display) >>)
    \o If(r.overlay # "keep", << ClickAreaOverlay >>)
    \o If(r.virtual # "keep", << Check, VirtualCursor(r.virtual = "on") >>)
    \o If(r.unlock, << UnlockPointers >>)
    \o (IF r.next THEN << Send("page", TRUE), Sleep, Do("next") >>
                  ELSE << Send("notice", "none"), Sleep >>)

\* execWaitForParticipants(): one round of its loop for every period of the
\* target's cycle, which begins anew until the gate opens.
NewTarget      == Offer("draw", "target")
CountdownShown == Offer("draw", "countdown")
Period(notice, target) == << BottomNotice(notice), CountdownShown >> \o If(target, <<NewTarget>>)
Resting   == << TargetVisible(FALSE) >> \o Period("rest", FALSE)
Reappears == << NewTarget, TargetVisible(TRUE) >> \o Period("waiting", FALSE)
Gate(skip) == [do |-> "gate", skip |-> skip]
TargetCycle ==
    << TargetVisible(TRUE) >> \o Period("waiting", TRUE) \o << Gate(Len(Resting \o Reappears) + 2) >>
    \o Resting \o << Gate(Len(Reappears) + 1) >> \o Reappears \o << Gate(0) >>

\* The START gate is StartGate's and PairedSession's: their session begins
\* where the gate has opened.
WaitScript(r) ==
    IF r.opens = "presses" THEN << >>
    ELSE << DisplayMode("self"), SetTaskMode(r.mode), CursorVisibility >>
         \o CASE r.opens = "operator" -> << Do("manual") >>
              [] r.mode = "target-tracking" -> TargetCycle
              [] OTHER -> << BottomNotice("waiting"), Gate(0) >>

Script(cfg, r) ==
    CASE r.type = "showInstruction" -> InstructionScript(r)
      [] r.type = "executeTrial" -> TrialScript(cfg, r)
      [] r.type = "setTaskMode" -> << SetTaskMode(r.mode) >>
      [] r.type = "wait" -> << Sleep >>
      [] r.type = "showYesNoAreas" -> YesNoAreas
      [] r.type = "hideYesNoAreas" -> << HideYesNoAreas >>
      [] r.type = "setCursorVisibility" -> << CursorVisibility >>
      [] r.type = "setClickAreaOverlay" -> << ClickAreaOverlay >>
      [] r.type = "computeGroups" -> Groups
      [] r.type = "enableVirtualCursor" -> << Check, VirtualCursor(TRUE), Do("locked") >>
      [] r.type = "endSession" -> << Check, Do("complete"), Do("uploads") >>
      [] r.type = "waitForParticipants" -> WaitScript(r)

\* executeRules(): every rule is entered unless the run was aborted.
Program(cfg) ==
    LET rules == Rules(cfg)
    IN  FlattenSeq([i \in DOMAIN rules |->
            << [do |-> "rule", rule |-> rules[i]] >> \o Script(cfg, rules[i])])
=============================================================================
