--------------------------- MODULE MCTrialSession ---------------------------
(* One short configuration of every task for TLC. *)
EXTENDS TrialSession

Scripts == INSTANCE TaskScripts

Counts(b, a, s, o, w) ==
    [baseline |-> b, adaptation |-> a, shared |-> s, solo |-> o, washout |-> w]
Config(task, counts, display, seed) ==
    [task |-> task, trials |-> counts, display |-> display, seed |-> seed]

Configs == [
    points  |-> Config("task9", Counts(0, 0, 2, 0, 0), "avgOnly", 1),
    pair    |-> Config("task9", Counts(0, 0, 1, 0, 0), "avgOnly", 0),
    control |-> Config("cursor-control-20260706", Counts(0, 1, 1, 0, 0), "avgOnly", 0),
    split   |-> Config("task8", Counts(1, 0, 1, 0, 0), "avgOnly", 0),
    single  |-> Config("shared-single-cursor-control", Counts(0, 0, 1, 0, 0), "avgOnly", 0),
    circle  |-> Config("circle-target-tracking", Counts(1, 0, 0, 0, 0), "avgOnly", 0),
    group   |-> Config("group-circle-target-tracking", Counts(1, 0, 0, 0, 0), "avgOnly", 0),
    reach   |-> Config("reaching", Counts(1, 1, 0, 0, 0), "avgOnly", 0),
    guide   |-> Config("guide-tracking", Counts(1, 0, 0, 0, 0), "avgOnly", 0),
    free    |-> Config("non-guide-tracking", Counts(1, 0, 0, 0, 0), "avgOnly", 0),
    lost    |-> Config("shared-single-cursor-control", Counts(1, 0, 0, 0, 0), "avgOnly", 0)]

Programs == [
    points  |-> Scripts!Program(Configs.points),
    pair    |-> Scripts!Program(Configs.pair),
    control |-> Scripts!Program(Configs.control),
    split   |-> Scripts!Program(Configs.split),
    single  |-> Scripts!Program(Configs.single),
    circle  |-> Scripts!Program(Configs.circle),
    group   |-> Scripts!Program(Configs.group),
    reach   |-> Scripts!Program(Configs.reach),
    guide   |-> Scripts!Program(Configs.guide),
    free    |-> Scripts!Program(Configs.free),
    lost    |-> Scripts!Program(Configs.lost)]
\* A definition of its own: TLC computes Programs once, but what a constant
\* is replaced by every time.
MCCode == Programs
MCExperiments == {"points", "pair", "control", "split", "single", "circle", "group", "reach", "guide", "free", "lost"}
MCShared == {e \in MCExperiments : Configs[e].task \in Scripts!SharedTasks}
MCGuarded == {e \in MCExperiments : Configs[e].task \in Scripts!CursorControlTasks}
\* The gate of "control" asks for START as well, but no press is taken for it: it
\* opens, for whoever is there, when the agent has waited long enough for anybody.
MCGated == {"points", "pair"} \cap MCExperiments
MCTimed == {"points", "pair"} \cap MCExperiments
MCPatient == MCExperiments \ {"single", "circle"}
MCReports == [e \in MCExperiments |-> IF e = "circle" THEN 2 ELSE 1]
Departures == {"leave", "hang", "list", "cleanup", "stop"}
Recordings == {"upload", "reload", "slow", "status"}
Pointers   == {"esc", "lock", "answer", "complete", "next"}
\* Two faults, so that the message that stops a recording is refused when the
\* loss of a participant is handled.
MCFaults == [e \in MCExperiments |-> IF e = "lost" THEN 2 ELSE 1]
\* The tasks without a shared cursor await no report of a pointer or a question.
MCKinds == [e \in MCExperiments |->
    CASE e = "points" -> {"hang", "list", "cleanup", "stop", "answer", "send", "slow"}
      [] e = "pair" -> {"leave"}
      [] e = "control" -> {"hang", "list"} \cup Pointers
      [] e = "split" -> Departures \cup Recordings \cup {"send"}
      [] e = "single" -> {"leave", "hang", "list", "stop", "complete", "answer", "send", "status"}
      [] e = "lost" -> {"complete", "send"}
      [] e = "free" -> {"stop", "send"}
      [] e = "reach" -> {"stop", "reload", "send"}
      [] OTHER -> Departures \cup Recordings \cup {"send"}]
=============================================================================
