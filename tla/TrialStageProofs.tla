-------------------------- MODULE TrialStageProofs --------------------------
(***************************************************************************)
(* What the pages and the admin's page have running during a session, for  *)
(* any rules of the shape that CodeAssumption gives them: that what a page *)
(* tracks is recorded, that no question covers the stage while it plays,   *)
(* and that nothing is left running when the rules are over.               *)
(***************************************************************************)
EXTENDS TrialSessionProofs

-----------------------------------------------------------------------------
(* What is on between two instructions. *)

\* The shape of the rules, as far as it is about messages.
LEMMA MessageShape ==
  ASSUME RulesTyped
  PROVE  /\ Len(script) \in Nat /\ Enclosed(script)
         /\ experiment \in Shared => Lowered(script) /\ Followed(script) /\ Separate(script)
         /\ experiment \in Timed => /\ experiment \in Shared /\ TurnsOn(script, "trajectory") = {}
                                    /\ Playful(script, "target", "target")
                                    /\ Playful(script, "shared", "shared")
BY CodeAssumption, SessionAssumption DEF RulesTyped

\* Going on keeps what is on and turns on what begins.
LEMMA SinceOn ==
  ASSUME NEW on \in SUBSET Nat, NEW off \in SUBSET Nat, NEW i \in Nat, NEW j \in Nat, i < j,
         \A q \in i + 1 .. j - 1 : q \notin off
  PROVE  /\ Since(on, off, i) /\ i \notin off => Since(on, off, j)
         /\ i \in on => Since(on, off, j)
<1>1. \A q \in off : i < q /\ q < j => FALSE
  <2> SUFFICES ASSUME NEW q \in off, i < q, q < j PROVE FALSE
    OBVIOUS
  <2>1. q \in i + 1 .. j - 1
    OBVIOUS
  <2> QED
    BY <2>1
<1>2. ASSUME Since(on, off, i), i \notin off PROVE Since(on, off, j)
  <2>1. PICK k \in on : k < i /\ \A q \in off : ~(k < q /\ q < i)
    BY <1>2 DEF Since
  <2>2. \A q \in off : q < i \/ q = i \/ i < q
    OBVIOUS
  <2> QED
    BY <1>1, <1>2, <2>1, <2>2 DEF Since
<1>3. ASSUME i \in on PROVE Since(on, off, j)
  BY <1>1, <1>3 DEF Since
<1> QED
  BY <1>2, <1>3

\* The instructions that say something are instructions.
LEMMA SaidIn ==
  ASSUME NEW msg
  PROVE  /\ Said(script, msg) \subseteq 1 .. Len(script) /\ Said(script, msg) \in SUBSET Nat
         /\ TurnsOn(script, msg) \subseteq Said(script, msg)
         /\ TurnsOff(script, msg) \subseteq Said(script, msg)
<1>1. Said(script, msg) \subseteq 1 .. Len(script)
  BY DEF Said
<1>2. \A i \in 1 .. Len(script) : i \in Nat
  OBVIOUS
<1> QED
  BY <1>1, <1>2 DEF TurnsOn, TurnsOff

\* A run that goes on comes to the next instruction, but for the jumps.
LEMMA GoesTo ==
  ASSUME TypeInv, Next, run'.at = "going", ~Still
  PROVE  /\ Running /\ run.at = "going" /\ run.pc \in 1 .. Len(script) /\ run.pc \in Nat /\ Ins = script[run.pc]
         /\ run'.pc \in Nat /\ run.pc < run'.pc
         /\ \/ run'.pc = run.pc + 1
            \/ Ins.do \in {"locks", "stop", "gate"}
            \/ Doing("leave") /\ run'.pc = Finally
<1> USE DEF TypeInv, RunTyped
<1>1. /\ Running /\ run.at = "going" /\ run.pc \in 1 .. Len(script)
      /\ run'.pc \in run.pc + 1 .. Len(script) + 1 /\ Len(script) \in Nat
  BY GoingOn, ScriptShape DEF Still
<1>2. ~Thrown /\ ~Leaving /\ ~Losing /\ ~Returning
  BY DEF Thrown, Leaving, Losing, Returning
<1>3. CASE Onwards
  BY <1>1, <1>3 DEF Onwards, Ins
<1>4. CASE Jumping
  <2>1. Doing("locks") \/ Doing("stop") \/ Doing("gate") \/ (Doing("leave") /\ run'.pc = Finally)
    BY <1>4 DEF Jumping
  <2> QED
    BY <1>1, <2>1 DEF Doing, Ins
<1> QED
  BY <1>1, <1>2, <1>3, <1>4, RunMoves, Numbers

\* While something is on, and the run only goes through instructions that pass
\* no end of it, it stays on up to the instruction that ends it.
LEMMA StaysOn ==
  ASSUME TypeInv, Next, run'.at = "going",
         NEW on \in SUBSET Nat, NEW off \in SUBSET Nat, NEW dos, Within(script, on, off, dos),
         dos \cap {"locks", "stop", "gate"} = {},
         "leave" \in dos => \E msg \in DOMAIN Rest : off \subseteq Said(script, msg),
         Since(on, off, run.pc), Still \/ run.pc \notin off
  PROVE  Since(on, off, run'.pc)
<1>1. CASE Still
  BY <1>1 DEF Still
<1>2. CASE ~Still
  <2>1. /\ run.pc \in 1 .. Len(script) /\ run.pc \in Nat /\ Ins = script[run.pc]
        /\ run'.pc \in Nat /\ run.pc < run'.pc
        /\ \/ run'.pc = run.pc + 1
           \/ Ins.do \in {"locks", "stop", "gate"}
           \/ Doing("leave") /\ run'.pc = Finally
    BY <1>2, GoesTo
  <2>2. Ins.do \in dos
    <3>1. Len(script) \in Nat
      BY ScriptShape DEF TypeInv
    <3> QED
      BY <2>1, <3>1 DEF Within
  <2>3. \A q \in run.pc + 1 .. run'.pc - 1 : q \notin off
    <3>1. CASE run'.pc = run.pc + 1
      BY <2>1, <3>1
    <3>2. CASE Doing("leave") /\ run'.pc = Finally
      <4>1. PICK msg \in DOMAIN Rest : off \subseteq Said(script, msg)
        BY <2>2, <3>2 DEF Doing
      <4>2. \A q \in run.pc .. run'.pc : q \notin Said(script, msg)
        BY <3>2, LeaveAhead
      <4>3. \A q \in run.pc + 1 .. run'.pc - 1 : q \in run.pc .. run'.pc
        BY <2>1
      <4> QED
        BY <4>1, <4>2, <4>3
    <3> QED
      BY <2>1, <2>2, <3>1, <3>2
  <2> QED
    BY <1>2, <2>1, <2>3, SinceOn
<1> QED
  BY <1>1, <1>2

\* An instruction that turns something on, once obeyed, has it on.
LEMMA TurnedOn ==
  ASSUME TypeInv, Next, run'.at = "going", ~Still, Ins.do \in {"send", "offer"},
         NEW on \in SUBSET Nat, NEW off \in SUBSET Nat, run.pc \in on
  PROVE  Since(on, off, run'.pc)
<1>1. /\ run.pc \in Nat /\ run'.pc \in Nat /\ run.pc < run'.pc
      /\ run'.pc = run.pc + 1
  BY GoesTo DEF Doing
<1>2. \A q \in run.pc + 1 .. run'.pc - 1 : q \notin off
  BY <1>1
<1> QED
  BY <1>1, <1>2, SinceOn

-----------------------------------------------------------------------------
(* The recorder is on during a recording. *)

\* Unless it was aborted, a session whose rules go on runs.
GoingInv == run.at = "going" /\ ~aborted => status = "running"
\* Every step keeps this.
LEMMA GoingStep ==
  ASSUME TypeInv, StopInv, GoingInv, Next
  PROVE  GoingInv'
<1> SUFFICES ASSUME run'.at = "going", ~aborted' PROVE status' = "running"
  BY DEF GoingInv
<1>1. ~OperatorStops /\ ~HandlerEnds
  BY DEF OperatorStops, StopAgent, HandlerEnds
<1>2. ~aborted /\ run.at = "going"
  BY <1>1, AbortOnly, GoingOn
<1>3. ~RulesEnd
  BY DEF RulesEnd, LeaveRules, TypeInv, RunTyped
<1> QED
  BY <1>1, <1>2, <1>3, StatusMoves DEF GoingInv

\* Nobody interferes with the recorder.
Live == RunsOn /\ ~disrupted /\ "reload" \notin Troubles
\* Between the start of a recording and its end, the recorder records that trial
\* or is about to.
Current == IF admin.timer # 0 THEN admin.timer ELSE admin.on
LiveInv == Live => \A k \in Nat : Open(script, k, run.pc) => script[k].trial = Current

\* It was so before.
LEMMA LiveBefore ==
  ASSUME CoreInv, StopInv, Next, Live'
  PROVE  Live /\ Plain' /\ ~aborted /\ run.at = "going" /\ run'.at = "going"
<1>1. ~disrupted
  BY Moves DEF Apart, Losing, Withdrawing, Handles, Ends, Live, CoreInv
<1>2. HandlerInv'
  BY CoreStep DEF CoreInv
<1>3. handler'.by = "nobody"
  BY <1>2 DEF HandlerInv, Live
<1>4. Plain'
  BY <1>3 DEF Plain, Live
<1> QED
  BY <1>1, <1>4, PlainBefore DEF Plain, Live

\* What is open stays so unless a recording starts or stops.
LEMMA OpenStays ==
  ASSUME TypeInv, Next, run'.at = "going", Still \/ Ins.do \notin {"record", "stop"}
  PROVE  \A k \in Nat : Open(script, k, run'.pc) <=> Open(script, k, run.pc)
<1>1. CASE Still
  BY <1>1 DEF Still
<1>2. CASE ~Still
  <2>1. /\ run.pc \in 1 .. Len(script) /\ run'.pc \in run.pc + 1 .. Len(script) + 1
        /\ Passes(script, run.pc, run'.pc)
    BY <1>2, GoingOn DEF Still
  <2>2. script[run.pc].do \notin {"record", "stop"}
    BY <1>2 DEF Ins
  <2>3. run.pc \in Nat \ {0} /\ run'.pc \in Nat /\ run.pc < run'.pc
    BY <2>1, ScriptShape DEF TypeInv
  <2>4. /\ \A k \in Nat : Starts(script, k, run'.pc) <=> Starts(script, k, run.pc)
        /\ \A k \in Nat : Starts(script, k, run.pc) =>
              (Ended(script, k, run'.pc) <=> Ended(script, k, run.pc))
    BY <2>1, <2>2, <2>3, Passage
  <2> QED
    BY <2>4 DEF Open
<1> QED
  BY <1>1, <1>2

\* Every step keeps the recorder on.
LEMMA LiveStep ==
  ASSUME CoreInv, StopInv, LiveInv, Next
  PROVE  LiveInv'
<1> USE DEF CoreInv, TypeInv
<1>s. script' = script /\ Len(script) \in Nat
  BY RulesStay, Numbers, ScriptShape DEF rules
<1> SUFFICES ASSUME Live', NEW k \in Nat, Open(script, k, run'.pc)
             PROVE  script[k].trial = Current'
  BY <1>s DEF LiveInv
<1>0. Live /\ Plain' /\ ~aborted /\ run.at = "going" /\ run'.at = "going"
  BY LiveBefore
<1>1. CASE StartsRecording
  <2>1. /\ run.pc \in 1 .. Len(script) /\ Ins = script[run.pc] /\ script[run.pc].do = "record"
        /\ run'.pc = run.pc + 1
    BY <1>s, <1>1 DEF StartsRecording, Doing, Running, Ins, RunTyped, Step, Go
  <2>2. admin'.timer = Ins.trial /\ Ins.trial # 0
    <3>1. HearsStart(Ins.trial)
      BY <1>0, <1>1 DEF StartsRecording
    <3> QED
      BY <2>1, <3>1, ScriptShape, Numbers DEF HearsStart, Typed, RecorderTyped
  <2>3. k = run.pc
    <3>1. Starts(script, k, run.pc) => Ended(script, k, run.pc)
      BY <2>1, OneOpen
    <3>2. k \in 1 .. run'.pc - 1 /\ script[k].do = "record"
      BY DEF Open, Starts
    <3>3. k \in 1 .. run.pc - 1 \/ k = run.pc
      BY <2>1, <3>2
    <3>4. k \in 1 .. run.pc - 1 => ~Ended(script, k, run.pc)
      BY <2>1 DEF Open, Ended
    <3> QED
      BY <3>1, <3>2, <3>3, <3>4 DEF Starts
  <2> QED
    BY <2>1, <2>2, <2>3 DEF Current
<1>2. CASE Ins.do = "stop" /\ ~Still
  <2>1. /\ Running /\ run.pc \in 1 .. Len(script) /\ run'.pc \in run.pc + 1 .. Len(script) + 1
        /\ Ins = script[run.pc]
    BY <1>0, <1>2, GoingOn DEF Still, Ins
  <2>2. Ended(script, k, run'.pc)
    <3>1. k \in 1 .. run'.pc - 1 /\ script[k].do = "record" /\ Passes(script, run.pc, run'.pc)
      BY <1>0, <1>2, GoingOn DEF Open, Starts, Still
    <3>2. ~(k \in run.pc .. run'.pc - 1)
      <4>1. k # run.pc
        BY <1>2, <2>1, <3>1
      <4>2. k \notin run.pc + 1 .. run'.pc - 1
        BY <3>1 DEF Passes
      <4> QED
        BY <2>1, <4>1, <4>2
    <3>3. run.pc \in k .. run'.pc - 1
      BY <2>1, <3>1, <3>2
    <3> QED
      BY <1>2, <2>1, <3>3 DEF Ended
  <2> QED
    BY <2>2 DEF Open
<1>3. CASE ~StartsRecording /\ (Still \/ Ins.do # "stop")
  <2>1. Open(script, k, run.pc)
    <3>1. Still \/ Ins.do # "record"
      <4>1. SendFails /\ Doing("record") => Throw
        BY DEF SendFails, Doing
      <4>2. ~Throw
        BY <1>0 DEF Throw, LeaveRules, RunTyped
      <4> QED
        BY <1>0, <1>3, <4>1, <4>2, Executes, GoingOn DEF Doing, Still
    <3> QED
      BY <1>0, <1>3, <3>1, OpenStays
  <2>2. script[k].trial = Current
    BY <1>0, <2>1 DEF LiveInv
  <2>3. CASE TimerFires
    <3>1. admin'.on = admin.timer /\ admin'.timer = 0 /\ admin.timer # 0
      BY <2>3 DEF TimerFires, StartRecording, RecorderTyped
    <3> QED
      BY <2>2, <3>1 DEF Current
  <2>4. CASE \E t \in Trials : UploadEnds(t)
    BY <2>2, <2>4 DEF UploadEnds, Current
  <2>5. CASE ForgetsRecording
    BY <2>2, <2>5 DEF ForgetsRecording, Current, recorderVars
  <2>6. CASE Sends
    <3>1. UNCHANGED admin \/ \E msg, value : Note(msg, value)
      BY <2>6 DEF Sends, Send
    <3> QED
      BY <2>2, <3>1, NoteKeeps DEF Current
  <2>7. CASE ~Recorder /\ ~ForgetsRecording /\ ~Sends
    <3>1. ~StopsRecording
      <4>1. StopsRecording => Ins.do = "stop" /\ ~Still
        <5>1. StopsRecording => Ins.do = "stop" /\ (Step \/ Go(run.pc + 2))
          BY DEF StopsRecording, Doing
        <5> QED
          BY <5>1, StepMoves
      <4> QED
        BY <1>3, <4>1
    <3>2. UNCHANGED recorderState
      BY <1>0, <1>3, <2>7, <3>1, RecorderUntouched
    <3> QED
      BY <2>2, <3>2 DEF recorderState, Current
  <2> QED
    BY <2>3, <2>4, <2>5, <2>6, <2>7 DEF Recorder
<1> QED
  BY <1>1, <1>2, <1>3 DEF StartsRecording, Doing

-----------------------------------------------------------------------------
(* What is tracked is recorded. *)

\* What a message does to the tracking of a page and to its question.
LEMMA ReactKeeps ==
  ASSUME NEW p \in Pages, page[p] \in PageStates, NEW msg, NEW value
  PROVE  LET me == page[p]
             new == React(p, msg, value)
         IN  /\ \/ new.track = me.track
                \/ msg = "shared" /\ value = "off" /\ me.track.at = "current" /\ new.track.at = "orphan"
                \/ /\ msg = "trajectory" /\ value # 0 /\ experiment \in Shared
                   /\ new.track = [trial |-> value, at |-> "current"]
             /\ msg \notin {"shared", "trajectory"} => new.track = me.track
             /\ msg = "shared" /\ value = "off" => new.track.at # "current"
             /\ new.reveal # 0 => me.reveal # 0 \/ msg = "ask"
             /\ new.ask = me.ask \/ (msg = "hide" /\ new.ask.at = "hidden")
             /\ msg = "hide" => new.reveal = 0 /\ new.ask.at # "shown"
<1> DEFINE me == page[p]
<1>t. me \in PageStates
  OBVIOUS
<1> HIDE DEF me
<1>1. CASE msg = "shared"
  <2>1. React(p, msg, value) = IF value # "off" THEN [me EXCEPT !.recover = FALSE]
                               ELSE [me EXCEPT !.track.at = IF @ = "current" THEN "orphan" ELSE @]
    BY <1>1 DEF React, me
  <2>2. CASE value # "off"
    BY <1>t, <1>1, <2>1, <2>2 DEF PageStates, me
  <2>3. CASE value = "off"
    <3> DEFINE at == IF me.track.at = "current" THEN "orphan" ELSE me.track.at
    <3>1. me.track \in Tracks
      BY <1>t DEF PageStates
    <3>2. React(p, msg, value) = [me EXCEPT !.track = [me.track EXCEPT !.at = at]]
      BY <2>1, <2>3
    <3>3. [me.track EXCEPT !.at = at].at = at /\ (at = me.track.at => [me.track EXCEPT !.at = at] = me.track)
      BY <3>1 DEF Tracks
    <3> DEFINE track == [me.track EXCEPT !.at = at]
    <3> HIDE DEF at, track
    <3>4. /\ React(p, msg, value).track = track /\ React(p, msg, value).reveal = me.reveal
          /\ React(p, msg, value).ask = me.ask
      BY <1>t, <3>2 DEF PageStates, track
    <3>5. track.at = at /\ (at = me.track.at => track = me.track)
      BY <3>3 DEF track
    <3>6. at # "current" /\ (at = me.track.at \/ (me.track.at = "current" /\ at = "orphan"))
      BY DEF at
    <3> QED
      BY <1>1, <2>3, <3>4, <3>5, <3>6 DEF me
  <2> QED
    BY <2>2, <2>3
<1>2. CASE msg = "trajectory"
  <2>1. React(p, msg, value) = IF value # 0 /\ experiment \in Shared
           THEN [me EXCEPT !.track = [trial |-> value, at |-> "current"]] ELSE me
    BY <1>2 DEF React, me
  <2> QED
    BY <1>t, <1>2, <2>1 DEF PageStates, me
<1>3. CASE msg = "ask"
  BY <1>t, <1>3 DEF React, PageStates, me
<1>4. CASE msg = "hide"
  <2> DEFINE at == IF me.ask.at = "shown" THEN "hidden" ELSE me.ask.at
  <2>1. me.ask \in Questions /\ me.ask.at \in {"hidden", "shown", "sent"}
    BY <1>t DEF PageStates, Questions
  <2>2. React(p, msg, value) = [me EXCEPT !.reveal = 0, !.ask = [me.ask EXCEPT !.at = at]]
    BY <1>4 DEF React, Covered, me
  <2> DEFINE ask == [me.ask EXCEPT !.at = at]
  <2>3. ask.at = at /\ (at = me.ask.at => ask = me.ask)
    <3>1. CASE me.ask \in [trial : Trials \cup {0}, at : {"hidden"}]
      BY <3>1
    <3>2. CASE me.ask \in [trial : Trials, at : {"shown", "sent"}]
      BY <3>2
    <3> QED
      BY <2>1, <3>1, <3>2 DEF Questions
  <2>4. at # "shown" /\ (at = me.ask.at \/ at = "hidden")
    OBVIOUS
  <2> HIDE DEF at, ask
  <2>5. /\ React(p, msg, value).track = me.track /\ React(p, msg, value).reveal = 0
        /\ React(p, msg, value).ask = ask
    BY <1>t, <2>2 DEF PageStates, ask
  <2> QED
    BY <1>4, <2>3, <2>4, <2>5 DEF me
<1>5. CASE msg \in {"virtual", "unlock", "page", "notice", "relock", "complete"}
  BY <1>t, <1>5 DEF React, Paper, PageStates, me
<1>6. CASE msg \notin {"shared", "trajectory", "ask", "hide", "virtual", "unlock", "page", "notice", "relock", "complete"}
  BY <1>6 DEF React, me
<1> QED
  BY <1>1, <1>2, <1>3, <1>4, <1>5, <1>6

\* When the run moves, a page changes by a message of the rules.
LEMMA PagesMove ==
  ASSUME TypeInv, HandlerInv, Next, ~Still
  PROVE  \/ UNCHANGED page
         \/ Sends /\ Send(Ins.msg, Ins.value)
         \/ AsksForLocks /\ Send("relock", Unlocked)
         \/ Completes /\ Send("complete", TRUE)
<1>1. CASE ~Visits
  BY <1>1, VisitsOnly, Numbers DEF pageVars
<1>2. CASE Sends \/ AsksForLocks \/ Completes
  BY <1>2 DEF Sends, AsksForLocks, Completes
<1>3. ~(PageStep \/ SafetyCleanup)
  BY DEF PageStep, SafetyCleanup, ClickNext, Lock, TrackDone, Reveal, Answer, AnswerFails, Finish, Still, onPage
<1>4. ~\E p \in Pages : Esc(p) \/ Leave(p) \/ Hang(p)
  BY DEF Esc, Leave, Hang, onPage, Still
<1>5. ~(HandlerLists \/ HandlerSends)
  BY DEF HandlerLists, HandlerSends, Still
<1>6. CASE HandlerEnds
  BY <1>6 DEF HandlerEnds
<1> QED
  BY <1>1, <1>2, <1>3, <1>4, <1>5, <1>6 DEF Visits

\* Who is added to the completions while the run waits has just tracked a trial.
LEMMA CompletionsGrow ==
  ASSUME TypeInv, Next, Still, NEW p \in Pages, p \in completions', p \notin completions
  PROVE  TrackDone(p)
<1>1. CASE ~Hears
  BY <1>1, HearsOnly, Numbers DEF reportVars
<1>2. ~(Sends \/ Completes)
  BY StepMoves DEF Sends, Completes
<1>3. Block => completions' \subseteq completions
  BY DEF Block
<1>4. CASE EmptiesInbox \/ HitOrTimeout \/ AsksForLocks \/ HandlerSends \/ Arrives
  BY <1>4 DEF EmptiesInbox, HitOrTimeout, AsksForLocks, HandlerSends, Arrives, handling
<1>5. ASSUME NEW q \in Pages, TrackDone(q)
      PROVE  TrackDone(p)
  <2>1. UNCHANGED completions \/ completions' = completions \cup {q}
    BY <1>5 DEF TrackDone, CompletionReported
  <2>2. p = q
    BY <2>1
  <2> QED
    BY <1>5, <2>2
<1>6. ASSUME NEW q \in Pages, ClickNext(q) \/ Lock(q) \/ Reveal(q) \/ Answer(q) \/ AnswerFails(q)
                              \/ Finish(q) \/ Esc(q) \/ LockReportLost(q)
      PROVE  UNCHANGED completions
  BY <1>6 DEF ClickNext, Lock, Reveal, Answer, AnswerFails, Finish, Esc, LockReportLost, reportVars
<1> QED
  BY <1>1, <1>2, <1>3, <1>4, <1>5, <1>6 DEF Hears, PageStep

\* A page that tracks is at the completions of its trial, or about to be, and has
\* not reported it.
TracksAt(p, i) ==
    /\ script[i].do = "completions" /\ run.at = "going" /\ run.pc \in i - 2 .. i
    /\ page[p].track = [trial |-> script[i].trial, at |-> "current"]
    /\ run.pc = i => p \notin completions
InTrial(p) == page[p].track.at \in {"current", "orphan"}
TrackedInv ==
    ~aborted /\ ~disrupted =>
        \A p \in present : InTrial(p) => \E i \in 1 .. Len(script) : TracksAt(p, i)

\* The tracking of a page starts by the message for it, during its recording.
LEMMA TrackingStarts ==
  ASSUME CoreInv, Next, ~Still, NEW p \in present, InTrial(p)', ~InTrial(p)
  PROVE  /\ run.pc \in TurnsOn(script, "trajectory") /\ experiment \in Shared
         /\ run.at = "going" /\ run'.at = "going" /\ run'.pc = run.pc + 1
         /\ page'[p].track = [trial |-> script[run.pc].value, at |-> "current"]
<1> USE DEF CoreInv, TypeInv
<1>p. p \in Pages /\ page[p] \in PageStates
  BY DEF RoomTyped
<1>1. \E msg, value : Send(msg, value) /\ page'[p] = React(p, msg, value)
  <2>1. ASSUME NEW msg, NEW value, Send(msg, value)
        PROVE  page'[p] = React(p, msg, value)
    BY <1>p, <2>1 DEF Send, Hear
  <2>2. page' # page
    BY DEF InTrial
  <2> QED
    BY <2>1, <2>2, PagesMove
<1>2. ASSUME NEW msg, NEW value, Send(msg, value)
      PROVE  /\ msg = "trajectory" /\ value # 0 /\ experiment \in Shared
             /\ page'[p].track = [trial |-> value, at |-> "current"]
  <2>1. page'[p] = React(p, msg, value)
    BY <1>p, <1>2 DEF Send, Hear
  <2> QED
    BY <1>p, <2>1, ReactKeeps DEF InTrial
<1>3. Sends /\ Send(Ins.msg, Ins.value)
  <2>1. page' # page
    BY DEF InTrial
  <2>2. ~Send("relock", Unlocked)
    <3>1. Send("relock", Unlocked) => "relock" = "trajectory"
      BY <1>2
    <3> QED
      BY <3>1
  <2>3. ~Send("complete", TRUE)
    <3>1. Send("complete", TRUE) => "complete" = "trajectory"
      BY <1>2
    <3> QED
      BY <3>1
  <2> QED
    BY <2>1, <2>2, <2>3, PagesMove
<1>4. /\ Running /\ Ins = script[run.pc] /\ run.pc \in 1 .. Len(script)
      /\ Ins.do \in {"send", "set", "offer"} /\ run'.pc = run.pc + 1 /\ run'.at = run.at
  BY <1>3, ScriptShape DEF Sends, Doing, Running, Ins, Step, Go, RunTyped
<1>5. run.pc \in TurnsOn(script, "trajectory")
  BY <1>2, <1>3, <1>4 DEF TurnsOn, Said, Rest
<1>6. run.at = "going"
  <2>1. Closes(script, run.pc) => run.pc \notin TurnsOn(script, "trajectory")
    BY <1>4, ScriptShape DEF Bounded, Rest
  <2> QED
    BY <1>4, <1>5, <2>1 DEF PlaceInv, Running
<1> QED
  BY <1>2, <1>3, <1>4, <1>5, <1>6

\* Every step keeps TrackedInv.
LEMMA TrackedStep ==
  ASSUME CoreInv, TrackedInv, Next
  PROVE  TrackedInv'
<1> USE DEF CoreInv
<1>s. script' = script /\ experiment' = experiment /\ Len(script) \in Nat
  BY RulesStay, Numbers, ScriptShape DEF TypeInv, rules
<1> SUFFICES ASSUME ~aborted', ~disrupted', NEW p \in present', InTrial(p)'
             PROVE  \E i \in 1 .. Len(script) : TracksAt(p, i)'
  BY <1>s DEF TrackedInv
<1>1. ~disrupted /\ handler.at = 0
  BY Moves DEF Apart, Losing, Withdrawing, Handles, Ends, HandlerInv, TypeInv, HandlerTyped
<1>2. ~aborted
  BY AbortOnly DEF OperatorStops, StopAgent, HandlerEnds
<1>3. p \in present /\ p \in Pages
  BY Leavers DEF TypeInv, RoomTyped
<1>4. InTrial(p) => \E i \in 1 .. Len(script) : TracksAt(p, i)
  BY <1>1, <1>2, <1>3 DEF TrackedInv
<1>5. CASE Still
  <2>1. page'[p].track = page[p].track \/ TrackDone(p)
    BY <1>1, <1>3, <1>5, TrackOnly
  <2>2. ~TrackDone(p)
    <3>1. ASSUME TrackDone(p) PROVE page'[p].track.at = "done"
      <4>1. page[p] \in PageStates
        BY <1>3 DEF TypeInv, RoomTyped
      <4> DEFINE ends == [page[p] EXCEPT !.track.at = "done"]
      <4>2. ends.track.at = "done" /\ ends \in PageStates
        <5>1. page[p].track \in Tracks
          BY <4>1 DEF PageStates
        <5>2. [page[p].track EXCEPT !.at = "done"] \in Tracks /\ [page[p].track EXCEPT !.at = "done"].at = "done"
          BY <5>1 DEF Tracks
        <5> QED
          BY <4>1, <5>2 DEF PageStates
      <4>3. page'[p] = ends \/ \E q : page'[p] = [ends EXCEPT !.virtual = FALSE, !.locked = FALSE, !.ask = q]
        BY <1>3, <3>1 DEF TrackDone, Becomes, TypeInv, RoomTyped
      <4> HIDE DEF ends
      <4> QED
        BY <4>2, <4>3 DEF PageStates
    <3> QED
      BY <3>1 DEF InTrial
  <2>3. PICK i \in 1 .. Len(script) : TracksAt(p, i)
    BY <1>4, <2>1, <2>2 DEF InTrial
  <2>4. p \in completions' => p \in completions
    BY <1>3, <1>5, <2>2, CompletionsGrow
  <2>5. TracksAt(p, i)'
    BY <1>s, <1>5, <2>1, <2>2, <2>3, <2>4 DEF TracksAt, Still
  <2> QED
    BY <2>5
<1>6. CASE ~Still /\ InTrial(p)
  <2>1. PICK i \in 1 .. Len(script) : TracksAt(p, i)
    BY <1>4, <1>6
  <2>2. /\ script[i].do = "completions" /\ run.at = "going" /\ run.pc \in i - 2 .. i
        /\ script[i - 1].do = "forget" /\ script[i - 2].do = "try"
        /\ run.pc \in 1 .. Len(script) /\ Running /\ Ins = script[run.pc]
    <3>1. script[i].do = "completions" /\ run.at = "going" /\ run.pc \in i - 2 .. i
      BY <2>1 DEF TracksAt
    <3>2. /\ script[i - 1].do = "forget" /\ script[i - 2].do = "try"
          /\ run.pc \in 1 .. Len(script)
      BY <3>1, TrackingPlace DEF TypeInv
    <3> QED
      BY <1>s, <3>1, <3>2 DEF Running, Ins
  <2>3. CASE run.pc = i
    <3>1. p \notin completions /\ Ins.do = "completions"
      BY <2>1, <2>2, <2>3 DEF TracksAt
    <3>2. WaitEnds \/ WaitBreaks \/ WaitTimesOut
      BY <1>6, <2>2, <3>1, Executes
    <3>3. ~WaitBreaks /\ ~WaitTimesOut
      <4>1. \A why, who : ~LosesParticipant(why, who)
        BY <1>1, <1>2 DEF LosesParticipant
      <4> QED
        BY <3>1, <4>1 DEF WaitBreaks, WaitTimesOut
    <3>4. Everyone(completions)
      BY <1>2, <3>1, <3>2, <3>3 DEF WaitEnds, Polled
    <3>5. completions \subseteq Pages \ {p}
      BY <3>1 DEF TypeInv, ReportsTyped
    <3>6. IsFiniteSet(Pages \ {p}) /\ Cardinality(Pages \ {p}) = 1
      <4>1. IsFiniteSet(Pages) /\ Cardinality(Pages) = 2 /\ p \in Pages
        BY <1>3, SessionAssumption
      <4> QED
        BY <4>1, FS_RemoveElement
    <3>7. Cardinality(completions) <= 1
      BY <3>5, <3>6, FS_Subset
    <3>8. Cardinality(completions) \in Nat
      BY <3>5, <3>6, FS_Subset, FS_CardinalityType
    <3> QED
      BY <3>4, <3>7, <3>8 DEF Everyone
  <2>4. CASE run.pc = i - 2 \/ run.pc = i - 1
    <3>1. Ins.do \in {"try", "forget"} /\ (run.pc = i - 1 => Ins.do = "forget")
      BY <2>2, <2>4
    <3>2. Block
      BY <1>6, <2>2, <3>1, Executes
    <3>3. Step /\ page' = page /\ (Ins.do = "forget" => completions' = {})
      BY <3>1, <3>2 DEF Block, Doing
    <3>4. run'.pc = run.pc + 1 /\ run'.at = "going"
      BY <2>2, <3>3 DEF Step, Go, TypeInv, RunTyped
    <3>5. TracksAt(p, i)'
      <4>1. run'.pc \in i - 2 .. i /\ (run'.pc = i => run.pc = i - 1)
        BY <2>2, <2>4, <3>4
      <4> QED
        BY <1>s, <2>1, <3>1, <3>3, <3>4, <4>1 DEF TracksAt
    <3> QED
      BY <3>5
  <2> QED
    BY <2>2, <2>3, <2>4
<1>7. CASE ~Still /\ ~InTrial(p)
  <2>1. /\ run.pc \in TurnsOn(script, "trajectory") /\ experiment \in Shared
        /\ run'.at = "going" /\ run'.pc = run.pc + 1
        /\ page'[p].track = [trial |-> script[run.pc].value, at |-> "current"]
    BY <1>3, <1>7, TrackingStarts
  <2>n. run.pc \in Nat /\ run.pc + 3 \in Nat /\ run'.pc \in Nat
    BY <2>1, ScriptShape DEF TypeInv, RunTyped
  <2>2. PICK i \in 1 .. Len(script) :
           /\ i = run.pc + 3 /\ script[i].do = "completions" /\ script[i].trial = script[run.pc].value
    <3>1. Followed(script)
      BY <2>1, MessageShape DEF TypeInv
    <3>2. /\ run.pc + 3 <= Len(script) /\ script[run.pc + 3].do = "completions"
          /\ script[run.pc + 3].trial = script[run.pc].value
      BY <2>1, <3>1 DEF Followed
    <3>3. run.pc + 3 \in 1 .. Len(script)
      BY <1>s, <2>n, <3>2
    <3> QED
      BY <3>2, <3>3
  <2>3. run'.pc \in i - 2 .. i /\ run'.pc # i
    <3>1. i - 2 = run.pc + 1 /\ i \in Nat /\ i # run.pc + 1
      BY <2>n, <2>2
    <3>2. run'.pc = run.pc + 1
      BY <2>1
    <3>3. run.pc + 1 \in run.pc + 1 .. i
      BY <2>n, <2>2
    <3> QED
      BY <3>1, <3>2, <3>3
  <2>4. TracksAt(p, i)'
    BY <1>s, <2>1, <2>2, <2>3 DEF TracksAt
  <2> QED
    BY <2>4
<1> QED
  BY <1>5, <1>6, <1>7

\* While a page is at the completions of a trial, the recorder is on for it.
LEMMA TrackedLive ==
  ASSUME TypeInv, GoingInv, LiveInv, NEW p \in Pages, NEW i \in 1 .. Len(script), TracksAt(p, i),
         ~aborted, ~disrupted, "reload" \notin Troubles
  PROVE  page[p].track.trial \in {admin.on, admin.timer}
<1> DEFINE trial == script[i].trial
<1>1. Live
  BY DEF Live, RunsOn, GoingInv, TracksAt
<1>2. /\ Len(script) \in Nat /\ i \in Nat /\ run.pc \in Nat /\ i > 3 /\ run.pc \in i - 2 .. i
      /\ script[i - 1].do = "forget" /\ script[i - 2].do = "try"
      /\ script[i - 3] = [do |-> "send", msg |-> "trajectory", value |-> trial]
      /\ trial \in Trials /\ experiment \in Shared
  BY ScriptShape DEF TypeInv, Ordered, Typed, TracksAt
<1>3. i - 3 \in TurnsOn(script, "trajectory")
  <2>1. i - 3 \in 1 .. Len(script) /\ trial # 0
    BY <1>2, Numbers
  <2> QED
    BY <1>2, <2>1 DEF TurnsOn, Said, Rest
<1>4. During(script, i - 3, trial)
  <2>1. Followed(script) /\ script[i - 3].value = trial
    BY <1>2, MessageShape DEF TypeInv
  <2> QED
    BY <1>3, <2>1 DEF Followed
<1>5. PICK k \in 1 .. i - 3 : script[k].do = "record" /\ script[k].trial = trial
                              /\ \A q \in k .. i - 3 : script[q].do # "stop"
  BY <1>4 DEF During
<1>6. Open(script, k, run.pc)
  <2>1. k \in 1 .. run.pc - 1
    BY <1>2, <1>5
  <2>2. \A q \in k .. run.pc - 1 : q \in k .. i - 3 \/ q = i - 2 \/ q = i - 1
    BY <1>2, <1>5
  <2>3. \A q \in k .. run.pc - 1 : script[q].do # "stop"
    BY <1>2, <1>5, <2>2
  <2> QED
    BY <1>5, <2>1, <2>3 DEF Open, Starts, Ended
<1>7. trial = Current
  BY <1>1, <1>5, <1>6 DEF LiveInv
<1> QED
  BY <1>7 DEF Current, TracksAt

\* Whatever the pages report and when, no page tracks a target that is not being
\* recorded: a trial goes on for both participants until the completions of both
\* have come (waitForSharedTrackingCompletions, agent.ts), and only then its
\* recording stops.
THEOREM TrackedIsRecorded == Spec => []TrackingIsRecorded
<1> DEFINE Inv == CoreInv /\ StopInv /\ GoingInv /\ LiveInv /\ TrackedInv
<1>1. Init => Inv
  <2> SUFFICES ASSUME Init PROVE Inv
    OBVIOUS
  <2>1. /\ run.pc = 1 /\ status = "running" /\ aborted = FALSE
        /\ \A p \in Pages : page[p].track.at = "idle"
    BY DEF Init
  <2>2. CoreInv
    BY CoreStart
  <2>3. \A k \in Nat : ~Open(script, k, run.pc)
    BY <2>1 DEF Open, Starts
  <2>4. \A p \in present : ~InTrial(p)
    BY <2>1, <2>2 DEF InTrial, CoreInv, TypeInv, RoomTyped
  <2> QED
    BY <2>1, <2>2, <2>3, <2>4 DEF StopInv, GoingInv, LiveInv, TrackedInv
<1>2. Inv /\ [Next]_vars => Inv'
  <2> SUFFICES ASSUME Inv, [Next]_vars PROVE Inv'
    OBVIOUS
  <2>1. CASE Next
    BY <2>1, CoreStep, StopStep, GoingStep, LiveStep, TrackedStep DEF CoreInv
  <2>2. CASE UNCHANGED vars
    <3>1. UNCHANGED <<run, script, status, aborted, admin, disrupted, mishaps, page, present, completions>>
      BY <2>2 DEF vars, session, rules, agentVars, recorderVars, historyVars, roomVars, reportVars
    <3>2. UNCHANGED <<RunsOn, Troubles, Live, Current>>
      BY <3>1 DEF RunsOn, Troubles, Live, Current
    <3>3. StopInv' /\ GoingInv' /\ LiveInv'
      BY <3>1, <3>2 DEF StopInv, GoingInv, LiveInv
    <3>4. TrackedInv'
      BY <3>1 DEF TrackedInv, InTrial, TracksAt
    <3> QED
      BY <2>2, <3>3, <3>4, CoreStutter
  <2> QED
    BY <2>1, <2>2
<1>3. Inv => TrackingIsRecorded
  <2> SUFFICES ASSUME Inv, NEW p \in present \ hung, InTrial(p), ~aborted, ~disrupted, ~Happened({"reload"})
               PROVE  page[p].track.at = "current" /\ page[p].track.trial \in {admin.on, admin.timer}
    BY DEF TrackingIsRecorded, InTrial
  <2>1. PICK i \in 1 .. Len(script) : TracksAt(p, i)
    BY DEF TrackedInv
  <2>2. p \in Pages /\ TypeInv
    BY DEF CoreInv, TypeInv, RoomTyped
  <2>3. "reload" \notin Troubles
    BY DEF Happened, Troubles
  <2> QED
    BY <2>1, <2>2, <2>3, TrackedLive DEF TracksAt
<1> HIDE DEF Inv
<1> QED
  BY <1>1, <1>2, <1>3, PTL DEF Spec

-----------------------------------------------------------------------------
(* What the room was told. *)

\* What is on now: on the stage, and of the loops of the admin's page.
Now(msg) == CASE msg = "target" -> stage.target
              [] msg = "shared" -> stage.shared
              [] msg = "trajectory" -> admin.trajectory
              [] msg = "detector" -> admin.detector
Up(msg) == Now(msg) # Rest[msg]
StageTyped == DOMAIN stage = {"target", "shared", "display", "mode", "notice"}
\* Before the run's instruction it was turned on, and not off since.
Lit(msg) == Since(TurnsOn(script, msg), TurnsOff(script, msg), run.pc)

\* What a message turns on or off.
LEMMA SendTells ==
  ASSUME RecorderTyped, StageTyped, NEW said, NEW value, Send(said, value), NEW msg \in DOMAIN Rest
  PROVE  StageTyped' /\ Now(msg)' = IF said = msg THEN value ELSE Now(msg)
<1>m. msg \in {"target", "shared", "trajectory", "detector"}
  BY DEF Rest
<1>1. StageTyped' /\ \A x \in {"target", "shared"} : stage'[x] = IF said = x THEN value ELSE stage[x]
  <2>1. CASE said \in {"target", "shared", "display", "mode"}
    BY <2>1 DEF Send, Show, StageTyped
  <2>2. CASE said \in {"notice", "page"}
    BY <2>2 DEF Send, Show, StageTyped
  <2>3. CASE said \notin {"target", "shared", "display", "mode", "notice", "page"}
    BY <2>3 DEF Send, Show, StageTyped
  <2> QED
    BY <2>1, <2>2, <2>3
<1>2. /\ admin'.trajectory = IF said = "trajectory" THEN value ELSE admin.trajectory
      /\ admin'.detector = IF said = "detector" THEN value ELSE admin.detector
  <2>1. CASE said = "metadata"
    BY <2>1 DEF Send, Note, MetadataHeard, RecorderTyped
  <2>2. CASE said \in {"trajectory", "detector"}
    BY <2>2 DEF Send, Note, TrajectoryHeard, DetectorHeard, RecorderTyped
  <2>3. CASE said \notin {"metadata", "trajectory", "detector"}
    BY <2>3 DEF Send, Note, RecorderTyped
  <2> QED
    BY <2>1, <2>2, <2>3
<1>3. CASE msg \in {"target", "shared"}
  BY <1>1, <1>3 DEF Now
<1>4. CASE msg \in {"trajectory", "detector"}
  BY <1>1, <1>2, <1>4 DEF Now
<1> QED
  BY <1>m, <1>3, <1>4

\* The steps that tell the room something; no other step changes the stage.
Tells == Sends \/ AsksForLocks \/ Completes \/ HandlerSends
LEMMA StageOnly ==
  ASSUME Next, ~Tells, Faulty \subseteq Pages
  PROVE  UNCHANGED stage
<1> USE DEF Tells, vars, session, rules, agentVars, reportVars, roomVars,
            recorderVars, historyVars, agentIdle, waiting, handling, onPage
<1>1. CASE EmptiesInbox \/ HitOrTimeout \/ GateOpens \/ GateStaysShut \/ AsksForStart \/ ManualStart
  BY <1>1 DEF EmptiesInbox, HitOrTimeout, GateOpens, GateStaysShut, AsksForStart, ManualStart
<1>2. CASE EnterRule \/ RulesEnd \/ Checks \/ Block \/ Sleeps
  BY <1>2 DEF EnterRule, RulesEnd, Checks, Block, Sleeps
<1>3. CASE AssignsRoles \/ WaitEnds \/ WaitBreaks \/ WaitTimesOut
  BY <1>3 DEF AssignsRoles, WaitEnds, WaitBreaks, WaitTimesOut
<1>4. CASE LocksReported \/ LocksRecovered \/ LocksBreak \/ UploadsFail \/ UploadsTimeOut
  BY <1>4 DEF LocksReported, LocksRecovered, LocksBreak, UploadsFail, UploadsTimeOut
<1>5. CASE StartsRecording \/ StopsRecording \/ ForgetsRecording \/ SendFails \/ UploadsSettled
  BY <1>5 DEF StartsRecording, StopsRecording, ForgetsRecording, SendFails, UploadsSettled
<1>6. CASE HandlerLists \/ HandlerStops \/ HandlerForgets \/ HandlerEnds
  BY <1>6 DEF HandlerLists, HandlerStops, HandlerForgets, HandlerEnds
<1>7. CASE PageStep \/ SafetyCleanup
  BY <1>7 DEF PageStep, SafetyCleanup, ClickNext, Lock, TrackDone, Reveal, Answer, AnswerFails, Finish
<1>8. CASE Recorder \/ DetectorFires \/ AdminReloads \/ ReportFails \/ Arrives
  BY <1>8 DEF Recorder, TimerFires, UploadEnds, DetectorFires, AdminReloads, ReportFails, Arrives
<1>9. CASE OperatorStops \/ OperatorStarts
           \/ \E p \in Faulty : Esc(p) \/ LockReportLost(p) \/ Leave(p) \/ Hang(p)
  BY <1>9 DEF OperatorStops, OperatorStarts, Esc, LockReportLost, Leave, Hang
<1> QED
  BY <1>1, <1>2, <1>3, <1>4, <1>5, <1>6, <1>7, <1>8, <1>9
  DEF Next, RunStep, Others, Environment, HandlerStep

\* Nor does any other step turn a loop of the admin's page on.
LEMMA LoopsOnly ==
  ASSUME TypeInv, Next, ~Tells
  PROVE  /\ admin'.trajectory \in {admin.trajectory, 0}
         /\ admin'.detector \in {admin.detector, 0}
<1> USE DEF TypeInv, RecorderTyped
<1>1. CASE UNCHANGED admin
  BY <1>1
<1>2. CASE ~Records
  BY <1>1, <1>2, RecordsOnly, Numbers DEF recordingVars
<1>3. CASE ForgetsRecording \/ SendFails \/ UploadsSettled \/ Arrives \/ ReportFails \/ HandlerForgets
           \/ \E p \in Pages : Leave(p)
  BY <1>1, <1>3 DEF ForgetsRecording, SendFails, UploadsSettled, Arrives, ReportFails, HandlerForgets,
                    Leave, recorderVars, waiting
<1>4. CASE StartsRecording
  BY <1>1, <1>4 DEF StartsRecording, HearsStart
<1>5. CASE StopsRecording \/ HandlerStops
  <2>1. UNCHANGED admin \/ HearsStop
    BY <1>5 DEF StopsRecording, HandlerStops, recorderVars
  <2> QED
    BY <1>1, <2>1 DEF HearsStop, StopRecording
<1>6. CASE TimerFires \/ \E t \in Trials : UploadEnds(t)
  BY <1>1, <1>6 DEF TimerFires, UploadEnds, StartRecording
<1>7. CASE DetectorFires
  BY <1>7 DEF DetectorFires
<1>8. CASE AdminReloads
  BY <1>8 DEF AdminReloads, FreshAdmin
<1> QED
  BY <1>2, <1>3, <1>4, <1>5, <1>6, <1>7, <1>8 DEF Records, Tells, Recorder

\* A message of the rules that turns something on or off is sent.
LEMMA SaysIt ==
  ASSUME TypeInv, Sends, NEW msg \in DOMAIN Rest, Ins.msg = msg
  PROVE  /\ run.pc \in Said(script, msg) /\ Ins = script[run.pc] /\ Send(msg, Ins.value)
         /\ run'.pc = run.pc + 1 /\ run'.at = run.at /\ Running
<1>1. /\ run.pc \in 1 .. Len(script) /\ Ins = script[run.pc] /\ Ins.do \in {"send", "set", "offer"}
      /\ run'.pc = run.pc + 1 /\ run'.at = run.at /\ Running
  BY ScriptShape DEF TypeInv, RunTyped, Sends, Doing, Running, Ins, Step, Go
<1>2. Ins.do # "set"
  BY <1>1, ScriptShape DEF TypeInv, Typed, Rest
<1> QED
  BY <1>1, <1>2 DEF Sends, Said

\* It is up because it was turned on, or was up and is not turned off.
LEMMA UpMoves ==
  ASSUME TypeInv, StageTyped, Next, NEW msg \in DOMAIN Rest
  PROVE  /\ StageTyped'
         /\ Up(msg)' => \/ Sends /\ run.pc \in TurnsOn(script, msg)
                        \/ Up(msg) /\ ~(Sends /\ run.pc \in TurnsOff(script, msg))
<1> USE DEF TypeInv
<1>m. msg \in {"target", "shared", "trajectory", "detector"}
  BY DEF Rest
<1>1. CASE ~Tells
  <2>1. stage' = stage
    BY <1>1, StageOnly, Numbers
  <2>2. Now(msg)' \in {Now(msg), Rest[msg]}
    <3>1. CASE msg \in {"target", "shared"}
      BY <2>1, <3>1 DEF Now
    <3>2. CASE msg \in {"trajectory", "detector"}
      BY <1>1, <3>2, LoopsOnly DEF Now, Rest
    <3> QED
      BY <1>m, <3>1, <3>2
  <2> QED
    BY <1>1, <2>1, <2>2 DEF Up, StageTyped, Tells
<1>2. CASE AsksForLocks \/ Completes
  <2>1. \/ UNCHANGED <<stage, admin>>
        \/ Send("relock", Unlocked) \/ Send("complete", TRUE)
    BY <1>2 DEF AsksForLocks, Completes
  <2>2. Now(msg)' = Now(msg) /\ StageTyped'
    <3>1. CASE UNCHANGED <<stage, admin>>
      BY <3>1 DEF Now, StageTyped
    <3>2. ASSUME NEW said \in {"relock", "complete"}, NEW value, Send(said, value)
          PROVE  Now(msg)' = Now(msg) /\ StageTyped'
      BY <1>m, <3>2, SendTells
    <3> QED
      BY <2>1, <3>1, <3>2
  <2>3. ~Sends
    BY <1>2 DEF AsksForLocks, Completes, Sends, Doing
  <2> QED
    BY <2>2, <2>3 DEF Up
<1>3. CASE HandlerSends
  <2>1. \/ UNCHANGED <<stage, admin>>
        \/ \E i \in 1 .. 5 : Send(SwitchedOff[i][1], SwitchedOff[i][2])
    <3>1. handler.at \in 2 .. 6 => handler.at - 1 \in 1 .. 5
      OBVIOUS
    <3> QED
      BY <1>3, <3>1 DEF HandlerSends
  <2>2. Now(msg)' \in {Now(msg), Rest[msg]} /\ StageTyped'
    <3>1. CASE UNCHANGED <<stage, admin>>
      BY <3>1 DEF Now, StageTyped
    <3>2. ASSUME NEW i \in 1 .. 5, Send(SwitchedOff[i][1], SwitchedOff[i][2])
          PROVE  Now(msg)' \in {Now(msg), Rest[msg]} /\ StageTyped'
      <4>1. SwitchedOff[i][1] = msg => SwitchedOff[i][2] = Rest[msg]
        <5>1. Rest["target"] = FALSE /\ Rest["shared"] = "off"
          BY DEF Rest
        <5>2. CASE i = 1
          BY <1>m, <5>1, <5>2 DEF SwitchedOff
        <5>3. CASE i = 2
          BY <1>m, <5>1, <5>3 DEF SwitchedOff
        <5>4. CASE i \in 3 .. 5
          <6>1. SwitchedOff[3][1] = "unlock" /\ SwitchedOff[4][1] = "virtual" /\ SwitchedOff[5][1] = "hide"
            BY DEF SwitchedOff
          <6> QED
            BY <1>m, <5>4, <6>1
        <5> QED
          BY <5>2, <5>3, <5>4
      <4> QED
        BY <3>2, <4>1, SendTells
    <3> QED
      BY <2>1, <3>1, <3>2
  <2>3. ~Sends
    <3>1. Sends => ~Still
      BY StepMoves DEF Sends
    <3>2. Still
      BY <1>3 DEF HandlerSends, Still
    <3> QED
      BY <3>1, <3>2
  <2> QED
    BY <2>2, <2>3 DEF Up
<1>4. CASE Sends
  <2>1. CASE Ins.msg = msg
    <3>1. run.pc \in Said(script, msg) /\ Ins = script[run.pc] /\ Send(msg, Ins.value)
      BY <1>4, <2>1, SaysIt
    <3>2. StageTyped' /\ Now(msg)' = Ins.value
      BY <3>1, SendTells
    <3>3. run.pc \in TurnsOff(script, msg) => Ins.value = Rest[msg]
      BY <3>1 DEF TurnsOff
    <3>4. run.pc \in TurnsOn(script, msg) <=> Ins.value # Rest[msg]
      BY <3>1 DEF TurnsOn
    <3> QED
      BY <1>4, <3>2, <3>4 DEF Up
  <2>2. CASE Ins.msg # msg
    <3>1. UNCHANGED <<stage, admin>> \/ Send(Ins.msg, Ins.value)
      BY <1>4 DEF Sends
    <3>2. StageTyped' /\ Now(msg)' = Now(msg)
      <4>1. CASE UNCHANGED <<stage, admin>>
        BY <4>1 DEF Now, StageTyped
      <4>2. CASE Send(Ins.msg, Ins.value)
        BY <2>2, <4>2, SendTells
      <4> QED
        BY <3>1, <4>1, <4>2
    <3>3. run.pc \notin TurnsOff(script, msg)
      BY <2>2 DEF TurnsOff, Said, Ins
    <3> QED
      BY <3>2, <3>3 DEF Up
  <2> QED
    BY <2>1, <2>2
<1> QED
  BY <1>1, <1>2, <1>3, <1>4 DEF Tells

\* The finally block of a wait for completions is the next instruction.
LEMMA CompletionsFinally ==
  ASSUME TypeInv, run.pc \in 1 .. Len(script), Ins.do = "completions"
  PROVE  Finally = run.pc + 1 /\ ~Closes(script, run.pc)
<1>1. /\ Ins = script[run.pc] /\ run.pc \in Nat /\ run.pc + 1 \in run.pc .. Len(script)
      /\ script[run.pc + 1].do = "finally" /\ ~Closes(script, run.pc)
  <2>1. Ordered(script) /\ Bounded(script) /\ Len(script) \in Nat /\ Ins = script[run.pc]
    BY ScriptShape DEF TypeInv, Ins
  <2>2. run.pc < Len(script) /\ script[run.pc + 1].do = "finally"
    BY <2>1 DEF Ordered
  <2>3. ~Closes(script, run.pc)
    BY <2>1 DEF Bounded
  <2> QED
    BY <2>1, <2>2, <2>3
<1>2. run.pc + 1 \in Leads(script, run.pc)
  <2>1. \A q \in run.pc .. run.pc + 1 - 1 : q = run.pc
    BY <1>1
  <2> QED
    BY <1>1, <2>1 DEF Leads
<1>3. ASSUME NEW f \in Leads(script, run.pc)
      PROVE  f = run.pc + 1
  <2>1. /\ f \in run.pc .. Len(script) /\ script[f].do = "finally"
        /\ \A q \in run.pc .. f - 1 : script[q].do \notin {"try", "rule", "finally"}
    BY DEF Leads
  <2>2. f # run.pc /\ f \in Nat /\ run.pc <= f
    BY <1>1, <2>1
  <2>3. run.pc + 1 \notin run.pc .. f - 1
    BY <1>1, <2>1
  <2> QED
    BY <1>1, <2>2, <2>3
<1> QED
  BY <1>1, <1>2, <1>3 DEF Finally

\* A message that fails is a fault.
LEMMA FailureTold ==
  ASSUME TypeInv, Next, "send" \notin Troubles'
  PROVE  ~SendFails
BY MishapCounts DEF SendFails, TypeInv

\* Where something is on, the run goes on, sets itself aside, or continues with
\* the finally block, which is next.
LEMMA BlocksHold ==
  ASSUME TypeInv, HandlerInv, PlaceInv, Next, "send" \notin Troubles', run.at # "over",
         run.pc \in 1 .. Len(script), script[run.pc].do \in Blocks
  PROVE  run'.at # "over" /\ (run'.pc = run.pc \/ (Running /\ ~Still /\ run'.pc = run.pc + 1)
                              \/ (run.at = "handling" /\ run'.pc = run.pc + 1))
<1> USE DEF TypeInv, RunTyped
<1>1. Ins = script[run.pc] /\ run.pc \in Nat /\ Len(script) \in Nat /\ run.pc <= Len(script)
  BY ScriptShape DEF Ins
<1>2. CASE Still
  BY <1>2 DEF Still
<1>3. CASE ~Still /\ Running
  <2>1. ~SendFails
    BY FailureTold
  <2>2. CASE Ins.do = "completions"
    <3>1. run.at = "going" /\ Finally = run.pc + 1
      BY <1>1, <1>3, <2>2, CompletionsFinally DEF PlaceInv, Running
    <3>2. WaitEnds \/ WaitBreaks \/ WaitTimesOut
      BY <1>3, <2>2, Executes
    <3>3. Step \/ \E why, who : LosesParticipant(why, who)
      BY <3>2 DEF WaitEnds, WaitBreaks, WaitTimesOut
    <3>4. CASE Step
      BY <1>1, <1>3, <3>1, <3>4 DEF Step, Go
    <3>5. ASSUME NEW why, NEW who, LosesParticipant(why, who)
          PROVE  \/ run' = [run EXCEPT !.at = "handling"]
                 \/ run' = [pc |-> run.pc + 1, at |-> "throwing"]
      BY <1>1, <3>1, <3>5 DEF LosesParticipant, Throw
    <3> QED
      BY <1>1, <1>3, <3>3, <3>4, <3>5
  <2>3. CASE Ins.do # "completions"
    <3>1. Sends \/ Block \/ Sleeps \/ EmptiesInbox \/ HitOrTimeout
      BY <1>1, <1>3, <2>1, <2>3, Executes DEF Blocks
    <3>2. Block => Step
      BY <1>1 DEF Block, Doing, Blocks
    <3>3. Step
      BY <3>1, <3>2 DEF Sends, Sleeps, EmptiesInbox, HitOrTimeout
    <3> QED
      BY <1>1, <1>3, <3>3 DEF Step, Go, Running
  <2> QED
    BY <2>2, <2>3
<1>4. CASE ~Still /\ ~Running
  <2>1. run.at = "handling"
    BY <1>1, <1>4 DEF Running
  <2>2. Returning
    BY <1>4, <2>1, RunMoves, Numbers DEF Onwards, Jumping, Thrown, Leaving, Losing, Doing
  <2>3. Ins.do = "completions"
    BY <1>1, <2>1 DEF PlaceInv, Waits, Blocks
  <2>4. run' = [pc |-> run.pc + 1, at |-> "throwing"]
    BY <1>1, <2>2, <2>3, CompletionsFinally DEF Returning, HandlerEnds
  <2> QED
    BY <1>1, <2>1, <2>4
<1> QED
  BY <1>2, <1>3, <1>4

\* What the admin's page has running was turned on by the rules, which turn it off
\* before they are over.
LoopInv == "send" \notin Troubles =>
    \A msg \in {"trajectory", "detector"} : Up(msg) => run.at # "over" /\ Lit(msg)

\* Every step keeps LoopInv.
LEMMA LoopStep ==
  ASSUME CoreInv, StageTyped, LoopInv, Next
  PROVE  LoopInv'
<1> USE DEF CoreInv, TypeInv
<1>s. script' = script /\ Len(script) \in Nat /\ run.pc \in Nat /\ run.pc \in 1 .. Len(script) + 1
  BY RulesStay, Numbers, ScriptShape DEF rules, RunTyped
<1> SUFFICES ASSUME "send" \notin Troubles', NEW msg \in {"trajectory", "detector"}, Up(msg)'
             PROVE  run'.at # "over" /\ Lit(msg)'
  BY DEF LoopInv
<1> DEFINE on == TurnsOn(script, msg)
           off == TurnsOff(script, msg)
<1>m. msg \in DOMAIN Rest /\ Enclosed(script)
  BY MessageShape DEF Rest
<1>o. on \in SUBSET Nat /\ off \in SUBSET Nat /\ on \subseteq Said(script, msg) /\ off \subseteq Said(script, msg)
  BY SaidIn
<1>t. "send" \notin Troubles
  BY MishapType
<1>1. CASE Sends /\ run.pc \in TurnsOn(script, msg)
  <2>1. /\ Ins.msg = msg /\ run'.pc = run.pc + 1 /\ run'.at = run.at /\ Running
    <3>1. Ins.msg = msg
      BY <1>1, <1>o DEF Said, Ins
    <3> QED
      BY <1>1, <1>m, <3>1, SaysIt
  <2>2. Since(on, off, run.pc + 1)
    <3>1. run.pc \in on /\ run.pc < run.pc + 1
      BY <1>s, <1>1
    <3>2. \A q \in off : ~(run.pc < q /\ q < run.pc + 1)
      BY <1>s, <1>o
    <3> QED
      BY <3>1, <3>2 DEF Since
  <2> QED
    BY <1>s, <2>1, <2>2 DEF Lit, Running
<1>2. CASE Up(msg) /\ ~(Sends /\ run.pc \in TurnsOff(script, msg))
  <2>1. run.at # "over" /\ Since(on, off, run.pc)
    BY <1>2, <1>t DEF LoopInv, Lit
  <2>2. run.pc \in 1 .. Len(script) /\ script[run.pc].do \in Blocks
    <3>1. Within(script, on, off, Blocks)
      BY <1>m DEF Enclosed
    <3> QED
      BY <1>s, <2>1, <3>1 DEF Within
  <2>3. run'.at # "over" /\ (run'.pc = run.pc \/ (Running /\ ~Still /\ run'.pc = run.pc + 1)
                             \/ (run.at = "handling" /\ run'.pc = run.pc + 1))
    BY <2>1, <2>2, BlocksHold
  <2>4. run'.pc # run.pc => run.pc \notin off
    <3> SUFFICES ASSUME run'.pc # run.pc, run.pc \in off PROVE FALSE
      OBVIOUS
    <3>1. Ins = script[run.pc] /\ Ins.do \in {"send", "set", "offer"} /\ Ins.msg = msg
      BY <1>o DEF Said, Ins
    <3>2. Ins.do \in {"send", "offer"}
      BY <2>2, <3>1 DEF Blocks
    <3>3. Running
      BY <2>3, <3>2 DEF PlaceInv, Waits
    <3>4. ~Still
      BY DEF Still
    <3>5. Sends
      BY <3>2, <3>3, <3>4, Executes, FailureTold
    <3> QED
      BY <1>2, <3>5
  <2>5. CASE run'.pc = run.pc
    BY <1>s, <2>1, <2>3, <2>5 DEF Lit
  <2>6. CASE run'.pc = run.pc + 1
    <3>1. run.pc \notin off /\ \A q \in run.pc + 1 .. run.pc + 1 - 1 : q \notin off
      BY <1>s, <2>4, <2>6
    <3>2. Since(on, off, run.pc + 1)
      BY <1>s, <1>o, <2>1, <3>1, SinceOn
    <3> QED
      BY <1>s, <2>3, <2>6, <3>2 DEF Lit
  <2> QED
    BY <2>3, <2>5, <2>6
<1> QED
  BY <1>1, <1>2, <1>m, UpMoves

\* In a paired task the target and the shared cursor are on only where the rules
\* have them on.
LitInv == experiment \in Shared /\ run.at = "going" =>
              \A msg \in {"target", "shared"} : Up(msg) => Lit(msg)

\* Where the stage of a paired task can be lit.
StagePlace(msg) == Blocks \cup {"leave", "end"} \cup IF msg = "shared" THEN {"check", "roles"} ELSE {}
LEMMA StageLit ==
  ASSUME RulesTyped, experiment \in Shared, NEW msg \in {"target", "shared"}
  PROVE  Within(script, TurnsOn(script, msg), TurnsOff(script, msg), StagePlace(msg))
<1>1. Lowered(script)
  BY MessageShape
<1>2. StagePlace("target") = Blocks \cup {"leave", "end"}
  BY DEF StagePlace
<1>3. StagePlace("shared") = Blocks \cup {"leave", "end", "check", "roles"}
  BY DEF StagePlace
<1> QED
  BY <1>1, <1>2, <1>3 DEF Lowered

\* Every step keeps LitInv.
LEMMA LitStep ==
  ASSUME CoreInv, StageTyped, LitInv, Next
  PROVE  LitInv'
<1> USE DEF CoreInv, TypeInv
<1>s. script' = script /\ experiment' = experiment
  BY RulesStay, Numbers DEF rules
<1> SUFFICES ASSUME experiment \in Shared, run'.at = "going", NEW msg \in {"target", "shared"}, Up(msg)'
             PROVE  Since(TurnsOn(script, msg), TurnsOff(script, msg), run'.pc)
  BY <1>s DEF LitInv, Lit
<1> DEFINE on == TurnsOn(script, msg)
           off == TurnsOff(script, msg)
<1>m. msg \in DOMAIN Rest
  BY DEF Rest
<1>o. on \in SUBSET Nat /\ off \in SUBSET Nat /\ on \subseteq Said(script, msg) /\ off \subseteq Said(script, msg)
  BY SaidIn
<1>g. run.at = "going"
  BY GoingOn
<1>1. CASE Sends /\ run.pc \in on
  <2>1. Ins.do = "send" /\ ~Still
    <3>1. Ins.do \in {"send", "set", "offer"} /\ run.pc \in 1 .. Len(script) /\ Ins.msg = msg
      BY <1>1, <1>o DEF Said, Ins
    <3>2. Ins.do = "send"
      BY <3>1, ScriptShape DEF Typed, Ins
    <3> QED
      BY <1>1, <3>2, StepMoves DEF Sends
  <2> HIDE DEF on, off
  <2>2. Since(on, off, run'.pc)
    BY <1>1, <1>o, <2>1, TurnedOn
  <2> QED
    BY <2>2 DEF on, off
<1>2. CASE Up(msg) /\ ~(Sends /\ run.pc \in off)
  <2>1. Since(on, off, run.pc)
    BY <1>2, <1>g DEF LitInv, Lit
  <2>2. Still \/ run.pc \notin off
    <3> SUFFICES ASSUME ~Still, run.pc \in off PROVE FALSE
      OBVIOUS
    <3>1. Running /\ run.pc \in 1 .. Len(script) /\ Ins = script[run.pc]
      BY GoesTo
    <3>2. Ins.do \in {"send", "set", "offer"} /\ Ins.msg = msg
      BY <1>o, <3>1 DEF Said
    <3>3. Ins.do = "send"
      BY <3>1, <3>2, ScriptShape DEF Typed
    <3>4. SendFails
      BY <1>2, <3>1, <3>3, Executes
    <3>5. Throw
      BY <3>3, <3>4 DEF SendFails, Doing
    <3> QED
      BY <3>5 DEF Throw, LeaveRules, RunTyped
  <2>3. Within(script, on, off, StagePlace(msg)) /\ StagePlace(msg) \cap {"locks", "stop", "gate"} = {}
    BY StageLit DEF StagePlace, Blocks
  <2>4. "leave" \in StagePlace(msg) => \E about \in DOMAIN Rest : off \subseteq Said(script, about)
    BY <1>m, <1>o
  <2> HIDE DEF on, off
  <2>5. Since(on, off, run'.pc)
    BY <1>o, <2>1, <2>2, <2>3, <2>4, StaysOn
  <2> QED
    BY <2>5 DEF on, off
<1> QED
  BY <1>1, <1>2, <1>m, UpMoves

\* A run that was left alone goes on where the stage can be lit, unless it was
\* stopped.
LEMMA PlaceGoesOn ==
  ASSUME TypeInv, HandlerInv, Next, "send" \notin Troubles', handler.at = 0, handler'.by = "nobody",
         run.at = "going", run.pc \in 1 .. Len(script),
         script[run.pc].do \in Blocks \cup {"leave", "end", "check", "roles"}
  PROVE  run'.at = "going" \/ (aborted /\ script[run.pc].do = "check")
<1> USE DEF TypeInv, RunTyped
<1>1. Ins = script[run.pc] /\ Running
  BY ScriptShape DEF Ins, Running
<1>2. CASE Still
  BY <1>2 DEF Still
<1>3. CASE ~Still
  <2>1. ~SendFails /\ ~disrupted
    BY FailureTold DEF HandlerInv
  <2>2. ASSUME NEW why, NEW who, ~aborted, LosesParticipant(why, who)
        PROVE  FALSE
    BY <2>1, <2>2 DEF LosesParticipant
  <2>3. \/ Sends \/ Block \/ Sleeps \/ EmptiesInbox \/ HitOrTimeout \/ AssignsRoles
        \/ Checks \/ WaitEnds \/ WaitBreaks \/ WaitTimesOut
    BY <1>1, <1>3, <2>1, Executes DEF Blocks
  <2>4. CASE WaitBreaks \/ WaitTimesOut
    <3>1. Ins.do = "completions"
      BY <1>1, <2>4 DEF WaitBreaks, WaitTimesOut, Doing, Blocks
    <3> QED
      BY <2>2, <2>4, <3>1 DEF WaitBreaks, WaitTimesOut
  <2>5. CASE Block
    BY <1>1, <2>5 DEF Block, Doing, Step, Go
  <2>6. CASE Checks
    BY <1>1, <2>6 DEF Checks, Doing, Step, Go
  <2>7. CASE Sends \/ Sleeps \/ EmptiesInbox \/ HitOrTimeout \/ AssignsRoles \/ WaitEnds
    BY <2>7 DEF Sends, Sleeps, EmptiesInbox, HitOrTimeout, AssignsRoles, WaitEnds, Step, Go
  <2> QED
    BY <2>3, <2>4, <2>5, <2>6, <2>7
<1> QED
  BY <1>2, <1>3

\* Nothing is turned on while the run does not go on.
LEMMA NothingTurnedOn ==
  ASSUME TypeInv, PlaceInv, StageTyped, Next, run.at # "going", NEW msg \in DOMAIN Rest, Up(msg)'
  PROVE  Up(msg)
<1>1. ~(Sends /\ run.pc \in TurnsOn(script, msg))
  <2> SUFFICES ASSUME Sends, run.pc \in TurnsOn(script, msg) PROVE FALSE
    OBVIOUS
  <2>1. run.pc \in 1 .. Len(script)
    BY SaidIn
  <2>2. Closes(script, run.pc)
    BY DEF PlaceInv, Sends, Doing, Running
  <2> QED
    BY <2>1, <2>2, ScriptShape DEF TypeInv, Bounded
<1> QED
  BY <1>1, UpMoves

\* What the handler of a lost participant turns off first.
LEMMA HandlerTurnsOff ==
  ASSUME TypeInv, HandlerInv, StageTyped, Next, "send" \notin Troubles', handler'.at # handler.at, handler.at # 0
  PROVE  /\ handler.at = 1 => handler'.at = 2
         /\ handler.at = 2 => handler'.at = 3 /\ ~Up("target")'
         /\ handler.at = 3 => handler'.at = 4 /\ ~Up("shared")'
<1> USE DEF TypeInv, HandlerTyped, HandlerStates
<1>1. Handles \/ Ends
  BY Moves DEF Apart, Losing, Withdrawing, HandlerInv
<1>2. CASE handler.at = 1
  <2>1. HandlerLists
    BY <1>1, <1>2 DEF Handles, Ends, HandlerSends, HandlerStops, HandlerForgets
  <2> QED
    BY <1>2, <2>1 DEF HandlerLists, NextStep
<1>3. CASE handler.at \in {2, 3}
  <2>1. HandlerSends
    BY <1>1, <1>3 DEF Handles, Ends, HandlerLists, HandlerStops, HandlerForgets
  <2>2. handler'.at = handler.at + 1
    BY <2>1 DEF HandlerSends, NextStep
  <2>3. Send(SwitchedOff[handler.at - 1][1], SwitchedOff[handler.at - 1][2])
    BY <2>1, MishapCounts DEF HandlerSends
  <2>n. /\ Now("target")' = IF SwitchedOff[handler.at - 1][1] = "target" THEN SwitchedOff[handler.at - 1][2]
                            ELSE Now("target")
        /\ Now("shared")' = IF SwitchedOff[handler.at - 1][1] = "shared" THEN SwitchedOff[handler.at - 1][2]
                            ELSE Now("shared")
    <3>1. "target" \in DOMAIN Rest /\ "shared" \in DOMAIN Rest
      BY DEF Rest
    <3> QED
      BY <2>3, <3>1, SendTells
  <2>o. /\ SwitchedOff[1][1] = "target" /\ SwitchedOff[1][2] = Rest["target"]
        /\ SwitchedOff[2][1] = "shared" /\ SwitchedOff[2][2] = Rest["shared"]
    BY DEF SwitchedOff, Rest
  <2>4. CASE handler.at = 2
    <3>1. handler.at - 1 = 1
      BY <2>4
    <3>2. Now("target")' = Rest["target"]
      BY <2>n, <2>o, <3>1
    <3> QED
      BY <2>2, <2>4, <3>2 DEF Up
  <2>5. CASE handler.at = 3
    <3>1. handler.at - 1 = 2
      BY <2>5
    <3>2. Now("shared")' = Rest["shared"]
      BY <2>n, <2>o, <3>1
    <3> QED
      BY <2>2, <2>5, <3>2 DEF Up
  <2> QED
    BY <1>3, <2>4, <2>5
<1> QED
  BY <1>2, <1>3

\* The target is down and the shared cursor gone when the run of a paired task
\* does not go on: the rules had turned them off, or the handler that the run
\* called does.
DownInv == experiment \in Shared /\ "send" \notin Troubles =>
    /\ handler.by = "nobody" /\ run.at # "going" =>
          ~Up("target") /\ ("stop" \in Troubles \/ ~Up("shared"))
    /\ handler.by = "run" => (handler.at >= 3 => ~Up("target")) /\ (handler.at >= 4 => ~Up("shared"))

\* Every step keeps DownInv.
LEMMA DownStep ==
  ASSUME CoreInv, StageTyped, LitInv, DownInv, Next
  PROVE  DownInv'
<1> USE DEF CoreInv, TypeInv
<1>s. script' = script /\ experiment' = experiment /\ Len(script) \in Nat /\ Troubles \subseteq Troubles'
  BY RulesStay, Numbers, ScriptShape, MishapType DEF rules
<1> SUFFICES ASSUME experiment \in Shared, "send" \notin Troubles'
             PROVE  /\ handler'.by = "nobody" /\ run'.at # "going" =>
                          ~Up("target")' /\ ("stop" \in Troubles' \/ ~Up("shared")')
                    /\ handler'.by = "run" => (handler'.at >= 3 => ~Up("target")')
                                              /\ (handler'.at >= 4 => ~Up("shared")')
  BY <1>s DEF DownInv
<1>d. {"target", "shared"} \subseteq DOMAIN Rest /\ "send" \notin Troubles
  BY <1>s DEF Rest
<1>1. ASSUME handler'.by = "nobody", run'.at # "going"
      PROVE  ~Up("target")' /\ ("stop" \in Troubles' \/ ~Up("shared")')
  <2>1. handler.at = 0 /\ handler.by = "nobody"
    <3>1. handler.by = "nobody" => handler.at = 0
      BY DEF HandlerInv
    <3>2. ~Losing /\ ~Withdrawing
      BY <1>1 DEF Losing, Withdrawing
    <3>3. handler'.by = handler.by
      BY <3>2, Moves DEF Apart, Handles, Ends
    <3> QED
      BY <1>1, <3>1, <3>3
  <2>2. CASE run.at # "going"
    BY <1>s, <1>d, <2>1, <2>2, NothingTurnedOn DEF DownInv
  <2>3. CASE run.at = "going"
    <3>1. ASSUME NEW msg \in {"target", "shared"}, Up(msg)'
          PROVE  "stop" \in Troubles /\ msg = "shared"
      <4>1. ~Sends
        BY <1>1, <2>3 DEF Sends, Step, Go, RunTyped
      <4>2. Since(TurnsOn(script, msg), TurnsOff(script, msg), run.pc)
        BY <1>d, <2>3, <3>1, <4>1, UpMoves DEF LitInv, Lit
      <4>3. run.pc \in 1 .. Len(script) /\ script[run.pc].do \in StagePlace(msg)
        <5>1. run.pc \in 1 .. Len(script) + 1
          BY DEF RunTyped
        <5> QED
          BY <1>s, <4>2, <5>1, StageLit DEF Within
      <4>4. script[run.pc].do \in Blocks \cup {"leave", "end", "check", "roles"}
        BY <4>3 DEF StagePlace
      <4>5. aborted /\ script[run.pc].do = "check"
        BY <1>1, <2>1, <2>3, <4>3, <4>4, PlaceGoesOn
      <4>6. "check" \notin StagePlace("target")
        BY DEF StagePlace, Blocks
      <4> QED
        BY <2>1, <4>3, <4>5, <4>6 DEF AbortInv
    <3> QED
      BY <1>s, <3>1
  <2> QED
    BY <2>2, <2>3
<1>2. ASSUME handler'.by = "run"
      PROVE  (handler'.at >= 3 => ~Up("target")') /\ (handler'.at >= 4 => ~Up("shared")')
  <2>1. CASE Losing
    BY <2>1 DEF Losing
  <2>2. CASE ~Losing
    <3>1. handler.by = "run" /\ handler.at \in 1 .. 10 /\ run.at # "going"
      <4>1. handler.by = "run"
        <5>1. ~Withdrawing
          BY <1>2 DEF Withdrawing
        <5> QED
          BY <1>2, <2>2, <5>1, Moves DEF Apart, Handles, Ends
      <4>2. handler.at \in 0 .. 10
        BY DEF HandlerTyped, HandlerStates, Steps
      <4>3. handler.at # 0 /\ run.at # "going"
        BY <4>1 DEF HandlerInv
      <4> QED
        BY <4>1, <4>2, <4>3
    <3>2. (Up("target")' => Up("target")) /\ (Up("shared")' => Up("shared"))
      BY <1>d, <3>1, NothingTurnedOn
    <3>3. CASE handler'.at = handler.at
      BY <1>d, <3>1, <3>2, <3>3 DEF DownInv
    <3>4. CASE handler'.at # handler.at /\ handler.at \in 1 .. 3
      <4>1. CASE handler.at \in 1 .. 2
        BY <3>1, <3>4, <4>1, HandlerTurnsOff
      <4>2. CASE handler.at = 3
        BY <1>d, <3>1, <3>2, <3>4, <4>2, HandlerTurnsOff DEF DownInv
      <4> QED
        BY <3>4, <4>1, <4>2
    <3>5. CASE handler.at \in 4 .. 10
      BY <1>d, <3>1, <3>2, <3>5 DEF DownInv
    <3> QED
      BY <3>1, <3>3, <3>4, <3>5
  <2> QED
    BY <2>1, <2>2
<1> QED
  BY <1>1, <1>2

\* Whichever way a session ends, in a rule, by an exception, by the operator or in
\* the handler of a lost participant, the finally blocks of the rules and the
\* messages of handleSharedParticipantDisconnect() (agent.ts) have taken down what
\* was moving, shown and watched, if no message was refused.
THEOREM NothingIsLeftRunning == Spec => []NothingLeftRunning
<1> DEFINE Inv == CoreInv /\ StageTyped /\ LoopInv /\ LitInv /\ DownInv
<1>1. Init => Inv
  <2> SUFFICES ASSUME Init PROVE Inv
    OBVIOUS
  <2>1. CoreInv
    BY CoreStart
  <2>2. /\ stage.target = FALSE /\ stage.shared = "off" /\ StageTyped
        /\ admin.trajectory = 0 /\ admin.detector = 0
    BY DEF Init, StageTyped, FreshAdmin
  <2>3. \A msg \in {"target", "shared", "trajectory", "detector"} : ~Up(msg)
    <3>1. ~Up("target") /\ ~Up("shared") /\ ~Up("trajectory") /\ ~Up("detector")
      BY <2>2 DEF Up, Now, Rest
    <3> QED
      BY <3>1
  <2>4. handler.at = 0 /\ run.at = "going" /\ handler.by = "nobody"
    BY DEF Init
  <2> QED
    BY <2>1, <2>2, <2>3, <2>4 DEF LoopInv, LitInv, DownInv
<1>2. Inv /\ [Next]_vars => Inv'
  <2> SUFFICES ASSUME Inv, [Next]_vars PROVE Inv'
    OBVIOUS
  <2>1. CASE Next
    <3>1. StageTyped'
      BY <2>1, UpMoves DEF CoreInv, Rest
    <3> QED
      BY <2>1, <3>1, CoreStep, LoopStep, LitStep, DownStep
  <2>2. CASE UNCHANGED vars
    <3>1. UNCHANGED <<run, script, experiment, handler, admin, stage, mishaps>>
      BY <2>2 DEF vars, session, rules, recorderVars, historyVars, roomVars
    <3>2. UNCHANGED Troubles /\ \A msg : Up(msg)' = Up(msg) /\ Lit(msg)' = Lit(msg)
      BY <3>1 DEF Troubles, Up, Now, Lit
    <3> QED
      BY <2>2, <3>1, <3>2, CoreStutter DEF StageTyped, LoopInv, LitInv, DownInv
  <2> QED
    BY <2>1, <2>2
<1>3. Inv => NothingLeftRunning
  <2> SUFFICES ASSUME Inv, run.at = "over", ~Happened({"send"})
               PROVE  /\ admin.trajectory = 0 /\ admin.detector = 0
                      /\ experiment \in Shared /\ handler.by # "report" =>
                             ~stage.target /\ (Happened({"stop"}) \/ stage.shared = "off")
    BY DEF NothingLeftRunning
  <2>1. "send" \notin Troubles /\ ("stop" \in Troubles => Happened({"stop"}))
    BY DEF Happened, Troubles
  <2>2. ~Up("trajectory") /\ ~Up("detector")
    BY <2>1 DEF LoopInv
  <2>3. experiment \in Shared /\ handler.by # "report" => ~Up("target") /\ (Happened({"stop"}) \/ ~Up("shared"))
    <3>1. handler.by = "nobody" \/ handler.by = "run" \/ handler.by = "report"
      BY DEF CoreInv, TypeInv, HandlerTyped, HandlerStates
    <3>2. handler.by = "run" => handler.at = 10
      BY DEF CoreInv, HandlerInv
    <3> QED
      BY <2>1, <3>1, <3>2 DEF DownInv
  <2>4. /\ Now("trajectory") = admin.trajectory /\ Now("detector") = admin.detector
        /\ Now("target") = stage.target /\ Now("shared") = stage.shared
    BY DEF Now
  <2> QED
    BY <2>2, <2>3, <2>4 DEF Up, Rest
<1> HIDE DEF Inv
<1> QED
  BY <1>1, <1>2, <1>3, PTL DEF Spec

-----------------------------------------------------------------------------
(* No question covers the play. *)

\* A page asks, or is about to.
Busy(me) == me.reveal # 0 \/ me.ask.at = "shown"
\* What a step does to the tracking of a page and its question.
TrackChanges(p, new) ==
    \/ new.track = page[p].track /\ ~(Sends /\ p \in present /\ run.pc \in TurnsOff(script, "shared")
                                            /\ new.track.at = "current")
    \/ new.track.at \in {"orphan", "done"}
    \/ /\ Sends /\ run.pc \in TurnsOn(script, "trajectory") /\ experiment \in Shared
       /\ new.track = [trial |-> script[run.pc].value, at |-> "current"]
AskChanges(p, new) ==
    Busy(new) => \/ Busy(page[p]) /\ ~(Sends /\ p \in present /\ run.pc \in Said(script, "hide"))
                 \/ Sends /\ run.pc \in Said(script, "ask")
                 \/ Still /\ TrackDone(p) /\ page[p].track.at = "current" /\ Asks(page[p].track.trial)
                    /\ new.track.at = "done"
                 \/ AnswerFails(p)
SentChanges(p, new) == new.ask.at = "sent" => new.ask = page[p].ask \/ (Answer(p) /\ new.ask.trial = page[p].ask.trial)
Changes(p, new) == TrackChanges(p, new) /\ AskChanges(p, new) /\ SentChanges(p, new)

\* A page whose task stays the same, where no message of the rules is sent.
LEMMA SameTask ==
  ASSUME NEW p \in Pages, NEW new, new.track = page[p].track, new.ask = page[p].ask, new.reveal = page[p].reveal,
         ~Sends \/ p \notin present \/ run.pc \notin Said(script, "hide") \cup TurnsOff(script, "shared")
  PROVE  Changes(p, new)
BY DEF Changes, TrackChanges, AskChanges, SentChanges, Busy

\* What a message of the rules changes.
LEMMA SendsChange ==
  ASSUME TypeInv, Sends, NEW p \in Pages
  PROVE  Changes(p, page'[p])
<1> USE DEF TypeInv, RoomTyped
<1>1. /\ run.pc \in 1 .. Len(script) /\ Ins = script[run.pc] /\ Ins.do \in {"send", "set", "offer"}
  BY ScriptShape DEF RunTyped, Sends, Doing, Running, Ins
<1>2. /\ run.pc \in Said(script, "hide") => Ins.msg = "hide"
      /\ run.pc \in TurnsOff(script, "shared") => Ins.msg = "shared" /\ Ins.value = "off"
      /\ Ins.msg = "ask" => run.pc \in Said(script, "ask")
      /\ Ins.msg = "trajectory" /\ Ins.value # 0 => run.pc \in TurnsOn(script, "trajectory")
  BY <1>1 DEF Said, TurnsOn, TurnsOff, Rest
<1>3. Ins.msg \in {"hide", "shared"} => Ins.do # "set"
  BY <1>1, ScriptShape DEF Typed
<1>4. CASE p \notin present
  <2>1. page'[p] = page[p]
    BY <1>4 DEF Sends, Send, Hear
  <2> QED
    BY <1>4, <2>1, SameTask
<1>5. CASE UNCHANGED page /\ Ins.msg \notin {"hide", "shared"}
  BY <1>2, <1>5, SameTask
<1>6. CASE p \in present /\ Send(Ins.msg, Ins.value)
  <2>1. page'[p] = React(p, Ins.msg, Ins.value)
    BY <1>6 DEF Send, Hear
  <2> QED
    BY <1>1, <1>2, <1>6, <2>1, ReactKeeps DEF Changes, TrackChanges, AskChanges, SentChanges, Busy
<1>7. (UNCHANGED page /\ Ins.do = "set") \/ Send(Ins.msg, Ins.value)
  BY DEF Sends
<1> QED
  BY <1>3, <1>4, <1>5, <1>6, <1>7

\* What the page does by itself, but for its questions.
LEMMA PageKeepsTask ==
  ASSUME TypeInv, NEW p \in Pages, NEW q \in Pages, ClickNext(q) \/ Lock(q) \/ Finish(q) \/ Esc(q)
  PROVE  /\ page'[p].track = page[p].track /\ page'[p].ask = page[p].ask
         /\ page'[p].reveal = page[p].reveal
<1> USE DEF TypeInv, RoomTyped
<1>1. page[q] \in PageStates /\ page[p] \in PageStates
  OBVIOUS
<1>2. CASE ClickNext(q)
  BY <1>1, <1>2 DEF ClickNext, Becomes, PageStates
<1>3. CASE Lock(q)
  BY <1>1, <1>3 DEF Lock, Becomes, PageStates
<1>4. CASE Finish(q)
  BY <1>4 DEF Finish
<1>5. CASE Esc(q)
  <2>1. \E x : page' = [page EXCEPT ![q] = [page[q] EXCEPT !.locked = FALSE, !.recover = x]]
    BY <1>5 DEF Esc, Becomes
  <2> QED
    BY <1>1, <2>1 DEF PageStates
<1> QED
  BY <1>2, <1>3, <1>4, <1>5

\* The end of the tracking of a trial, and what the page does with its question.
LEMMA PageAsks ==
  ASSUME TypeInv, Still, ~Sends, NEW p \in Pages, NEW q \in Pages,
         TrackDone(q) \/ Reveal(q) \/ Answer(q) \/ AnswerFails(q)
  PROVE  Changes(p, page'[p])
<1> USE DEF TypeInv, RoomTyped
<1> DEFINE me == page[q]
<1>1. me \in PageStates /\ me.track \in Tracks /\ me.ask \in Questions /\ me = page[q]
  BY DEF PageStates
<1>2. CASE p # q
  <2>1. page'[p] = page[p]
    BY <1>2 DEF TrackDone, Reveal, Answer, AnswerFails, Becomes
  <2> QED
    BY <2>1, SameTask
<1>3. CASE p = q /\ Reveal(q)
  <2>1. /\ page'[p] = [me EXCEPT !.reveal = 0, !.ask = [trial |-> me.reveal, at |-> "shown"]]
        /\ me.reveal # 0
    BY <1>3 DEF Reveal, Becomes
  <2> HIDE DEF me
  <2>2. /\ page'[p].track = me.track /\ page'[p].reveal = 0 /\ page'[p].ask.at = "shown"
    BY <1>1, <2>1 DEF PageStates
  <2> QED
    BY <1>1, <1>3, <2>1, <2>2 DEF Changes, TrackChanges, AskChanges, SentChanges, Busy
<1>4. CASE p = q /\ Answer(q)
  <2>1. /\ me.ask.at = "shown"
        /\ \E got : page'[p] = [me EXCEPT !.ask.at = "sent", !.locked = @ \/ got, !.recover = @ /\ ~got]
    BY <1>4 DEF Answer, Becomes
  <2> DEFINE ask == [me.ask EXCEPT !.at = "sent"]
  <2>2. ask.at = "sent" /\ ask.trial = me.ask.trial /\ me.ask.at = "shown"
    BY <1>1, <2>1 DEF Questions
  <2> HIDE DEF me, ask
  <2>3. page'[p].track = me.track /\ page'[p].reveal = me.reveal /\ page'[p].ask = ask
    BY <1>1, <2>1 DEF PageStates, ask
  <2> QED
    BY <1>1, <1>4, <2>1, <2>2, <2>3 DEF Changes, TrackChanges, AskChanges, SentChanges, Busy
<1>5. CASE p = q /\ AnswerFails(q)
  <2>1. page'[p] = [me EXCEPT !.ask.at = "shown"]
    BY <1>5 DEF AnswerFails, Becomes
  <2> DEFINE ask == [me.ask EXCEPT !.at = "shown"]
  <2>2. ask.at = "shown"
    BY <1>1 DEF Questions
  <2> HIDE DEF me, ask
  <2>3. page'[p].track = me.track /\ page'[p].ask = ask
    BY <1>1, <2>1 DEF PageStates, ask
  <2> QED
    BY <1>1, <1>5, <2>1, <2>2, <2>3 DEF Changes, TrackChanges, AskChanges, SentChanges, Busy
<1>6. CASE p = q /\ TrackDone(q)
  <2> DEFINE track == [me.track EXCEPT !.at = "done"]
             ask == IF me.ask.trial = me.track.trial /\ me.ask.at = "sent" THEN me.ask
                    ELSE [trial |-> me.track.trial, at |-> "shown"]
  <2>1. \/ page'[p] = [me EXCEPT !.track = track]
        \/ /\ me.track.at = "current" /\ Asks(me.track.trial)
           /\ page'[p] = [me EXCEPT !.track = track, !.virtual = FALSE, !.locked = FALSE, !.ask = ask]
    BY <1>1, <1>6 DEF TrackDone, Becomes, PageStates
  <2>2. track.at = "done" /\ (ask.at = "sent" => ask = me.ask)
    BY <1>1 DEF Tracks
  <2> HIDE DEF me, ask, track
  <2>3. /\ page'[p].track = track /\ page'[p].reveal = me.reveal
        /\ page'[p].ask = me.ask \/ (me.track.at = "current" /\ Asks(me.track.trial) /\ page'[p].ask = ask)
    BY <1>1, <2>1 DEF PageStates
  <2> QED
    BY <1>1, <1>6, <2>2, <2>3 DEF Changes, TrackChanges, AskChanges, SentChanges, Busy
<1> QED
  BY <1>2, <1>3, <1>4, <1>5, <1>6

\* The other messages leave the task and its question alone.
LEMMA ReactOther ==
  ASSUME NEW p \in Pages, page[p] \in PageStates,
         NEW msg, msg \notin {"shared", "trajectory", "ask", "hide"}, NEW value
  PROVE  /\ React(p, msg, value).track = page[p].track /\ React(p, msg, value).ask = page[p].ask
         /\ React(p, msg, value).reveal # 0 => page[p].reveal # 0
<1>1. CASE msg \in {"virtual", "unlock", "page", "notice", "relock", "complete"}
  BY <1>1 DEF React, Paper, PageStates
<1>2. CASE msg \notin {"virtual", "unlock", "page", "notice", "relock", "complete"}
  BY <1>2 DEF React
<1> QED
  BY <1>1, <1>2

\* What any step changes.
LEMMA StepChanges ==
  ASSUME TypeInv, HandlerInv, Next, NEW p \in Pages
  PROVE  Changes(p, page'[p])
<1> USE DEF TypeInv, RoomTyped
<1>1. CASE Sends
  BY <1>1, SendsChange
<1>2. CASE ~Sends /\ UNCHANGED page
  BY <1>2, SameTask
<1>3. ASSUME ~Sends, NEW said, said \notin {"shared", "trajectory", "ask", "hide"},
             NEW value, Send(said, value)
      PROVE  Changes(p, page'[p])
  <2>1. page'[p] = page[p] \/ page'[p] = React(p, said, value)
    BY <1>3 DEF Send, Hear
  <2>2. /\ React(p, said, value).track = page[p].track /\ React(p, said, value).ask = page[p].ask
        /\ React(p, said, value).reveal # 0 => page[p].reveal # 0
    BY <1>3, ReactOther
  <2> QED
    BY <1>3, <2>1, <2>2 DEF Changes, TrackChanges, AskChanges, SentChanges, Busy
<1>4. CASE ~Sends /\ ~Still
  BY <1>2, <1>3, <1>4, PagesMove
<1>5. CASE ~Sends /\ HandlerSends
  <2>1. CASE UNCHANGED page
    BY <1>5, <2>1, SameTask
  <2>2. CASE Send(SwitchedOff[handler.at - 1][1], SwitchedOff[handler.at - 1][2])
    <3>1. PICK i \in 1 .. 5 : Send(SwitchedOff[i][1], SwitchedOff[i][2])
      <4>1. handler.at - 1 \in 1 .. 5
        BY <1>5 DEF HandlerSends
      <4> QED
        BY <2>2, <4>1
    <3>2. PICK said, value : /\ page'[p] = page[p] \/ page'[p] = React(p, said, value)
                             /\ said \notin {"trajectory", "ask"}
      <4>1. SwitchedOff[i][1] \notin {"trajectory", "ask"}
        BY DEF SwitchedOff
      <4> QED
        BY <3>1, <4>1 DEF Send, Hear
    <3>3. page[p] \in PageStates
      OBVIOUS
    <3> HIDE DEF TypeInv, RoomTyped
    <3>4. CASE page'[p] = React(p, said, value)
      <4> DEFINE new == React(p, said, value)
                 me == page[p]
      <4>1. \/ new.track = me.track
            \/ said = "shared" /\ value = "off" /\ me.track.at = "current" /\ new.track.at = "orphan"
            \/ /\ said = "trajectory" /\ value # 0 /\ experiment \in Shared
               /\ new.track = [trial |-> value, at |-> "current"]
        BY <3>3, ReactKeeps
      <4>2. new.track = me.track \/ new.track.at = "orphan"
        BY <3>2, <4>1
      <4>3. /\ new.reveal # 0 => me.reveal # 0
            /\ new.ask = me.ask \/ new.ask.at = "hidden"
        BY <3>2, <3>3, ReactKeeps
      <4> HIDE DEF new, me
      <4>5. page'[p] = new /\ page[p] = me
        BY <3>4 DEF new, me
      <4> QED
        BY <1>5, <4>2, <4>3, <4>5 DEF Changes, TrackChanges, AskChanges, SentChanges, Busy
    <3> QED
      BY <1>5, <3>2, <3>4, SameTask
  <2> QED
    BY <1>5, <2>1, <2>2 DEF HandlerSends
<1>6. CASE ~Sends /\ HandlerLists
  <2>1. page'[p] = page[p] \/ page'[p] = [page[p] EXCEPT !.ended = "told"]
    BY <1>6 DEF HandlerLists, Told
  <2>2. /\ page'[p].track = page[p].track /\ page'[p].ask = page[p].ask
        /\ page'[p].reveal = page[p].reveal
    BY <2>1 DEF PageStates
  <2> QED
    BY <1>6, <2>2, SameTask
<1>7. ASSUME ~Sends, Still, NEW q \in Pages,
             TrackDone(q) \/ Reveal(q) \/ Answer(q) \/ AnswerFails(q)
      PROVE  Changes(p, page'[p])
  BY <1>7, PageAsks
<1>8. ASSUME ~Sends, NEW q \in Pages, ClickNext(q) \/ Lock(q) \/ Finish(q) \/ Esc(q)
      PROVE  Changes(p, page'[p])
  BY <1>8, PageKeepsTask, SameTask
<1>9. CASE ~Visits
  BY <1>1, <1>2, <1>9, VisitsOnly, Numbers DEF pageVars
<1>10. CASE SafetyCleanup \/ HandlerEnds \/ \E q \in Pages : Leave(q) \/ Hang(q)
  BY <1>1, <1>2, <1>10 DEF SafetyCleanup, HandlerEnds, Leave, Hang
<1>11. ~Sends /\ Still => ~AsksForLocks /\ ~Completes
  BY StepMoves DEF AsksForLocks, Completes
<1> QED
  BY <1>1, <1>4, <1>5, <1>6, <1>7, <1>8, <1>9, <1>10, <1>11 DEF Visits, PageStep

\* Answers are not taken back.
LEMMA AnswersGrow ==
  ASSUME Next
  PROVE  answers \subseteq answers'
<1>1. CASE ~Hears
  BY <1>1, HearsOnly, Numbers DEF reportVars
<1>2. CASE EmptiesInbox \/ HitOrTimeout \/ Block \/ AsksForLocks \/ Completes \/ HandlerSends \/ Arrives
  BY <1>2 DEF EmptiesInbox, HitOrTimeout, Block, AsksForLocks, Completes, HandlerSends, Arrives, handling
<1>3. CASE Sends
  BY <1>3 DEF Sends
<1>4. ASSUME NEW p \in Pages, ClickNext(p) \/ Lock(p) \/ TrackDone(p) \/ Reveal(p) \/ AnswerFails(p)
                              \/ Finish(p) \/ Esc(p) \/ LockReportLost(p)
      PROVE  UNCHANGED answers
  BY <1>4 DEF ClickNext, Lock, TrackDone, Reveal, AnswerFails, Finish, Esc, LockReportLost, reportVars
<1>5. ASSUME NEW p \in Pages, Answer(p)
      PROVE  answers \subseteq answers'
  BY <1>5 DEF Answer, AnswerReported
<1> QED
  BY <1>1, <1>2, <1>3, <1>4, <1>5 DEF Hears, PageStep

\* What a page has sent as an answer has arrived, if none was lost.
SentInv == "answer" \notin Troubles =>
    \A p \in Pages : page[p].ask.at = "sent" => <<p, page[p].ask.trial>> \in answers
\* Every step keeps SentInv.
LEMMA SentStep ==
  ASSUME CoreInv, SentInv, Next
  PROVE  SentInv'
<1> USE DEF CoreInv, TypeInv
<1> SUFFICES ASSUME "answer" \notin Troubles', NEW p \in Pages, page'[p].ask.at = "sent"
             PROVE  <<p, page'[p].ask.trial>> \in answers'
  BY DEF SentInv
<1>1. "answer" \notin Troubles
  BY MishapType
<1>2. page'[p].ask = page[p].ask \/ (Answer(p) /\ page'[p].ask.trial = page[p].ask.trial)
  BY StepChanges DEF Changes, SentChanges
<1>3. CASE page'[p].ask = page[p].ask
  BY <1>1, <1>3, AnswersGrow DEF SentInv
<1>4. CASE Answer(p) /\ page'[p].ask.trial = page[p].ask.trial
  <2>1. AnswerReported(p, page[p].ask.trial)
    BY <1>4, MishapCounts DEF Answer
  <2> QED
    BY <1>4, <2>1 DEF AnswerReported
<1> QED
  BY <1>2, <1>3, <1>4

\* So no answer fails.
LEMMA NoAnswerFails ==
  ASSUME TypeInv, SentInv, Next, "answer" \notin Troubles', NEW p \in Pages
  PROVE  ~AnswerFails(p)
<1>1. "answer" \notin Troubles
  BY MishapType DEF TypeInv
<1>2. ~Unanswered(p)
  BY <1>1 DEF SentInv, Unanswered
<1> QED
  BY <1>2, MishapCounts DEF AnswerFails, TypeInv

\* The rules turn things on, and ask, only while they go on.
LEMMA BeginsGoing ==
  ASSUME TypeInv, PlaceInv, Sends,
         run.pc \in Said(script, "ask") \/ \E msg \in DOMAIN Rest : run.pc \in TurnsOn(script, msg)
  PROVE  run.at = "going" /\ ~Still /\ Ins.do \in {"send", "offer"}
<1>1. /\ run.pc \in 1 .. Len(script) /\ Ins = script[run.pc] /\ Ins.do \in {"send", "set", "offer"}
      /\ Running /\ ~Still
  BY ScriptShape, StepMoves DEF TypeInv, RunTyped, Sends, Doing, Running, Ins
<1>2. Ins.msg \in {"ask", "target", "shared", "trajectory", "detector"}
  BY <1>1 DEF Said, TurnsOn, Rest
<1>3. Ins.do # "set"
  BY <1>1, <1>2, ScriptShape DEF TypeInv, Typed
<1>4. ~Closes(script, run.pc)
  BY <1>1, ScriptShape DEF TypeInv, Bounded
<1> QED
  BY <1>1, <1>3, <1>4 DEF PlaceInv, Running

\* A run that goes on past a message to the pages has sent it.
LEMMA SentOn ==
  ASSUME TypeInv, HandlerInv, Next, run'.at = "going", ~Still, NEW msg \in {"hide", "shared"},
         run.pc \in Said(script, msg)
  PROVE  Sends
<1> USE DEF TypeInv
<1>1. Running /\ run.pc \in 1 .. Len(script) /\ Ins = script[run.pc]
  BY GoesTo
<1>2. Ins.do = "send"
  BY <1>1, ScriptShape DEF Said, Typed
<1>3. SendFails => Throw
  BY <1>2 DEF SendFails, Doing
<1>4. ~Throw
  BY DEF Throw, LeaveRules, RunTyped
<1> QED
  BY <1>1, <1>2, <1>3, <1>4, Executes

\* The messages that start this trial on the pages.
Begins(trial) == {k \in TurnsOn(script, "trajectory") : script[k].value = trial}
\* A page tracks a trial that the rules have on.
PlayInv ==
    \A p \in present : page[p].track.at = "current" =>
        /\ experiment \in Shared \ Timed
        /\ run.at = "going" => Since(Begins(page[p].track.trial), TurnsOff(script, "shared"), run.pc)
\* Every step keeps PlayInv.
LEMMA PlayStep ==
  ASSUME CoreInv, PlayInv, Next
  PROVE  PlayInv'
<1> USE DEF CoreInv, TypeInv
<1>s. script' = script /\ experiment' = experiment
  BY RulesStay, Numbers DEF rules
<1> SUFFICES ASSUME NEW p \in present', page'[p].track.at = "current"
             PROVE  /\ experiment \in Shared \ Timed
                    /\ run'.at = "going" =>
                          Since(Begins(page'[p].track.trial), TurnsOff(script, "shared"), run'.pc)
  BY <1>s DEF PlayInv, Begins
<1> DEFINE off == TurnsOff(script, "shared")
<1>1. p \in present /\ p \in Pages
  BY Leavers DEF RoomTyped
<1>o. off \in SUBSET Nat /\ off \subseteq Said(script, "shared") /\ TurnsOn(script, "trajectory") \in SUBSET Nat
  BY SaidIn
<1>2. \/ page'[p].track = page[p].track /\ ~(Sends /\ run.pc \in off)
      \/ /\ Sends /\ run.pc \in TurnsOn(script, "trajectory") /\ experiment \in Shared
         /\ page'[p].track = [trial |-> script[run.pc].value, at |-> "current"]
  BY <1>1, StepChanges DEF Changes, TrackChanges
<1>3. CASE page'[p].track = page[p].track /\ ~(Sends /\ run.pc \in off)
  <2>1. experiment \in Shared \ Timed
    BY <1>1, <1>3 DEF PlayInv
  <2>2. ASSUME run'.at = "going"
        PROVE  Since(Begins(page[p].track.trial), off, run'.pc)
    <3> DEFINE on == Begins(page[p].track.trial)
               dos == Blocks \cup {"end"}
    <3>1. Since(on, off, run.pc)
      BY <1>1, <1>3, <2>2, GoingOn DEF PlayInv
    <3>2. on \in SUBSET Nat /\ on \subseteq TurnsOn(script, "trajectory")
      BY <1>o DEF Begins
    <3>3. Within(script, on, off, dos)
      <4>1. Within(script, TurnsOn(script, "trajectory"), off, dos)
        BY <2>1, MessageShape DEF Separate
      <4> QED
        BY <3>2, <4>1 DEF Within, Since
    <3>4. Still \/ run.pc \notin off
      BY <1>3, <1>o, <2>2, SentOn
    <3>5. dos \cap {"locks", "stop", "gate"} = {} /\ "leave" \notin dos
      BY DEF Blocks
    <3> HIDE DEF on, off, dos
    <3>6. Since(on, off, run'.pc)
      BY <1>o, <2>2, <3>1, <3>2, <3>3, <3>4, <3>5, StaysOn
    <3> QED
      BY <3>6 DEF on
  <2> QED
    BY <1>3, <2>1, <2>2
<1>4. CASE /\ Sends /\ run.pc \in TurnsOn(script, "trajectory") /\ experiment \in Shared
           /\ page'[p].track = [trial |-> script[run.pc].value, at |-> "current"]
  <2>1. experiment \notin Timed
    BY <1>4, MessageShape
  <2>2. run.at = "going" /\ ~Still /\ Ins.do \in {"send", "offer"}
    BY <1>4, BeginsGoing DEF Rest
  <2> DEFINE on == Begins(script[run.pc].value)
  <2>3. on \in SUBSET Nat /\ run.pc \in on
    BY <1>4, <1>o DEF Begins
  <2> HIDE DEF on, off
  <2>4. run'.at = "going" => Since(on, off, run'.pc)
    BY <1>o, <2>2, <2>3, TurnedOn
  <2> QED
    BY <1>4, <2>1, <2>4 DEF on, off
<1> QED
  BY <1>2, <1>3, <1>4

\* While the rules go on, a page asks only between the message that has it ask and
\* the one that hides the question.
AskInv == experiment \in Shared /\ "answer" \notin Troubles /\ run.at = "going" =>
    \A p \in present : Busy(page[p]) => Since(Asking(script), Said(script, "hide"), run.pc)
\* Every step keeps AskInv.
LEMMA AskStep ==
  ASSUME CoreInv, PlayInv, SentInv, AskInv, Next
  PROVE  AskInv'
<1> USE DEF CoreInv, TypeInv
<1>s. script' = script /\ experiment' = experiment
  BY RulesStay, Numbers DEF rules
<1> DEFINE on == Asking(script)
           off == Said(script, "hide")
           dos == Blocks \cup {"end", "check", "answers"}
<1> SUFFICES ASSUME experiment \in Shared, "answer" \notin Troubles', run'.at = "going",
                    NEW p \in present', Busy(page'[p])
             PROVE  Since(on, off, run'.pc)
  BY <1>s DEF AskInv, Busy
<1>1. p \in present /\ p \in Pages /\ run.at = "going" /\ "answer" \notin Troubles
  BY Leavers, GoingOn, MishapType DEF RoomTyped
<1>o. on \in SUBSET Nat /\ off \in SUBSET Nat /\ Said(script, "ask") \subseteq on
  BY SaidIn DEF Asking
<1>2. Separate(script)
  BY MessageShape
<1>3. \/ Busy(page[p]) /\ ~(Sends /\ run.pc \in off)
      \/ Sends /\ run.pc \in Said(script, "ask")
      \/ Still /\ TrackDone(p) /\ page[p].track.at = "current" /\ Asks(page[p].track.trial)
  BY <1>1, StepChanges, NoAnswerFails DEF Changes, AskChanges
<1>4. CASE Busy(page[p]) /\ ~(Sends /\ run.pc \in off)
  <2>1. Since(on, off, run.pc)
    BY <1>1, <1>4 DEF AskInv
  <2>2. Still \/ run.pc \notin off
    BY <1>4, SentOn
  <2>3. Within(script, on, off, dos)
    BY <1>2 DEF Separate
  <2>4. dos \cap {"locks", "stop", "gate"} = {} /\ "leave" \notin dos
    BY DEF Blocks
  <2> HIDE DEF on, off, dos
  <2> QED
    BY <1>o, <2>1, <2>2, <2>3, <2>4, StaysOn
<1>5. CASE Sends /\ run.pc \in Said(script, "ask")
  <2>1. ~Still /\ Ins.do \in {"send", "offer"} /\ run.pc \in on
    BY <1>5, <1>o, BeginsGoing
  <2> HIDE DEF on, off
  <2> QED
    BY <1>o, <2>1, TurnedOn
<1>6. CASE Still /\ TrackDone(p) /\ page[p].track.at = "current" /\ Asks(page[p].track.trial)
  <2> DEFINE lit == TurnsOn(script, "trajectory")
             dark == TurnsOff(script, "shared")
  <2>1. PICK k \in Begins(page[p].track.trial) : k < run.pc /\ \A q \in dark : ~(k < q /\ q < run.pc)
    BY <1>1, <1>6 DEF PlayInv, Since
  <2>2. k \in lit /\ k \in on /\ k \in Nat
    <3>1. k \in lit /\ script[k].value = page[p].track.trial
      BY DEF Begins
    <3>2. k \in on
      BY <1>6, <3>1 DEF Asking, Asks
    <3> QED
      BY <1>o, <3>1, <3>2
  <2>3. ASSUME NEW q \in off, k < q, q < run.pc PROVE FALSE
    <3>1. ~Since(lit, dark, q)
      BY <1>2 DEF Separate, Playful
    <3>2. PICK r \in dark : k < r /\ r < q
      BY <2>2, <2>3, <3>1 DEF Since
    <3>3. r \in Nat /\ q \in Nat /\ run.pc \in Nat
      BY <1>o, SaidIn, ScriptShape DEF RunTyped
    <3> QED
      BY <2>1, <2>2, <2>3, <3>2, <3>3
  <2>4. Since(on, off, run.pc)
    BY <2>1, <2>2, <2>3 DEF Since
  <2> QED
    BY <1>6, <2>4 DEF Still
<1> QED
  BY <1>3, <1>4, <1>5, <1>6

\* A page that plays, or could with the target on the stage, asks nothing.
Engaged(p) == page[p].track.at = "current" \/ (experiment \in Timed /\ Up("target") /\ Up("shared"))
FreeInv == "answer" \notin Troubles => \A p \in present : Engaged(p) => ~Busy(page[p])

\* The rules do not ask while a page plays.
LEMMA NoAskInPlay ==
  ASSUME CoreInv, PlayInv, LitInv, NEW p \in present, Engaged(p), Sends
  PROVE  run.pc \notin Said(script, "ask")
<1> USE DEF CoreInv, TypeInv
<1> SUFFICES ASSUME run.pc \in Said(script, "ask") PROVE FALSE
  OBVIOUS
<1>1. run.at = "going"
  BY BeginsGoing
<1>2. CASE page[p].track.at = "current"
  <2>1. Since(Begins(page[p].track.trial), TurnsOff(script, "shared"), run.pc) /\ experiment \in Shared
    BY <1>1, <1>2 DEF PlayInv
  <2>2. Since(TurnsOn(script, "trajectory"), TurnsOff(script, "shared"), run.pc)
    BY <2>1 DEF Since, Begins
  <2> QED
    BY <2>1, <2>2, MessageShape DEF Separate, Playful
<1>3. CASE experiment \in Timed /\ Up("target")
  <2>1. Playful(script, "target", "target") /\ experiment \in Shared
    BY <1>3, MessageShape
  <2>2. Since(TurnsOn(script, "target"), TurnsOff(script, "target"), run.pc)
    BY <1>1, <1>3, <2>1 DEF LitInv, Lit
  <2> QED
    BY <2>1, <2>2 DEF Playful
<1> QED
  BY <1>2, <1>3 DEF Engaged

\* Nor does a trial begin while a page asks.
LEMMA NoPlayInAsk ==
  ASSUME CoreInv, AskInv, "answer" \notin Troubles, NEW p \in present, Busy(page[p]), Sends,
         experiment \in Shared, NEW msg \in DOMAIN Rest, NEW off, Playful(script, msg, off)
  PROVE  run.pc \notin TurnsOn(script, msg)
<1>1. ASSUME run.pc \in TurnsOn(script, msg) PROVE run.at = "going"
  BY <1>1, BeginsGoing DEF CoreInv
<1> QED
  BY <1>1 DEF AskInv, Playful

\* A page begins to play by a message of the rules.
LEMMA PlayBegins ==
  ASSUME CoreInv, StageTyped, Next, NEW p \in present', Engaged(p)', ~Engaged(p)
  PROVE  /\ Sends /\ experiment \in Shared
         /\ \E msg \in {"trajectory", "target", "shared"}, off \in {"shared", "target"} :
               run.pc \in TurnsOn(script, msg) /\ Playful(script, msg, off)
<1> USE DEF CoreInv, TypeInv
<1>s. experiment' = experiment /\ p \in Pages
  BY RulesStay, Numbers, Leavers DEF rules, RoomTyped
<1>1. CASE page'[p].track.at = "current"
  <2>1. Sends /\ run.pc \in TurnsOn(script, "trajectory") /\ experiment \in Shared
    BY <1>1, <1>s, StepChanges DEF Changes, TrackChanges, Engaged
  <2>2. Playful(script, "trajectory", "shared")
    BY <2>1, MessageShape DEF Separate
  <2> QED
    BY <2>1, <2>2
<1>2. CASE page'[p].track.at # "current"
  <2>1. experiment \in Timed /\ Up("target")' /\ Up("shared")' /\ (~Up("target") \/ ~Up("shared"))
    BY <1>2, <1>s DEF Engaged
  <2>2. "target" \in DOMAIN Rest /\ "shared" \in DOMAIN Rest
    BY DEF Rest
  <2>3. Sends /\ (run.pc \in TurnsOn(script, "target") \/ run.pc \in TurnsOn(script, "shared"))
    BY <2>1, <2>2, UpMoves
  <2>4. Playful(script, "target", "target") /\ Playful(script, "shared", "shared") /\ experiment \in Shared
    BY <2>1, MessageShape
  <2> QED
    BY <2>3, <2>4
<1> QED
  BY <1>1, <1>2

\* Every step keeps FreeInv.
LEMMA FreeStep ==
  ASSUME CoreInv, StageTyped, LitInv, PlayInv, SentInv, AskInv, FreeInv, Next
  PROVE  FreeInv'
<1> USE DEF CoreInv, TypeInv
<1> SUFFICES ASSUME "answer" \notin Troubles', NEW p \in present', Engaged(p)', Busy(page'[p])
             PROVE  FALSE
  BY DEF FreeInv, Busy
<1>1. p \in present /\ p \in Pages /\ "answer" \notin Troubles /\ experiment' = experiment
  BY Leavers, MishapType, RulesStay, Numbers DEF RoomTyped, rules
<1>2. \/ Busy(page[p])
      \/ Sends /\ run.pc \in Said(script, "ask")
      \/ Still /\ TrackDone(p) /\ page[p].track.at = "current" /\ page'[p].track.at = "done"
  BY <1>1, StepChanges, NoAnswerFails DEF Changes, AskChanges
<1>3. CASE Engaged(p)
  <2>1. ~Busy(page[p])
    BY <1>1, <1>3 DEF FreeInv
  <2>2. ~(Sends /\ run.pc \in Said(script, "ask"))
    BY <1>1, <1>3, NoAskInPlay
  <2>3. page[p].track.at = "current" => experiment \notin Timed
    BY <1>1 DEF PlayInv
  <2> QED
    BY <1>1, <1>2, <2>1, <2>2, <2>3 DEF Engaged
<1>4. CASE ~Engaged(p)
  <2>1. Sends /\ experiment \in Shared
    BY <1>4, PlayBegins
  <2>2. PICK msg \in {"trajectory", "target", "shared"}, off \in {"shared", "target"} :
           run.pc \in TurnsOn(script, msg) /\ Playful(script, msg, off)
    BY <1>4, PlayBegins
  <2>3. msg \in DOMAIN Rest /\ msg # "ask"
    BY DEF Rest
  <2>4. ~Busy(page[p])
    BY <1>1, <2>1, <2>2, <2>3, NoPlayInAsk
  <2>5. run.pc \notin Said(script, "ask")
    BY <2>2, <2>3 DEF TurnsOn, Said
  <2>6. ~Still
    BY <2>1, StepMoves DEF Sends
  <2> QED
    BY <1>2, <2>4, <2>5, <2>6
<1> QED
  BY <1>3, <1>4

\* The agent hides the questions of a trial when it stops waiting for their answers
\* (agent.ts) and only then begins another; a page that was about to ask gives it up
\* (hideSharedQuestionnaire, App.tsx).  So no question covers the stage of a
\* participant who plays, as long as every answer sent has arrived.
THEOREM QuestionsApartFromPlay == Spec => []QuestionsDoNotOverlapPlay
<1> DEFINE Inv == CoreInv /\ StageTyped /\ LitInv /\ PlayInv /\ SentInv /\ AskInv /\ FreeInv
<1>1. Init => Inv
  <2> SUFFICES ASSUME Init PROVE Inv
    OBVIOUS
  <2>1. CoreInv
    BY CoreStart
  <2>2. stage.target = FALSE /\ stage.shared = "off" /\ StageTyped
    BY DEF Init, StageTyped
  <2>3. ~Up("target") /\ ~Up("shared")
    BY <2>2 DEF Up, Now, Rest
  <2>4. \A p \in Pages : page[p].track.at = "idle" /\ page[p].ask.at = "hidden" /\ page[p].reveal = 0
    BY DEF Init
  <2>5. present \subseteq Pages /\ \A p \in Pages : ~Busy(page[p])
    BY <2>1, <2>4 DEF CoreInv, TypeInv, RoomTyped, Busy
  <2> QED
    BY <2>1, <2>2, <2>3, <2>4, <2>5 DEF LitInv, PlayInv, SentInv, AskInv, FreeInv, Engaged
<1>2. Inv /\ [Next]_vars => Inv'
  <2> SUFFICES ASSUME Inv, [Next]_vars PROVE Inv'
    OBVIOUS
  <2>1. CASE Next
    <3>1. StageTyped'
      BY <2>1, UpMoves DEF CoreInv, Rest
    <3> QED
      BY <2>1, <3>1, CoreStep, LitStep, PlayStep, SentStep, AskStep, FreeStep
  <2>2. CASE UNCHANGED vars
    <3>1. UNCHANGED <<run, script, experiment, admin, stage, page, present, answers, mishaps>>
      BY <2>2 DEF vars, session, rules, recorderVars, historyVars, roomVars, reportVars
    <3>2. UNCHANGED Troubles /\ \A msg : Up(msg)' = Up(msg) /\ Lit(msg)' = Lit(msg)
      BY <3>1 DEF Troubles, Up, Now, Lit
    <3>3. StageTyped' /\ LitInv' /\ SentInv'
      BY <3>1, <3>2 DEF StageTyped, LitInv, SentInv
    <3>4. PlayInv' /\ AskInv' /\ FreeInv'
      BY <3>1, <3>2 DEF PlayInv, Begins, AskInv, FreeInv, Engaged, Busy
    <3> QED
      BY <2>2, <3>3, <3>4, CoreStutter
  <2> QED
    BY <2>1, <2>2
<1>3. Inv => QuestionsDoNotOverlapPlay
  <2> SUFFICES ASSUME Inv, NEW p \in present, Playing(p), ~Happened({"answer"})
               PROVE  page[p].ask.at # "shown"
    BY DEF QuestionsDoNotOverlapPlay
  <2>1. "answer" \notin Troubles
    BY DEF Happened, Troubles
  <2>2. Engaged(p)
    <3>1. stage.target => Up("target")
      <4>1. stage.target => stage.target # FALSE
        BY Zenon
      <4>2. Now("target") = stage.target /\ Rest["target"] = FALSE
        BY DEF Now, Rest
      <4> QED
        BY <4>1, <4>2, Zenon DEF Up
    <3>2. stage.shared # "off" => Up("shared")
      BY DEF Up, Now, Rest
    <3> QED
      BY <3>1, <3>2 DEF Playing, Engaged
  <2> QED
    BY <2>1, <2>2 DEF FreeInv, Busy
<1> HIDE DEF Inv
<1> QED
  BY <1>1, <1>2, <1>3, PTL DEF Spec

=============================================================================
