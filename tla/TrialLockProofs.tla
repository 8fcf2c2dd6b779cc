--------------------------- MODULE TrialLockProofs ---------------------------
(***************************************************************************)
(* Who has the task cursor, that is the pointer lock, during a session of  *)
(* a guarded task, for any rules of the shape that CodeAssumption gives    *)
(* them: that what the agent knows of the locks is so, as long as nobody   *)
(* interferes, and that its check before a trial leaves nobody without.    *)
(***************************************************************************)
EXTENDS TrialStageProofs

-----------------------------------------------------------------------------
(* Whoever plays has the task cursor. *)

\* Nobody interferes with the pointer locks of a guarded task.
Undisturbed ==
    /\ experiment \in Guarded /\ gone = {} /\ ~aborted /\ ~disrupted
    /\ "esc" \notin Troubles /\ "lock" \notin Troubles /\ "list" \notin Troubles
\* What the agent knows of the lock of a page is so.
Accurate(p) == locks[p] = "yes" <=> page[p].locked
\* Since the locks were checked, nobody was unlocked and no trial began.
Ready(i) == Since(Relocks(script), Frees(script), i)

\* It was so before.
LEMMA UndisturbedBefore ==
  ASSUME TypeInv, HandlerInv, Next, Undisturbed'
  PROVE  Undisturbed /\ handler.at = 0
<1>1. ~disrupted
  BY Moves DEF Undisturbed, Apart, Losing, Withdrawing, Handles, Ends
<1>2. handler.at = 0
  BY <1>1 DEF HandlerInv, TypeInv, HandlerTyped
<1>3. ~aborted
  <2>1. ~OperatorStops /\ ~HandlerEnds
    BY DEF Undisturbed, OperatorStops, StopAgent, HandlerEnds
  <2> QED
    BY <2>1, AbortOnly DEF Undisturbed
<1>4. gone = {} /\ Troubles \subseteq Troubles' /\ experiment' = experiment
  BY Leavers, MishapType, RulesStay, Numbers DEF Undisturbed, TypeInv, rules
<1> QED
  BY <1>1, <1>2, <1>3, <1>4 DEF Undisturbed

\* The shape of the rules, as far as it is about locks.
LEMMA LockShape ==
  ASSUME RulesTyped, experiment \in Guarded
  PROVE  /\ Relocked(script) /\ Len(script) \in Nat /\ experiment \in Shared
         /\ experiment \in Timed => TimedRelocked(script)
         /\ Relocks(script) \subseteq 1 .. Len(script) /\ Relocks(script) \in SUBSET Nat
         /\ Frees(script) \subseteq 1 .. Len(script) /\ Frees(script) \in SUBSET Nat
         /\ Said(script, "unlock") \subseteq Frees(script)
         /\ TurnsOn(script, "trajectory") \subseteq Frees(script)
         /\ Relocks(script) \cap Frees(script) = {}
<1>1. /\ Relocked(script) /\ Len(script) \in Nat /\ experiment \in Shared
      /\ experiment \in Timed => TimedRelocked(script)
  BY CodeAssumption, SessionAssumption DEF RulesTyped
<1>2. \A i \in 1 .. Len(script) : i \in Nat
  OBVIOUS
<1>3. Relocks(script) \subseteq 1 .. Len(script) /\ Frees(script) \subseteq 1 .. Len(script)
  BY SaidIn DEF Relocks, Frees
<1>4. Relocks(script) \cap Frees(script) = {}
  BY DEF Relocks, Frees, TurnsOn, Said
<1> QED
  BY <1>1, <1>2, <1>3, <1>4 DEF Frees

\* What a message does to a lock and to the agent's knowledge of it.
LEMMA SendLocks ==
  ASSUME RoomTyped, ReportsTyped, NEW msg, NEW value, Send(msg, value), NEW p \in Pages
  PROVE  /\ page'[p].locked = IF p \in present /\ msg = "unlock" THEN FALSE ELSE page[p].locked
         /\ locks'[p] = IF p \notin present \ hung THEN locks[p]
                        ELSE IF msg = "relock" THEN LockOf(p)
                        ELSE IF msg = "unlock" /\ page[p].locked THEN "no" ELSE locks[p]
<1>1. page[p] \in PageStates
  BY DEF RoomTyped
<1>2. React(p, msg, value).locked = IF msg = "unlock" THEN FALSE ELSE page[p].locked
  <2>1. CASE msg = "unlock"
    BY <1>1, <2>1 DEF React, PageStates
  <2>2. CASE msg \in {"virtual", "shared", "trajectory", "ask", "hide"}
    BY <1>1, <2>2 DEF React, Covered, PageStates
  <2>3. CASE msg \in {"page", "notice", "relock", "complete"}
    BY <1>1, <2>3 DEF React, Paper, PageStates
  <2>4. CASE msg \notin {"unlock", "virtual", "shared", "trajectory", "ask", "hide", "page", "notice",
                         "relock", "complete"}
    BY <2>4 DEF React
  <2> QED
    BY <2>1, <2>2, <2>3, <2>4
<1>3. page'[p] = IF p \in present THEN React(p, msg, value) ELSE page[p]
  BY DEF Send, Hear
<1> QED
  BY <1>2, <1>3 DEF Send, Reported

\* What a message of the run does: it keeps what the agent knows, and only one of
\* them unlocks.
LEMMA SendKeepsLocks ==
  ASSUME RoomTyped, ReportsTyped, NEW msg, NEW value, Send(msg, value), NEW p \in Pages
  PROVE  /\ locks'[p] = "none" => locks[p] = "none"
         /\ p \notin hung /\ Accurate(p) => (locks'[p] = "yes" <=> page'[p].locked)
         /\ page[p].locked /\ ~page'[p].locked => p \in present /\ msg = "unlock"
<1>1. page[p].locked \in BOOLEAN /\ locks[p] \in {"none", "yes", "no"}
  BY DEF RoomTyped, PageStates, ReportsTyped
<1>2. CASE p \notin present
  <2>1. page'[p].locked = page[p].locked /\ locks'[p] = locks[p]
    BY <1>2, SendLocks
  <2> QED
    BY <2>1 DEF Accurate
<1>3. CASE p \in present /\ msg = "unlock"
  <2>1. /\ page'[p].locked = FALSE
        /\ locks'[p] = IF p \notin hung /\ page[p].locked THEN "no" ELSE locks[p]
    BY <1>3, SendLocks
  <2>2. ~page'[p].locked
    BY <2>1, Zenon
  <2> QED
    BY <1>1, <1>3, <2>1, <2>2 DEF Accurate
<1>4. CASE p \in present /\ msg # "unlock"
  <2>0. page'[p].locked = page[p].locked
    <3>1. page'[p].locked = IF p \in present /\ msg = "unlock" THEN FALSE ELSE page[p].locked
      BY SendLocks
    <3> QED
      BY <1>4, <3>1
  <2>1. locks'[p] = IF p \notin hung /\ msg = "relock" THEN LockOf(p) ELSE locks[p]
    <3>1. locks'[p] = IF p \notin present \ hung THEN locks[p]
                      ELSE IF msg = "relock" THEN LockOf(p)
                      ELSE IF msg = "unlock" /\ page[p].locked THEN "no" ELSE locks[p]
      BY SendLocks
    <3> QED
      BY <1>4, <3>1
  <2>2. LockOf(p) = "yes" <=> page[p].locked
    BY <1>1 DEF LockOf
  <2>3. LockOf(p) # "none"
    BY DEF LockOf
  <2>4. CASE p \notin hung /\ msg = "relock"
    BY <2>0, <2>1, <2>2, <2>3, <2>4
  <2>5. CASE ~(p \notin hung /\ msg = "relock")
    BY <2>0, <2>1, <2>5 DEF Accurate
  <2> QED
    BY <2>4, <2>5
<1> QED
  BY <1>2, <1>3, <1>4

\* What a page does by itself.
LEMMA PageKeepsLocks ==
  ASSUME TypeInv, NEW p \in Pages, NEW q \in Pages,
         \/ ClickNext(q) \/ Lock(q) \/ TrackDone(q) \/ Reveal(q) \/ Answer(q) \/ AnswerFails(q)
         \/ Finish(q)
  PROVE  /\ locks'[p] = "none" => locks[p] = "none"
         /\ Accurate(p) => (locks'[p] = "yes" <=> page'[p].locked)
         /\ page[p].locked /\ ~page'[p].locked =>
               /\ p \in present /\ Still /\ TrackDone(p)
               /\ page[p].track.at = "current" /\ page'[p].track.at = "done"
<1> USE DEF TypeInv, RoomTyped, ReportsTyped, LockReported, Becomes
<1>1. /\ page[q] \in PageStates /\ page[q].locked \in BOOLEAN /\ page[p].locked \in BOOLEAN
      /\ locks \in [Pages -> {"none", "yes", "no"}]
  BY DEF PageStates
<1>2. CASE ClickNext(q)
  <2>1. locks' = locks /\ page'[p].locked = page[p].locked
    BY <1>1, <1>2 DEF ClickNext, PageStates
  <2> QED
    BY <2>1 DEF Accurate
<1>3. CASE Lock(q)
  <2>1. /\ locks' = [locks EXCEPT ![q] = "yes"]
        /\ page'[p].locked = IF p = q THEN TRUE ELSE page[p].locked
    BY <1>1, <1>3 DEF Lock, PageStates
  <2> QED
    BY <1>1, <2>1 DEF Accurate
<1>4. CASE Reveal(q) \/ AnswerFails(q) \/ Finish(q)
  <2>1. locks' = locks
    BY <1>4 DEF Reveal, AnswerFails, Finish, reportVars
  <2>2. page'[p].locked = page[p].locked
    <3>1. CASE Reveal(q)
      BY <1>1, <3>1 DEF Reveal, PageStates
    <3>2. CASE AnswerFails(q)
      BY <1>1, <3>2 DEF AnswerFails, PageStates
    <3>3. CASE Finish(q)
      BY <3>3 DEF Finish
    <3> QED
      BY <1>4, <3>1, <3>2, <3>3
  <2> QED
    BY <2>1, <2>2 DEF Accurate
<1>5. CASE Answer(q)
  <2>1. PICK got \in BOOLEAN :
           /\ page' = [page EXCEPT ![q] = [page[q] EXCEPT !.ask.at = "sent", !.locked = @ \/ got,
                                                          !.recover = @ /\ ~got]]
           /\ IF got THEN locks' = [locks EXCEPT ![q] = "yes"] ELSE UNCHANGED locks
    BY <1>5 DEF Answer
  <2>2. page'[p].locked = IF p = q THEN page[q].locked \/ got ELSE page[p].locked
    BY <1>1, <2>1 DEF PageStates
  <2> QED
    BY <1>1, <2>1, <2>2 DEF Accurate
<1>6. CASE TrackDone(q)
  <2> DEFINE me == page[q]
             ask == IF me.ask.trial = me.track.trial /\ me.ask.at = "sent" THEN me.ask
                    ELSE [trial |-> me.track.trial, at |-> "shown"]
  <2>1. \/ page' = [page EXCEPT ![q] = [me EXCEPT !.track.at = "done"]] /\ UNCHANGED locks
        \/ /\ me.track.at = "current"
           /\ page' = [page EXCEPT ![q] = [me EXCEPT !.track = [@ EXCEPT !.at = "done"],
                                           !.virtual = FALSE, !.locked = FALSE, !.ask = ask]]
           /\ IF me.locked THEN locks' = [locks EXCEPT ![q] = "no"] ELSE UNCHANGED locks
    BY <1>1, <1>6 DEF TrackDone, PageStates
  <2>2. Still /\ q \in present
    BY <1>6 DEF TrackDone, onPage, Still
  <2>3. CASE page' = [page EXCEPT ![q] = [me EXCEPT !.track.at = "done"]] /\ UNCHANGED locks
    <3>1. page'[p].locked = page[p].locked
      BY <1>1, <2>3 DEF PageStates
    <3> QED
      BY <2>3, <3>1 DEF Accurate
  <2>4. CASE /\ me.track.at = "current"
             /\ page' = [page EXCEPT ![q] = [me EXCEPT !.track = [@ EXCEPT !.at = "done"],
                                             !.virtual = FALSE, !.locked = FALSE, !.ask = ask]]
             /\ IF me.locked THEN locks' = [locks EXCEPT ![q] = "no"] ELSE UNCHANGED locks
    <3>1. /\ page'[p].locked = IF p = q THEN FALSE ELSE page[p].locked
          /\ p = q => page'[p].track.at = "done"
      <4> HIDE DEF ask
      <4> QED
        BY <1>1, <2>4 DEF PageStates, Tracks
    <3>2. locks'[p] = IF p = q /\ page[q].locked THEN "no" ELSE locks[p]
      BY <1>1, <2>4
    <3> QED
      BY <1>1, <1>6, <2>2, <2>4, <3>1, <3>2 DEF Accurate
  <2> QED
    BY <2>1, <2>3, <2>4
<1> QED
  BY <1>2, <1>3, <1>4, <1>5, <1>6

\* As long as nobody interferes, the agent knows the locks, and a page is unlocked
\* by a message of the rules or by the question of a trial it has tracked.
LEMMA LocksMove ==
  ASSUME TypeInv, HandlerInv, Next, Undisturbed', NEW p \in Pages
  PROVE  /\ locks'[p] = "none" => locks[p] = "none"
         /\ p \notin hung /\ Accurate(p) => Accurate(p)'
         /\ page[p].locked /\ ~page'[p].locked =>
               /\ p \in present
               /\ \/ Sends /\ run.pc \in Said(script, "unlock")
                  \/ /\ Still /\ TrackDone(p)
                     /\ page[p].track.at = "current" /\ page'[p].track.at = "done"
<1> USE DEF TypeInv
<1>0. handler.at = 0 /\ "esc" \notin Troubles' /\ "lock" \notin Troubles'
  BY UndisturbedBefore DEF Undisturbed
<1>1. CASE UNCHANGED <<page, locks>>
  BY <1>1 DEF Accurate
<1>2. CASE Sends
  <2>1. UNCHANGED <<page, locks>> \/ Send(Ins.msg, Ins.value)
    BY <1>2 DEF Sends
  <2>2. Ins.msg = "unlock" => run.pc \in Said(script, "unlock")
    BY <1>2, ScriptShape DEF Sends, Doing, Running, Ins, Said, RunTyped
  <2>3. CASE Send(Ins.msg, Ins.value)
    BY <1>2, <2>2, <2>3, SendKeepsLocks DEF Accurate
  <2> QED
    BY <1>1, <2>1, <2>3
<1>3. CASE AsksForLocks \/ Completes
  <2>1. UNCHANGED <<page, locks>> \/ Send("relock", Unlocked) \/ Send("complete", TRUE)
    BY <1>3 DEF AsksForLocks, Completes
  <2>2. ASSUME NEW msg \in {"relock", "complete"}, NEW value, Send(msg, value)
        PROVE  /\ locks'[p] = "none" => locks[p] = "none"
               /\ p \notin hung /\ Accurate(p) => Accurate(p)'
               /\ ~(page[p].locked /\ ~page'[p].locked)
    BY <2>2, SendKeepsLocks DEF Accurate
  <2> QED
    BY <1>1, <2>1, <2>2
<1>4. ~HandlerLists /\ ~HandlerSends /\ ~HandlerEnds
  BY <1>0 DEF HandlerLists, HandlerSends, HandlerEnds
<1>5. ~\E q \in Pages : Esc(q) \/ LockReportLost(q)
  BY <1>0, MishapCounts DEF Esc, LockReportLost
<1>6. CASE PageStep
  BY <1>6, PageKeepsLocks DEF PageStep, Accurate
<1>7. CASE SafetyCleanup \/ \E q \in Pages : Leave(q) \/ Hang(q)
  <2>1. UNCHANGED <<page, locks>>
    BY <1>7 DEF SafetyCleanup, Leave, Hang, reportVars
  <2> QED
    BY <1>1, <2>1
<1>8. CASE EmptiesInbox \/ HitOrTimeout \/ Block \/ Arrives
  <2>1. UNCHANGED <<page, locks>>
    BY <1>8 DEF EmptiesInbox, HitOrTimeout, Block, Arrives, roomVars
  <2> QED
    BY <1>1, <2>1
<1>9. CASE ~Visits /\ ~Hears
  BY <1>1, <1>9, VisitsOnly, HearsOnly, Numbers DEF pageVars, reportVars
<1> QED
  BY <1>2, <1>3, <1>4, <1>5, <1>6, <1>7, <1>8, <1>9 DEF Visits, Hears

\* Who is to lock again is decided at one instruction.
LEMMA RelockStays ==
  ASSUME Next, ~AsksForLocks
  PROVE  relock' = relock
<1>1. CASE ~Hears
  BY <1>1, HearsOnly, Numbers DEF reportVars
<1>2. CASE EmptiesInbox \/ HitOrTimeout \/ Block \/ Sends \/ Completes \/ HandlerSends \/ Arrives
  BY <1>2 DEF EmptiesInbox, HitOrTimeout, Block, Sends, Completes, HandlerSends, Arrives, handling
<1>3. ASSUME NEW p \in Pages,
             \/ ClickNext(p) \/ Lock(p) \/ TrackDone(p) \/ Reveal(p) \/ Answer(p) \/ AnswerFails(p)
             \/ Finish(p) \/ Esc(p) \/ LockReportLost(p)
      PROVE  relock' = relock
  BY <1>3 DEF ClickNext, Lock, TrackDone, Reveal, Answer, AnswerFails, Finish, Esc, LockReportLost,
              onPage, reportVars
<1> QED
  BY <1>1, <1>2, <1>3 DEF Hears, PageStep

\* An undisturbed run goes on to the next instruction, but for a check of the locks
\* that finds nothing to do, and a recording that is not there to stop.
LEMMA LockPath ==
  ASSUME TypeInv, HandlerInv, Next, Undisturbed', run'.at = "going", ~Still
  PROVE  /\ Running /\ run.at = "going" /\ run.pc \in 1 .. Len(script) /\ run.pc \in Nat /\ Ins = script[run.pc]
         /\ run'.pc \in 1 .. Len(script) + 1
         /\ \/ run'.pc = run.pc + 1
            \/ run'.pc = run.pc + 2 /\ Ins.do = "locks"
            \/ run'.pc = run.pc + 2 /\ Ins.do = "stop" /\ script[run.pc + 1].do = "stopped"
<1>1. /\ Running /\ run.at = "going" /\ run.pc \in 1 .. Len(script) /\ run.pc \in Nat /\ Ins = script[run.pc]
      /\ run'.pc \in Nat /\ run.pc < run'.pc
  BY GoesTo
<1>2. run'.pc \in 1 .. Len(script) + 1
  <2>1. RunTyped' /\ script' = script
    BY RunType, RulesStay, Numbers DEF rules
  <2> QED
    BY <2>1 DEF RunTyped
<1>3. Undisturbed /\ experiment \in Guarded
  BY UndisturbedBefore DEF Undisturbed
<1>4. Relocked(script) /\ Ordered(script)
  BY <1>3, LockShape, ScriptShape DEF TypeInv
<1>5. Onwards \/ Jumping
  <2>1. ~Thrown
    BY DEF Thrown
  <2>2. ~Leaving /\ ~Losing
    BY DEF Leaving, Losing, TypeInv, RunTyped
  <2>3. ~Returning
    BY DEF Returning, TypeInv, RunTyped
  <2> QED
    BY <2>1, <2>2, <2>3, RunMoves, Numbers
<1>6. CASE Onwards
  BY <1>1, <1>2, <1>6 DEF Onwards, TypeInv, RunTyped
<1>7. CASE Jumping
  <2>1. ~Doing("gate")
    BY <1>1, <1>4 DEF Relocked, Doing
  <2>2. ~(Doing("leave") /\ aborted)
    BY <1>3 DEF Undisturbed
  <2>3. Ins.do \in {"locks", "stop"} /\ run'.pc = run.pc + 2
    BY <1>7, <2>1, <2>2 DEF Jumping, Doing, TypeInv, RunTyped
  <2>4. Ins.do = "stop" => script[run.pc + 1].do = "stopped"
    BY <1>1, <1>4 DEF Ordered
  <2> QED
    BY <1>1, <1>2, <2>3, <2>4
<1> QED
  BY <1>5, <1>6, <1>7

\* The instructions about locks, in an undisturbed run.
LEMMA LockSteps ==
  ASSUME TypeInv, HandlerInv, Next, Undisturbed', run'.at = "going", ~Still
  PROVE  /\ Ins.do = "locked" => \A p \in Pages : locks[p] = "yes" /\ locks'[p] = "yes"
         /\ Ins.do = "relock" => UNCHANGED page /\ \A p \in relock : locks[p] = "yes"
         /\ Ins.do = "locks" => AsksForLocks
<1>1. Running /\ run.at = "going"
  BY LockPath
<1>2. ~aborted /\ ~disrupted /\ ~disrupted'
  BY UndisturbedBefore DEF Undisturbed
<1>3. ASSUME Ins.do = "locked"
      PROVE  \A p \in Pages : locks[p] = "yes" /\ locks'[p] = "yes"
  <2>1. LocksReported
    BY <1>1, <1>3, Executes
  <2>2. locks' = locks /\ Cardinality(LockedParticipants) >= 2
    BY <1>2, <2>1 DEF LocksReported, Everyone, waiting, reportVars
  <2>3. LockedParticipants = Pages
    <3>1. LockedParticipants \in SUBSET Pages
      BY DEF LockedParticipants
    <3>2. Cardinality(LockedParticipants) \in Nat /\ ~(Cardinality(LockedParticipants) < 2)
      BY <2>2, <3>1, BothOrFewer
    <3> QED
      BY <3>1, <3>2, BothOrFewer
  <2> QED
    BY <2>2, <2>3 DEF LockedParticipants
<1>4. ASSUME Ins.do = "relock"
      PROVE  UNCHANGED page /\ \A p \in relock : locks[p] = "yes"
  <2>1. LocksRecovered \/ LocksBreak
    BY <1>1, <1>4, Executes
  <2>2. ~LocksBreak
    BY <1>2 DEF LocksBreak, LosesParticipant
  <2> QED
    BY <1>2, <2>1, <2>2 DEF LocksRecovered, waiting, roomVars
<1>5. ASSUME Ins.do = "locks"
      PROVE  AsksForLocks
  <2>1. AsksForLocks \/ SendFails
    BY <1>1, <1>5, Executes
  <2>2. ASSUME SendFails
        PROVE  FALSE
    <3>1. Throw
      BY <1>5, <2>2 DEF SendFails, Doing
    <3> QED
      BY <1>1, <3>1, ThrowMoves DEF Thrown, Leaving, TypeInv, RunTyped
  <2> QED
    BY <2>1, <2>2
<1> QED
  BY <1>3, <1>4, <1>5

\* Both participants are there when the locks are checked.
LEMMA BothThere ==
  ASSUME CoreInv, Undisturbed, Doing("locks"), run.at = "going"
  PROVE  /\ present = Pages /\ ~Absent /\ Ins = script[run.pc] /\ run.pc \in 1 .. Len(script)
         /\ script[run.pc + 1].do = "relock" /\ run.pc + 1 \in 1 .. Len(script)
         /\ \E k \in 1 .. run.pc - 1 : script[k].do = "locked"
<1>1. /\ run.pc \in 1 .. Len(script) /\ Ins = script[run.pc] /\ script[run.pc].do = "locks"
      /\ Len(script) \in Nat /\ Bounded(script) /\ Relocked(script)
  BY ScriptShape, LockShape DEF CoreInv, TypeInv, RunTyped, Doing, Running, Ins, Undisturbed
<1>2. /\ script[run.pc + 1].do = "relock" /\ run.pc + 1 \in 1 .. Len(script)
      /\ \E k \in 1 .. run.pc - 1 : script[k].do = "locked"
  <2>1. /\ run.pc < Len(script) /\ script[run.pc + 1].do = "relock"
        /\ \E k \in 1 .. run.pc - 1 : script[k].do = "locked"
    BY <1>1, Zenon DEF Relocked
  <2> QED
    BY <1>1, <2>1
<1>3. ~PastEnd
  <2> SUFFICES ASSUME NEW i \in 1 .. run.pc - 1, script[i].do = "complete"
               PROVE  FALSE
    BY DEF PastEnd
  <2>1. i \in 1 .. Len(script) /\ run.pc + 1 \in i .. Len(script)
    BY <1>1, <1>2
  <2> QED
    BY <1>1, <1>2, <2>1 DEF Bounded, Waits
<1>4. present = Pages
  BY <1>3, MissingLeft DEF CoreInv, Undisturbed
<1>5. ~Absent
  BY <1>4, SessionAssumption DEF Absent
<1> QED
  BY <1>1, <1>2, <1>4, <1>5

\* While a page is in a trial, the run is neither at a message nor at a check of
\* the locks, and the locks are to be checked again.
LEMMA TrackingFree ==
  ASSUME TypeInv, TrackedInv, Undisturbed, NEW p \in present, InTrial(p)
  PROVE  /\ run.pc \in 1 .. Len(script) /\ script[run.pc].do \in {"try", "forget", "completions"}
         /\ ~Ready(run.pc)
<1>1. PICK i \in 1 .. Len(script) : TracksAt(p, i)
  BY DEF TrackedInv, Undisturbed
<1>2. script[i].do = "completions" /\ run.pc \in i - 2 .. i /\ i \in Nat
  BY <1>1 DEF TracksAt
<1>3. /\ i - 3 \in 1 .. Len(script)
      /\ script[i - 1].do = "forget" /\ script[i - 2].do = "try"
      /\ script[i - 3] = [do |-> "send", msg |-> "trajectory", value |-> script[i].trial]
      /\ script[i].trial \in Trials
  BY <1>2, TrackingPlace DEF TypeInv
<1>4. run.pc \in {i - 2, i - 1, i} /\ run.pc \in 1 .. Len(script)
  BY <1>2, <1>3, ScriptShape DEF TypeInv
<1>5. script[run.pc].do \in {"try", "forget", "completions"}
  BY <1>2, <1>3, <1>4
<1>6. i - 3 \in Frees(script)
  <2>1. i - 3 \in TurnsOn(script, "trajectory")
    BY <1>3, Numbers DEF TurnsOn, Said, Rest
  <2> QED
    BY <2>1 DEF Frees
<1>7. ~Ready(run.pc)
  <2> SUFFICES ASSUME NEW k \in Relocks(script), k < run.pc,
                      \A q \in Frees(script) : ~(k < q /\ q < run.pc)
               PROVE  FALSE
    BY DEF Ready, Since
  <2>1. k \in 1 .. Len(script) /\ k \in Nat /\ script[k].do = "relock"
    BY DEF Relocks
  <2>2. ~(k < i - 3)
    BY <1>2, <1>4, <1>6
  <2>3. k # i - 3
    BY <1>3, <2>1
  <2>4. k \in {i - 2, i - 1}
    BY <1>2, <1>4, <2>1, <2>2, <2>3
  <2> QED
    BY <1>3, <2>1, <2>4
<1> QED
  BY <1>4, <1>5, <1>7

-----------------------------------------------------------------------------
(* What the agent knows of the locks, and what it relies on. *)

\* The agent knows who has the task cursor, but for a page that does nothing.
ExactInv == Undisturbed => \A p \in Pages \ hung : Accurate(p)
\* Once all of them had it, everybody's lock is known.
KnownInv ==
    Undisturbed /\ run.at = "going" /\ (\E k \in 1 .. run.pc - 1 : script[k].do = "locked") =>
        \A p \in Pages : locks[p] # "none"
\* Whoever is not waited for, in the check of the locks, has it.
CheckInv ==
    Undisturbed /\ run.at = "going" /\ run.pc \in Relocks(script) =>
        \A p \in Pages \ hung : p \notin relock => page[p].locked
\* After the check everybody has it, until somebody is unlocked or a trial begins.
ReadyInv ==
    Undisturbed /\ run.at = "going" /\ Ready(run.pc) => \A p \in Pages \ hung : page[p].locked
\* Whoever tracks has it.
HeldInv ==
    Undisturbed => \A p \in Pages \ hung : page[p].track.at = "current" => page[p].locked
\* So has everybody during a timed trial.
TimedInv ==
    Undisturbed /\ experiment \in Timed /\ Up("target") /\ Up("shared") =>
        \A p \in Pages \ hung : page[p].locked
LockInv == ExactInv /\ KnownInv /\ CheckInv /\ ReadyInv /\ HeldInv /\ TimedInv

\* Every step keeps ExactInv.
LEMMA ExactStep ==
  ASSUME TypeInv, HandlerInv, ExactInv, Next
  PROVE  ExactInv'
<1> SUFFICES ASSUME Undisturbed', NEW p \in Pages \ hung'
             PROVE  Accurate(p)'
  BY DEF ExactInv
<1>1. Undisturbed /\ p \in Pages \ hung
  BY UndisturbedBefore, Leavers
<1> QED
  BY <1>1, LocksMove DEF ExactInv

\* Every step keeps KnownInv.
LEMMA KnownStep ==
  ASSUME TypeInv, HandlerInv, KnownInv, Next
  PROVE  KnownInv'
<1>1. script' = script
  BY RulesStay, Numbers DEF rules
<1> SUFFICES ASSUME Undisturbed', run'.at = "going",
                    NEW k \in 1 .. run'.pc - 1, script[k].do = "locked", NEW p \in Pages
             PROVE  locks'[p] # "none"
  BY <1>1 DEF KnownInv
<1>2. Undisturbed /\ run.at = "going"
  BY UndisturbedBefore, GoingOn
<1>3. CASE k \in 1 .. run.pc - 1
  BY <1>2, <1>3, LocksMove DEF KnownInv
<1>4. CASE k \notin 1 .. run.pc - 1
  <2>1. ~Still
    BY <1>4 DEF Still
  <2>2. /\ run.pc \in 1 .. Len(script) /\ run.pc \in Nat /\ Ins = script[run.pc]
        /\ \/ run'.pc = run.pc + 1
           \/ run'.pc = run.pc + 2 /\ Ins.do = "locks"
           \/ run'.pc = run.pc + 2 /\ Ins.do = "stop" /\ script[run.pc + 1].do = "stopped"
    BY <2>1, LockPath
  <2>3. Ins.do = "locks" => script[run.pc + 1].do = "relock"
    BY <1>2, <2>2, LockShape DEF Relocked, Undisturbed, TypeInv
  <2>4. k = run.pc \/ (k = run.pc + 1 /\ run'.pc = run.pc + 2)
    BY <1>4, <2>2
  <2>5. k = run.pc
    BY <2>2, <2>3, <2>4
  <2> QED
    BY <2>1, <2>2, <2>5, LockSteps
<1> QED
  BY <1>3, <1>4

\* Every step keeps CheckInv: the check begins with the pages that are not locked.
LEMMA CheckStep ==
  ASSUME CoreInv, TrackedInv, ExactInv, KnownInv, CheckInv, Next
  PROVE  CheckInv'
<1> USE DEF CoreInv
<1>1. script' = script
  BY RulesStay, Numbers DEF rules, TypeInv
<1> SUFFICES ASSUME Undisturbed', run'.at = "going", run'.pc \in Relocks(script),
                    NEW p \in Pages \ hung', p \notin relock'
             PROVE  page'[p].locked
  BY <1>1 DEF CheckInv
<1>2. Undisturbed /\ run.at = "going" /\ p \in Pages \ hung
  BY UndisturbedBefore, GoingOn, Leavers
<1>3. CASE Still
  <2>1. ~AsksForLocks /\ ~Sends
    BY <1>3, StepMoves DEF AsksForLocks, Sends
  <2>2. p \notin relock /\ run.pc \in Relocks(script)
    BY <1>3, <2>1, RelockStays DEF Still
  <2>3. page[p].locked
    BY <1>2, <2>2 DEF CheckInv
  <2>4. ~(p \in present /\ page[p].track.at = "current")
    BY <1>2, <2>2, TrackingFree DEF InTrial, Relocks
  <2> QED
    BY <1>2, <2>1, <2>3, <2>4, LocksMove
<1>4. CASE ~Still
  <2>1. /\ Running /\ run.pc \in 1 .. Len(script) /\ run.pc \in Nat /\ Ins = script[run.pc]
        /\ \/ run'.pc = run.pc + 1
           \/ run'.pc = run.pc + 2 /\ Ins.do = "locks"
           \/ run'.pc = run.pc + 2 /\ Ins.do = "stop" /\ script[run.pc + 1].do = "stopped"
    BY <1>4, LockPath
  <2>2. run'.pc \in 1 .. Len(script) /\ script[run'.pc].do = "relock"
    BY DEF Relocks
  <2>3. script[run'.pc - 1].do = "locks"
    BY <1>2, <2>2, LockShape, Zenon DEF Relocked, Undisturbed, TypeInv
  <2>4. Ins.do = "locks" => script[run.pc + 1].do = "relock"
    BY <1>2, <2>1, LockShape DEF Relocked, Undisturbed, TypeInv
  <2>5. run'.pc = run.pc + 1 /\ Ins.do = "locks"
    BY <2>1, <2>3, <2>4
  <2>6. AsksForLocks /\ Doing("locks")
    BY <1>4, <2>1, <2>5, LockSteps DEF Doing
  <2>7. ~Absent /\ present = Pages /\ \E k \in 1 .. run.pc - 1 : script[k].do = "locked"
    BY <1>2, <2>6, BothThere
  <2>8. relock' = Unlocked /\ Send("relock", Unlocked)
    BY <2>1, <2>5, <2>6 DEF AsksForLocks, Go, TypeInv, RunTyped
  <2>9. locks[p] = "yes"
    <3>1. locks[p] \in {"none", "yes", "no"} /\ locks[p] # "none"
      BY <1>2, <2>7 DEF KnownInv, TypeInv, ReportsTyped
    <3>2. locks[p] # "no"
      BY <1>2, <2>7, <2>8 DEF Unlocked
    <3> QED
      BY <3>1, <3>2
  <2>10. page[p].locked
    BY <1>2, <2>9 DEF ExactInv, Accurate
  <2> QED
    BY <2>8, <2>10, SendKeepsLocks DEF TypeInv
<1> QED
  BY <1>3, <1>4

\* How the run comes to where everybody has the task cursor.
LEMMA ReadyBegins ==
  ASSUME TypeInv, HandlerInv, Next, Undisturbed', run'.at = "going", ~Still, Ready(run'.pc)
  PROVE  \/ Ready(run.pc) /\ run.pc \notin Frees(script)
         \/ run.pc \in Relocks(script) /\ Ins.do = "relock"
         \/ Ins.do = "locks" /\ run'.pc = run.pc + 2
<1>1. /\ run.pc \in 1 .. Len(script) /\ run.pc \in Nat /\ Ins = script[run.pc]
      /\ \/ run'.pc = run.pc + 1
         \/ run'.pc = run.pc + 2 /\ Ins.do = "locks"
         \/ run'.pc = run.pc + 2 /\ Ins.do = "stop" /\ script[run.pc + 1].do = "stopped"
  BY LockPath
<1>2. PICK k \in Relocks(script) : k < run'.pc /\ \A q \in Frees(script) : ~(k < q /\ q < run'.pc)
  BY DEF Ready, Since
<1>3. k \in Nat /\ script[k].do = "relock"
  BY <1>2 DEF Relocks
<1>4. Frees(script) \in SUBSET Nat
  BY UndisturbedBefore, LockShape DEF Undisturbed, TypeInv
<1>5. CASE k < run.pc
  <2>1. \A q \in Frees(script) : ~(k < q /\ q < run.pc)
    BY <1>1, <1>2, <1>3, <1>4
  <2>2. run.pc \notin Frees(script)
    BY <1>1, <1>2, <1>5
  <2> QED
    BY <1>2, <1>5, <2>1, <2>2 DEF Ready, Since
<1>6. CASE k = run.pc
  BY <1>1, <1>2, <1>3, <1>6
<1>7. CASE k > run.pc
  <2>1. k = run.pc + 1 /\ run'.pc = run.pc + 2
    BY <1>1, <1>2, <1>3, <1>7
  <2> QED
    BY <1>1, <1>3, <2>1
<1> QED
  BY <1>1, <1>3, <1>5, <1>6, <1>7

\* Every step keeps ReadyInv.
LEMMA ReadyStep ==
  ASSUME CoreInv, TrackedInv, ExactInv, KnownInv, CheckInv, ReadyInv, Next
  PROVE  ReadyInv'
<1> USE DEF CoreInv
<1>1. script' = script
  BY RulesStay, Numbers DEF rules, TypeInv
<1> SUFFICES ASSUME Undisturbed', run'.at = "going", Ready(run'.pc), NEW p \in Pages \ hung'
             PROVE  page'[p].locked
  BY <1>1 DEF ReadyInv, Ready
<1>2. Undisturbed /\ run.at = "going" /\ p \in Pages \ hung
  BY UndisturbedBefore, GoingOn, Leavers
<1>3. CASE Still
  <2>1. ~Sends
    BY <1>3, StepMoves DEF Sends
  <2>2. Ready(run.pc) /\ page[p].locked
    BY <1>2, <1>3 DEF Still, ReadyInv
  <2>3. ~(p \in present /\ page[p].track.at = "current")
    BY <1>2, <2>2, TrackingFree DEF InTrial
  <2> QED
    BY <1>2, <2>1, <2>2, <2>3, LocksMove
<1>4. CASE ~Still /\ Ready(run.pc) /\ run.pc \notin Frees(script)
  <2>1. page[p].locked
    BY <1>2, <1>4 DEF ReadyInv
  <2>2. run.pc \notin Said(script, "unlock")
    BY <1>4 DEF Frees
  <2> QED
    BY <1>2, <1>4, <2>1, <2>2, LocksMove
<1>5. CASE ~Still /\ run.pc \in Relocks(script) /\ Ins.do = "relock"
  <2>1. UNCHANGED page /\ \A q \in relock : locks[q] = "yes"
    BY <1>5, LockSteps
  <2>2. page[p].locked
    BY <1>2, <1>5, <2>1 DEF CheckInv, ExactInv, Accurate
  <2> QED
    BY <2>1, <2>2
<1>6. CASE ~Still /\ Ins.do = "locks" /\ run'.pc = run.pc + 2
  <2>1. AsksForLocks /\ Doing("locks") /\ run.pc \in Nat
    BY <1>6, LockPath, LockSteps DEF Doing
  <2>2. ~Absent /\ present = Pages /\ \E k \in 1 .. run.pc - 1 : script[k].do = "locked"
    BY <1>2, <2>1, BothThere
  <2>3. ~Mishap("list")
    BY MishapCounts DEF Undisturbed, TypeInv
  <2>4. ~Step
    BY <1>6, <2>1 DEF Step, Go, TypeInv, RunTyped
  <2>5. Unlocked = {} /\ UNCHANGED page
    BY <2>1, <2>2, <2>3, <2>4 DEF AsksForLocks
  <2>6. locks[p] = "yes"
    <3>1. locks[p] \in {"none", "yes", "no"} /\ locks[p] # "none"
      BY <1>2, <2>2 DEF KnownInv, TypeInv, ReportsTyped
    <3>2. locks[p] # "no"
      BY <1>2, <2>2, <2>5 DEF Unlocked
    <3> QED
      BY <3>1, <3>2
  <2> QED
    BY <1>2, <2>5, <2>6 DEF ExactInv, Accurate
<1> QED
  BY <1>3, <1>4, <1>5, <1>6, ReadyBegins

\* Every step keeps HeldInv.
LEMMA HeldStep ==
  ASSUME CoreInv, TrackedInv, ReadyInv, HeldInv, Next
  PROVE  HeldInv'
<1> USE DEF CoreInv
<1> SUFFICES ASSUME Undisturbed', NEW p \in Pages \ hung', page'[p].track.at = "current"
             PROVE  page'[p].locked
  BY DEF HeldInv
<1>1. Undisturbed /\ p \in Pages \ hung
  BY UndisturbedBefore, Leavers
<1>2. Changes(p, page'[p])
  BY StepChanges
<1>3. CASE page'[p].track = page[p].track
  <2>1. page[p].track.at = "current" /\ page[p].locked
    BY <1>1, <1>3 DEF HeldInv
  <2>2. p \in present => ~(Sends /\ run.pc \in Said(script, "unlock"))
    BY <1>1, <2>1, TrackingFree DEF InTrial, Said
  <2> QED
    BY <1>1, <2>1, <2>2, LocksMove
<1>4. CASE Sends /\ run.pc \in TurnsOn(script, "trajectory")
  <2>1. run.at = "going" /\ ~Still
    BY <1>4, BeginsGoing DEF Rest
  <2>2. Ready(run.pc)
    BY <1>1, <1>4, LockShape DEF Relocked, Ready, Undisturbed, TypeInv
  <2>3. page[p].locked
    BY <1>1, <2>1, <2>2 DEF ReadyInv
  <2>4. run.pc \notin Said(script, "unlock")
    BY <1>4 DEF TurnsOn, Said
  <2> QED
    BY <1>1, <2>1, <2>3, <2>4, LocksMove
<1> QED
  BY <1>2, <1>3, <1>4 DEF Changes, TrackChanges

\* Every step keeps TimedInv.
LEMMA TimedStep ==
  ASSUME CoreInv, StageTyped, LitInv', PlayInv, ReadyInv', TimedInv, Next
  PROVE  TimedInv'
<1> USE DEF CoreInv
<1>1. script' = script /\ experiment' = experiment /\ RunTyped'
  BY RulesStay, Numbers, RunType DEF rules, TypeInv
<1> SUFFICES ASSUME Undisturbed', experiment \in Timed, Up("target")', Up("shared")', NEW p \in Pages \ hung'
             PROVE  page'[p].locked
  BY <1>1 DEF TimedInv
<1>2. Undisturbed /\ p \in Pages \ hung
  BY UndisturbedBefore, Leavers
<1>3. Relocked(script) /\ TimedRelocked(script) /\ experiment \in Shared
  BY <1>2, LockShape DEF Undisturbed, TypeInv
<1>4. CASE run'.at = "going"
  <2>1. Lit("target")' /\ Lit("shared")'
    BY <1>1, <1>3, <1>4 DEF LitInv
  <2>2. /\ Since(TurnsOn(script, "target"), TurnsOff(script, "target"), run'.pc)
        /\ Since(TurnsOn(script, "shared"), TurnsOff(script, "shared"), run'.pc)
    BY <1>1, <2>1 DEF Lit
  <2>3. Ready(run'.pc)
    BY <1>1, <1>3, <2>2 DEF TimedRelocked, Ready, RunTyped
  <2>4. Ready(run.pc)'
    BY <1>1, <2>3 DEF Ready
  <2> QED
    BY <1>4, <2>4 DEF ReadyInv
<1>5. CASE run'.at # "going"
  <2>1. ~(Sends /\ run.at = "going")
    BY <1>5 DEF Sends, Step, Go, TypeInv, RunTyped
  <2>2. ASSUME NEW msg \in {"target", "shared"}
        PROVE  ~(Sends /\ run.pc \in TurnsOn(script, msg))
    BY <2>1, BeginsGoing DEF Rest
  <2>3. Up("target") /\ Up("shared")
    <3>1. "target" \in DOMAIN Rest /\ "shared" \in DOMAIN Rest
      BY DEF Rest
    <3> QED
      BY <2>2, <3>1, UpMoves
  <2>4. page[p].locked
    BY <1>2, <2>3 DEF TimedInv
  <2>5. ~(Sends /\ run.pc \in Said(script, "unlock"))
    <3> SUFFICES ASSUME Sends, run.pc \in Said(script, "unlock")
                 PROVE  FALSE
      OBVIOUS
    <3>1. run.at = "throwing" /\ run.pc \in 1 .. Len(script)
      BY <2>1, SaidIn DEF Sends, Doing, Running
    <3> QED
      BY <1>3, <3>1 DEF PlaceInv, Relocked
  <2>6. ~(p \in present /\ page[p].track.at = "current")
    BY DEF PlayInv
  <2> QED
    BY <1>2, <2>4, <2>5, <2>6, LocksMove
<1> QED
  BY <1>4, <1>5

-----------------------------------------------------------------------------
(* Whoever plays can play. *)

\* What is known of the stage, the trials and the locks.
CanPlayInv == CoreInv /\ StageTyped /\ TrackedInv /\ LitInv /\ PlayInv /\ LockInv

\* It holds at the start.
LEMMA CanPlayStart == Init => CanPlayInv
<1> SUFFICES ASSUME Init PROVE CanPlayInv
  OBVIOUS
<1>1. CoreInv
  BY CoreStart
<1>2. stage.target = FALSE /\ stage.shared = "off" /\ StageTyped
  BY DEF Init, StageTyped
<1>3. ~Up("target") /\ ~Up("shared")
  BY <1>2 DEF Up, Now, Rest
<1>4. \A p \in Pages : /\ page[p].track.at = "idle" /\ ~page[p].locked
                       /\ locks[p] = "none"
  BY DEF Init
<1>5. present \subseteq Pages /\ Len(script) \in Nat /\ run.pc = 1
  BY <1>1, ScriptShape DEF CoreInv, TypeInv, RoomTyped, Init
<1>6. TrackedInv /\ LitInv /\ PlayInv
  BY <1>3, <1>4, <1>5 DEF TrackedInv, InTrial, LitInv, PlayInv
<1>7. ExactInv /\ HeldInv /\ TimedInv
  BY <1>3, <1>4 DEF ExactInv, Accurate, HeldInv, TimedInv
<1>8. KnownInv
  BY <1>5 DEF KnownInv
<1>9. CheckInv
  <2> SUFFICES ASSUME Undisturbed, 1 \in Relocks(script) PROVE FALSE
    BY <1>5 DEF CheckInv
  <2>1. Relocked(script) /\ 1 \in 1 .. Len(script) /\ script[1].do = "relock"
    BY <1>1, LockShape DEF CoreInv, TypeInv, Undisturbed, Relocks
  <2> QED
    BY <2>1 DEF Relocked
<1>10. ReadyInv
  <2> SUFFICES ASSUME NEW k \in Relocks(script), k < 1 PROVE FALSE
    BY <1>5 DEF ReadyInv, Ready, Since
  <2> QED
    BY <1>5 DEF Relocks
<1> QED
  BY <1>1, <1>2, <1>6, <1>7, <1>8, <1>9, <1>10 DEF CanPlayInv, LockInv

\* A step that changes nothing keeps it.
LEMMA CanPlayStutter ==
  ASSUME CanPlayInv, UNCHANGED vars
  PROVE  CanPlayInv'
<1>1. UNCHANGED <<run, script, experiment, aborted, disrupted, stage, admin, page, present, hung, gone,
                  completions, locks, relock, mishaps>>
  BY DEF vars, session, rules, agentVars, recorderVars, historyVars, roomVars, reportVars
<1>2. /\ UNCHANGED <<Troubles, Undisturbed>> /\ \A i : Ready(i)' = Ready(i)
      /\ \A msg : Up(msg)' = Up(msg) /\ Lit(msg)' = Lit(msg)
  BY <1>1 DEF Troubles, Undisturbed, Ready, Up, Now, Lit
<1>3. CoreInv'
  BY CoreStutter DEF CanPlayInv
<1>4. StageTyped' /\ TrackedInv' /\ LitInv' /\ PlayInv'
  BY <1>1, <1>2 DEF CanPlayInv, StageTyped, TrackedInv, InTrial, TracksAt, LitInv, PlayInv, Begins
<1>5. LockInv'
  BY <1>1, <1>2 DEF CanPlayInv, LockInv, ExactInv, Accurate, KnownInv, CheckInv, ReadyInv, HeldInv, TimedInv
<1> QED
  BY <1>3, <1>4, <1>5 DEF CanPlayInv

\* Every step keeps it.
LEMMA CanPlayStep ==
  ASSUME CanPlayInv, Next
  PROVE  CanPlayInv'
<1> USE DEF CanPlayInv
<1>1. TypeInv /\ HandlerInv
  BY DEF CoreInv
<1>2. CoreInv' /\ StageTyped'
  BY <1>1, CoreStep, UpMoves DEF Rest
<1>3. TrackedInv' /\ LitInv' /\ PlayInv'
  BY TrackedStep, LitStep, PlayStep
<1>4. ExactInv' /\ KnownInv' /\ CheckInv'
  BY <1>1, ExactStep, KnownStep, CheckStep DEF LockInv
<1>5. ReadyInv' /\ HeldInv'
  BY ReadyStep, HeldStep DEF LockInv
<1>6. TimedInv'
  BY <1>3, <1>5, TimedStep DEF LockInv
<1> QED
  BY <1>2, <1>3, <1>4, <1>5, <1>6 DEF LockInv

\* Whoever the rules have play has the task cursor, if nobody pressed Esc or left,
\* no listing failed and no report of a lock was lost: the agent waits for the
\* locks of both (execEnableVirtualCursor) and asks everybody it knows to be
\* without one before every trial (ensureTask7PointerLocks, agent.ts).
THEOREM PagesCanPlay == Spec => []PageCanPlay
<1>1. CanPlayInv /\ [Next]_vars => CanPlayInv'
  BY CanPlayStep, CanPlayStutter
<1>2. CanPlayInv => PageCanPlay
  <2> SUFFICES ASSUME CanPlayInv, experiment \in Guarded, ~aborted, ~disrupted, gone = {},
                      ~Happened({"esc", "lock", "list"}), NEW p \in Pages \ hung, Playing(p)
               PROVE  page[p].locked
    BY DEF PageCanPlay
  <2>1. Undisturbed
    BY DEF Undisturbed, Happened, Troubles
  <2>2. CASE page[p].track.at = "current"
    BY <2>1, <2>2 DEF CanPlayInv, LockInv, HeldInv
  <2>3. CASE experiment \in Timed /\ stage.target /\ stage.shared # "off"
    <3>1. Up("target")
      <4>1. stage.target # FALSE
        BY <2>3, Zenon
      <4>2. Now("target") = stage.target /\ Rest["target"] = FALSE
        BY DEF Now, Rest
      <4> QED
        BY <4>1, <4>2, Zenon DEF Up
    <3>2. Up("shared")
      BY <2>3 DEF Up, Now, Rest
    <3> QED
      BY <2>1, <2>3, <3>1, <3>2 DEF CanPlayInv, LockInv, TimedInv
  <2> QED
    BY <2>2, <2>3 DEF Playing
<1> QED
  BY CanPlayStart, <1>1, <1>2, PTL DEF Spec

=============================================================================
