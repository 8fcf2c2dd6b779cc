---------------------------- MODULE PointToPoint ----------------------------
(***************************************************************************)
(* The point-to-point game of Task 9 on the pages of one session: the agent *)
(* opens and closes trials (task9/experiment.ts), every page draws its own  *)
(* copy of the game in its frames (task9/sketch.ts, point-to-point.ts), the *)
(* participants' cursors reach the others as packets that may get lost, and *)
(* in a shared trial the admin's page alone turns a hit into the next       *)
(* target (App.tsx).                                                        *)
(*                                                                          *)
(* Reliable messages reach a page in the order in which the media server    *)
(* got them; the admin's updates first travel up to it.  A frame draws what *)
(* React last committed.  Positions are not modelled: in a running game the *)
(* controlling cursor may be on the target in any frame.  A cursor's age    *)
(* counts keepalive periods.                                                *)
(***************************************************************************)
EXTENDS Integers, Sequences, FiniteSets

CONSTANTS
    Players,    \* the two participants
    Followed,   \* those whose pages the model follows: no page depends on the
                \* page of a participant, only on the cursor it sends
    Admin,      \* the admin's page
    Plans,      \* the sessions: the phase of each trial, a bound on the hits of a
                \* trial, a bound on the packets lost, the pages that may lose them,
                \* the pages on a visible tab (a hidden one gets no frames), and
                \* the participants one of whom may leave
    Trials,     \* trial numbers
    SetSize,    \* targets on the grid (19 in the code)
    Shuffle,    \* trial -> set -> the targets as the seeded shuffle orders them
    MaxScore,   \* the largest bound on the hits of a trial
    MaxLag,     \* bound on the admin's messages waiting to be forwarded
    Stale       \* keepalive periods a cursor outlives without a packet

Pages == Followed \cup {Admin}
Targets == 0 .. SetSize - 1
Sets == 0 .. MaxScore \div SetSize
Orders == {s \in [1 .. SetSize -> Targets] : \A i, j \in 1 .. SetSize : s[i] = s[j] => i = j}

ASSUME GameAssumption ==
    /\ IsFiniteSet(Players) /\ Cardinality(Players) = 2 /\ Admin \notin Players /\ Followed \subseteq Players
    /\ Trials \subseteq Nat \ {0}
    /\ Plans \subseteq [phases : Seq({"baseline", "shared", "washout"}), hits : 0 .. MaxScore,
                       losses : Nat, lossy : SUBSET (Followed \cup {Admin}),
                       drawing : SUBSET (Followed \cup {Admin}), leavers : SUBSET Players]
    /\ \A plan \in Plans : DOMAIN plan.phases \subseteq Trials
    /\ SetSize \in Nat /\ SetSize >= 3
    /\ Shuffle \in [Trials -> [Sets -> Orders]]
    /\ MaxScore \in Nat /\ Stale \in Nat \ {0} /\ MaxLag \in Nat \ {0}

VARIABLES
    plan,      \* the session of this behaviour
    serving,   \* what the agent does about the current trial
    trial,     \* its number
    inbox,     \* page -> reliable messages on their way to it
    uplink,    \* the admin's target messages on their way up
    state,     \* targetState and targetVisible of the admin's page
    ref,       \* targetStateRef.current of the admin's page
    page,      \* page -> what it last rendered
    cursors,   \* page -> cursorsRef.current: participant -> age of the cursor
    eldest,    \* the first entry of the admin's Map
    game,      \* page -> trialState and clock of its sketch
    shown,     \* page -> task9Score
    log,       \* trial -> the acquisitions the admin's page recorded
    losses,    \* packets lost so far
    present    \* the participants in the room

netVars == <<plan, serving, trial, inbox, uplink>>
viewVars == <<state, ref, page>>
gameVars == <<game, shown, log>>
cursorVars == <<cursors, eldest, losses, present>>
vars == <<netVars, viewVars, cursorVars, gameVars>>

-----------------------------------------------------------------------------
(* The order of the targets *)

\* shuffledTask9TargetSet() after the shuffle: a set does not begin with the
\* last target of the one before it, and does not repeat its order.
Swap(s, i, j) == [s EXCEPT ![i] = s[j], ![j] = s[i]]
\* mutant of AvoidBoundary: only a repeated order is avoided
AvoidBoundary_Repeat(previous, s) == s
AvoidBoundary(previous, s) == IF s[1] = previous[SetSize] THEN Swap(s, 1, 2) ELSE s
AvoidRepeat(previous, s) == IF s = previous THEN Swap(s, 2, 3) ELSE s
TargetSets(k) ==
    LET set[n \in Sets] ==
          IF n = 0 THEN Shuffle[k][0]
          ELSE AvoidRepeat(set[n - 1], AvoidBoundary(set[n - 1], Shuffle[k][n]))
    IN  set

SelectTarget(k, n) == TargetSets(k)[n \div SetSize][(n % SetSize) + 1]

-----------------------------------------------------------------------------
(* Target messages.  The agent's carries no index: the sketch derives it.   *)

NoIndex == -1
NoTarget == [trial |-> 0, seq |-> 0, score |-> 0, index |-> NoIndex]
InitialTarget(k) == [NoTarget EXCEPT !.trial = k]
IsShared(k) == k \in DOMAIN plan.phases /\ plan.phases[k] = "shared"

TargetMessage(t) == [kind |-> "target", target |-> t]
Notice(kind) == [kind |-> kind, target |-> NoTarget]

SendAll(messages) == inbox' = [v \in Pages |-> inbox[v] \o messages]

\* advanceTask9SharedTargetParams(): the admin's target after a hit of its
\* sketch, if the hit is the one the target waits for.
Expects(t, hit) ==
    /\ IsShared(t.trial) /\ t.trial = hit.trial /\ t.seq = hit.seq
    /\ t.index \in {NoIndex, hit.index}
Advanced(t, hit) ==
    [t EXCEPT !.seq = @ + 1, !.score = @ + 1, !.index = hit.next]

-----------------------------------------------------------------------------
(* Cursors *)

\* The participants whose cursors page v has.
Held(v) == DOMAIN cursors[v]
Only(ages, who) == [p \in who |-> ages[p]]

\* upsertCursor(): a packet refreshes the time of its entry.
\* mutant of Aged: only a new entry gets the time of its packet
Aged_Kept(v, p, heard) == IF p \in Held(v) THEN cursors[v][p] + 1 ELSE 0
Aged(v, p, heard) == IF p \in heard THEN 0 ELSE cursors[v][p] + 1

\* The 100 ms sweep deletes what is older than Stale.
\* mutant of Swept: nobody sweeps
Swept_Never(ages) == ages
Swept(ages) == Only(ages, {p \in DOMAIN ages : ages[p] <= Stale})

\* handleDataReceived(): the packets of heard arrive at page v within one
\* keepalive period.
Arrived(v, heard) == Swept([p \in Held(v) \cup heard |-> Aged(v, p, heard)])

\* A Map keeps the place of an entry it has, and new ones go to the end, in any
\* order: who comes first on the admin's page when it has the cursors of who.
FirstOf(who) ==
    LET stay == Held(Admin) \cap who
    IN  IF eldest \in stay THEN {eldest}
        ELSE IF stay # {} THEN stay ELSE IF who # {} THEN who ELSE {eldest}
Holds(v, ages) ==
    /\ cursors' = [cursors EXCEPT ![v] = ages]
    /\ eldest' \in IF v = Admin THEN FirstOf(DOMAIN ages) ELSE {eldest}

\* sharedTaskCursor: the mean of two participants' cursors, in a shared trial.
SharedTaskCursor(v, k) == IF IsShared(k) /\ Held(v) = Players THEN Players ELSE {}
\* rawAverageCursor: the mean of whatever cursors there are.
RawAverage(v) == Held(v)
\* displayedAverageCursor
DisplayedAverage(v, k) ==
    IF SharedTaskCursor(v, k) # {} THEN SharedTaskCursor(v, k) ELSE RawAverage(v)
\* visibleCursors of a solo trial: the first of all of them on the admin's page,
\* one's own elsewhere.
FirstVisible(v) == Held(v) \cap {IF v = Admin THEN eldest ELSE v}

\* controlCursor(): the participants whose cursors move the point that page v
\* plays with, and the identity its sketch plays under.
Control(v, k) == IF IsShared(k) THEN DisplayedAverage(v, k) ELSE FirstVisible(v)
IdentityKey(v, k) == IF IsShared(k) THEN Players ELSE Control(v, k)

-----------------------------------------------------------------------------
(* The sketch *)

NoGame == [trial |-> 0, id |-> {}, seq |-> 0, score |-> 0, index |-> 0,
           dwell |-> "out", clock |-> "countdown"]
NewGame(k, id) == [NoGame EXCEPT !.trial = k, !.id = id, !.index = SelectTarget(k, 0)]

\* syncTask9AuthoritativeState()
Sync(g, t) ==
    IF t.seq <= g.seq THEN g
    ELSE [g EXCEPT !.seq = t.seq, !.score = t.score, !.dwell = "out",
                   !.index = IF t.index = NoIndex THEN @ ELSE t.index]

\* ensureTrialState()
EnsureTrialState(v) ==
    LET t    == page[v].target
        id   == IdentityKey(v, t.trial)
        kept == IF game[v].trial # t.trial THEN NewGame(t.trial, id)
                ELSE IF game[v].id # id
                     THEN [NewGame(t.trial, id) EXCEPT !.clock = game[v].clock]
                     ELSE game[v]
    IN  IF IsShared(t.trial) THEN Sync(kept, t) ELSE kept

\* updateDwellState(): the cursor has to stay for the dwell time, and a hit
\* stays scored until the next target.
Dwell(dwell, inside) ==
    IF dwell = "scored" THEN {"scored"}
    ELSE IF ~inside THEN {"out"}
    ELSE IF dwell = "out" THEN {"in"} ELSE {"in", "scored"}

\* updateTask9TrialHit() on a new hit: a solo game goes on at once, a shared
\* one waits for the admin's update.
AfterHit(g) ==
    IF IsShared(g.trial) THEN [g EXCEPT !.dwell = "scored"]
    ELSE [g EXCEPT !.seq = @ + 1, !.score = @ + 1, !.index = SelectTarget(g.trial, g.seq + 1),
                   !.dwell = "out"]
HitOf(g) ==
    [trial |-> g.trial, seq |-> g.seq, index |-> g.index, next |-> SelectTarget(g.trial, g.seq + 1)]

Init ==
    /\ plan \in Plans
    /\ serving = "idle" /\ trial = 0
    /\ inbox = [v \in Pages |-> <<>>] /\ uplink = <<>>
    /\ state = [target |-> NoTarget, visible |-> FALSE]
    /\ ref = NoTarget
    /\ page = [v \in Pages |-> [target |-> NoTarget, visible |-> FALSE, asked |-> 0]]
    /\ cursors = [v \in Pages |-> [p \in Players |-> 0]] /\ eldest \in Players
    /\ game = [v \in Pages |-> NoGame]
    /\ shown = [v \in Pages |-> [trial |-> 0, score |-> 0]]
    /\ log = [k \in Trials |-> <<>>] /\ losses = 0 /\ present = Players

-----------------------------------------------------------------------------
(* The agent: runTrialBody() *)

\* Between two trials lie the questionnaire and its waits, or the notice of
\* the finished trial: seconds in which the admin's page comes to rest.
Settled == uplink = <<>> /\ inbox[Admin] = <<>> /\ page[Admin].target = state.target
           /\ page[Admin].visible = state.visible /\ ref = state.target

OpenTrial ==
    /\ serving = "idle" /\ trial < Len(plan.phases) /\ Settled
    /\ serving' = "playing" /\ trial' = trial + 1
    /\ SendAll(<<TargetMessage(InitialTarget(trial + 1)), Notice("show")>>)
    /\ UNCHANGED <<plan, uplink, viewVars, cursorVars, gameVars>>

\* The trial's time is over; a shared one ends with a question.
CloseTrial ==
    /\ serving = "playing"
    /\ IF IsShared(trial)
       THEN /\ serving' = "asking"
            /\ SendAll(<<Notice("hide"), [Notice("ask") EXCEPT !.target = InitialTarget(trial)]>>)
       ELSE /\ serving' = "idle"
            /\ SendAll(<<Notice("hide")>>)
    /\ UNCHANGED <<plan, trial, uplink, viewVars, cursorVars, gameVars>>

CloseQuestion ==
    /\ serving = "asking"
    /\ serving' = "idle"
    /\ SendAll(<<Notice("close")>>)
    /\ UNCHANGED <<plan, trial, uplink, viewVars, cursorVars, gameVars>>

\* The agent finds a participant gone: the finally block hides the target, the
\* handler closes the question, and no trial follows.
Abort ==
    /\ present # Players /\ serving # "over"
    /\ serving' = "over"
    /\ SendAll(<<Notice("hide"), Notice("close")>>)
    /\ UNCHANGED <<plan, trial, uplink, viewVars, cursorVars, gameVars>>

-----------------------------------------------------------------------------
(* The pages *)

\* handleDataReceived() for targets and setTargetVisible; the admin's page
\* takes targets from the agent only.
View(old, m) ==
    CASE m.kind = "target" -> [old EXCEPT !.target = m.target]
      [] m.kind = "show"   -> [old EXCEPT !.visible = TRUE]
      [] m.kind = "hide"   -> [old EXCEPT !.visible = FALSE]
      [] OTHER             -> old

DeliverToAdmin ==
    /\ inbox[Admin] # <<>>
    /\ inbox' = [inbox EXCEPT ![Admin] = Tail(@)]
    /\ state' = View(state, Head(inbox[Admin]))
    /\ UNCHANGED <<plan, serving, trial, uplink, ref, page, cursorVars, gameVars>>

\* React commits: the effect copies targetState to its ref.
Commit ==
    /\ page' = [page EXCEPT ![Admin].target = state.target, ![Admin].visible = state.visible]
    /\ ref' = state.target
    /\ UNCHANGED <<netVars, state, cursorVars, gameVars>>

\* A participant's page has no other source of targets, so that its commit
\* belongs to the delivery.
Deliver(p) ==
    /\ inbox[p] # <<>> /\ p \in present
    /\ LET m == Head(inbox[p])
       IN  page' = [page EXCEPT ![p] =
                      CASE m.kind = "ask"   -> [@ EXCEPT !.asked = m.target.trial]
                        [] m.kind = "close" -> [@ EXCEPT !.asked = 0]
                        [] OTHER            -> View(@, m)]
    /\ inbox' = [inbox EXCEPT ![p] = Tail(@)]
    /\ UNCHANGED <<plan, serving, trial, uplink, state, ref, cursorVars, gameVars>>

\* The media server forwards a message of the admin's page.
Forward ==
    /\ uplink # <<>>
    /\ inbox' = [v \in Pages |-> IF v = Admin THEN inbox[v] ELSE Append(inbox[v], Head(uplink))]
    /\ uplink' = Tail(uplink)
    /\ UNCHANGED <<plan, serving, trial, viewVars, cursorVars, gameVars>>

InRoom(v) == v = Admin \/ v \in present

\* sendCursor() publishes unreliably: page v hears some of those present.  A
\* participant's own entry misses a period when the page itself stood still.
Published(v, heard) ==
    /\ losses' = losses + Cardinality(present \ heard)
    /\ losses' <= plan.losses /\ (v \in plan.lossy \/ heard = present)

\* One keepalive period at page v: the participants' packets, and the sweep.
KeepAlive(v) ==
    \E heard \in SUBSET present :
        /\ InRoom(v)
        /\ Published(v, heard)
        /\ Holds(v, Arrived(v, heard))
        /\ UNCHANGED <<netVars, viewVars, present, gameVars>>

\* disconnect(): the page forgets every cursor.
Leave(p) ==
    /\ present = Players /\ p \in plan.leavers
    /\ present' = Players \ {p}
    /\ cursors' = [v \in Pages |-> IF v = p THEN Only(cursors[v], {}) ELSE cursors[v]]
    /\ UNCHANGED <<netVars, viewVars, eldest, losses, gameVars>>

\* RoomEvent.ParticipantDisconnected at page v.
ParticipantDisconnected(v) ==
    /\ InRoom(v) /\ Held(v) \ present # {}
    /\ Holds(v, Only(cursors[v], Held(v) \cap present))
    /\ UNCHANGED <<netVars, viewVars, losses, present, gameVars>>

-----------------------------------------------------------------------------
(* Frames *)

\* p5StageTarget and drawTaskLayer(): without a visible target the sketch
\* does nothing.
Draws(v) == v \in plan.drawing /\ InRoom(v) /\ page[v].visible /\ page[v].target.trial # 0
Playing(v, g) == g.clock = "running" /\ Control(v, g.trial) # {}
NextDwells(g) == UNION {Dwell(g.dwell, inside) : inside \in BOOLEAN}

\* task9-score-state: sent when the trial, the identity or the number changed.
\* mutant of Informed: sent in every frame
Informed_Always(v, g) == [trial |-> g.trial, score |-> g.score]
Informed(v, g) ==
    IF <<g.trial, g.id, g.seq>> = <<game[v].trial, game[v].id, game[v].seq>> THEN shown[v]
    ELSE [trial |-> g.trial, score |-> g.score]

\* A frame without a new hit.
DrawFrame(v) ==
    /\ Draws(v)
    /\ LET g == EnsureTrialState(v)
       IN  \E dwell \in IF Playing(v, g) THEN NextDwells(g) ELSE {g.dwell} :
             /\ dwell = "scored" => g.dwell = "scored"
             /\ game' = [game EXCEPT ![v] = [g EXCEPT !.dwell = dwell]]
             /\ shown' = [shown EXCEPT ![v] = Informed(v, g)]
    /\ UNCHANGED <<netVars, viewVars, cursorVars, log>>

Hits(v, g) ==
    /\ Draws(v) /\ Playing(v, g)
    /\ g.dwell # "scored" /\ "scored" \in NextDwells(g)
    /\ g.seq < plan.hits

\* A hit in a solo trial counts on the page that drew it, and only there.
SoloHit(v) ==
    LET g == EnsureTrialState(v)
    IN  /\ Hits(v, g) /\ ~IsShared(g.trial)
        /\ game' = [game EXCEPT ![v] = AfterHit(g)]
        /\ shown' = [shown EXCEPT ![v] = [trial |-> g.trial, score |-> g.score + 1]]
        /\ UNCHANGED <<netVars, viewVars, cursorVars, log>>

\* handleScoreAcquired(): a participant's page ignores its own shared hits.
SharedHit(v) ==
    LET g == EnsureTrialState(v)
    IN  /\ Hits(v, g) /\ IsShared(g.trial)
        /\ v = Admin => ~Expects(ref, HitOf(g))
        /\ game' = [game EXCEPT ![v] = AfterHit(g)]
        /\ shown' = [shown EXCEPT ![v] = Informed(v, g)]
        /\ UNCHANGED <<netVars, viewVars, cursorVars, log>>

\* The target the handler puts in the place of the old one.
\* mutant of Shows: the page's own target is left to the message
Shows_Old(next) == state.target
Shows(next) == next

ScoreAcquired ==
    LET g    == EnsureTrialState(Admin)
        next == Advanced(ref, HitOf(g))
    IN  /\ Hits(Admin, g) /\ IsShared(g.trial) /\ Expects(ref, HitOf(g))
        /\ Len(uplink) < MaxLag
        /\ game' = [game EXCEPT ![Admin] = AfterHit(g)]
        /\ ref' = next
        /\ state' = [state EXCEPT !.target = Shows(next)]
        /\ shown' = [shown EXCEPT ![Admin] = [trial |-> next.trial, score |-> next.score]]
        /\ uplink' = Append(uplink, TargetMessage(next))
        /\ log' = [log EXCEPT ![g.trial] =
                      Append(@, [seq |-> g.seq, index |-> g.index, by |-> Control(Admin, g.trial)])]
        /\ UNCHANGED <<plan, serving, trial, inbox, page, cursorVars>>

\* getTask9Clock(): countdown, the game, its end, as each page measures them
\* from the moment it received the target.
Elapse(v) ==
    /\ Draws(v) /\ game[v].trial = page[v].target.trial
    /\ game[v].clock # "complete"
    /\ game' = [game EXCEPT ![v].clock = IF @ = "countdown" THEN "running" ELSE "complete"]
    /\ UNCHANGED <<netVars, viewVars, cursorVars, shown, log>>

Next ==
    \/ OpenTrial \/ CloseTrial \/ CloseQuestion \/ Abort
    \/ DeliverToAdmin \/ Commit \/ Forward \/ ScoreAcquired
    \/ \E p \in Followed : Deliver(p)
    \/ \E p \in Players : Leave(p)
    \/ \E v \in Pages : \/ KeepAlive(v) \/ ParticipantDisconnected(v)
                        \/ DrawFrame(v) \/ SoloHit(v)
                        \/ SharedHit(v) \/ Elapse(v)

Spec == Init /\ [][Next]_vars

-----------------------------------------------------------------------------
(* Properties *)

\* Every variable stays in its domain.
TargetType == [trial : Trials \cup {0}, seq : 0 .. MaxScore, score : 0 .. MaxScore,
               index : Targets \cup {NoIndex}]
MessageType == [kind : {"target", "show", "hide", "ask", "close"}, target : TargetType]
TypeOK ==
    /\ plan \in Plans
    /\ serving \in {"idle", "playing", "asking", "over"} /\ trial \in Trials \cup {0}
    /\ inbox \in [Pages -> Seq(MessageType)] /\ uplink \in Seq(MessageType)
    /\ state \in [target : TargetType, visible : BOOLEAN] /\ ref \in TargetType
    /\ page \in [Pages -> [target : TargetType, visible : BOOLEAN, asked : Trials \cup {0}]]
    /\ cursors \in [Pages -> UNION {[S -> 0 .. Stale] : S \in SUBSET Players}] /\ eldest \in Players
    /\ game \in [Pages -> [trial : Trials \cup {0}, id : SUBSET Players, seq : 0 .. MaxScore,
                           score : 0 .. MaxScore, index : Targets,
                           dwell : {"out", "in", "scored"},
                           clock : {"countdown", "running", "complete"}]]
    /\ shown \in [Pages -> [trial : Trials \cup {0}, score : 0 .. MaxScore]]
    /\ log \in [Trials -> Seq([seq : 0 .. MaxScore, index : Targets, by : SUBSET Players])]
    /\ losses \in 0 .. plan.losses /\ present \subseteq Players

\* The recorded hits of a trial are numbered without a gap, no target comes
\* twice within a set or twice running, and the admin's score counts them.
RecordInOrder ==
    \A k \in Trials :
        LET hits == log[k]
        IN  /\ \A i \in DOMAIN hits : hits[i].seq = i - 1
            /\ \A i, j \in DOMAIN hits :
                 (i < j /\ ((i - 1) \div SetSize = (j - 1) \div SetSize \/ j = i + 1))
                     => hits[i].index # hits[j].index
            /\ ref.trial = k => ref.score = Len(hits)

\* What a page plays, and the score it shows, in a shared trial is a state
\* the record went through; a question never shows more than was recorded.
PagesAgree ==
    \A v \in Pages :
        LET k    == game[v].trial
            hits == log[k]
        IN  IsShared(k) =>
              /\ game[v].score = game[v].seq
              /\ game[v].seq <= Len(hits)
              /\ game[v].seq < Len(hits) => game[v].index = hits[game[v].seq + 1].index
              /\ shown[v].trial = k => shown[v].score <= Len(hits)

\* One game in a shared trial: the record is in order and all pages play it
\* (App.tsx:3611, task9/sketch.ts:53).
OneGame == RecordInOrder /\ PagesAgree

\* Within a trial no page's score falls, unless its sketch lost the cursor
\* it plays with, of which packets were lost or whose participant left (task9/sketch.ts:72, point-to-point.ts:372).
ScoreKept ==
    [][\A v \in Pages :
         (game'[v].trial = game[v].trial /\ game[v].trial # 0) =>
            \/ /\ game'[v].score >= game[v].score
               /\ shown[v].trial = game[v].trial => shown'[v].score >= shown[v].score
            \/ /\ ~IsShared(game[v].trial)
               /\ game'[v].id # game[v].id /\ (losses > Stale \/ present # Players)]_vars

\* A shared hit was made by both participants: one cursor alone moves the
\* point only after packets were lost for as long as a cursor lives, or one of
\* them left (App.tsx:3253, 6226, 6816).
HitsAreShared ==
    \A k \in Trials : \A i \in DOMAIN log[k] :
        log[k][i].by = Players \/ losses > Stale \/ present # Players

\* A hit never blocks the game: the admin's target is ahead of a sketch that
\* waits with a scored hit, and the last target that is on its way to a
\* participant's page, or there, is the admin's (App.tsx:3640).
Coming(v) ==
    LET way     == inbox[v] \o uplink
        targets == {i \in DOMAIN way : way[i].kind = "target"}
    IN  IF targets = {} THEN page[v].target
        ELSE way[CHOOSE i \in targets : \A j \in targets : j <= i].target
HitsAnswered ==
    /\ (game[Admin].dwell = "scored" /\ ref.trial = game[Admin].trial) => ref.seq > game[Admin].seq
    /\ \A p \in Followed \cap present : Coming(p).trial = ref.trial => Coming(p) = ref

=============================================================================
