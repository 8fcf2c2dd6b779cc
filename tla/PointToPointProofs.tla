------------------------- MODULE PointToPointProofs -------------------------
(***************************************************************************)
(* Task 9, for any number of targets, any shuffle, any sessions and any two *)
(* participants: the order of the targets, the types, that all pages play   *)
(* one game, who makes a shared hit, that no hit blocks the game and that   *)
(* no score falls.  Every part has an inductive invariant of its own, which *)
(* rests on those before it.                                                *)
(***************************************************************************)
EXTENDS PointToPoint, TLAPS, SequenceTheorems, FiniteSetTheorems, NaturalsInduction,
        WellFoundedInduction

\* Exchanging two places of an order of all targets gives one again.
LEMMA SwapOrders ==
  ASSUME NEW s \in Orders, NEW i \in 1 .. SetSize, NEW j \in 1 .. SetSize
  PROVE  Swap(s, i, j) \in Orders
<1> DEFINE t == Swap(s, i, j)
<1>1. s \in [1 .. SetSize -> Targets]
  BY DEF Orders
<1>2. t \in [1 .. SetSize -> Targets]
  BY <1>1 DEF Swap
<1>3. \A k \in 1 .. SetSize : t[k] = IF k = j THEN s[i] ELSE IF k = i THEN s[j] ELSE s[k]
  BY <1>1 DEF Swap
<1>4. ASSUME NEW k \in 1 .. SetSize, NEW l \in 1 .. SetSize, t[k] = t[l]
      PROVE  k = l
  BY <1>1, <1>3, <1>4 DEF Orders
<1> QED
  BY <1>2, <1>4 DEF Orders

\* shuffledTask9TargetSet(): whatever the shuffle gives, the next set is an order
\* of all targets, begins with another target than the last of the set before
\* it, and is not that set again; the two repairs do not undo each other.
THEOREM NextSetIsNew ==
  ASSUME NEW previous \in Orders, NEW s \in Orders
  PROVE  LET next == AvoidRepeat(previous, AvoidBoundary(previous, s))
         IN  next \in Orders /\ next[1] # previous[SetSize] /\ next # previous
<1> DEFINE t == AvoidBoundary(previous, s)
           next == AvoidRepeat(previous, t)
<1>1. SetSize \in Nat /\ SetSize >= 3
  BY GameAssumption
<1>2. 1 \in 1 .. SetSize /\ 2 \in 1 .. SetSize /\ 3 \in 1 .. SetSize /\ SetSize \in 1 .. SetSize
  BY <1>1
<1>3. t \in Orders
  BY <1>2, SwapOrders DEF AvoidBoundary
<1>4. next \in Orders
  BY <1>2, <1>3, SwapOrders DEF AvoidRepeat
<1>5. t[1] # previous[SetSize]
  <2>1. CASE s[1] = previous[SetSize]
    <3>1. t[1] = s[2]
      BY <1>2, <2>1 DEF AvoidBoundary, Swap, Orders
    <3>2. s[1] # s[2]
      BY <1>2 DEF Orders
    <3> QED
      BY <2>1, <3>1, <3>2
  <2>2. CASE s[1] # previous[SetSize]
    BY <2>2 DEF AvoidBoundary
  <2> QED
    BY <2>1, <2>2
<1>6. next[1] = t[1]
  BY <1>2, <1>3 DEF AvoidRepeat, Swap, Orders
<1>7. next # previous
  <2>1. CASE t = previous
    <3>1. next[2] = t[3]
      BY <1>2, <1>3, <2>1 DEF AvoidRepeat, Swap, Orders
    <3>2. t[2] # t[3]
      BY <1>2, <1>3 DEF Orders
    <3> QED
      BY <2>1, <3>1, <3>2
  <2>2. CASE t # previous
    BY <2>2 DEF AvoidRepeat
  <2> QED
    BY <2>1, <2>2
<1> QED
  BY <1>4, <1>5, <1>6, <1>7

-----------------------------------------------------------------------------
(* All the sets of a trial *)

\* The least number of a set: what an induction over the sets rests on.
LEMMA LeastNumber ==
  ASSUME NEW T \in SUBSET Nat, T # {}
  PROVE  \E x \in T : \A y \in T : x <= y
<1> DEFINE R == OpToRel(<, Nat)
<1>1. IsWellFoundedOn(R, Nat)
  BY NatLessThanWellFounded
<1>2. \E x \in T : \A y \in T : ~(<<y, x>> \in R)
  <2> HIDE DEF R
  <2> QED
    BY <1>1, WFMin
<1>3. \A x, y \in Nat : y < x => <<y, x>> \in R
  BY DEF OpToRel
<1>4. PICK x \in T : \A y \in T : ~(<<y, x>> \in R)
  BY <1>2
<1> HIDE DEF R
<1>5. \A y \in T : ~(y < x)
  BY <1>3, <1>4
<1> QED
  BY <1>5

\* The set after a given one, and a list of the first sets of a trial.
NextSet(k, n, previous) == AvoidRepeat(previous, AvoidBoundary(previous, Shuffle[k][n]))
IsListOfSets(k, m, g) ==
    /\ g \in [0 .. m -> Orders] /\ g[0] = Shuffle[k][0]
    /\ \A n \in 1 .. m : g[n] = NextSet(k, n, g[n - 1])
LastSet == MaxScore \div SetSize

\* There is a last set.
LEMMA LastSetIsNumber == LastSet \in Nat /\ Sets = 0 .. LastSet
BY GameAssumption DEF LastSet, Sets

\* A list of sets can be continued.
LEMMA ListContinues ==
  ASSUME NEW k \in Trials, NEW m \in Nat, m + 1 <= LastSet, NEW g, IsListOfSets(k, m, g)
  PROVE  \E h : IsListOfSets(k, m + 1, h)
<1> DEFINE next == NextSet(k, m + 1, g[m])
           h == [n \in 0 .. m + 1 |-> IF n = m + 1 THEN next ELSE g[n]]
<1>1. g[m] \in Orders /\ Shuffle[k][m + 1] \in Orders
  BY GameAssumption, LastSetIsNumber DEF IsListOfSets
<1>2. next \in Orders
  BY <1>1, NextSetIsNew DEF NextSet
<1> HIDE DEF next
<1>3. h \in [0 .. m + 1 -> Orders]
  BY <1>2 DEF IsListOfSets
<1>4. h[0] = Shuffle[k][0]
  BY DEF IsListOfSets
<1>5. ASSUME NEW n \in 1 .. m + 1
      PROVE  h[n] = NextSet(k, n, h[n - 1])
  <2>1. h[n - 1] = g[n - 1]
    OBVIOUS
  <2>2. CASE n = m + 1
    BY <2>1, <2>2 DEF next
  <2>3. CASE n # m + 1
    <3>1. h[n] = g[n] /\ n \in 1 .. m
      BY <2>3
    <3> QED
      BY <2>1, <3>1 DEF IsListOfSets
  <2> QED
    BY <2>2, <2>3
<1>6. IsListOfSets(k, m + 1, h)
  <2> HIDE DEF h
  <2> QED
    BY <1>3, <1>4, <1>5 DEF IsListOfSets
<1> QED
  BY <1>6

\* So there are lists of all lengths.
LEMMA ListsExist ==
  ASSUME NEW k \in Trials
  PROVE  \A m \in 0 .. LastSet : \E g : IsListOfSets(k, m, g)
<1> DEFINE T == {m \in 0 .. LastSet : ~\E g : IsListOfSets(k, m, g)}
<1> SUFFICES ASSUME T # {} PROVE FALSE
  OBVIOUS
<1>1. T \in SUBSET Nat
  BY LastSetIsNumber
<1>2. PICK m \in T : \A y \in T : m <= y
  <2> HIDE DEF T
  <2> QED
    BY <1>1, LeastNumber
<1>3. m \in 0 .. LastSet /\ ~\E g : IsListOfSets(k, m, g)
  OBVIOUS
<1>4. CASE m = 0
  <2>1. Shuffle[k][0] \in Orders
    BY GameAssumption, LastSetIsNumber
  <2>2. IsListOfSets(k, 0, [n \in 0 .. 0 |-> Shuffle[k][0]])
    BY <2>1 DEF IsListOfSets
  <2> QED
    BY <1>3, <1>4, <2>2
<1>5. CASE m # 0
  <2>1. m - 1 \in 0 .. LastSet /\ m - 1 \in Nat /\ (m - 1) + 1 = m /\ m <= LastSet
    BY <1>3, <1>5, LastSetIsNumber
  <2>2. ~(m - 1 \in T)
    <3> HIDE DEF T
    <3> QED
      BY <1>2, <1>3, <2>1, LastSetIsNumber
  <2>3. PICK g : IsListOfSets(k, m - 1, g)
    BY <2>1, <2>2
  <2>4. \E h : IsListOfSets(k, (m - 1) + 1, h)
    BY <2>1, <2>3, ListContinues
  <2> QED
    BY <1>3, <2>1, <2>4
<1> QED
  BY <1>4, <1>5

\* shuffledTask9TargetSet(): every set of a trial is an order of all targets, and
\* begins with another target than the last one of the set before it.
THEOREM SetsFollow ==
  ASSUME NEW k \in Trials
  PROVE  /\ TargetSets(k) \in [Sets -> Orders]
         /\ \A n \in Sets : n + 1 \in Sets =>
               TargetSets(k)[n + 1][1] # TargetSets(k)[n][SetSize]
<1> DEFINE Good(f) == f = [n \in Sets |-> IF n = 0 THEN Shuffle[k][0]
                             ELSE AvoidRepeat(f[n - 1], AvoidBoundary(f[n - 1], Shuffle[k][n]))]
           t == TargetSets(k)
<1>1. PICK g : IsListOfSets(k, LastSet, g)
  BY ListsExist, LastSetIsNumber
<1>2. Good(g)
  <2> DEFINE h == [n \in Sets |-> IF n = 0 THEN Shuffle[k][0]
                     ELSE AvoidRepeat(g[n - 1], AvoidBoundary(g[n - 1], Shuffle[k][n]))]
  <2>1. g = [n \in Sets |-> g[n]]
    BY <1>1, LastSetIsNumber DEF IsListOfSets
  <2>2. \A n \in Sets : g[n] = IF n = 0 THEN Shuffle[k][0]
                     ELSE AvoidRepeat(g[n - 1], AvoidBoundary(g[n - 1], Shuffle[k][n]))
    BY <1>1, LastSetIsNumber DEF IsListOfSets, NextSet
  <2> QED
    BY <2>1, <2>2
<1>3. t = CHOOSE f : Good(f)
  BY DEF TargetSets
<1>4. Good(t)
  <2> HIDE DEF Good, t
  <2> QED
    BY <1>2, <1>3
<1>5. t = [n \in Sets |-> IF n = 0 THEN Shuffle[k][0] ELSE NextSet(k, n, t[n - 1])]
  <2> HIDE DEF t
  <2> QED
    BY <1>4 DEF NextSet
<1> HIDE DEF t, Good
<1>6. \A n \in Sets : t[n] \in Orders
  <2> DEFINE T == {n \in Sets : t[n] \notin Orders}
  <2> SUFFICES ASSUME T # {} PROVE FALSE
    OBVIOUS
  <2>1. T \in SUBSET Nat
    BY LastSetIsNumber
  <2>2. PICK n \in T : \A y \in T : n <= y
    <3> HIDE DEF T
    <3> QED
      BY <2>1, LeastNumber
  <2>3. n \in Sets /\ t[n] \notin Orders /\ Shuffle[k][n] \in Orders
    BY GameAssumption
  <2>4. n # 0
    BY <1>5, <2>3
  <2>5. n - 1 \in Sets /\ ~(n <= n - 1)
    BY <2>3, <2>4, LastSetIsNumber
  <2>6. t[n - 1] \in Orders
    BY <2>2, <2>5
  <2>7. t[n] = NextSet(k, n, t[n - 1])
    BY <1>5, <2>3, <2>4
  <2> QED
    BY <2>3, <2>6, <2>7, NextSetIsNew DEF NextSet
<1>7. ASSUME NEW n \in Sets, n + 1 \in Sets
      PROVE  t[n + 1][1] # t[n][SetSize]
  <2>1. t[n] \in Orders /\ Shuffle[k][n + 1] \in Orders
    BY <1>6, <1>7, GameAssumption
  <2>2. t[n + 1] = NextSet(k, n + 1, t[n])
    <3>1. n + 1 # 0 /\ (n + 1) - 1 = n
      BY LastSetIsNumber
    <3> QED
      BY <1>5, <1>7, <3>1
  <2> QED
    BY <2>1, <2>2, NextSetIsNew DEF NextSet
<1>8. t \in [Sets -> Orders]
  BY <1>5, <1>6
<1> QED
  BY <1>7, <1>8 DEF t

\* The place of a target in its set, and the set of the next one.
LEMMA Places ==
  ASSUME NEW s \in Nat \ {0}, NEW m \in Nat, NEW n \in Nat
  PROVE  /\ n \div s \in Nat /\ (n % s) + 1 \in 1 .. s
         /\ m <= n => m \div s <= n \div s
         /\ m # n /\ m \div s = n \div s => (m % s) + 1 # (n % s) + 1
         /\ (n + 1) \div s # n \div s
               => (n + 1) \div s = (n \div s) + 1 /\ n % s = s - 1 /\ (n + 1) % s = 0
OBVIOUS

\* selectNextTargetIndex(): every number up to the bound has a target; within a
\* set, and from one number to the next, the targets differ.
THEOREM TargetsDiffer ==
  ASSUME NEW k \in Trials, NEW m \in 0 .. MaxScore, NEW n \in 0 .. MaxScore
  PROVE  /\ SelectTarget(k, n) \in Targets
         /\ m < n /\ (m \div SetSize = n \div SetSize \/ n = m + 1)
               => SelectTarget(k, m) # SelectTarget(k, n)
<1>1. SetSize \in Nat \ {0} /\ MaxScore \in Nat /\ m \in Nat /\ n \in Nat
  BY GameAssumption
<1>2. m \div SetSize \in Sets /\ n \div SetSize \in Sets
  <2>1. m \div SetSize <= MaxScore \div SetSize /\ n \div SetSize <= MaxScore \div SetSize
    BY <1>1, Places
  <2>2. m \div SetSize \in Nat /\ n \div SetSize \in Nat /\ LastSet \in Nat
    BY <1>1, Places, LastSetIsNumber
  <2> QED
    BY <2>1, <2>2 DEF Sets
<1>3. (m % SetSize) + 1 \in 1 .. SetSize /\ (n % SetSize) + 1 \in 1 .. SetSize
  BY <1>1, Places
<1>4. TargetSets(k)[m \div SetSize] \in Orders /\ TargetSets(k)[n \div SetSize] \in Orders
  BY <1>2, SetsFollow
<1>5. SelectTarget(k, n) \in Targets
  BY <1>3, <1>4 DEF SelectTarget, Orders
<1>6. ASSUME m < n, m \div SetSize = n \div SetSize
      PROVE  SelectTarget(k, m) # SelectTarget(k, n)
  <2>1. m # n
    BY <1>1, <1>6
  <2>2. (m % SetSize) + 1 # (n % SetSize) + 1
    BY <1>1, <1>6, <2>1, Places
  <2> QED
    BY <1>3, <1>4, <1>6, <2>2 DEF SelectTarget, Orders
<1>7. ASSUME n = m + 1, m \div SetSize # n \div SetSize
      PROVE  SelectTarget(k, m) # SelectTarget(k, n)
  <2>1. n \div SetSize = (m \div SetSize) + 1 /\ m % SetSize = SetSize - 1 /\ n % SetSize = 0
    BY <1>1, <1>7, Places
  <2>2. TargetSets(k)[n \div SetSize][1] # TargetSets(k)[m \div SetSize][SetSize]
    BY <1>2, <2>1, SetsFollow
  <2>3. (m % SetSize) + 1 = SetSize /\ (n % SetSize) + 1 = 1
    BY <1>1, <2>1
  <2> QED
    BY <2>2, <2>3 DEF SelectTarget
<1> QED
  BY <1>5, <1>6, <1>7

-----------------------------------------------------------------------------
(* Types *)

\* A target counts its hits, and so does a game.
CountedTarget == {t \in TargetType : t.score = t.seq}
CountedMessage == [kind : {"target", "show", "hide", "ask", "close"}, target : CountedTarget]
GameType == [trial : Trials \cup {0}, id : SUBSET Players, seq : 0 .. MaxScore, score : 0 .. MaxScore,
             index : Targets, dwell : {"out", "in", "scored"},
             clock : {"countdown", "running", "complete"}]
CountedGame == {g \in GameType : g.score = g.seq}
ViewType == [target : CountedTarget, visible : BOOLEAN]
PageType == [target : CountedTarget, visible : BOOLEAN, asked : Trials \cup {0}]
AgesType == UNION {[S -> 0 .. Stale] : S \in SUBSET Players}
ShownType == [trial : Trials \cup {0}, score : 0 .. MaxScore]
HitType == [seq : 0 .. MaxScore, index : Targets, by : SUBSET Players]

\* The inductive type invariant and its parts.
AgentTyped == plan \in Plans /\ serving \in {"idle", "playing", "asking", "over"} /\ trial \in Trials \cup {0}
LinesTyped == inbox \in [Pages -> Seq(CountedMessage)] /\ uplink \in Seq(CountedMessage)
ViewTyped == state \in ViewType /\ ref \in CountedTarget /\ page \in [Pages -> PageType]
CursorTyped ==
    cursors \in [Pages -> AgesType] /\ eldest \in Players /\ losses \in 0 .. plan.losses /\ present \subseteq Players
GameTyped == game \in [Pages -> CountedGame] /\ shown \in [Pages -> ShownType]
LogTyped == log \in [Trials -> Seq(HitType)]
TypeInv == AgentTyped /\ LinesTyped /\ ViewTyped /\ CursorTyped /\ GameTyped /\ LogTyped

\* It implies the type invariant of the model.
LEMMA TypeInvSuffices == TypeInv => TypeOK
<1> SUFFICES ASSUME TypeInv PROVE TypeOK
  OBVIOUS
<1>1. CountedMessage \subseteq MessageType /\ CountedTarget \subseteq TargetType
  BY DEF CountedMessage, MessageType, CountedTarget
<1>2. inbox \in [Pages -> Seq(MessageType)] /\ uplink \in Seq(MessageType)
  BY <1>1 DEF TypeInv, LinesTyped
<1>3. /\ state \in [target : TargetType, visible : BOOLEAN] /\ ref \in TargetType
      /\ page \in [Pages -> [target : TargetType, visible : BOOLEAN, asked : Trials \cup {0}]]
  BY <1>1 DEF TypeInv, ViewTyped, ViewType, PageType
<1>4. game \in [Pages -> GameType]
  BY DEF TypeInv, GameTyped, CountedGame
<1> QED
  BY <1>2, <1>3, <1>4 DEF TypeInv, TypeOK, AgentTyped, CursorTyped, GameTyped, LogTyped, AgesType,
     GameType, ShownType, HitType

\* The session of a behaviour, and the numbers of its trials.
LEMMA PlanFacts ==
  ASSUME plan \in Plans
  PROVE  /\ plan.phases \in Seq({"baseline", "shared", "washout"}) /\ DOMAIN plan.phases \subseteq Trials
         /\ plan.hits \in 0 .. MaxScore /\ plan.losses \in Nat
         /\ \A k : IsShared(k) => k \in Trials
         /\ 0 \notin Trials /\ Trials \subseteq Nat /\ ~IsShared(0)
BY GameAssumption DEF IsShared

\* The targets of the agent.
LEMMA InitialTyped ==
  /\ NoTarget \in CountedTarget
  /\ \A k \in Trials \cup {0} : InitialTarget(k) \in CountedTarget
<1>1. MaxScore \in Nat
  BY GameAssumption
<1>2. NoTarget \in CountedTarget
  BY <1>1 DEF NoTarget, CountedTarget, TargetType
<1>3. ASSUME NEW k \in Trials \cup {0}
      PROVE  InitialTarget(k) \in CountedTarget
  BY <1>1 DEF InitialTarget, NoTarget, CountedTarget, TargetType
<1> QED
  BY <1>2, <1>3

\* Messages of the agent keep the lines well-formed.
LEMMA SendAllTyped ==
  ASSUME LinesTyped, NEW messages \in Seq(CountedMessage), SendAll(messages)
  PROVE  inbox' \in [Pages -> Seq(CountedMessage)]
BY ConcatProperties DEF LinesTyped, SendAll

\* A notice is a message, and so is a target.
LEMMA MessageTyped ==
  /\ \A kind \in {"show", "hide", "close"} : Notice(kind) \in CountedMessage
  /\ \A t \in CountedTarget : TargetMessage(t) \in CountedMessage
  /\ \A k \in Trials \cup {0} : [Notice("ask") EXCEPT !.target = InitialTarget(k)] \in CountedMessage
BY InitialTyped DEF Notice, TargetMessage, CountedMessage

\* Two messages, or one, are a list of messages.
LEMMA ListTyped ==
  ASSUME NEW m1 \in CountedMessage, NEW m2 \in CountedMessage
  PROVE  <<m1, m2>> \in Seq(CountedMessage) /\ <<m1>> \in Seq(CountedMessage) /\ <<m2>> \in Seq(CountedMessage)
OBVIOUS

\* The agent's steps keep the types.
LEMMA AgentTypes ==
  ASSUME TypeInv, OpenTrial \/ CloseTrial \/ CloseQuestion \/ Abort
  PROVE  TypeInv'
<1>1. UNCHANGED <<plan, uplink, state, ref, page, cursors, eldest, losses, present, game, shown, log>>
  BY DEF OpenTrial, CloseTrial, CloseQuestion, Abort, viewVars, cursorVars, gameVars
<1>2. trial' \in Trials \cup {0} /\ serving' \in {"idle", "playing", "asking", "over"}
  <2>1. CASE OpenTrial
    <3>1. trial \in Nat /\ trial + 1 \in DOMAIN plan.phases
      BY <2>1, PlanFacts DEF TypeInv, AgentTyped, OpenTrial
    <3> QED
      BY <2>1, <3>1, PlanFacts DEF TypeInv, AgentTyped, OpenTrial
  <2>2. CASE CloseTrial \/ CloseQuestion \/ Abort
    BY <2>2 DEF TypeInv, AgentTyped, CloseTrial, CloseQuestion, Abort
  <2> QED
    BY <2>1, <2>2
<1>3. \E messages \in Seq(CountedMessage) : SendAll(messages)
  <2>1. trial \in Trials \cup {0}
    BY DEF TypeInv, AgentTyped
  <2>2. CASE OpenTrial
    <3> DEFINE m1 == TargetMessage(InitialTarget(trial + 1))
               m2 == Notice("show")
    <3>1. trial + 1 \in Trials \cup {0}
      BY <1>2, <2>2 DEF OpenTrial
    <3>2. m1 \in CountedMessage /\ m2 \in CountedMessage
      BY <3>1, InitialTyped, MessageTyped
    <3>3. SendAll(<<m1, m2>>)
      BY <2>2 DEF OpenTrial
    <3> HIDE DEF m1, m2
    <3> QED
      BY <3>2, <3>3, ListTyped
  <2>3. CASE CloseTrial
    <3> DEFINE m1 == Notice("hide")
               m2 == [Notice("ask") EXCEPT !.target = InitialTarget(trial)]
    <3>1. m1 \in CountedMessage /\ m2 \in CountedMessage
      BY <2>1, MessageTyped
    <3>2. SendAll(<<m1, m2>>) \/ SendAll(<<m1>>)
      BY <2>3 DEF CloseTrial
    <3> HIDE DEF m1, m2
    <3> QED
      BY <3>1, <3>2, ListTyped
  <2>4. CASE CloseQuestion \/ Abort
    <3> DEFINE m1 == Notice("hide")
               m2 == Notice("close")
    <3>1. m1 \in CountedMessage /\ m2 \in CountedMessage
      BY MessageTyped
    <3>2. SendAll(<<m1, m2>>) \/ SendAll(<<m2>>)
      BY <2>4 DEF CloseQuestion, Abort
    <3> HIDE DEF m1, m2
    <3> QED
      BY <3>1, <3>2, ListTyped
  <2> QED
    BY <2>2, <2>3, <2>4
<1>4. inbox' \in [Pages -> Seq(CountedMessage)]
  BY <1>3, SendAllTyped DEF TypeInv
<1> QED
  BY <1>1, <1>2, <1>4 DEF TypeInv, AgentTyped, LinesTyped, ViewTyped, CursorTyped, GameTyped, LogTyped

\* What a page makes of a message.
LEMMA ViewTypes ==
  ASSUME NEW m \in CountedMessage
  PROVE  /\ \A old \in ViewType : View(old, m) \in ViewType
         /\ \A old \in PageType : View(old, m) \in PageType
BY DEF View, ViewType, PageType, CountedMessage

\* The first message of a line, and the rest.
LEMMA HeadTyped ==
  ASSUME NEW s \in Seq(CountedMessage), s # <<>>
  PROVE  Head(s) \in CountedMessage /\ Tail(s) \in Seq(CountedMessage)
BY HeadTailProperties

\* The messages' steps keep the types.
LEMMA MessageTypes ==
  ASSUME TypeInv, DeliverToAdmin \/ Commit \/ Forward \/ \E p \in Followed : Deliver(p)
  PROVE  TypeInv'
<1> USE DEF TypeInv
<1>1. UNCHANGED <<plan, serving, trial, cursors, eldest, losses, present, game, shown, log>>
  BY DEF DeliverToAdmin, Commit, Forward, Deliver, netVars, viewVars, cursorVars, gameVars
<1>2. Admin \in Pages /\ Followed \subseteq Pages
  BY DEF Pages
<1>3. LinesTyped' /\ ViewTyped'
  <2>1. CASE DeliverToAdmin
    <3>1. Head(inbox[Admin]) \in CountedMessage /\ Tail(inbox[Admin]) \in Seq(CountedMessage)
      BY <1>2, <2>1, HeadTyped DEF DeliverToAdmin, LinesTyped
    <3>2. View(state, Head(inbox[Admin])) \in ViewType
      BY <3>1, ViewTypes DEF ViewTyped
    <3> QED
      BY <2>1, <3>1, <3>2 DEF DeliverToAdmin, LinesTyped, ViewTyped
  <2>2. CASE Commit
    <3>1. page' \in [Pages -> PageType]
      BY <1>2, <2>2 DEF Commit, ViewTyped, ViewType, PageType
    <3> QED
      BY <2>2, <3>1 DEF Commit, ViewTyped, ViewType, LinesTyped, netVars
  <2>3. CASE Forward
    <3>1. Head(uplink) \in CountedMessage /\ Tail(uplink) \in Seq(CountedMessage)
      BY <2>3, HeadTyped DEF Forward, LinesTyped
    <3>2. inbox' \in [Pages -> Seq(CountedMessage)]
      BY <2>3, <3>1, AppendProperties DEF Forward, LinesTyped
    <3> QED
      BY <2>3, <3>1, <3>2 DEF Forward, LinesTyped, ViewTyped, viewVars
  <2>4. CASE \E p \in Followed : Deliver(p)
    <3>1. PICK p \in Followed : Deliver(p)
      BY <2>4
    <3>2. Head(inbox[p]) \in CountedMessage /\ Tail(inbox[p]) \in Seq(CountedMessage)
      BY <1>2, <3>1, HeadTyped DEF Deliver, LinesTyped
    <3> DEFINE m == Head(inbox[p])
    <3>3. page[p] \in PageType
      BY <1>2 DEF ViewTyped
    <3>4. View(page[p], m) \in PageType
      BY <3>2, <3>3, ViewTypes
    <3>5. [page[p] EXCEPT !.asked = m.target.trial] \in PageType /\ [page[p] EXCEPT !.asked = 0] \in PageType
      BY <3>2, <3>3 DEF PageType, CountedMessage, CountedTarget, TargetType
    <3>6. page' = [page EXCEPT ![p] = CASE m.kind = "ask"   -> [page[p] EXCEPT !.asked = m.target.trial]
                                        [] m.kind = "close" -> [page[p] EXCEPT !.asked = 0]
                                        [] OTHER            -> View(page[p], m)]
      BY <3>1 DEF Deliver
    <3> HIDE DEF m
    <3>7. page' \in [Pages -> PageType]
      BY <3>4, <3>5, <3>6 DEF ViewTyped
    <3> QED
      BY <3>1, <3>2, <3>7 DEF Deliver, LinesTyped, ViewTyped
  <2> QED
    BY <2>1, <2>2, <2>3, <2>4
<1> QED
  BY <1>1, <1>3 DEF AgentTyped, CursorTyped, GameTyped, LogTyped

\* The cursors a page has are those of participants.
LEMMA AgesTyped ==
  /\ \A ages \in AgesType : DOMAIN ages \subseteq Players /\ \A p \in DOMAIN ages : ages[p] \in 0 .. Stale
  /\ \A S \in SUBSET Players : [S -> 0 .. Stale] \subseteq AgesType
BY DEF AgesType

\* Losses are counted in whole packets.
LEMMA LossCounted ==
  ASSUME present \subseteq Players, NEW heard \in SUBSET present
  PROVE  /\ Cardinality(present \ heard) \in Nat
         /\ heard # present => Cardinality(present \ heard) >= 1
<1>1. IsFiniteSet(present \ heard)
  BY GameAssumption, FS_Subset
<1>2. Cardinality(present \ heard) \in Nat
  BY <1>1, FS_CardinalityType
<1>3. ASSUME heard # present
      PROVE  Cardinality(present \ heard) # 0
  BY <1>1, <1>3, FS_EmptySet
<1> QED
  BY <1>2, <1>3

\* What a page holds after a step.
LEMMA HoldsTyped ==
  ASSUME CursorTyped, NEW v \in Pages, NEW ages \in AgesType, Holds(v, ages)
  PROVE  cursors' \in [Pages -> AgesType] /\ eldest' \in Players
<1>1. DOMAIN ages \subseteq Players
  BY AgesTyped
<1>2. FirstOf(DOMAIN ages) \subseteq Players
  BY <1>1 DEF FirstOf, CursorTyped
<1> QED
  BY <1>2 DEF Holds, CursorTyped

\* The packets of a period leave a list of cursors.
LEMMA ArrivedTyped ==
  ASSUME CursorTyped, NEW v \in Pages, NEW heard \in SUBSET Players
  PROVE  Arrived(v, heard) \in AgesType
<1> DEFINE ages == [p \in Held(v) \cup heard |-> Aged(v, p, heard)]
           who == {p \in DOMAIN ages : ages[p] <= Stale}
<1>1. cursors[v] \in AgesType
  BY DEF CursorTyped
<1>2. Held(v) \subseteq Players /\ \A p \in Held(v) : cursors[v][p] \in 0 .. Stale
  BY <1>1, AgesTyped DEF Held
<1>3. Stale \in Nat
  BY GameAssumption
<1>4. \A p \in Held(v) \cup heard : Aged(v, p, heard) \in Nat
  BY <1>2, <1>3 DEF Aged
<1>5. who \in SUBSET Players /\ \A p \in who : ages[p] \in 0 .. Stale
  BY <1>2, <1>3, <1>4
<1>6. Arrived(v, heard) = [p \in who |-> ages[p]]
  BY DEF Arrived, Swept, Only
<1> HIDE DEF ages, who
<1>7. Arrived(v, heard) \in [who -> 0 .. Stale]
  BY <1>5, <1>6
<1> QED
  BY <1>5, <1>7, AgesTyped

\* A page that drops some of its cursors has a list of cursors.
LEMMA OnlyTyped ==
  ASSUME NEW ages \in AgesType, NEW who \in SUBSET DOMAIN ages
  PROVE  Only(ages, who) \in AgesType
<1>1. who \in SUBSET Players /\ \A p \in who : ages[p] \in 0 .. Stale
  BY AgesTyped
<1>2. Only(ages, who) \in [who -> 0 .. Stale]
  BY <1>1 DEF Only
<1> QED
  BY <1>1, <1>2, AgesTyped

\* The cursors' steps keep the types.
LEMMA CursorTypes ==
  ASSUME TypeInv, (\E p \in Players : Leave(p)) \/ \E v \in Pages : KeepAlive(v) \/ ParticipantDisconnected(v)
  PROVE  TypeInv'
<1> USE DEF TypeInv
<1>1. UNCHANGED <<plan, serving, trial, inbox, uplink, state, ref, page, game, shown, log>>
  BY DEF Leave, KeepAlive, ParticipantDisconnected, netVars, viewVars, gameVars
<1>2. CursorTyped'
  <2>1. ASSUME NEW p \in Players, Leave(p)
        PROVE  CursorTyped'
    <3>1. \A v \in Pages : cursors[v] \in AgesType /\ Only(cursors[v], {}) \in AgesType
      BY OnlyTyped DEF CursorTyped
    <3>2. cursors' \in [Pages -> AgesType]
      BY <2>1, <3>1 DEF Leave
    <3> QED
      BY <1>1, <2>1, <3>2 DEF CursorTyped, Leave
  <2>2. ASSUME NEW v \in Pages, KeepAlive(v)
        PROVE  CursorTyped'
    <3>1. PICK heard \in SUBSET present : Published(v, heard) /\ Holds(v, Arrived(v, heard)) /\ present' = present
      BY <2>2 DEF KeepAlive
    <3>2. present \subseteq Players
      BY DEF CursorTyped
    <3>3. Arrived(v, heard) \in AgesType
      BY <3>2, ArrivedTyped
    <3>4. cursors' \in [Pages -> AgesType] /\ eldest' \in Players
      BY <3>1, <3>3, HoldsTyped
    <3>5. losses' \in 0 .. plan.losses
      <4>1. Cardinality(present \ heard) \in Nat
        BY <3>2, LossCounted
      <4>2. plan.losses \in Nat /\ losses \in 0 .. plan.losses
        BY PlanFacts DEF CursorTyped, AgentTyped
      <4>3. losses' = losses + Cardinality(present \ heard) /\ losses' <= plan.losses
        BY <3>1 DEF Published
      <4> HIDE DEF TypeInv
      <4> QED
        BY <4>1, <4>2, <4>3
    <3> QED
      BY <1>1, <3>1, <3>2, <3>4, <3>5 DEF CursorTyped
  <2>3. ASSUME NEW v \in Pages, ParticipantDisconnected(v)
        PROVE  CursorTyped'
    <3>1. Holds(v, Only(cursors[v], Held(v) \cap present)) /\ losses' = losses /\ present' = present
      BY <2>3 DEF ParticipantDisconnected
    <3>2. cursors[v] \in AgesType /\ Held(v) \cap present \in SUBSET DOMAIN cursors[v]
      BY DEF CursorTyped, Held
    <3>3. Only(cursors[v], Held(v) \cap present) \in AgesType
      BY <3>2, OnlyTyped
    <3>4. cursors' \in [Pages -> AgesType] /\ eldest' \in Players
      BY <3>1, <3>3, HoldsTyped
    <3> QED
      BY <1>1, <3>1, <3>4 DEF CursorTyped
  <2> QED
    BY <2>1, <2>2, <2>3
<1> QED
  BY <1>1, <1>2 DEF AgentTyped, LinesTyped, ViewTyped, GameTyped, LogTyped

\* The cursors that move a point are those of participants.
LEMMA ControlTyped ==
  ASSUME TypeInv, NEW v \in Pages, NEW k
  PROVE  Control(v, k) \subseteq Players /\ IdentityKey(v, k) \subseteq Players
<1>1. Held(v) \subseteq Players
  BY AgesTyped DEF TypeInv, CursorTyped, Held
<1> QED
  BY <1>1 DEF Control, IdentityKey, DisplayedAverage, SharedTaskCursor, RawAverage, FirstVisible

\* The sketch after ensureTrialState(): it follows the target, goes on with its
\* game, or begins a new one.
Follows(v, g) ==
    LET t == page[v].target
    IN  /\ IsShared(t.trial) /\ g.seq = t.seq /\ g.seq > 0 /\ g.dwell = "out"
        /\ t.index # NoIndex => g.index = t.index
        /\ game[v].trial = t.trial /\ game[v].id = IdentityKey(v, t.trial) => t.seq > game[v].seq
GoesOn(v, g) ==
    LET t == page[v].target
    IN  /\ game[v].trial = t.trial /\ game[v].id = IdentityKey(v, t.trial) /\ g = game[v]
        /\ IsShared(t.trial) => t.seq <= g.seq
BeginsAnew(v, g) ==
    LET t == page[v].target
    IN  /\ ~(game[v].trial = t.trial /\ game[v].id = IdentityKey(v, t.trial))
        /\ g.seq = 0 /\ g.index = SelectTarget(t.trial, 0) /\ g.dwell = "out"
        /\ IsShared(t.trial) => t.seq <= 0

\* A new game.
LEMMA NewGameTyped ==
  ASSUME NEW k \in Trials, NEW id \in SUBSET Players
  PROVE  LET new == NewGame(k, id)
         IN  /\ new \in CountedGame /\ new.seq = 0 /\ new.index = SelectTarget(k, 0) /\ new.dwell = "out"
             /\ new.trial = k /\ new.id = id
<1> DEFINE first == SelectTarget(k, 0)
<1>1. MaxScore \in Nat /\ 0 \in 0 .. MaxScore
  BY GameAssumption
<1>2. first \in Targets
  BY <1>1, TargetsDiffer
<1>3. NewGame(k, id) = [NoGame EXCEPT !.trial = k, !.id = id, !.index = first]
  BY DEF NewGame
<1> HIDE DEF first
<1>4. NewGame(k, id) = [trial |-> k, id |-> id, seq |-> 0, score |-> 0, index |-> first,
                        dwell |-> "out", clock |-> "countdown"]
  BY <1>3 DEF NoGame
<1> QED
  BY <1>1, <1>2, <1>4 DEF CountedGame, GameType, first

\* ensureTrialState() does one of these.
LEMMA Ensured ==
  ASSUME TypeInv, NEW v \in Pages, page[v].target.trial \in Trials
  PROVE  LET g == EnsureTrialState(v)
             t == page[v].target
         IN  /\ g \in CountedGame /\ g.trial = t.trial /\ g.id = IdentityKey(v, t.trial)
             /\ Follows(v, g) \/ GoesOn(v, g) \/ BeginsAnew(v, g)
<1> DEFINE g == EnsureTrialState(v)
           t == page[v].target
           id == IdentityKey(v, t.trial)
           old == game[v]
           new == NewGame(t.trial, id)
           kept == IF old.trial # t.trial THEN new
                   ELSE IF old.id # id THEN [new EXCEPT !.clock = old.clock] ELSE old
<1>1. t \in CountedTarget /\ t.trial \in Trials
  BY DEF TypeInv, ViewTyped, PageType
<1>2. id \in SUBSET Players
  BY ControlTyped
<1>3. old \in CountedGame
  BY DEF TypeInv, GameTyped
<1>4. MaxScore \in Nat /\ 0 \in 0 .. MaxScore
  BY GameAssumption
<1>5. g = IF IsShared(t.trial) THEN Sync(kept, t) ELSE kept
  BY DEF EnsureTrialState
<1> DEFINE first == SelectTarget(t.trial, 0)
<1> HIDE DEF g, t, id, old
<1>6. new \in CountedGame /\ new.seq = 0 /\ new.index = first /\ new.dwell = "out" /\ new.trial = t.trial
      /\ new.id = id
  BY <1>1, <1>2, NewGameTyped
<1> HIDE DEF new, first
<1>8. /\ kept \in CountedGame /\ kept.trial = t.trial /\ kept.id = id
      /\ old.trial = t.trial /\ old.id = id => kept = old
      /\ ~(old.trial = t.trial /\ old.id = id) => kept.seq = 0 /\ kept.index = first /\ kept.dwell = "out"
  BY <1>3, <1>6 DEF CountedGame, GameType
<1> HIDE DEF kept
<1>9. CASE ~IsShared(t.trial) \/ t.seq <= kept.seq
  <2>1. g = kept
    BY <1>5, <1>9 DEF Sync
  <2> QED
    BY <1>8, <1>9, <2>1 DEF GoesOn, BeginsAnew, g, t, id, old, first
<1>10. CASE IsShared(t.trial) /\ ~(t.seq <= kept.seq)
  <2> DEFINE index == IF t.index = NoIndex THEN kept.index ELSE t.index
  <2>1. g = [kept EXCEPT !.seq = t.seq, !.score = t.score, !.dwell = "out", !.index = index]
    BY <1>5, <1>10 DEF Sync
  <2>2. index \in Targets /\ t.seq \in 0 .. MaxScore /\ t.score = t.seq /\ kept.seq \in 0 .. MaxScore
    BY <1>1, <1>8 DEF CountedTarget, TargetType, CountedGame, GameType
  <2> HIDE DEF index
  <2>3. g \in CountedGame /\ g.trial = t.trial /\ g.id = id /\ g.seq = t.seq /\ g.dwell = "out" /\ g.index = index
    BY <1>8, <2>1, <2>2 DEF CountedGame, GameType
  <2>4. t.seq > kept.seq /\ t.seq > 0
    BY <1>4, <1>10, <2>2
  <2>5. old.trial = t.trial /\ old.id = id => t.seq > old.seq
    BY <1>8, <2>4
  <2> QED
    BY <1>10, <2>3, <2>4, <2>5 DEF Follows, g, t, id, old, index
<1> QED
  BY <1>9, <1>10 DEF g, t, id

\* A page that draws has a target of a trial.
LEMMA DrawsTyped ==
  ASSUME TypeInv, NEW v \in Pages, Draws(v)
  PROVE  page[v].target.trial \in Trials
BY DEF TypeInv, ViewTyped, PageType, CountedTarget, TargetType, Draws

\* A hit that is still to come has a number, a target, and a next one.
LEMMA HitTyped ==
  ASSUME TypeInv, NEW v \in Pages, NEW g \in CountedGame, g.trial \in Trials, Hits(v, g)
  PROVE  /\ g.seq + 1 \in 0 .. MaxScore /\ SelectTarget(g.trial, g.seq + 1) \in Targets
         /\ AfterHit(g) \in CountedGame
         /\ AfterHit(g).trial = g.trial /\ AfterHit(g).id = g.id
         /\ IsShared(g.trial) => AfterHit(g).seq = g.seq /\ AfterHit(g).index = g.index
                                 /\ AfterHit(g).dwell = "scored"
         /\ ~IsShared(g.trial) => AfterHit(g).seq = g.seq + 1 /\ AfterHit(g).dwell = "out"
                                  /\ AfterHit(g).index = SelectTarget(g.trial, g.seq + 1)
<1>1. g.seq \in 0 .. MaxScore /\ g.score = g.seq /\ g.seq < plan.hits /\ plan.hits \in 0 .. MaxScore
  BY PlanFacts DEF TypeInv, AgentTyped, CountedGame, GameType, Hits
<1>2. g.seq + 1 \in 0 .. MaxScore
  BY <1>1, GameAssumption
<1> DEFINE next == SelectTarget(g.trial, g.seq + 1)
<1>3. next \in Targets
  BY <1>2, TargetsDiffer
<1>4. AfterHit(g) = IF IsShared(g.trial) THEN [g EXCEPT !.dwell = "scored"]
                    ELSE [g EXCEPT !.seq = g.seq + 1, !.score = g.score + 1, !.index = next, !.dwell = "out"]
  BY DEF AfterHit
<1> HIDE DEF next
<1>5. /\ AfterHit(g) \in CountedGame
      /\ AfterHit(g).trial = g.trial /\ AfterHit(g).id = g.id
      /\ IsShared(g.trial) => AfterHit(g).seq = g.seq /\ AfterHit(g).index = g.index
                              /\ AfterHit(g).dwell = "scored"
      /\ ~IsShared(g.trial) => AfterHit(g).seq = g.seq + 1 /\ AfterHit(g).dwell = "out"
                               /\ AfterHit(g).index = next
  <2>1. CASE IsShared(g.trial)
    BY <1>4, <2>1 DEF CountedGame, GameType
  <2>2. CASE ~IsShared(g.trial)
    <3> DEFINE seq == g.seq + 1
    <3>1. AfterHit(g) = [g EXCEPT !.seq = seq, !.score = seq, !.index = next, !.dwell = "out"]
      BY <1>1, <1>4, <2>2
    <3>2. seq \in 0 .. MaxScore
      BY <1>2
    <3> HIDE DEF seq
    <3>3. /\ AfterHit(g) \in CountedGame /\ AfterHit(g).trial = g.trial /\ AfterHit(g).id = g.id
          /\ AfterHit(g).seq = seq /\ AfterHit(g).dwell = "out" /\ AfterHit(g).index = next
      BY <1>3, <3>1, <3>2 DEF CountedGame, GameType
    <3> QED
      BY <2>2, <3>3 DEF seq
  <2> QED
    BY <2>1, <2>2
<1> QED
  BY <1>2, <1>3, <1>5 DEF next

\* The score a page is told is one.
LEMMA InformedTyped ==
  ASSUME TypeInv, NEW v \in Pages, NEW g \in CountedGame
  PROVE  Informed(v, g) \in ShownType
BY DEF TypeInv, GameTyped, CountedGame, GameType, ShownType, Informed

\* The target after a hit the target waited for.
LEMMA AdvancedTyped ==
  ASSUME TypeInv, NEW g \in CountedGame, g.trial \in Trials, Hits(Admin, g), Expects(ref, HitOf(g))
  PROVE  LET next == Advanced(ref, HitOf(g))
         IN  /\ next \in CountedTarget /\ next.trial = ref.trial /\ next.seq = ref.seq + 1
             /\ next.score = ref.seq + 1 /\ next.index = SelectTarget(g.trial, g.seq + 1)
             /\ ref.trial = g.trial /\ ref.seq = g.seq /\ ref.index \in {NoIndex, g.index}
<1>1. Admin \in Pages
  BY DEF Pages
<1> DEFINE i == SelectTarget(g.trial, g.seq + 1)
<1>2. g.seq + 1 \in 0 .. MaxScore /\ i \in Targets
  BY <1>1, HitTyped
<1>3. ref.trial = g.trial /\ ref.seq = g.seq /\ ref.index \in {NoIndex, g.index}
  BY DEF Expects, HitOf
<1>4. Advanced(ref, HitOf(g)) = [ref EXCEPT !.seq = ref.seq + 1, !.score = ref.score + 1, !.index = i]
  BY DEF Advanced, HitOf
<1> HIDE DEF i
<1>5. ref \in CountedTarget
  BY DEF TypeInv, ViewTyped
<1> QED
  BY <1>2, <1>3, <1>4, <1>5 DEF CountedTarget, TargetType, i

\* A frame without a hit: what it draws.
LEMMA FrameDrawn ==
  ASSUME TypeInv, NEW v \in Pages, DrawFrame(v)
  PROVE  LET g == EnsureTrialState(v)
         IN  \E dwell \in {"out", "in", "scored"} :
               /\ dwell = "scored" => g.dwell = "scored"
               /\ [g EXCEPT !.dwell = dwell] \in CountedGame
               /\ game' = [game EXCEPT ![v] = [g EXCEPT !.dwell = dwell]]
               /\ shown' = [shown EXCEPT ![v] = Informed(v, g)]
<1> DEFINE g == EnsureTrialState(v)
<1>1. g \in CountedGame
  BY DrawsTyped, Ensured DEF DrawFrame
<1>2. PICK dwell \in IF Playing(v, g) THEN NextDwells(g) ELSE {g.dwell} :
             /\ dwell = "scored" => g.dwell = "scored"
             /\ game' = [game EXCEPT ![v] = [g EXCEPT !.dwell = dwell]]
             /\ shown' = [shown EXCEPT ![v] = Informed(v, g)]
  BY DEF DrawFrame
<1> HIDE DEF g
<1>3. g.dwell \in {"out", "in", "scored"}
  BY <1>1 DEF CountedGame, GameType
<1>4. NextDwells(g) \subseteq {"out", "in", "scored"}
  BY <1>3 DEF NextDwells, Dwell
<1>5. dwell \in {"out", "in", "scored"}
  BY <1>2, <1>3, <1>4
<1>6. [g EXCEPT !.dwell = dwell] \in CountedGame
  BY <1>1, <1>5 DEF CountedGame, GameType
<1> QED
  BY <1>2, <1>5, <1>6 DEF g

\* The frames keep the types.
LEMMA FrameTypes ==
  ASSUME TypeInv, NEW v \in Pages, DrawFrame(v) \/ SoloHit(v) \/ SharedHit(v) \/ Elapse(v)
  PROVE  TypeInv'
<1>1. UNCHANGED <<plan, serving, trial, inbox, uplink, state, ref, page, cursors, eldest, losses, present, log>>
  BY DEF DrawFrame, SoloHit, SharedHit, Elapse, netVars, viewVars, cursorVars
<1> DEFINE g == EnsureTrialState(v)
<1>2. GameTyped'
  <2>1. CASE DrawFrame(v)
    <3>1. g \in CountedGame
      BY <2>1, DrawsTyped, Ensured DEF DrawFrame
    <3>2. Informed(v, g) \in ShownType
      BY <3>1, InformedTyped
    <3>3. PICK dwell \in {"out", "in", "scored"} :
             /\ [g EXCEPT !.dwell = dwell] \in CountedGame
             /\ game' = [game EXCEPT ![v] = [g EXCEPT !.dwell = dwell]]
             /\ shown' = [shown EXCEPT ![v] = Informed(v, g)]
      BY <2>1, FrameDrawn
    <3> HIDE DEF g
    <3> QED
      BY <3>2, <3>3 DEF TypeInv, GameTyped
  <2>2. CASE SoloHit(v) \/ SharedHit(v)
    <3>1. Hits(v, g)
      BY <2>2 DEF SoloHit, SharedHit
    <3>2. g \in CountedGame /\ g.trial \in Trials
      BY <3>1, DrawsTyped, Ensured DEF Hits
    <3>3. Informed(v, g) \in ShownType
      BY <3>2, InformedTyped
    <3>4. AfterHit(g) \in CountedGame /\ g.seq + 1 \in 0 .. MaxScore
      BY <3>1, <3>2, HitTyped
    <3>5. game' = [game EXCEPT ![v] = AfterHit(g)]
          /\ \/ shown' = [shown EXCEPT ![v] = Informed(v, g)]
             \/ shown' = [shown EXCEPT ![v] = [trial |-> g.trial, score |-> g.score + 1]]
      BY <2>2 DEF SoloHit, SharedHit
    <3> HIDE DEF g
    <3>6. [trial |-> g.trial, score |-> g.score + 1] \in ShownType
      BY <3>2, <3>4 DEF CountedGame, ShownType
    <3> QED
      BY <3>3, <3>4, <3>5, <3>6 DEF TypeInv, GameTyped
  <2>3. CASE Elapse(v)
    <3> DEFINE clock == IF game[v].clock = "countdown" THEN "running" ELSE "complete"
    <3>1. game[v] \in CountedGame
      BY DEF TypeInv, GameTyped
    <3>2. game' = [game EXCEPT ![v] = [game[v] EXCEPT !.clock = clock]] /\ shown' = shown
      BY <2>3 DEF Elapse
    <3>3. clock \in {"countdown", "running", "complete"}
      OBVIOUS
    <3> HIDE DEF clock
    <3>4. [game[v] EXCEPT !.clock = clock] \in CountedGame
      BY <3>1, <3>3 DEF CountedGame, GameType
    <3> QED
      BY <3>2, <3>4 DEF TypeInv, GameTyped
  <2> QED
    BY <2>1, <2>2, <2>3
<1> QED
  BY <1>1, <1>2 DEF TypeInv, AgentTyped, LinesTyped, ViewTyped, CursorTyped, LogTyped

\* What the admin's page does about a hit that its target waits for.
LEMMA Acquired ==
  ASSUME TypeInv, ScoreAcquired
  PROVE  LET g    == EnsureTrialState(Admin)
             next == Advanced(ref, HitOf(g))
             hit  == [seq |-> g.seq, index |-> g.index, by |-> Control(Admin, g.trial)]
         IN  /\ g \in CountedGame /\ g.trial \in Trials /\ hit \in HitType
             /\ next \in CountedTarget /\ TargetMessage(next) \in CountedMessage
             /\ log' = [log EXCEPT ![g.trial] = Append(log[g.trial], hit)]
<1> DEFINE g == EnsureTrialState(Admin)
           next == Advanced(ref, HitOf(g))
           by == Control(Admin, g.trial)
           hit == [seq |-> g.seq, index |-> g.index, by |-> by]
<1>1. Admin \in Pages
  BY DEF Pages
<1>2. Hits(Admin, g) /\ Expects(ref, HitOf(g))
  BY DEF ScoreAcquired
<1>3. g \in CountedGame /\ g.trial \in Trials
  BY <1>1, <1>2, DrawsTyped, Ensured DEF Hits
<1>4. next \in CountedTarget
  BY <1>2, <1>3, AdvancedTyped
<1>5. by \in SUBSET Players
  BY <1>1, ControlTyped
<1>6. log' = [log EXCEPT ![g.trial] = Append(log[g.trial], hit)]
  BY DEF ScoreAcquired
<1>7. TargetMessage(next) \in CountedMessage
  BY <1>4, MessageTyped
<1> HIDE DEF g, next, by
<1>8. hit \in HitType
  BY <1>3, <1>5 DEF CountedGame, GameType, HitType
<1> QED
  BY <1>3, <1>4, <1>6, <1>7, <1>8 DEF g, next, by

\* So an acquisition keeps the types.
LEMMA AcquisitionTypes ==
  ASSUME TypeInv, ScoreAcquired
  PROVE  TypeInv'
<1> DEFINE g == EnsureTrialState(Admin)
           next == Advanced(ref, HitOf(g))
           hit == [seq |-> g.seq, index |-> g.index, by |-> Control(Admin, g.trial)]
<1>1. Admin \in Pages
  BY DEF Pages
<1>2. /\ g \in CountedGame /\ g.trial \in Trials /\ hit \in HitType
      /\ next \in CountedTarget /\ TargetMessage(next) \in CountedMessage
      /\ log' = [log EXCEPT ![g.trial] = Append(log[g.trial], hit)]
  BY Acquired
<1>3. AfterHit(g) \in CountedGame
  BY <1>1, <1>2, HitTyped DEF ScoreAcquired
<1>4. /\ game' = [game EXCEPT ![Admin] = AfterHit(g)] /\ ref' = next
      /\ state' = [state EXCEPT !.target = next]
      /\ shown' = [shown EXCEPT ![Admin] = [trial |-> next.trial, score |-> next.score]]
      /\ uplink' = Append(uplink, TargetMessage(next))
      /\ UNCHANGED <<plan, serving, trial, inbox, page, cursors, eldest, losses, present>>
  BY DEF ScoreAcquired, Shows, cursorVars
<1> HIDE DEF g, next, hit
<1>5. log' \in [Trials -> Seq(HitType)]
  BY <1>2, AppendProperties DEF TypeInv, LogTyped
<1>6. uplink' \in Seq(CountedMessage)
  BY <1>2, <1>4, AppendProperties DEF TypeInv, LinesTyped
<1>7. state' \in ViewType /\ ref' \in CountedTarget
  BY <1>2, <1>4 DEF TypeInv, ViewTyped, ViewType
<1>8. [trial |-> next.trial, score |-> next.score] \in ShownType
  BY <1>2 DEF CountedTarget, TargetType, ShownType
<1>9. GameTyped'
  BY <1>3, <1>4, <1>8 DEF TypeInv, GameTyped
<1> QED
  BY <1>4, <1>5, <1>6, <1>7, <1>9 DEF TypeInv, AgentTyped, LinesTyped, ViewTyped, CursorTyped, LogTyped

\* At the start every variable is of its type.
LEMMA InitTypes == Init => TypeInv
<1> SUFFICES ASSUME Init PROVE TypeInv
  OBVIOUS
<1>1. NoTarget \in CountedTarget /\ MaxScore \in Nat /\ Stale \in Nat /\ SetSize \in Nat /\ SetSize >= 3
  BY InitialTyped, GameAssumption
<1>2. AgentTyped /\ LinesTyped
  BY DEF Init, AgentTyped, LinesTyped
<1>3. ViewTyped
  BY <1>1 DEF Init, ViewTyped, ViewType, PageType
<1>4. CursorTyped
  <2>1. cursors \in [Pages -> AgesType]
    <3>1. [p \in Players |-> 0] \in [Players -> 0 .. Stale]
      BY <1>1
    <3>2. [p \in Players |-> 0] \in AgesType
      BY <3>1, AgesTyped
    <3> QED
      BY <3>2 DEF Init
  <2>2. losses \in 0 .. plan.losses
    BY PlanFacts DEF Init
  <2> QED
    BY <2>1, <2>2 DEF Init, CursorTyped
<1>5. NoGame \in CountedGame
  BY <1>1 DEF NoGame, CountedGame, GameType, Targets
<1>6. GameTyped
  BY <1>1, <1>5 DEF Init, GameTyped, ShownType
<1>7. LogTyped
  BY DEF Init, LogTyped
<1> QED
  BY <1>2, <1>3, <1>4, <1>6, <1>7 DEF TypeInv

\* No step leaves the types.
LEMMA TypeStep == TypeInv /\ [Next]_vars => TypeInv'
<1> SUFFICES ASSUME TypeInv, [Next]_vars PROVE TypeInv'
  OBVIOUS
<1>1. CASE OpenTrial \/ CloseTrial \/ CloseQuestion \/ Abort
  BY <1>1, AgentTypes
<1>2. CASE DeliverToAdmin \/ Commit \/ Forward \/ \E p \in Followed : Deliver(p)
  BY <1>2, MessageTypes
<1>3. CASE ScoreAcquired
  BY <1>3, AcquisitionTypes
<1>4. CASE (\E p \in Players : Leave(p)) \/ \E v \in Pages : KeepAlive(v) \/ ParticipantDisconnected(v)
  BY <1>4, CursorTypes
<1>5. CASE \E v \in Pages : DrawFrame(v) \/ SoloHit(v) \/ SharedHit(v) \/ Elapse(v)
  BY <1>5, FrameTypes
<1>6. CASE UNCHANGED vars
  BY <1>6 DEF vars, netVars, viewVars, cursorVars, gameVars, TypeInv, AgentTyped, LinesTyped, ViewTyped,
     CursorTyped, GameTyped, LogTyped
<1> QED
  BY <1>1, <1>2, <1>3, <1>4, <1>5, <1>6 DEF Next

\* Every variable of the game keeps its type: in particular the admin's target
\* and every sketch count no more hits than the bound, and play a target of the
\* grid (point-to-point.ts, sketch.ts).
THEOREM TypeCorrect == Spec => []TypeOK
<1>1. Init => TypeInv
  BY InitTypes
<1>2. TypeInv /\ [Next]_vars => TypeInv'
  BY TypeStep
<1>3. TypeInv => TypeOK
  BY TypeInvSuffices
<1> QED
  BY <1>1, <1>2, <1>3, PTL DEF Spec

-----------------------------------------------------------------------------
(* One game *)

\* The targets of the agent, and those the admin's page put in their place: the
\* number counts the recorded hits, the index is the one in the trial's order.
GoodTargets ==
    {t \in CountedTarget :
        /\ t.trial <= trial
        /\ IF IsShared(t.trial) THEN t.seq <= Len(log[t.trial]) ELSE t.seq = 0
        /\ t.index = IF t.seq = 0 THEN NoIndex ELSE SelectTarget(t.trial, t.seq)}
GoodMessages == [kind : {"target", "show", "hide", "ask", "close"}, target : GoodTargets]
TargetInv ==
    /\ inbox \in [Pages -> Seq(GoodMessages)] /\ uplink \in Seq(GoodMessages)
    /\ state.target \in GoodTargets /\ ref \in GoodTargets
    /\ \A v \in Pages : page[v].target \in GoodTargets

\* The record of a trial, and the admin's count of it.
LogInv ==
    /\ \A k \in Trials : trial < k \/ ~IsShared(k) => log[k] = <<>>
    /\ \A k \in Trials : \A i \in DOMAIN log[k] :
         log[k][i].seq = i - 1 /\ log[k][i].index = SelectTarget(k, i - 1)
    /\ IsShared(ref.trial) => ref.seq = Len(log[ref.trial])

\* What the sketch of a page plays.
GameInv ==
    \A v \in Pages :
        LET g == game[v]
        IN  /\ g.trial <= trial /\ shown[v].trial = g.trial
            /\ g.trial # 0 => g.index = SelectTarget(g.trial, g.seq)
            /\ IF IsShared(g.trial)
               THEN g.id = Players /\ g.seq <= Len(log[g.trial]) /\ shown[v].score <= Len(log[g.trial])
               ELSE g.dwell # "scored"

\* The admin's page has not begun the current trial yet.
Opening ==
    /\ ~page[Admin].visible /\ log[trial] = <<>> /\ trial \in Trials
    /\ ref.trial < trial /\ game[Admin].trial < trial
\* After the messages of s the target is hidden.
WillHide(s, visible) ==
    \/ \E i \in DOMAIN s : s[i].kind = "hide" /\ \A j \in DOMAIN s : i < j => s[j].kind # "show"
    \/ ~visible /\ \A j \in DOMAIN s : s[j].kind # "show"
\* The admin's targetState and its ref differ, and a target of the agent is on
\* its way to them, only at the beginning of a trial; between two trials the
\* target is hidden, or about to be.
AdminInv ==
    /\ ref = state.target \/ (state.target = InitialTarget(trial) /\ Opening)
    /\ \A i \in DOMAIN inbox[Admin] :
         inbox[Admin][i].kind = "target" =>
            /\ i = 1 /\ inbox[Admin][i].target = InitialTarget(trial)
            /\ ~state.visible /\ ref = state.target /\ Opening
    /\ serving # "playing" => WillHide(inbox[Admin], state.visible)

\* The admin's target is ahead of a sketch that waits.
HitInv == game[Admin].dwell = "scored" /\ ref.trial = game[Admin].trial => ref.seq > game[Admin].seq

\* The inductive invariant of the game.
GameOK == TypeInv /\ TargetInv /\ LogInv /\ GameInv /\ AdminInv /\ HitInv

\* The numbers of the trials and of the hits.
LEMMA Numbers ==
  ASSUME TypeInv
  PROVE  /\ trial \in Nat /\ \A t \in CountedTarget : t.trial \in Nat /\ t.seq \in Nat
         /\ \A g \in CountedGame : g.trial \in Nat /\ g.seq \in Nat
         /\ \A k \in Trials : Len(log[k]) \in Nat /\ DOMAIN log[k] = 1 .. Len(log[k])
         /\ \A k : IsShared(k) => k \in Trials
<1>1. Trials \cup {0} \subseteq Nat /\ 0 .. MaxScore \subseteq Nat /\ \A k : IsShared(k) => k \in Trials
  BY PlanFacts, GameAssumption DEF TypeInv, AgentTyped
<1>2. trial \in Nat
  BY <1>1 DEF TypeInv, AgentTyped
<1>3. \A t \in CountedTarget : t.trial \in Nat /\ t.seq \in Nat
  BY <1>1 DEF CountedTarget, TargetType
<1>4. \A g \in CountedGame : g.trial \in Nat /\ g.seq \in Nat
  BY <1>1 DEF CountedGame, GameType
<1>5. \A k \in Trials : Len(log[k]) \in Nat /\ DOMAIN log[k] = 1 .. Len(log[k])
  BY LenProperties DEF TypeInv, LogTyped
<1> QED
  BY <1>1, <1>2, <1>3, <1>4, <1>5

\* What is good stays good while trials and records grow.
LEMMA GoodGrows ==
  ASSUME TypeInv, TypeInv', plan' = plan, trial <= trial',
         \A k \in Trials : Len(log[k]) <= Len(log'[k])
  PROVE  GoodTargets \subseteq GoodTargets'
<1> SUFFICES ASSUME NEW t \in GoodTargets PROVE t \in GoodTargets'
  OBVIOUS
<1>1. t \in CountedTarget /\ t.trial \in Nat /\ t.seq \in Nat /\ trial \in Nat
  BY Numbers DEF GoodTargets
<1>2. trial' \in Nat
  BY GameAssumption DEF TypeInv, AgentTyped
<1>3. t.trial <= trial'
  BY <1>1, <1>2 DEF GoodTargets
<1>4. IsShared(t.trial) => t.seq <= Len(log'[t.trial])
  <2> SUFFICES ASSUME IsShared(t.trial) PROVE t.seq <= Len(log'[t.trial])
    OBVIOUS
  <2>1. t.trial \in Trials /\ t.seq <= Len(log[t.trial]) /\ Len(log[t.trial]) \in Nat
    BY Numbers DEF GoodTargets
  <2>2. Len(log'[t.trial]) \in Nat
    BY <2>1, LenProperties DEF TypeInv, LogTyped
  <2> QED
    BY <1>1, <2>1, <2>2
<1>5. IsShared(t.trial)' = IsShared(t.trial)
  BY DEF IsShared
<1> QED
  BY <1>1, <1>3, <1>4, <1>5 DEF GoodTargets

\* The targets of the agent are good, also of a trial that begins.
LEMMA InitialGood ==
  ASSUME TypeInv
  PROVE  NoTarget \in GoodTargets /\ InitialTarget(trial) \in GoodTargets
<1>1. \A k \in Trials \cup {0} : InitialTarget(k) \in CountedTarget /\ InitialTarget(k).trial = k
                                 /\ InitialTarget(k).seq = 0 /\ InitialTarget(k).index = NoIndex
  BY InitialTyped DEF InitialTarget, NoTarget
<1>2. NoTarget \in CountedTarget /\ NoTarget.trial = 0 /\ NoTarget.seq = 0 /\ NoTarget.index = NoIndex
  BY InitialTyped DEF NoTarget
<1>3. trial \in Trials \cup {0} /\ trial \in Nat
  BY Numbers DEF TypeInv, AgentTyped
<1>4. \A k : IsShared(k) => 0 <= Len(log[k])
  BY Numbers
<1> QED
  BY <1>1, <1>2, <1>3, <1>4 DEF GoodTargets

\* The sketch that follows a good target plays the target of its number.
LEMMA EnsuredGood ==
  ASSUME TypeInv, TargetInv, GameInv, NEW v \in Pages, Draws(v)
  PROVE  LET g == EnsureTrialState(v)
         IN  /\ g \in CountedGame /\ g.trial \in Trials /\ g.trial <= trial
             /\ g.trial = page[v].target.trial
             /\ g.index = SelectTarget(g.trial, g.seq)
             /\ IF IsShared(g.trial) THEN g.id = Players /\ g.seq <= Len(log[g.trial])
                ELSE g.dwell # "scored"
<1> DEFINE g == EnsureTrialState(v)
           t == page[v].target
<1>1. t.trial \in Trials
  BY DrawsTyped
<1>2. /\ g \in CountedGame /\ g.trial = t.trial /\ g.id = IdentityKey(v, t.trial)
      /\ Follows(v, g) \/ GoesOn(v, g) \/ BeginsAnew(v, g)
  BY <1>1, Ensured
<1>3. t \in GoodTargets /\ t \in CountedTarget /\ t.seq \in Nat
  BY Numbers DEF TargetInv, GoodTargets
<1>4. t.trial <= trial
  BY <1>3 DEF GoodTargets
<1>5. IsShared(t.trial) => g.id = Players
  BY <1>2 DEF IdentityKey
<1> HIDE DEF g
<1>6. g.index = SelectTarget(g.trial, g.seq)
  <2>1. CASE Follows(v, g)
    <3>1. t.seq # 0 /\ g.seq = t.seq /\ t.seq \in 0 .. MaxScore
      BY <1>3, <2>1 DEF Follows, CountedTarget, TargetType
    <3>2. t.index = SelectTarget(t.trial, t.seq)
      BY <1>3, <3>1 DEF GoodTargets
    <3>3. SelectTarget(t.trial, t.seq) \in Targets
      BY <1>1, <3>1, TargetsDiffer
    <3>4. t.index # NoIndex
      BY <3>2, <3>3, GameAssumption DEF Targets, NoIndex
    <3> QED
      BY <1>2, <2>1, <3>1, <3>2, <3>4 DEF Follows
  <2>2. CASE GoesOn(v, g)
    <3>1. g = game[v] /\ g.trial # 0
      BY <1>1, <1>2, <2>2, GameAssumption DEF GoesOn
    <3> QED
      BY <3>1 DEF GameInv
  <2>3. CASE BeginsAnew(v, g)
    BY <1>2, <2>3 DEF BeginsAnew
  <2> QED
    BY <1>2, <2>1, <2>2, <2>3
<1>7. ASSUME IsShared(t.trial)
      PROVE  g.seq <= Len(log[t.trial])
  <2>1. Len(log[t.trial]) \in Nat
    BY <1>1, Numbers
  <2>2. CASE Follows(v, g)
    BY <1>3, <1>7, <2>2 DEF Follows, GoodTargets
  <2>3. CASE GoesOn(v, g)
    BY <1>2, <1>7, <2>3 DEF GoesOn, GameInv
  <2>4. CASE BeginsAnew(v, g)
    BY <2>1, <2>4 DEF BeginsAnew
  <2> QED
    BY <1>2, <2>2, <2>3, <2>4
<1>8. ASSUME ~IsShared(t.trial)
      PROVE  g.dwell # "scored"
  <2>1. CASE Follows(v, g)
    BY <1>8, <2>1 DEF Follows
  <2>2. CASE GoesOn(v, g)
    BY <1>2, <1>8, <2>2 DEF GoesOn, GameInv
  <2>3. CASE BeginsAnew(v, g)
    BY <2>3 DEF BeginsAnew
  <2> QED
    BY <1>2, <2>1, <2>2, <2>3
<1> QED
  BY <1>1, <1>2, <1>4, <1>5, <1>6, <1>7, <1>8 DEF g

\* The elements of two lists in a row.
LEMMA ConcatElements ==
  ASSUME NEW M, NEW s \in Seq(M), NEW t \in Seq(M)
  PROVE  /\ s \o t \in Seq(M) /\ Len(s \o t) = Len(s) + Len(t)
         /\ \A i \in DOMAIN s : i \in DOMAIN (s \o t) /\ (s \o t)[i] = s[i]
         /\ \A j \in DOMAIN t : Len(s) + j \in DOMAIN (s \o t) /\ (s \o t)[Len(s) + j] = t[j]
         /\ \A i \in DOMAIN (s \o t) : i \in DOMAIN s \/ \E j \in DOMAIN t : i = Len(s) + j
<1> DEFINE u == s \o t
<1>1. /\ u \in Seq(M) /\ Len(u) = Len(s) + Len(t)
      /\ \A i \in 1 .. Len(s) + Len(t) : u[i] = IF i <= Len(s) THEN s[i] ELSE t[i - Len(s)]
  BY ConcatProperties
<1> HIDE DEF u
<1>2. DOMAIN s = 1 .. Len(s) /\ DOMAIN t = 1 .. Len(t) /\ DOMAIN u = 1 .. Len(s) + Len(t)
      /\ Len(s) \in Nat /\ Len(t) \in Nat
  BY <1>1, LenProperties
<1>3. \A i \in DOMAIN s : i \in DOMAIN u /\ u[i] = s[i]
  BY <1>1, <1>2
<1>4. ASSUME NEW j \in DOMAIN t
      PROVE  Len(s) + j \in DOMAIN u /\ u[Len(s) + j] = t[j]
  <2>1. Len(s) + j \in 1 .. Len(s) + Len(t) /\ ~(Len(s) + j <= Len(s)) /\ (Len(s) + j) - Len(s) = j
    BY <1>2
  <2> QED
    BY <1>1, <1>2, <2>1
<1>5. ASSUME NEW i \in DOMAIN u, i \notin DOMAIN s
      PROVE  \E j \in DOMAIN t : i = Len(s) + j
  <2>1. i - Len(s) \in DOMAIN t /\ i = Len(s) + (i - Len(s))
    BY <1>2, <1>5
  <2> QED
    BY <2>1
<1> QED
  BY <1>1, <1>3, <1>4, <1>5 DEF u

\* More messages, none of which shows the target, leave it to be hidden; and a
\* message that hides it will do so.
LEMMA WillHideMore ==
  ASSUME NEW M, NEW s \in Seq(M), NEW t \in Seq(M), NEW visible \in BOOLEAN,
         \A j \in DOMAIN t : t[j].kind # "show",
         WillHide(s, visible) \/ \E j \in DOMAIN t : t[j].kind = "hide"
  PROVE  WillHide(s \o t, visible)
<1> DEFINE u == s \o t
<1>1. /\ \A i \in DOMAIN s : i \in DOMAIN u /\ u[i] = s[i]
      /\ \A j \in DOMAIN t : Len(s) + j \in DOMAIN u /\ u[Len(s) + j] = t[j]
      /\ \A i \in DOMAIN u : i \in DOMAIN s \/ \E j \in DOMAIN t : i = Len(s) + j
  BY ConcatElements
<1>2. DOMAIN s = 1 .. Len(s) /\ Len(s) \in Nat /\ DOMAIN t \subseteq Nat \ {0}
  BY LenProperties
<1> HIDE DEF u
<1>3. CASE \E j \in DOMAIN t : t[j].kind = "hide"
  <2>1. PICK j \in DOMAIN t : t[j].kind = "hide"
    BY <1>3
  <2>2. \A i \in DOMAIN u : Len(s) + j < i => u[i].kind # "show"
    <3>1. \A i \in DOMAIN s : ~(Len(s) + j < i)
      BY <1>2
    <3> QED
      BY <1>1, <3>1
  <2>3. WillHide(u, visible)
    BY <1>1, <2>1, <2>2 DEF WillHide
  <2> QED
    BY <2>3 DEF u
<1>4. CASE WillHide(s, visible)
  <2>1. ASSUME NEW i \in DOMAIN s, s[i].kind = "hide", \A j \in DOMAIN s : i < j => s[j].kind # "show"
        PROVE  WillHide(u, visible)
    <3>1. \A j \in DOMAIN u : i < j => u[j].kind # "show"
      BY <1>1, <2>1
    <3> QED
      BY <1>1, <2>1, <3>1 DEF WillHide
  <2>2. ASSUME ~visible, \A j \in DOMAIN s : s[j].kind # "show"
        PROVE  WillHide(u, visible)
    BY <1>1, <2>2 DEF WillHide
  <2> QED
    BY <1>4, <2>1, <2>2 DEF WillHide, u
<1> QED
  BY <1>3, <1>4

\* The page that takes a message leaves the target to be hidden.
LEMMA WillHideNext ==
  ASSUME NEW s \in Seq(CountedMessage), s # <<>>, NEW old \in ViewType, WillHide(s, old.visible)
  PROVE  WillHide(Tail(s), View(old, Head(s)).visible)
<1> DEFINE t == Tail(s)
           m == Head(s)
           new == View(old, m)
<1>1. /\ m = s[1] /\ t \in Seq(CountedMessage) /\ Len(s) \in Nat \ {0} /\ Len(t) = Len(s) - 1
      /\ \A i \in 1 .. Len(t) : t[i] = s[i + 1]
  BY HeadTailProperties, LenProperties, EmptySeq
<1>2. DOMAIN s = 1 .. Len(s) /\ DOMAIN t = 1 .. Len(t)
  BY <1>1, LenProperties
<1>3. new.visible = IF m.kind = "show" THEN TRUE ELSE IF m.kind = "hide" THEN FALSE ELSE old.visible
  BY DEF View, ViewType
<1> HIDE DEF t, m, new
<1>4. ASSUME NEW i \in DOMAIN s, s[i].kind = "hide", \A j \in DOMAIN s : i < j => s[j].kind # "show"
      PROVE  WillHide(t, new.visible)
  <2>1. CASE i = 1
    <3>1. \A j \in DOMAIN t : t[j].kind # "show"
      <4> SUFFICES ASSUME NEW j \in DOMAIN t PROVE t[j].kind # "show"
        OBVIOUS
      <4>1. j + 1 \in DOMAIN s /\ 1 < j + 1 /\ t[j] = s[j + 1]
        BY <1>1, <1>2
      <4> QED
        BY <1>4, <2>1, <4>1
    <3>2. new.visible = FALSE
      BY <1>1, <1>3, <1>4, <2>1
    <3> QED
      BY <3>1, <3>2 DEF WillHide
  <2>2. CASE i # 1
    <3>1. i - 1 \in DOMAIN t /\ t[i - 1] = s[i]
      BY <1>1, <1>2, <2>2
    <3>2. \A j \in DOMAIN t : i - 1 < j => t[j].kind # "show"
      <4> SUFFICES ASSUME NEW j \in DOMAIN t, i - 1 < j PROVE t[j].kind # "show"
        OBVIOUS
      <4>1. j + 1 \in DOMAIN s /\ i < j + 1 /\ t[j] = s[j + 1]
        BY <1>1, <1>2
      <4> QED
        BY <1>4, <4>1
    <3> QED
      BY <1>4, <3>1, <3>2 DEF WillHide
  <2> QED
    BY <2>1, <2>2
<1>5. ASSUME ~old.visible, \A j \in DOMAIN s : s[j].kind # "show"
      PROVE  WillHide(t, new.visible)
  <2>1. 1 \in DOMAIN s /\ m.kind # "show"
    BY <1>1, <1>2, <1>5
  <2>2. ~new.visible
    BY <1>3, <1>5, <2>1
  <2>3. \A j \in DOMAIN t : j + 1 \in DOMAIN s /\ t[j] = s[j + 1]
    BY <1>1, <1>2
  <2> QED
    BY <1>5, <2>2, <2>3 DEF WillHide
<1>6. WillHide(t, new.visible)
  BY <1>4, <1>5 DEF WillHide
<1> QED
  BY <1>6 DEF t, new, m

\* What opens a trial.
LEMMA OpenSends ==
  ASSUME TypeInv, OpenTrial
  PROVE  LET m1 == [kind |-> "target", target |-> InitialTarget(trial')]
             m2 == [kind |-> "show", target |-> NoTarget]
         IN  /\ SendAll(<<m1, m2>>) /\ m1 \in CountedMessage /\ m2 \in CountedMessage
             /\ trial' = trial + 1 /\ trial' \in Trials
<1>1. trial \in Nat /\ trial + 1 \in DOMAIN plan.phases
  BY PlanFacts DEF TypeInv, AgentTyped, OpenTrial
<1>2. trial' = trial + 1 /\ trial' \in Trials
  BY <1>1, PlanFacts DEF TypeInv, AgentTyped, OpenTrial
<1>3. SendAll(<<TargetMessage(InitialTarget(trial + 1)), Notice("show")>>)
  BY DEF OpenTrial
<1>4. TargetMessage(InitialTarget(trial')) \in CountedMessage /\ Notice("show") \in CountedMessage
  BY <1>2, InitialTyped, MessageTyped
<1> QED
  BY <1>2, <1>3, <1>4 DEF TargetMessage, Notice

\* The other messages of the agent are no targets and show none; they hide the
\* target that was shown.
LEMMA OthersSend ==
  ASSUME TypeInv, CloseTrial \/ CloseQuestion \/ Abort
  PROVE  \E messages \in Seq(CountedMessage) :
            /\ SendAll(messages)
            /\ \A i \in DOMAIN messages :
                 messages[i].kind \notin {"target", "show"} /\ messages[i].target \in {NoTarget, InitialTarget(trial)}
            /\ serving = "playing" => \E i \in DOMAIN messages : messages[i].kind = "hide"
<1> DEFINE hide == [kind |-> "hide", target |-> NoTarget]
           ask == [kind |-> "ask", target |-> InitialTarget(trial)]
           close == [kind |-> "close", target |-> NoTarget]
<1>1. hide = Notice("hide") /\ close = Notice("close") /\ ask = [Notice("ask") EXCEPT !.target = InitialTarget(trial)]
  BY DEF Notice
<1>2. hide \in CountedMessage /\ close \in CountedMessage /\ ask \in CountedMessage
  BY <1>1, MessageTyped DEF TypeInv, AgentTyped
<1>3. CASE CloseTrial
  <2>1. SendAll(<<hide, ask>>) \/ SendAll(<<hide>>)
    BY <1>1, <1>3 DEF CloseTrial
  <2>2. <<hide, ask>> \in Seq(CountedMessage) /\ <<hide>> \in Seq(CountedMessage)
    BY <1>2
  <2>3. CASE SendAll(<<hide, ask>>)
    <3> USE <2>2
    <3> WITNESS <<hide, ask>> \in Seq(CountedMessage)
    <3> QED
      BY <2>3
  <2>4. CASE SendAll(<<hide>>)
    <3> USE <2>2
    <3> WITNESS <<hide>> \in Seq(CountedMessage)
    <3> QED
      BY <2>4
  <2> QED
    BY <2>1, <2>3, <2>4
<1>4. CASE CloseQuestion
  <2>1. <<close>> \in Seq(CountedMessage)
    BY <1>2
  <2> WITNESS <<close>> \in Seq(CountedMessage)
  <2> QED
    BY <1>1, <1>4 DEF CloseQuestion
<1>5. CASE Abort
  <2>1. <<hide, close>> \in Seq(CountedMessage)
    BY <1>2
  <2> WITNESS <<hide, close>> \in Seq(CountedMessage)
  <2> QED
    BY <1>1, <1>5 DEF Abort
<1> QED
  BY <1>3, <1>4, <1>5

\* A list of messages with good targets.
LEMMA GoodList ==
  ASSUME NEW s \in Seq(CountedMessage), \A i \in DOMAIN s : s[i].target \in GoodTargets
  PROVE  s \in Seq(GoodMessages)
<1>1. DOMAIN s = 1 .. Len(s) /\ Len(s) \in Nat
  BY LenProperties
<1>2. \A i \in 1 .. Len(s) : s[i] \in CountedMessage
  BY ElementOfSeq
<1>3. \A i \in 1 .. Len(s) : s[i] \in GoodMessages
  BY <1>1, <1>2 DEF CountedMessage, GoodMessages
<1>4. s = [i \in 1 .. Len(s) |-> s[i]]
  BY <1>1, LenProperties
<1> DEFINE n == Len(s)
<1>5. s \in [1 .. n -> GoodMessages] /\ n \in Nat
  BY <1>1, <1>3, <1>4
<1> HIDE DEF n
<1> QED
  BY <1>5, SeqDef

\* What is good does not change while trials and records do not.
LEMMA SameGood ==
  ASSUME plan' = plan, trial' = trial, log' = log
  PROVE  GoodTargets' = GoodTargets /\ GoodMessages' = GoodMessages /\ \A k : IsShared(k)' = IsShared(k)
<1>1. \A k : IsShared(k)' = IsShared(k)
  BY DEF IsShared
<1>2. GoodTargets' = GoodTargets
  BY <1>1 DEF GoodTargets
<1> QED
  BY <1>1, <1>2 DEF GoodMessages

\* The agent hides a target, asks, or ends the session.
LEMMA OthersGame ==
  ASSUME GameOK, TypeInv', CloseTrial \/ CloseQuestion \/ Abort
  PROVE  GameOK'
<1> USE DEF GameOK
<1>1. UNCHANGED <<plan, trial, uplink, state, ref, page, game, shown, log>>
  BY DEF CloseTrial, CloseQuestion, Abort, viewVars, cursorVars, gameVars
<1>2. PICK messages \in Seq(CountedMessage) :
        /\ SendAll(messages)
        /\ \A i \in DOMAIN messages :
             messages[i].kind \notin {"target", "show"} /\ messages[i].target \in {NoTarget, InitialTarget(trial)}
        /\ serving = "playing" => \E i \in DOMAIN messages : messages[i].kind = "hide"
  BY OthersSend
<1>3. GoodTargets' = GoodTargets /\ GoodMessages' = GoodMessages /\ \A k : IsShared(k)' = IsShared(k)
  BY <1>1, SameGood
<1>4. messages \in Seq(GoodMessages)
  BY <1>2, InitialGood, GoodList
<1>5. inbox' \in [Pages -> Seq(GoodMessages)]
  BY <1>2, <1>4, ConcatProperties DEF SendAll, TargetInv
<1>6. TargetInv'
  BY <1>1, <1>3, <1>5 DEF TargetInv
<1>7. LogInv' /\ GameInv' /\ HitInv'
  BY <1>1, <1>3 DEF LogInv, GameInv, HitInv
<1>8. AdminInv'
  <2> DEFINE old == inbox[Admin]
             new == inbox'[Admin]
  <2>1. old \in Seq(CountedMessage) /\ new = old \o messages
    BY <1>2 DEF SendAll, Pages, TypeInv, LinesTyped
  <2>2. /\ \A i \in DOMAIN old : new[i] = old[i]
        /\ \A j \in DOMAIN messages : new[Len(old) + j] = messages[j]
        /\ \A i \in DOMAIN new : i \in DOMAIN old \/ \E j \in DOMAIN messages : i = Len(old) + j
    BY <2>1, ConcatElements
  <2>3. \A i \in DOMAIN new : new[i].kind = "target" => i \in DOMAIN old /\ new[i] = old[i]
    BY <1>2, <2>2
  <2>4. WillHide(old \o messages, state.visible)
    <3>1. WillHide(old, state.visible) \/ \E j \in DOMAIN messages : messages[j].kind = "hide"
      BY <1>2 DEF AdminInv
    <3>2. state.visible \in BOOLEAN
      BY DEF TypeInv, ViewTyped, ViewType
    <3>3. \A j \in DOMAIN messages : messages[j].kind # "show"
      BY <1>2
    <3> HIDE DEF old
    <3> QED
      BY <2>1, <3>1, <3>2, <3>3, WillHideMore
  <2>5. Opening' <=> Opening
    BY <1>1 DEF Opening
  <2>6. WillHide(new, state'.visible)
    BY <1>1, <2>1, <2>4
  <2> QED
    BY <1>1, <2>3, <2>5, <2>6 DEF AdminInv
<1> QED
  BY <1>6, <1>7, <1>8

\* Between two trials the admin's page shows no target.
LEMMA NothingShown ==
  ASSUME TypeInv, AdminInv, OpenTrial
  PROVE  ~state.visible /\ ~page[Admin].visible /\ inbox[Admin] = <<>> /\ uplink = <<>> /\ ref = state.target
<1>1. Settled /\ serving = "idle"
  BY DEF OpenTrial
<1>2. inbox[Admin] = <<>> /\ uplink = <<>> /\ ref = state.target /\ page[Admin].visible = state.visible
  BY <1>1 DEF Settled
<1>3. WillHide(<<>>, state.visible)
  BY <1>1, <1>2 DEF AdminInv
<1>4. DOMAIN <<>> = {}
  OBVIOUS
<1>5. ~state.visible
  BY <1>3, <1>4 DEF WillHide
<1> QED
  BY <1>2, <1>5

\* A trial begins with an empty record, on pages that have nothing of it yet.
LEMMA OpenGame ==
  ASSUME GameOK, TypeInv', OpenTrial
  PROVE  GameOK'
<1> USE DEF GameOK
<1> DEFINE m1 == [kind |-> "target", target |-> InitialTarget(trial')]
           m2 == [kind |-> "show", target |-> NoTarget]
           messages == <<m1, m2>>
<1>1. UNCHANGED <<plan, uplink, state, ref, page, game, shown, log>> /\ serving' = "playing"
  BY DEF OpenTrial, viewVars, cursorVars, gameVars
<1>2. SendAll(messages) /\ m1 \in CountedMessage /\ m2 \in CountedMessage /\ trial' = trial + 1 /\ trial' \in Trials
  BY OpenSends
<1>3. trial \in Nat /\ trial' \in Nat /\ trial < trial'
  BY <1>2, Numbers
<1>4. \A k : IsShared(k)' = IsShared(k)
  BY <1>1 DEF IsShared
<1>5. GoodTargets \subseteq GoodTargets'
  BY <1>1, <1>3, Numbers, GoodGrows
<1>6. GoodMessages \subseteq GoodMessages'
  BY <1>5 DEF GoodMessages
<1>7. NoTarget \in GoodTargets' /\ InitialTarget(trial') \in GoodTargets'
  <2>1. NoTarget \in GoodTargets'
    BY <1>5, InitialGood
  <2>2. InitialTarget(trial') \in CountedTarget /\ InitialTarget(trial').trial = trial'
        /\ InitialTarget(trial').seq = 0 /\ InitialTarget(trial').index = NoIndex
    BY <1>2, InitialTyped DEF InitialTarget, NoTarget
  <2>3. 0 <= Len(log'[trial'])
    BY <1>1, <1>2, Numbers
  <2> QED
    BY <1>3, <2>1, <2>2, <2>3 DEF GoodTargets
<1>8. m1 \in GoodMessages' /\ m2 \in GoodMessages'
  BY <1>2, <1>7 DEF GoodMessages
<1>9. TargetInv'
  <2> DEFINE G == GoodMessages'
  <2> HIDE DEF m1, m2, G
  <2>1. messages \in Seq(G)
    BY <1>8 DEF G
  <2>2. GoodMessages \subseteq G
    BY <1>6 DEF G
  <2>3. \A v \in Pages : inbox[v] \in Seq(G)
    BY <2>2 DEF TargetInv
  <2>4. uplink \in Seq(G)
    BY <2>2 DEF TargetInv
  <2> HIDE DEF messages
  <2>5. inbox' \in [Pages -> Seq(G)]
    BY <1>2, <2>1, <2>3, ConcatProperties DEF SendAll
  <2> QED
    BY <1>1, <1>5, <2>4, <2>5 DEF TargetInv, G
<1>10. LogInv'
  <2>1. \A k \in Trials : trial' < k => trial < k
    BY <1>3, GameAssumption
  <2> QED
    BY <1>1, <1>4, <2>1 DEF LogInv
<1>11. GameInv'
  <2>1. \A v \in Pages : game[v].trial <= trial'
    <3>1. \A v \in Pages : game[v].trial \in Nat /\ game[v].trial <= trial
      BY Numbers DEF GameInv, TypeInv, GameTyped
    <3> QED
      BY <1>3, <3>1
  <2> QED
    BY <1>1, <1>4, <2>1 DEF GameInv
<1>12. HitInv'
  BY <1>1 DEF HitInv
<1>13. AdminInv'
  <2>1. ~state.visible /\ ~page[Admin].visible /\ inbox[Admin] = <<>> /\ ref = state.target
    BY NothingShown
  <2>2. inbox'[Admin] = messages
    <3>1. messages \in Seq(CountedMessage)
      BY <1>2
    <3>2. inbox'[Admin] = <<>> \o messages
      BY <1>2, <2>1 DEF SendAll, Pages
    <3> HIDE DEF messages
    <3> QED
      BY <3>1, <3>2, ConcatEmptySeq
  <2>3. ref.trial < trial' /\ game[Admin].trial < trial'
    <3>1. ref.trial \in Nat /\ ref.trial <= trial
      BY Numbers DEF TargetInv, GoodTargets
    <3>2. game[Admin].trial \in Nat /\ game[Admin].trial <= trial
      BY Numbers DEF GameInv, TypeInv, GameTyped, Pages
    <3> QED
      BY <1>3, <3>1, <3>2
  <2>4. log[trial'] = <<>>
    BY <1>2, <1>3 DEF LogInv
  <2>5. Opening'
    BY <1>1, <1>2, <2>1, <2>3, <2>4 DEF Opening
  <2>6. \A i \in DOMAIN inbox'[Admin] : inbox'[Admin][i].kind = "target" =>
           i = 1 /\ inbox'[Admin][i].target = InitialTarget(trial')
    <3>1. DOMAIN messages = 1 .. 2 /\ messages[1] = m1 /\ messages[2] = m2 /\ m2.kind # "target"
          /\ m1.target = InitialTarget(trial')
      OBVIOUS
    <3> HIDE DEF messages, m1, m2
    <3> QED
      BY <2>2, <3>1
  <2> QED
    BY <1>1, <2>1, <2>5, <2>6 DEF AdminInv
<1> QED
  BY <1>9, <1>10, <1>11, <1>12, <1>13

\* Messages on their way, and their arrival at a participant's page.
LEMMA ArrivalGame ==
  ASSUME GameOK, TypeInv', Forward \/ \E p \in Followed : Deliver(p)
  PROVE  GameOK'
<1> USE DEF GameOK
<1>1. UNCHANGED <<plan, serving, trial, state, ref, game, shown, log>>
  BY DEF Forward, Deliver, viewVars, cursorVars, gameVars
<1>2. GoodTargets' = GoodTargets /\ GoodMessages' = GoodMessages /\ \A k : IsShared(k)' = IsShared(k)
  BY <1>1, SameGood
<1>3. Admin \notin Followed /\ Admin \in Pages /\ Followed \subseteq Pages
  BY GameAssumption DEF Pages
<1>4. TargetInv' /\ inbox'[Admin] = inbox[Admin] /\ page'[Admin] = page[Admin]
  <2>1. CASE Forward
    <3>1. Head(uplink) \in GoodMessages /\ Tail(uplink) \in Seq(GoodMessages)
      BY <2>1, HeadTailProperties DEF Forward, TargetInv
    <3>2. inbox' \in [Pages -> Seq(GoodMessages)]
      BY <2>1, <3>1, AppendProperties DEF Forward, TargetInv
    <3> QED
      BY <1>1, <1>2, <1>3, <2>1, <3>1, <3>2 DEF Forward, TargetInv, viewVars
  <2>2. ASSUME NEW p \in Followed, Deliver(p)
        PROVE  TargetInv' /\ inbox'[Admin] = inbox[Admin] /\ page'[Admin] = page[Admin]
    <3> DEFINE m == Head(inbox[p])
    <3>1. m \in GoodMessages /\ Tail(inbox[p]) \in Seq(GoodMessages)
      BY <1>3, <2>2, HeadTailProperties DEF Deliver, TargetInv
    <3>2. inbox' = [inbox EXCEPT ![p] = Tail(inbox[p])] /\ uplink' = uplink
      BY <2>2 DEF Deliver
    <3>3. page' = [page EXCEPT ![p] = CASE m.kind = "ask"   -> [page[p] EXCEPT !.asked = m.target.trial]
                                        [] m.kind = "close" -> [page[p] EXCEPT !.asked = 0]
                                        [] OTHER            -> View(page[p], m)]
      BY <2>2 DEF Deliver
    <3>4. page[p] \in PageType /\ page[p].target \in GoodTargets
      BY <1>3 DEF TypeInv, ViewTyped, TargetInv
    <3> HIDE DEF m
    <3>5. View(page[p], m).target \in GoodTargets
      BY <3>1, <3>4 DEF View, PageType, GoodMessages
    <3>6. page'[p].target \in GoodTargets
      BY <1>3, <3>3, <3>4, <3>5 DEF PageType, TypeInv, ViewTyped
    <3>7. \A v \in Pages : v # p => page'[v] = page[v] /\ inbox'[v] = inbox[v]
      BY <3>2, <3>3 DEF TypeInv, ViewTyped, LinesTyped
    <3>8. inbox' \in [Pages -> Seq(GoodMessages)]
      BY <3>1, <3>2 DEF TargetInv
    <3> QED
      BY <1>1, <1>2, <1>3, <3>2, <3>6, <3>7, <3>8 DEF TargetInv
  <2> QED
    BY <2>1, <2>2
<1>5. LogInv' /\ GameInv' /\ HitInv'
  BY <1>1, <1>2 DEF LogInv, GameInv, HitInv
<1>6. Opening' <=> Opening
  BY <1>1, <1>4 DEF Opening
<1>7. AdminInv'
  BY <1>1, <1>4, <1>6 DEF AdminInv
<1> QED
  BY <1>4, <1>5, <1>7

\* The admin's page takes a message of the agent.
LEMMA AdminGame ==
  ASSUME GameOK, TypeInv', DeliverToAdmin
  PROVE  GameOK'
<1> USE DEF GameOK
<1> DEFINE old == inbox[Admin]
           m == Head(old)
<1>1. /\ UNCHANGED <<plan, serving, trial, uplink, ref, page, game, shown, log>>
      /\ inbox' = [inbox EXCEPT ![Admin] = Tail(old)] /\ state' = View(state, m) /\ old # <<>>
  BY DEF DeliverToAdmin, cursorVars, gameVars
<1>2. GoodTargets' = GoodTargets /\ GoodMessages' = GoodMessages /\ \A k : IsShared(k)' = IsShared(k)
  BY <1>1, SameGood
<1>3. Admin \in Pages
  BY DEF Pages
<1>4. old \in Seq(GoodMessages) /\ old \in Seq(CountedMessage)
  BY <1>3 DEF TargetInv, TypeInv, LinesTyped
<1>5. m \in GoodMessages /\ Tail(old) \in Seq(GoodMessages)
  BY <1>1, <1>4, HeadTailProperties
<1>6. state \in ViewType
  BY DEF TypeInv, ViewTyped
<1>7. state'.target \in GoodTargets
  BY <1>1, <1>5, <1>6 DEF View, ViewType, GoodMessages, TargetInv
<1>8. inbox' \in [Pages -> Seq(GoodMessages)]
  BY <1>1, <1>5 DEF TargetInv
<1>9. TargetInv'
  BY <1>1, <1>2, <1>7, <1>8 DEF TargetInv
<1>10. LogInv' /\ GameInv' /\ HitInv'
  BY <1>1, <1>2 DEF LogInv, GameInv, HitInv
<1>11. Opening' <=> Opening
  BY <1>1 DEF Opening
<1>12. AdminInv'
  <2>1. inbox'[Admin] = Tail(old)
    BY <1>1, <1>3 DEF TypeInv, LinesTyped
  <2>2. m = old[1] /\ 1 \in DOMAIN old /\ \A i \in DOMAIN Tail(old) : i + 1 \in DOMAIN old /\ i + 1 # 1 /\ Tail(old)[i] = old[i + 1]
    <3> DEFINE t == Tail(old)
    <3>1. /\ m = old[1] /\ t \in Seq(CountedMessage) /\ Len(old) \in Nat \ {0} /\ Len(t) = Len(old) - 1
          /\ \A i \in 1 .. Len(t) : t[i] = old[i + 1]
      BY <1>1, <1>4, HeadTailProperties, LenProperties, EmptySeq
    <3>2. DOMAIN old = 1 .. Len(old) /\ DOMAIN t = 1 .. Len(t)
      BY <1>4, <3>1, LenProperties
    <3> HIDE DEF m, t, old
    <3> QED
      BY <3>1, <3>2 DEF t
  <2>3. \A i \in DOMAIN Tail(old) : Tail(old)[i].kind # "target"
    BY <2>2 DEF AdminInv
  <2>4. m.kind = "target" => m.target = InitialTarget(trial) /\ Opening
    BY <2>2 DEF AdminInv
  <2>5. ref' = state'.target \/ (state'.target = InitialTarget(trial') /\ Opening')
    <3>1. CASE m.kind = "target"
      <4>1. state'.target = m.target
        BY <1>1, <1>6, <3>1 DEF View, ViewType
      <4> QED
        BY <1>1, <1>11, <2>4, <3>1, <4>1
    <3>2. CASE m.kind # "target"
      <4>1. state'.target = state.target
        BY <1>1, <1>6, <3>2 DEF View, ViewType
      <4> QED
        BY <1>1, <1>11, <4>1 DEF AdminInv
    <3> QED
      BY <3>1, <3>2
  <2>6. serving' # "playing" => WillHide(inbox'[Admin], state'.visible)
    BY <1>1, <1>4, <1>6, <2>1, WillHideNext DEF AdminInv
  <2> QED
    BY <2>1, <2>3, <2>5, <2>6 DEF AdminInv
<1> QED
  BY <1>9, <1>10, <1>12

\* React commits on the admin's page.
LEMMA CommitGame ==
  ASSUME GameOK, TypeInv', Commit
  PROVE  GameOK'
<1> USE DEF GameOK
<1>1. /\ UNCHANGED <<plan, serving, trial, inbox, uplink, state, game, shown, log>>
      /\ ref' = state.target
  BY DEF Commit, netVars, cursorVars, gameVars
<1>2. GoodTargets' = GoodTargets /\ GoodMessages' = GoodMessages /\ \A k : IsShared(k)' = IsShared(k)
  BY <1>1, SameGood
<1>3. Admin \in Pages
  BY DEF Pages
<1>4. /\ page'[Admin].target = state.target /\ page'[Admin].visible = state.visible
      /\ \A v \in Pages : v # Admin => page'[v] = page[v]
  BY <1>3 DEF Commit, TypeInv, ViewTyped, PageType
<1>5. TargetInv'
  <2>1. \A v \in Pages : page'[v].target \in GoodTargets
    BY <1>4 DEF TargetInv
  <2> QED
    BY <1>1, <1>2, <2>1 DEF TargetInv
<1>6. GameInv'
  BY <1>1, <1>2 DEF GameInv
<1>7. \/ ref' = ref
      \/ /\ ref'.trial = trial /\ ref'.seq = 0 /\ Opening
  BY <1>1 DEF AdminInv, InitialTarget, NoTarget
<1>8. LogInv'
  <2>1. CASE ref' = ref
    BY <1>1, <1>2, <2>1 DEF LogInv
  <2>2. CASE ref'.trial = trial /\ ref'.seq = 0 /\ Opening
    <3>1. Len(log[trial]) = 0
      BY <2>2 DEF Opening
    <3> QED
      BY <1>1, <1>2, <2>2, <3>1 DEF LogInv
  <2> QED
    BY <1>7, <2>1, <2>2
<1>9. HitInv'
  <2>1. CASE ref' = ref
    BY <1>1, <2>1 DEF HitInv
  <2>2. CASE ref'.trial = trial /\ ref'.seq = 0 /\ Opening
    <3>1. game[Admin].trial \in Nat /\ trial \in Nat
      BY <1>3, Numbers DEF TypeInv, GameTyped
    <3>2. game[Admin].trial # trial
      BY <2>2, <3>1 DEF Opening
    <3> QED
      BY <1>1, <2>2, <3>2 DEF HitInv
  <2> QED
    BY <1>7, <2>1, <2>2
<1>10. AdminInv'
  <2>1. ASSUME NEW i \in DOMAIN inbox[Admin], inbox[Admin][i].kind = "target"
        PROVE  i = 1 /\ inbox[Admin][i].target = InitialTarget(trial) /\ ~state.visible /\ ref' = state.target /\ Opening'
    <3>1. i = 1 /\ inbox[Admin][i].target = InitialTarget(trial) /\ ~state.visible /\ ref = state.target /\ Opening
      BY <2>1 DEF AdminInv
    <3>2. Opening'
      BY <1>1, <1>4, <3>1 DEF Opening
    <3> QED
      BY <1>1, <3>1, <3>2
  <2> QED
    BY <1>1, <2>1 DEF AdminInv
<1> QED
  BY <1>5, <1>6, <1>8, <1>9, <1>10

\* The frames of the pages: what they draw and hit follows the record, and a
\* sketch that waits is behind the admin's target.
LEMMA FrameGame ==
  ASSUME GameOK, TypeInv', NEW v \in Pages, DrawFrame(v) \/ SoloHit(v) \/ SharedHit(v) \/ Elapse(v)
  PROVE  GameOK'
<1> USE DEF GameOK
<1>1. UNCHANGED <<plan, serving, trial, inbox, uplink, state, ref, page, log>>
  BY DEF DrawFrame, SoloHit, SharedHit, Elapse, netVars, viewVars, cursorVars
<1>2. GoodTargets' = GoodTargets /\ GoodMessages' = GoodMessages /\ \A k : IsShared(k)' = IsShared(k)
  BY <1>1, SameGood
<1>3. TargetInv' /\ LogInv'
  BY <1>1, <1>2 DEF TargetInv, LogInv
<1>4. game \in [Pages -> CountedGame] /\ shown \in [Pages -> ShownType] /\ Admin \in Pages
  BY DEF TypeInv, GameTyped, Pages
<1>5. Draws(v)
  BY DEF DrawFrame, SoloHit, SharedHit, Elapse, Hits
<1> DEFINE g == EnsureTrialState(v)
<1>6. /\ g \in CountedGame /\ g.trial \in Trials /\ g.trial <= trial
      /\ g.trial = page[v].target.trial
      /\ g.index = SelectTarget(g.trial, g.seq)
      /\ IF IsShared(g.trial) THEN g.id = Players /\ g.seq <= Len(log[g.trial])
         ELSE g.dwell # "scored"
  BY <1>5, EnsuredGood
<1>7. v = Admin => ~Opening
  BY <1>5 DEF Draws, Opening
<1>8. g.dwell = "scored" => g = game[v]
  BY <1>5, DrawsTyped, Ensured DEF Follows, GoesOn, BeginsAnew
\* What a step makes of the game of the page, and of the score it shows.
<1> DEFINE Kept(h, s) ==
      /\ h \in CountedGame /\ h.trial <= trial /\ s.trial = h.trial
      /\ h.trial # 0 => h.index = SelectTarget(h.trial, h.seq)
      /\ IF IsShared(h.trial)
         THEN h.id = Players /\ h.seq <= Len(log[h.trial]) /\ s.score <= Len(log[h.trial])
         ELSE h.dwell # "scored"
      /\ v = Admin /\ h.dwell = "scored" /\ ref.trial = h.trial => ref.seq > h.seq
<1>9. ASSUME NEW h, NEW s, Kept(h, s), game' = [game EXCEPT ![v] = h], shown' = [shown EXCEPT ![v] = s]
      PROVE  GameInv' /\ HitInv' /\ AdminInv'
  <2>1. \A u \in Pages : game'[u] = IF u = v THEN h ELSE game[u]
    BY <1>4, <1>9
  <2>2. \A u \in Pages : shown'[u] = IF u = v THEN s ELSE shown[u]
    BY <1>4, <1>9
  <2>3. GameInv'
    BY <1>1, <1>2, <1>9, <2>1, <2>2 DEF GameInv
  <2>4. HitInv'
    BY <1>1, <1>4, <1>9, <2>1 DEF HitInv
  <2>5. Opening => Opening'
    BY <1>1, <1>4, <1>7, <2>1 DEF Opening
  <2>6. AdminInv'
    BY <1>1, <2>5 DEF AdminInv
  <2> QED
    BY <2>3, <2>4, <2>6
<1>10. Informed(v, g).trial = g.trial /\ (IsShared(g.trial) => Informed(v, g).score <= Len(log[g.trial]))
  <2>1. CASE <<g.trial, g.id, g.seq>> = <<game[v].trial, game[v].id, game[v].seq>>
    <3>1. g.trial = game[v].trial /\ Informed(v, g) = shown[v]
      BY <2>1 DEF Informed
    <3> QED
      BY <3>1 DEF GameInv
  <2>2. CASE <<g.trial, g.id, g.seq>> # <<game[v].trial, game[v].id, game[v].seq>>
    <3>1. Informed(v, g) = [trial |-> g.trial, score |-> g.score] /\ g.score = g.seq
      BY <1>6, <2>2 DEF Informed, CountedGame
    <3> QED
      BY <1>6, <3>1
  <2> QED
    BY <2>1, <2>2
<1>11. CASE DrawFrame(v)
  <2>1. PICK dwell \in {"out", "in", "scored"} :
           /\ dwell = "scored" => g.dwell = "scored"
           /\ [g EXCEPT !.dwell = dwell] \in CountedGame
           /\ game' = [game EXCEPT ![v] = [g EXCEPT !.dwell = dwell]]
           /\ shown' = [shown EXCEPT ![v] = Informed(v, g)]
    BY <1>11, FrameDrawn
  <2> DEFINE h == [g EXCEPT !.dwell = dwell]
             s == Informed(v, g)
  <2> HIDE DEF g, s
  <2>2. /\ h.trial = g.trial /\ h.id = g.id /\ h.seq = g.seq /\ h.index = g.index /\ h.dwell = dwell
        /\ h \in CountedGame
    BY <1>6, <2>1 DEF CountedGame, GameType
  <2> HIDE DEF h
  <2>3. v = Admin /\ h.dwell = "scored" /\ ref.trial = h.trial => ref.seq > h.seq
    BY <1>8, <2>1, <2>2 DEF HitInv
  <2>4. Kept(h, s)
    BY <1>6, <1>10, <2>1, <2>2, <2>3 DEF s
  <2> HIDE DEF Kept
  <2> QED
    BY <1>3, <1>9, <2>1, <2>4 DEF h, s
<1>12. CASE SoloHit(v)
  <2> DEFINE h == AfterHit(g)
             s == [trial |-> g.trial, score |-> g.score + 1]
  <2>1. Hits(v, g) /\ ~IsShared(g.trial) /\ game' = [game EXCEPT ![v] = h] /\ shown' = [shown EXCEPT ![v] = s]
    BY <1>12 DEF SoloHit
  <2>2. h \in CountedGame /\ h.trial = g.trial /\ h.dwell = "out" /\ h.index = SelectTarget(h.trial, h.seq)
    BY <1>6, <2>1, HitTyped
  <2> HIDE DEF h, g
  <2>3. s.trial = g.trial
    OBVIOUS
  <2> HIDE DEF s
  <2>4. Kept(h, s)
    BY <1>6, <2>1, <2>2, <2>3
  <2> HIDE DEF Kept
  <2> QED
    BY <1>3, <1>9, <2>1, <2>4
<1>13. CASE SharedHit(v)
  <2> DEFINE h == AfterHit(g)
             s == Informed(v, g)
  <2>1. /\ Hits(v, g) /\ IsShared(g.trial) /\ game' = [game EXCEPT ![v] = h] /\ shown' = [shown EXCEPT ![v] = s]
        /\ v = Admin => ~Expects(ref, HitOf(g))
    BY <1>13 DEF SharedHit
  <2>2. h \in CountedGame /\ h.trial = g.trial /\ h.id = g.id /\ h.seq = g.seq /\ h.index = g.index
    BY <1>6, <2>1, HitTyped
  <2>3. ASSUME v = Admin, ref.trial = g.trial
        PROVE  ref.seq > g.seq
    <3>1. ref.seq # g.seq \/ ref.index \notin {NoIndex, g.index}
      BY <2>1, <2>3 DEF Expects, HitOf
    <3>2. ref \in GoodTargets
      BY DEF TargetInv
    <3>3. ref.index = IF ref.seq = 0 THEN NoIndex ELSE SelectTarget(ref.trial, ref.seq)
      BY <3>2 DEF GoodTargets
    <3>4. ref.seq # g.seq
      BY <1>6, <2>3, <3>1, <3>3
    <3>5. g.seq <= Len(log[g.trial]) /\ ref.seq = Len(log[g.trial])
      BY <1>6, <2>1, <2>3 DEF LogInv
    <3>6. g.seq \in Nat /\ ref.seq \in Nat
      BY <1>6, <3>2, Numbers DEF GoodTargets
    <3> QED
      BY <3>4, <3>5, <3>6
  <2> HIDE DEF h, g, s
  <2>4. Kept(h, s)
    BY <1>6, <1>10, <2>1, <2>2, <2>3 DEF s
  <2> HIDE DEF Kept
  <2> QED
    BY <1>3, <1>9, <2>1, <2>4
<1>14. CASE Elapse(v)
  <2> DEFINE clock == IF game[v].clock = "countdown" THEN "running" ELSE "complete"
             h == [game[v] EXCEPT !.clock = clock]
             s == shown[v]
  <2>1. game' = [game EXCEPT ![v] = h] /\ shown' = shown
    BY <1>14 DEF Elapse
  <2>2. shown' = [shown EXCEPT ![v] = s]
    BY <1>4, <2>1
  <2>3. clock \in {"countdown", "running", "complete"}
    OBVIOUS
  <2> HIDE DEF clock, s
  <2>4. /\ h \in CountedGame /\ h.trial = game[v].trial /\ h.id = game[v].id /\ h.seq = game[v].seq
        /\ h.index = game[v].index /\ h.dwell = game[v].dwell
    BY <1>4, <2>3 DEF CountedGame, GameType
  <2> HIDE DEF h
  <2>5. Kept(h, s)
    BY <2>4 DEF GameInv, HitInv, s
  <2> HIDE DEF Kept
  <2> QED
    BY <1>3, <1>9, <2>1, <2>2, <2>5
<1> QED
  BY <1>11, <1>12, <1>13, <1>14

\* The admin's page turns a hit into the next target and records it.
LEMMA AcquisitionGame ==
  ASSUME GameOK, TypeInv', ScoreAcquired
  PROVE  GameOK'
<1> USE DEF GameOK
<1> DEFINE g == EnsureTrialState(Admin)
           next == Advanced(ref, HitOf(g))
           hit == [seq |-> g.seq, index |-> g.index, by |-> Control(Admin, g.trial)]
           h == AfterHit(g)
           s == [trial |-> next.trial, score |-> next.score]
           k == g.trial
<1>1. Admin \in Pages
  BY DEF Pages
<1>2. Hits(Admin, g) /\ IsShared(k) /\ Expects(ref, HitOf(g)) /\ Draws(Admin)
  BY DEF ScoreAcquired, Hits
<1>3. /\ UNCHANGED <<plan, serving, trial, inbox, page>>
      /\ game' = [game EXCEPT ![Admin] = h] /\ ref' = next
      /\ state' = [state EXCEPT !.target = next] /\ shown' = [shown EXCEPT ![Admin] = s]
      /\ uplink' = Append(uplink, TargetMessage(next))
  BY DEF ScoreAcquired, Shows
<1>4. /\ g \in CountedGame /\ k \in Trials /\ hit \in HitType
      /\ next \in CountedTarget /\ TargetMessage(next) \in CountedMessage
      /\ log' = [log EXCEPT ![k] = Append(log[k], hit)]
  BY Acquired
<1>5. k <= trial /\ g.index = SelectTarget(k, g.seq) /\ g.id = Players
  BY <1>1, <1>2, EnsuredGood
<1>6. /\ next.trial = ref.trial /\ next.seq = ref.seq + 1
      /\ next.score = ref.seq + 1 /\ next.index = SelectTarget(k, g.seq + 1)
      /\ ref.trial = k /\ ref.seq = g.seq
  BY <1>2, <1>4, AdvancedTyped
<1>7. h \in CountedGame /\ h.trial = k /\ h.id = g.id /\ h.seq = g.seq /\ h.index = g.index
  BY <1>1, <1>2, <1>4, HitTyped
<1>8. ~Opening
  BY <1>2 DEF Draws, Opening
<1>9. TargetMessage(next).target = next /\ TargetMessage(next).kind = "target"
  BY DEF TargetMessage
<1>10. hit.seq = g.seq /\ hit.index = g.index /\ s.trial = next.trial /\ s.score = next.score
  OBVIOUS
<1>11. ref = state.target
  BY <1>8 DEF AdminInv
<1> HIDE DEF h, g, next, hit, k, s
<1>12. /\ log[k] \in Seq(HitType) /\ Len(log[k]) \in Nat /\ ref.seq = Len(log[k]) /\ ref.seq \in Nat
       /\ log' \in [Trials -> Seq(HitType)] /\ \A l \in Trials : l # k => log'[l] = log[l]
       /\ log'[k] = Append(log[k], hit)
  <2>1. log[k] \in Seq(HitType) /\ Len(log[k]) \in Nat
    BY <1>4, Numbers DEF TypeInv, LogTyped
  <2>2. ref.seq = Len(log[k])
    BY <1>2, <1>6 DEF LogInv
  <2> QED
    BY <1>4, <2>1, <2>2 DEF TypeInv, LogTyped
<1>13. /\ Len(log'[k]) = Len(log[k]) + 1
       /\ \A i \in 1 .. Len(log[k]) : log'[k][i] = log[k][i]
       /\ log'[k][Len(log[k]) + 1] = hit
       /\ DOMAIN log'[k] = 1 .. Len(log[k]) + 1 /\ DOMAIN log[k] = 1 .. Len(log[k])
  <2> DEFINE t == Append(log[k], hit)
  <2>1. /\ t \in Seq(HitType) /\ Len(t) = Len(log[k]) + 1
        /\ \A i \in 1 .. Len(log[k]) : t[i] = log[k][i]
        /\ t[Len(log[k]) + 1] = hit
    BY <1>4, <1>12, AppendProperties
  <2> HIDE DEF t
  <2>2. DOMAIN t = 1 .. Len(t) /\ DOMAIN log[k] = 1 .. Len(log[k])
    BY <1>12, <2>1, LenProperties
  <2> QED
    BY <1>12, <2>1, <2>2 DEF t
<1>14. GoodTargets \subseteq GoodTargets' /\ \A l : IsShared(l)' = IsShared(l)
  <2>1. \A l \in Trials : Len(log[l]) <= Len(log'[l])
    <3>1. \A l \in Trials : Len(log[l]) \in Nat
      BY Numbers
    <3> QED
      BY <1>12, <1>13, <3>1
  <2>2. trial <= trial'
    BY <1>3, Numbers
  <2> QED
    BY <1>3, <2>1, <2>2, GoodGrows DEF IsShared
<1>15. next \in GoodTargets'
  <2>1. next.seq = Len(log'[k]) /\ next.seq # 0 /\ next.trial = k /\ next.index = SelectTarget(k, next.seq)
    BY <1>6, <1>12, <1>13
  <2>2. next.seq <= Len(log'[k])
    BY <1>12, <1>13, <2>1
  <2> QED
    BY <1>2, <1>3, <1>4, <1>5, <1>14, <2>1, <2>2 DEF GoodTargets
<1>16. TargetInv'
  <2> DEFINE G == GoodMessages'
  <2>1. GoodMessages \subseteq G
    BY <1>14 DEF GoodMessages
  <2>2. TargetMessage(next) \in G
    BY <1>4, <1>9, <1>15 DEF GoodMessages, CountedMessage
  <2> HIDE DEF G
  <2>3. inbox \in [Pages -> Seq(G)] /\ uplink \in Seq(G)
    BY <2>1 DEF TargetInv
  <2>4. uplink' \in Seq(G)
    BY <1>3, <2>2, <2>3, AppendProperties
  <2>5. state'.target = next
    BY <1>3 DEF TypeInv, ViewTyped, ViewType
  <2> QED
    BY <1>3, <1>14, <1>15, <2>3, <2>4, <2>5 DEF TargetInv, G
<1>17. LogInv'
  <2>1. \A l \in Trials : trial' < l \/ ~IsShared(l)' => log'[l] = <<>>
    <3>1. ~(trial < k)
      BY <1>4, <1>5, Numbers, GameAssumption
    <3> QED
      BY <1>2, <1>3, <1>12, <1>14, <3>1 DEF LogInv
  <2>2. \A l \in Trials : \A i \in DOMAIN log'[l] :
           log'[l][i].seq = i - 1 /\ log'[l][i].index = SelectTarget(l, i - 1)
    <3> SUFFICES ASSUME NEW l \in Trials, NEW i \in DOMAIN log'[l]
                 PROVE  log'[l][i].seq = i - 1 /\ log'[l][i].index = SelectTarget(l, i - 1)
      OBVIOUS
    <3>1. CASE l # k
      BY <1>12, <3>1 DEF LogInv
    <3>2. CASE l = k /\ i \in 1 .. Len(log[k])
      BY <1>4, <1>13, <3>2 DEF LogInv
    <3>3. CASE l = k /\ i \notin 1 .. Len(log[k])
      <4>1. i = Len(log[k]) + 1 /\ i - 1 = g.seq
        BY <1>6, <1>12, <1>13, <3>3
      <4> QED
        BY <1>5, <1>10, <1>13, <3>3, <4>1 DEF k
    <3> QED
      BY <3>1, <3>2, <3>3
  <2>3. ref'.trial = k /\ ref'.seq = Len(log'[k])
    BY <1>3, <1>6, <1>12, <1>13
  <2> QED
    BY <2>1, <2>2, <2>3 DEF LogInv
<1>18. GameInv' /\ HitInv'
  <2>1. \A u \in Pages : game'[u] = (IF u = Admin THEN h ELSE game[u]) /\ shown'[u] = (IF u = Admin THEN s ELSE shown[u])
    BY <1>3 DEF TypeInv, GameTyped
  <2>2. \A u \in Pages : shown[u].score \in Nat /\ game[u].seq \in Nat
    BY Numbers, GameAssumption DEF TypeInv, GameTyped, ShownType
  <2>3. s.trial = k /\ s.score = Len(log'[k]) /\ h.seq <= Len(log'[k]) /\ Len(log'[k]) \in Nat
        /\ s.score <= Len(log'[k])
    BY <1>6, <1>7, <1>10, <1>12, <1>13
  <2>4. \A u \in Pages : IsShared(game[u].trial) =>
            game[u].seq <= Len(log'[game[u].trial]) /\ shown[u].score <= Len(log'[game[u].trial])
    <3> SUFFICES ASSUME NEW u \in Pages, IsShared(game[u].trial)
                 PROVE  game[u].seq <= Len(log'[game[u].trial]) /\ shown[u].score <= Len(log'[game[u].trial])
      OBVIOUS
    <3>1. game[u].seq <= Len(log[game[u].trial]) /\ shown[u].score <= Len(log[game[u].trial])
      BY DEF GameInv
    <3>2. game[u].trial \in Trials
      BY Numbers
    <3>3. CASE game[u].trial = k
      BY <1>12, <1>13, <2>2, <3>1, <3>3
    <3>4. CASE game[u].trial # k
      BY <1>12, <3>1, <3>2, <3>4
    <3> QED
      BY <3>3, <3>4
  <2>5. h.index = SelectTarget(h.trial, h.seq) /\ h.id = Players /\ h.trial <= trial /\ h.trial = k
    BY <1>5, <1>7 DEF k
  <2>6. GameInv'
    BY <1>2, <1>3, <1>14, <2>1, <2>3, <2>4, <2>5 DEF GameInv
  <2>7. HitInv'
    BY <1>1, <1>3, <1>6, <1>7, <1>12, <2>1 DEF HitInv
  <2> QED
    BY <2>6, <2>7
<1>19. AdminInv'
  <2>1. state'.target = next /\ state'.visible = state.visible
    BY <1>3 DEF TypeInv, ViewTyped, ViewType
  <2> QED
    BY <1>3, <1>8, <2>1 DEF AdminInv
<1> QED
  BY <1>16, <1>17, <1>18, <1>19

\* Cursors come and go without a trace in the game.
LEMMA CursorGame ==
  ASSUME GameOK, TypeInv', UNCHANGED <<plan, serving, trial, inbox, uplink, state, ref, page, game, shown, log>>
  PROVE  GameOK'
<1>1. GoodTargets' = GoodTargets /\ GoodMessages' = GoodMessages /\ \A k : IsShared(k)' = IsShared(k)
  BY SameGood
<1>2. TargetInv' /\ LogInv' /\ GameInv' /\ HitInv'
  BY <1>1 DEF GameOK, TargetInv, LogInv, GameInv, HitInv
<1>3. Opening' <=> Opening
  BY DEF Opening
<1>4. AdminInv'
  BY <1>3 DEF GameOK, AdminInv
<1> QED
  BY <1>2, <1>4 DEF GameOK

\* At the start there is no game.
LEMMA InitGame == Init => GameOK
<1> SUFFICES ASSUME Init PROVE GameOK
  OBVIOUS
<1>1. TypeInv
  BY InitTypes
<1>2. NoTarget \in GoodTargets /\ ~IsShared(0) /\ NoTarget.trial = 0
  BY <1>1, InitialGood, PlanFacts DEF TypeInv, AgentTyped, NoTarget
<1>3. TargetInv
  BY <1>2 DEF Init, TargetInv
<1>4. LogInv
  BY <1>2 DEF Init, LogInv
<1>5. GameInv
  BY <1>2 DEF Init, GameInv, NoGame
<1>6. AdminInv
  BY DEF Init, AdminInv, WillHide, Pages
<1>7. HitInv
  BY DEF Init, HitInv, NoGame, Pages
<1> QED
  BY <1>1, <1>3, <1>4, <1>5, <1>6, <1>7 DEF GameOK

\* No step breaks the one game.
LEMMA GameStep == GameOK /\ [Next]_vars => GameOK'
<1> SUFFICES ASSUME GameOK, [Next]_vars PROVE GameOK'
  OBVIOUS
<1>1. TypeInv'
  BY TypeStep DEF GameOK
<1>2. CASE OpenTrial
  BY <1>1, <1>2, OpenGame
<1>3. CASE CloseTrial \/ CloseQuestion \/ Abort
  BY <1>1, <1>3, OthersGame
<1>4. CASE DeliverToAdmin
  BY <1>1, <1>4, AdminGame
<1>5. CASE Commit
  BY <1>1, <1>5, CommitGame
<1>6. CASE Forward \/ \E p \in Followed : Deliver(p)
  BY <1>1, <1>6, ArrivalGame
<1>7. CASE ScoreAcquired
  BY <1>1, <1>7, AcquisitionGame
<1>8. CASE \E v \in Pages : DrawFrame(v) \/ SoloHit(v) \/ SharedHit(v) \/ Elapse(v)
  BY <1>1, <1>8, FrameGame
<1>9. CASE (\E p \in Players : Leave(p)) \/ (\E v \in Pages : KeepAlive(v) \/ ParticipantDisconnected(v)) \/ UNCHANGED vars
  <2>1. UNCHANGED <<plan, serving, trial, inbox, uplink, state, ref, page, game, shown, log>>
    BY <1>9 DEF Leave, KeepAlive, ParticipantDisconnected, vars, netVars, viewVars, gameVars
  <2> QED
    BY <1>1, <2>1, CursorGame
<1> QED
  BY <1>2, <1>3, <1>4, <1>5, <1>6, <1>7, <1>8, <1>9 DEF Next

\* The record of a trial, by the places of its hits.
LEMMA RecordOrdered ==
  ASSUME GameOK, NEW k \in Trials, NEW i \in DOMAIN log[k], NEW j \in DOMAIN log[k],
         i < j, (i - 1) \div SetSize = (j - 1) \div SetSize \/ j = i + 1
  PROVE  log[k][i].index # log[k][j].index
<1>1. log[k] \in Seq(HitType) /\ DOMAIN log[k] = 1 .. Len(log[k]) /\ Len(log[k]) \in Nat
  BY Numbers DEF GameOK, TypeInv, LogTyped
<1>2. log[k][i] \in HitType /\ log[k][j] \in HitType
  BY <1>1, ElementOfSeq
<1>3. log[k][i].seq = i - 1 /\ log[k][j].seq = j - 1
  BY DEF GameOK, LogInv
<1>4. i - 1 \in 0 .. MaxScore /\ j - 1 \in 0 .. MaxScore
  BY <1>2, <1>3 DEF HitType
<1>5. i - 1 < j - 1 /\ (j = i + 1 => j - 1 = (i - 1) + 1)
  BY <1>1
<1>6. SelectTarget(k, i - 1) # SelectTarget(k, j - 1)
  BY <1>4, <1>5, TargetsDiffer
<1> QED
  BY <1>6 DEF GameOK, LogInv

\* The invariant of the game implies what is promised.
LEMMA GamePromised == GameOK => OneGame
<1> SUFFICES ASSUME GameOK PROVE OneGame
  OBVIOUS
<1>1. TypeInv /\ TargetInv /\ LogInv /\ GameInv
  BY DEF GameOK
<1>2. ASSUME NEW k \in Trials, ref.trial = k
      PROVE  ref.score = Len(log[k])
  <2>1. ref \in GoodTargets /\ ref.score = ref.seq
    BY <1>1 DEF TargetInv, GoodTargets, CountedTarget
  <2>2. CASE IsShared(k)
    BY <1>1, <1>2, <2>1, <2>2 DEF LogInv
  <2>3. CASE ~IsShared(k)
    <3>1. ref.seq = 0
      BY <1>2, <2>1, <2>3 DEF GoodTargets
    <3>2. log[k] = <<>>
      BY <1>1, <2>3 DEF LogInv
    <3> QED
      BY <2>1, <3>1, <3>2
  <2> QED
    BY <2>2, <2>3
<1>3. RecordInOrder
  BY <1>1, <1>2, RecordOrdered DEF RecordInOrder, LogInv
<1>4. PagesAgree
  <2> SUFFICES ASSUME NEW v \in Pages, IsShared(game[v].trial)
               PROVE  /\ game[v].score = game[v].seq
                      /\ game[v].seq <= Len(log[game[v].trial])
                      /\ game[v].seq < Len(log[game[v].trial]) =>
                            game[v].index = log[game[v].trial][game[v].seq + 1].index
                      /\ shown[v].trial = game[v].trial => shown[v].score <= Len(log[game[v].trial])
    BY DEF PagesAgree
  <2> DEFINE k == game[v].trial
             n == game[v].seq
  <2>1. k \in Trials /\ game[v] \in CountedGame /\ n \in Nat /\ k # 0
    BY <1>1, Numbers, PlanFacts DEF TypeInv, GameTyped, AgentTyped
  <2>2. n <= Len(log[k]) /\ shown[v].score <= Len(log[k]) /\ game[v].index = SelectTarget(k, n)
    BY <1>1, <2>1 DEF GameInv
  <2>3. ASSUME n < Len(log[k])
        PROVE  log[k][n + 1].index = SelectTarget(k, n)
    <3>1. n + 1 \in DOMAIN log[k] /\ (n + 1) - 1 = n
      BY <1>1, <2>1, <2>3, Numbers
    <3> QED
      BY <1>1, <2>1, <3>1 DEF LogInv
  <2> QED
    BY <2>1, <2>2, <2>3 DEF CountedGame
<1> QED
  BY <1>3, <1>4 DEF OneGame

\* In a shared trial there is one game, for any plan, number of targets and
\* shuffle: the hits are recorded once and in order, no target comes twice
\* within a set or twice running, and every page plays and shows a state the
\* record went through (App.tsx: handleScoreAcquired(); sketch.ts:
\* ensureTrialState()).
THEOREM GameIsOne == Spec => []OneGame
<1>1. Init => GameOK
  BY InitGame
<1>2. GameOK /\ [Next]_vars => GameOK'
  BY GameStep
<1>3. GameOK => OneGame
  BY GamePromised
<1> QED
  BY <1>1, <1>2, <1>3, PTL DEF Spec

-----------------------------------------------------------------------------
(* Both play *)

\* Packets were lost for as long as a cursor lives, or somebody left.
Disturbed == losses > Stale \/ present # Players
\* As long as that is not so every page has both cursors, none older than the
\* number of the lost packets.
CursorInv ==
    Disturbed \/ \A v \in Pages : Held(v) = Players /\ \A p \in Players : cursors[v][p] <= losses
\* Until then a solo game is played by the same participant.
SoloInv ==
    Disturbed \/ \A v \in Pages :
        game[v].trial # 0 /\ ~IsShared(game[v].trial) => game[v].id = {IF v = Admin THEN eldest ELSE v}
CursorOK == TypeInv /\ CursorInv /\ SoloInv /\ HitsAreShared

\* The numbers of lost packets.
LEMMA LossNumbers ==
  ASSUME TypeInv
  PROVE  losses \in Nat /\ plan.losses \in Nat /\ Stale \in Nat /\ present \subseteq Players
BY PlanFacts, GameAssumption DEF TypeInv, AgentTyped, CursorTyped

\* There are two participants.
LEMMA SomePlayers == Players # {}
BY GameAssumption, FS_EmptySet

\* What went wrong stays so.
LEMMA DisturbedStays ==
  ASSUME TypeInv, [Next]_vars, Disturbed
  PROVE  Disturbed'
<1>1. losses \in Nat /\ Stale \in Nat /\ present \subseteq Players
  BY LossNumbers
<1>2. CASE UNCHANGED <<losses, present>>
  BY <1>2 DEF Disturbed
<1>3. CASE \E p \in Players : Leave(p)
  BY <1>3 DEF Leave, Disturbed
<1>4. CASE \E v \in Pages : KeepAlive(v)
  <2>1. PICK v \in Pages, heard \in SUBSET present :
           losses' = losses + Cardinality(present \ heard) /\ present' = present
    BY <1>4 DEF KeepAlive, Published
  <2>2. Cardinality(present \ heard) \in Nat
    BY <1>1, LossCounted
  <2> DEFINE c == Cardinality(present \ heard)
  <2>3. losses' = losses + c /\ c \in Nat
    BY <2>1, <2>2
  <2> HIDE DEF c
  <2>4. losses > Stale => losses' > Stale
    BY <1>1, <2>3
  <2> QED
    BY <2>1, <2>4 DEF Disturbed
<1>5. [Next]_vars => \/ UNCHANGED <<losses, present>> \/ (\E p \in Players : Leave(p)) \/ \E v \in Pages : KeepAlive(v)
  BY DEF Next, OpenTrial, CloseTrial, CloseQuestion, Abort, DeliverToAdmin, Commit, Forward, Deliver, ScoreAcquired,
     ParticipantDisconnected, DrawFrame, SoloHit, SharedHit, Elapse, vars, cursorVars
<1> QED
  BY <1>2, <1>3, <1>4, <1>5

\* One keepalive period ages a cursor by no more than the packets it lost.
LEMMA KeepAliveCursors ==
  ASSUME TypeInv, TypeInv', CursorInv, NEW v \in Pages, KeepAlive(v), ~Disturbed'
  PROVE  CursorInv' /\ eldest' = eldest
<1>1. PICK heard \in SUBSET present :
        /\ losses' = losses + Cardinality(present \ heard) /\ present' = present
        /\ Holds(v, Arrived(v, heard))
  BY DEF KeepAlive, Published
<1>2. losses \in Nat /\ Stale \in Nat /\ losses' \in Nat /\ present \subseteq Players
  BY LossNumbers, PlanFacts DEF TypeInv, AgentTyped, CursorTyped
<1> DEFINE c == Cardinality(present \ heard)
<1>3. c \in Nat /\ (heard # present => c >= 1)
  BY <1>2, LossCounted
<1>4. losses' = losses + c /\ losses' <= Stale /\ losses <= Stale /\ losses <= losses' /\ present = Players
  <2>1. losses' <= Stale /\ present = Players
    BY <1>1, <1>2 DEF Disturbed
  <2>2. losses' = losses + c
    BY <1>1
  <2> HIDE DEF c
  <2> QED
    BY <1>2, <1>3, <2>1, <2>2
<1>5. \A u \in Pages : Held(u) = Players /\ \A p \in Players : cursors[u][p] <= losses
  BY <1>2, <1>4 DEF CursorInv, Disturbed
<1>6. \A p \in Players : cursors[v][p] \in Nat
  BY <1>2, <1>5, AgesTyped DEF TypeInv, CursorTyped, Held
<1> HIDE DEF c
<1>7. \A p \in Players : Aged(v, p, heard) <= losses' /\ Aged(v, p, heard) <= Stale
  <2> SUFFICES ASSUME NEW p \in Players PROVE Aged(v, p, heard) <= losses'
    BY <1>2, <1>4, <1>6 DEF Aged
  <2>1. CASE p \in heard
    BY <1>2, <2>1 DEF Aged
  <2>2. CASE p \notin heard
    <3>1. c >= 1 /\ cursors[v][p] <= losses
      BY <1>3, <1>4, <1>5, <2>2
    <3>2. cursors[v][p] + 1 <= losses + c
      BY <1>2, <1>3, <1>6, <3>1
    <3> QED
      BY <1>4, <2>2, <3>2 DEF Aged
  <2> QED
    BY <2>1, <2>2
<1>8. Held(v) \cup heard = Players
  BY <1>4, <1>5
<1> DEFINE ages == Arrived(v, heard)
<1>9. DOMAIN ages = Players /\ \A p \in Players : ages[p] = Aged(v, p, heard)
  BY <1>7, <1>8 DEF Arrived, Swept, Only
<1>10. cursors' = [cursors EXCEPT ![v] = ages] /\ eldest' \in IF v = Admin THEN FirstOf(DOMAIN ages) ELSE {eldest}
  BY <1>1 DEF Holds
<1> HIDE DEF ages
<1>11. \A u \in Pages : cursors'[u] = IF u = v THEN ages ELSE cursors[u]
  BY <1>10 DEF TypeInv, CursorTyped
<1>12. \A u \in Pages : DOMAIN cursors'[u] = Players /\ \A p \in Players : cursors'[u][p] <= losses'
  <2> SUFFICES ASSUME NEW u \in Pages
               PROVE  DOMAIN cursors'[u] = Players /\ \A p \in Players : cursors'[u][p] <= losses'
    OBVIOUS
  <2>1. CASE u = v
    BY <1>7, <1>9, <1>11, <2>1
  <2>2. CASE u # v
    <3>1. \A p \in Players : cursors[u][p] \in Nat
      BY <1>2, <1>5, AgesTyped DEF TypeInv, CursorTyped, Held
    <3> QED
      BY <1>2, <1>4, <1>5, <1>11, <2>2, <3>1 DEF Held
  <2> QED
    BY <2>1, <2>2
<1>13. CursorInv'
  BY <1>12 DEF CursorInv, Held
<1>14. eldest' = eldest
  <2>1. Admin \in Pages /\ eldest \in Players
    BY DEF Pages, TypeInv, CursorTyped
  <2>2. eldest \in Held(Admin) \cap Players
    BY <1>5, <2>1
  <2>3. FirstOf(Players) = {eldest}
    BY <2>2 DEF FirstOf
  <2> QED
    BY <1>9, <1>10, <2>3
<1> QED
  BY <1>13, <1>14

\* Who plays a solo game, and who made a hit, as long as all cursors are there.
LEMMA WhoPlays ==
  ASSUME TypeInv, CursorInv, ~Disturbed, NEW v \in Pages, NEW k
  PROVE  /\ ~IsShared(k) => IdentityKey(v, k) = {IF v = Admin THEN eldest ELSE v}
         /\ IsShared(k) => Control(v, k) = Players
<1>1. Held(v) = Players
  BY DEF CursorInv
<1>2. (IF v = Admin THEN eldest ELSE v) \in Players
  BY GameAssumption DEF Pages, TypeInv, CursorTyped
<1>3. ASSUME ~IsShared(k)
      PROVE  IdentityKey(v, k) = {IF v = Admin THEN eldest ELSE v}
  BY <1>1, <1>2, <1>3 DEF IdentityKey, Control, FirstVisible
<1>4. ASSUME IsShared(k)
      PROVE  Control(v, k) = Players
  BY <1>1, <1>4, SomePlayers DEF Control, DisplayedAverage, SharedTaskCursor
<1> QED
  BY <1>3, <1>4

\* The frames leave a solo game to its player, and record what both hit.
LEMMA FramePlayers ==
  ASSUME CursorOK, ~Disturbed, NEW v \in Pages, DrawFrame(v) \/ SoloHit(v) \/ SharedHit(v) \/ Elapse(v)
  PROVE  \E h \in CountedGame :
            /\ game' = [game EXCEPT ![v] = h]
            /\ h.trial # 0 /\ ~IsShared(h.trial) => h.id = {IF v = Admin THEN eldest ELSE v}
<1> DEFINE g == EnsureTrialState(v)
           who == {IF v = Admin THEN eldest ELSE v}
<1>1. Draws(v)
  BY DEF DrawFrame, SoloHit, SharedHit, Elapse, Hits
<1>2. /\ g \in CountedGame /\ g.trial \in Trials /\ g.id = IdentityKey(v, page[v].target.trial)
      /\ g.trial = page[v].target.trial
  BY <1>1, DrawsTyped, Ensured DEF CursorOK
<1>3. ~IsShared(g.trial) => g.id = who
  BY <1>2, WhoPlays DEF CursorOK
<1>4. CASE DrawFrame(v)
  <2>1. PICK dwell \in {"out", "in", "scored"} :
           /\ [g EXCEPT !.dwell = dwell] \in CountedGame
           /\ game' = [game EXCEPT ![v] = [g EXCEPT !.dwell = dwell]]
    BY <1>4, FrameDrawn DEF CursorOK
  <2> DEFINE h == [g EXCEPT !.dwell = dwell]
  <2> HIDE DEF g, who
  <2>2. h.trial = g.trial /\ h.id = g.id
    BY <1>2 DEF CountedGame, GameType
  <2> HIDE DEF h
  <2>3. h \in CountedGame /\ game' = [game EXCEPT ![v] = h] /\ (~IsShared(h.trial) => h.id = who)
    BY <1>3, <2>1, <2>2 DEF h
  <2> QED
    BY <2>3 DEF who
<1>5. CASE SoloHit(v) \/ SharedHit(v)
  <2> DEFINE h == AfterHit(g)
  <2>1. Hits(v, g) /\ game' = [game EXCEPT ![v] = h]
    BY <1>5 DEF SoloHit, SharedHit
  <2>2. h \in CountedGame /\ h.trial = g.trial /\ h.id = g.id
    BY <1>2, <2>1, HitTyped DEF CursorOK
  <2> HIDE DEF h, g
  <2> QED
    BY <1>3, <2>1, <2>2
<1>6. CASE Elapse(v)
  <2> DEFINE clock == IF game[v].clock = "countdown" THEN "running" ELSE "complete"
             h == [game[v] EXCEPT !.clock = clock]
  <2>1. game' = [game EXCEPT ![v] = h]
    BY <1>6 DEF Elapse
  <2>2. clock \in {"countdown", "running", "complete"} /\ game[v] \in CountedGame
    BY DEF CursorOK, TypeInv, GameTyped
  <2> HIDE DEF clock
  <2>3. h \in CountedGame /\ h.trial = game[v].trial /\ h.id = game[v].id
    BY <2>2 DEF CountedGame, GameType
  <2>4. game[v].trial # 0 /\ ~IsShared(game[v].trial) => game[v].id = who
    BY DEF CursorOK, SoloInv
  <2> HIDE DEF h, who
  <2>5. h.trial # 0 /\ ~IsShared(h.trial) => h.id = who
    BY <2>3, <2>4
  <2> QED
    BY <2>1, <2>3, <2>5 DEF who
<1> QED
  BY <1>4, <1>5, <1>6

\* A record that does not change keeps the hits of both.
LEMMA SameHits ==
  ASSUME TypeInv, HitsAreShared, [Next]_vars, log' = log
  PROVE  HitsAreShared'
<1>1. CASE Disturbed
  BY <1>1, DisturbedStays DEF Disturbed, HitsAreShared
<1>2. CASE ~Disturbed
  BY <1>2 DEF Disturbed, HitsAreShared
<1> QED
  BY <1>1, <1>2

\* A new hit is one of both.
LEMMA NewHit ==
  ASSUME CursorOK, ScoreAcquired
  PROVE  CursorOK'
<1> USE DEF CursorOK
<1> DEFINE g == EnsureTrialState(Admin)
           by == Control(Admin, g.trial)
           hit == [seq |-> g.seq, index |-> g.index, by |-> by]
           h == AfterHit(g)
           k == g.trial
<1>1. Admin \in Pages /\ [Next]_vars
  BY DEF Pages, Next
<1>2. TypeInv'
  BY AcquisitionTypes
<1>3. /\ UNCHANGED <<plan, cursors, eldest, losses, present>> /\ game' = [game EXCEPT ![Admin] = h]
      /\ IsShared(k) /\ Hits(Admin, g)
  BY DEF ScoreAcquired, cursorVars
<1>4. g \in CountedGame /\ k \in Trials /\ hit \in HitType /\ log' = [log EXCEPT ![k] = Append(log[k], hit)]
  BY Acquired
<1>5. h.trial = k
  BY <1>1, <1>3, <1>4, HitTyped
<1>6. Disturbed' <=> Disturbed
  BY <1>3 DEF Disturbed
<1>7. CursorInv'
  BY <1>3, <1>6 DEF CursorInv, Held
<1>8. ~Disturbed => by = Players
  BY <1>1, <1>3, WhoPlays
<1> HIDE DEF g, h, k
<1>9. SoloInv'
  <2>1. \A u \in Pages : game'[u] = IF u = Admin THEN h ELSE game[u]
    BY <1>3 DEF TypeInv, GameTyped
  <2> QED
    BY <1>3, <1>5, <1>6, <2>1 DEF SoloInv, IsShared
<1>10. HitsAreShared'
  <2> SUFFICES ASSUME NEW l \in Trials, NEW i \in DOMAIN log'[l], ~Disturbed
               PROVE  log'[l][i].by = Players
    BY <1>6 DEF HitsAreShared, Disturbed
  <2>1. \A j \in DOMAIN log[l] : log[l][j].by = Players
    BY DEF HitsAreShared, Disturbed
  <2> DEFINE s == log[l]
             t == Append(s, hit)
  <2>2. s \in Seq(HitType) /\ hit.by = by
    BY DEF TypeInv, LogTyped
  <2> HIDE DEF hit, by
  <2>3. /\ t \in Seq(HitType) /\ Len(t) = Len(s) + 1 /\ \A j \in 1 .. Len(s) : t[j] = s[j]
        /\ t[Len(s) + 1] = hit
    BY <1>4, <2>2, AppendProperties
  <2> HIDE DEF t
  <2>4. DOMAIN s = 1 .. Len(s) /\ DOMAIN t = 1 .. Len(s) + 1 /\ Len(s) \in Nat
    BY <2>2, <2>3, LenProperties
  <2>5. log'[l] = IF l = k THEN t ELSE s
    BY <1>4 DEF t, TypeInv, LogTyped
  <2> HIDE DEF s
  <2>6. \A j \in DOMAIN t : t[j].by = Players
    BY <1>8, <2>1, <2>2, <2>3, <2>4 DEF s
  <2> QED
    BY <2>1, <2>5, <2>6 DEF s
<1> QED
  BY <1>2, <1>7, <1>9, <1>10

\* At the start every page has both cursors.
LEMMA InitCursors == Init => CursorOK
<1> SUFFICES ASSUME Init PROVE CursorOK
  OBVIOUS
<1>1. TypeInv
  BY InitTypes
<1>2. CursorInv
  BY DEF Init, CursorInv, Held
<1>3. SoloInv
  BY DEF Init, SoloInv, NoGame
<1>4. HitsAreShared
  BY DEF Init, HitsAreShared
<1> QED
  BY <1>1, <1>2, <1>3, <1>4 DEF CursorOK

\* No step makes a page forget a cursor before it is disturbed.
LEMMA CursorStep == CursorOK /\ [Next]_vars => CursorOK'
<1> SUFFICES ASSUME CursorOK, [Next]_vars PROVE CursorOK'
  OBVIOUS
<1> USE DEF CursorOK
<1>1. TypeInv'
  BY TypeStep
<1>2. CASE ScoreAcquired
  BY <1>2, NewHit
<1>3. ASSUME ~ScoreAcquired
      PROVE  HitsAreShared'
  <2>1. log' = log
    BY <1>3 DEF Next, OpenTrial, CloseTrial, CloseQuestion, Abort, DeliverToAdmin, Commit, Forward, Deliver, Leave, KeepAlive,
       ParticipantDisconnected, DrawFrame, SoloHit, SharedHit, Elapse, vars, gameVars
  <2> QED
    BY <2>1, SameHits
<1>4. ASSUME ~ScoreAcquired
      PROVE  CursorInv' /\ SoloInv'
  <2>1. CASE Disturbed'
    BY <2>1 DEF CursorInv, SoloInv
  <2>2. ASSUME ~Disturbed', NEW v \in Pages, KeepAlive(v)
        PROVE  CursorInv' /\ SoloInv'
    <3>1. CursorInv' /\ eldest' = eldest
      BY <1>1, <2>2, KeepAliveCursors
    <3>2. plan' = plan /\ game' = game
      BY <2>2 DEF KeepAlive, netVars, gameVars
    <3>3. ~Disturbed
      BY <2>2, DisturbedStays
    <3> QED
      BY <3>1, <3>2, <3>3 DEF SoloInv, IsShared
  <2>3. ASSUME ~Disturbed', UNCHANGED <<plan, cursors, eldest, losses, present, game>>
        PROVE  CursorInv' /\ SoloInv'
    BY <2>3 DEF CursorInv, SoloInv, Disturbed, Held, IsShared
  <2>4. ASSUME ~Disturbed', NEW p \in Players, Leave(p)
        PROVE  FALSE
    BY <2>4 DEF Leave, Disturbed
  <2>5. ASSUME ~Disturbed', NEW v \in Pages, ParticipantDisconnected(v)
        PROVE  FALSE
    <3>1. Held(v) \ present # {} /\ ~Disturbed
      BY <2>5, DisturbedStays DEF ParticipantDisconnected
    <3> QED
      BY <3>1 DEF CursorInv, Disturbed
  <2>6. ASSUME ~Disturbed', NEW v \in Pages, DrawFrame(v) \/ SoloHit(v) \/ SharedHit(v) \/ Elapse(v)
        PROVE  CursorInv' /\ SoloInv'
    <3>1. UNCHANGED <<plan, cursors, eldest, losses, present>>
      BY <2>6 DEF DrawFrame, SoloHit, SharedHit, Elapse, netVars, cursorVars
    <3>2. ~Disturbed
      BY <2>6, DisturbedStays
    <3>3. CursorInv'
      BY <3>1, <3>2 DEF CursorInv, Disturbed, Held
    <3>4. PICK h \in CountedGame :
            /\ game' = [game EXCEPT ![v] = h]
            /\ h.trial # 0 /\ ~IsShared(h.trial) => h.id = {IF v = Admin THEN eldest ELSE v}
      BY <2>6, <3>2, FramePlayers
    <3>5. \A u \in Pages : game'[u] = IF u = v THEN h ELSE game[u]
      BY <3>4 DEF TypeInv, GameTyped
    <3>6. SoloInv'
      BY <3>1, <3>2, <3>4, <3>5 DEF SoloInv, IsShared
    <3> QED
      BY <3>3, <3>6
  <2>7. CASE OpenTrial \/ CloseTrial \/ CloseQuestion \/ Abort \/ DeliverToAdmin \/ Commit \/ Forward
             \/ (\E p \in Followed : Deliver(p)) \/ UNCHANGED vars
    <3>1. UNCHANGED <<plan, cursors, eldest, losses, present, game>>
      BY <2>7 DEF OpenTrial, CloseTrial, CloseQuestion, Abort, DeliverToAdmin, Commit, Forward, Deliver, vars,
         netVars, cursorVars, gameVars
    <3> QED
      BY <2>1, <2>3, <3>1
  <2> QED
    BY <1>4, <2>1, <2>2, <2>4, <2>5, <2>6, <2>7 DEF Next
<1> QED
  BY <1>1, <1>2, <1>3, <1>4

\* Every shared hit was made by both participants, unless packets were lost for
\* as long as a cursor lives or a participant left (App.tsx: sharedTaskCursor,
\* the sweep, the keepalive effect).
THEOREM BothHit == Spec => []HitsAreShared
<1>1. Init => CursorOK
  BY InitCursors
<1>2. CursorOK /\ [Next]_vars => CursorOK'
  BY CursorStep
<1>3. CursorOK => HitsAreShared
  BY DEF CursorOK
<1> QED
  BY <1>1, <1>2, <1>3, PTL DEF Spec

-----------------------------------------------------------------------------
(* The game goes on *)

\* The last target among the messages of s is u; there is none among them; and
\* the target of a page that gets those of a, then those of b, will be u.
IsLast(s, u) ==
    \E i \in DOMAIN s : /\ s[i].kind = "target" /\ s[i].target = u
                        /\ \A j \in DOMAIN s : s[j].kind = "target" => j <= i
NoneIn(s) == \A i \in DOMAIN s : s[i].kind # "target"
Arrives(a, b, old, u) == IsLast(b, u) \/ (NoneIn(b) /\ (IsLast(a, u) \/ (NoneIn(a) /\ old = u)))

\* The target that the admin's page has, or is about to get from the agent, is
\* the one that every participant's page will have.
Upcoming == IF NoneIn(inbox[Admin]) THEN state.target ELSE InitialTarget(trial)
ComingInv == \A p \in Followed \cap present : Arrives(inbox[p], uplink, page[p].target, Upcoming)
AnswerOK == GameOK /\ ComingInv

\* The last target of two lists in a row.
LEMMA LastOfBoth ==
  ASSUME NEW M, NEW s \in Seq(M), NEW t \in Seq(M), NEW u
  PROVE  /\ IsLast(t, u) => IsLast(s \o t, u)
         /\ NoneIn(t) /\ IsLast(s, u) => IsLast(s \o t, u)
         /\ NoneIn(t) /\ NoneIn(s) => NoneIn(s \o t)
<1> DEFINE w == s \o t
<1>1. /\ \A i \in DOMAIN s : i \in DOMAIN w /\ w[i] = s[i]
      /\ \A j \in DOMAIN t : Len(s) + j \in DOMAIN w /\ w[Len(s) + j] = t[j]
      /\ \A i \in DOMAIN w : i \in DOMAIN s \/ \E j \in DOMAIN t : i = Len(s) + j
  BY ConcatElements
<1>2. DOMAIN s = 1 .. Len(s) /\ Len(s) \in Nat /\ DOMAIN t = 1 .. Len(t) /\ Len(t) \in Nat
  BY LenProperties
<1> HIDE DEF w
<1>3. ASSUME NEW i \in DOMAIN t, t[i].kind = "target", t[i].target = u,
             \A j \in DOMAIN t : t[j].kind = "target" => j <= i
      PROVE  IsLast(w, u)
  <2> DEFINE n == Len(s) + i
  <2>1. n \in DOMAIN w /\ w[n].kind = "target" /\ w[n].target = u
    BY <1>1, <1>3
  <2>2. \A j \in DOMAIN s : j <= n
    BY <1>2
  <2>3. ASSUME NEW j \in DOMAIN t, w[Len(s) + j].kind = "target"
        PROVE  Len(s) + j <= n
    <3>1. j <= i
      BY <1>1, <1>3, <2>3
    <3> QED
      BY <1>2, <3>1
  <2>4. \A j \in DOMAIN w : w[j].kind = "target" => j <= n
    BY <1>1, <2>2, <2>3
  <2> HIDE DEF n
  <2> QED
    BY <2>1, <2>4 DEF IsLast
<1>4. ASSUME NoneIn(t), NEW i \in DOMAIN s, s[i].kind = "target", s[i].target = u,
             \A j \in DOMAIN s : s[j].kind = "target" => j <= i
      PROVE  IsLast(w, u)
  <2>1. \A j \in DOMAIN w : w[j].kind = "target" => j \in DOMAIN s /\ s[j].kind = "target"
    BY <1>1, <1>4 DEF NoneIn
  <2> QED
    BY <1>1, <1>4, <2>1 DEF IsLast
<1>5. NoneIn(t) /\ NoneIn(s) => NoneIn(w)
  BY <1>1 DEF NoneIn
<1>6. IsLast(t, u) => IsLast(w, u)
  BY <1>3 DEF IsLast
<1>7. NoneIn(t) /\ IsLast(s, u) => IsLast(w, u)
  BY <1>4 DEF IsLast
<1> QED
  BY <1>5, <1>6, <1>7 DEF w

\* A list that goes on with one message.
LEMMA LastOfMore ==
  ASSUME NEW M, NEW s \in Seq(M), NEW m \in M, NEW u
  PROVE  /\ Append(s, m) \in Seq(M)
         /\ m.kind = "target" => IsLast(Append(s, m), m.target)
         /\ m.kind # "target" /\ IsLast(s, u) => IsLast(Append(s, m), u)
         /\ m.kind # "target" /\ NoneIn(s) => NoneIn(Append(s, m))
<1> DEFINE t == <<m>>
<1>1. Append(s, m) = s \o t /\ Append(s, m) \in Seq(M)
  BY AppendProperties, AppendIsConcat
<1>2. t \in Seq(M) /\ DOMAIN t = {1} /\ t[1] = m
  OBVIOUS
<1> HIDE DEF t
<1>3. m.kind = "target" => IsLast(t, m.target)
  BY <1>2 DEF IsLast
<1>4. m.kind # "target" => NoneIn(t)
  BY <1>2 DEF NoneIn
<1> QED
  BY <1>1, <1>2, <1>3, <1>4, LastOfBoth

\* A list whose first message was taken.
LEMMA LastOfRest ==
  ASSUME NEW M, NEW s \in Seq(M), s # <<>>, NEW u
  PROVE  /\ Tail(s) \in Seq(M) /\ Head(s) \in M
         /\ IsLast(s, u) => \/ IsLast(Tail(s), u)
                            \/ NoneIn(Tail(s)) /\ Head(s).kind = "target" /\ Head(s).target = u
         /\ NoneIn(s) => NoneIn(Tail(s)) /\ Head(s).kind # "target"
<1> DEFINE t == Tail(s)
           m == Head(s)
<1>1. /\ m = s[1] /\ m \in M /\ t \in Seq(M) /\ Len(s) \in Nat \ {0} /\ Len(t) = Len(s) - 1
      /\ \A i \in 1 .. Len(t) : t[i] = s[i + 1]
  BY HeadTailProperties, LenProperties, EmptySeq
<1>2. DOMAIN s = 1 .. Len(s) /\ DOMAIN t = 1 .. Len(t)
  BY <1>1, LenProperties
<1> HIDE DEF t, m
<1>3. 1 \in DOMAIN s /\ \A j \in DOMAIN t : j + 1 \in DOMAIN s /\ t[j] = s[j + 1]
  BY <1>1, <1>2
<1>4. ASSUME NEW i \in DOMAIN s, s[i].kind = "target", s[i].target = u,
             \A j \in DOMAIN s : s[j].kind = "target" => j <= i
      PROVE  IsLast(t, u) \/ (NoneIn(t) /\ m.kind = "target" /\ m.target = u)
  <2>1. CASE i = 1
    <3>1. \A j \in DOMAIN t : ~(j + 1 <= i)
      BY <1>2, <1>1, <2>1
    <3>2. NoneIn(t)
      BY <1>3, <1>4, <3>1 DEF NoneIn
    <3> QED
      BY <1>1, <1>4, <2>1, <3>2
  <2>2. CASE i # 1
    <3>1. i - 1 \in DOMAIN t /\ t[i - 1] = s[i]
      BY <1>1, <1>2, <2>2
    <3>2. ASSUME NEW j \in DOMAIN t, t[j].kind = "target"
          PROVE  j <= i - 1
      <4>1. j + 1 <= i
        BY <1>3, <1>4, <3>2
      <4> QED
        BY <1>1, <1>2, <4>1
    <3> QED
      BY <1>4, <3>1, <3>2 DEF IsLast
  <2> QED
    BY <2>1, <2>2
<1>5. IsLast(s, u) => IsLast(t, u) \/ (NoneIn(t) /\ m.kind = "target" /\ m.target = u)
  BY <1>4 DEF IsLast
<1>6. NoneIn(s) => NoneIn(t) /\ m.kind # "target"
  BY <1>1, <1>3 DEF NoneIn
<1> QED
  BY <1>1, <1>5, <1>6 DEF t, m

\* The target that a participant's page will have is the one the model speaks
\* of.
LEMMA ComingArrives ==
  ASSUME TypeInv, NEW p \in Followed, NEW u, Arrives(inbox[p], uplink, page[p].target, u)
  PROVE  Coming(p) = u
<1> DEFINE way == inbox[p] \o uplink
           targets == {i \in DOMAIN way : way[i].kind = "target"}
<1>1. inbox[p] \in Seq(CountedMessage) /\ uplink \in Seq(CountedMessage)
  BY DEF TypeInv, LinesTyped, Pages
<1>2. IsLast(way, u) \/ (NoneIn(way) /\ page[p].target = u)
  BY <1>1, LastOfBoth DEF Arrives
<1>3. way \in Seq(CountedMessage)
  BY <1>1, ConcatProperties
<1>4. DOMAIN way \subseteq Nat
  BY <1>3, LenProperties
<1>5. Coming(p) = IF targets = {} THEN page[p].target
                  ELSE way[CHOOSE i \in targets : \A j \in targets : j <= i].target
  BY DEF Coming
<1> HIDE DEF way
<1>6. CASE IsLast(way, u)
  <2>1. PICK i \in targets : way[i].target = u /\ \A j \in targets : j <= i
    BY <1>6 DEF IsLast
  <2> DEFINE last == CHOOSE n \in targets : \A j \in targets : j <= n
  <2>2. last \in targets /\ \A j \in targets : j <= last
    BY <2>1
  <2>3. targets \subseteq Nat
    BY <1>4
  <2> HIDE DEF last, targets
  <2>4. last = i
    BY <2>1, <2>2, <2>3
  <2> QED
    BY <1>5, <2>1, <2>4 DEF last
<1>7. CASE NoneIn(way) /\ page[p].target = u
  BY <1>5, <1>7 DEF NoneIn
<1> QED
  BY <1>2, <1>6, <1>7

\* While neither the messages nor the targets change, nothing else matters.
LEMMA SameComing ==
  ASSUME ComingInv, UNCHANGED <<trial, inbox, uplink>>, state'.target = state.target, present' \subseteq present,
         \A p \in Followed : page'[p].target = page[p].target
  PROVE  ComingInv'
<1>1. Upcoming' = Upcoming
  BY DEF Upcoming
<1> QED
  BY <1>1 DEF ComingInv

\* The agent's notices do not disturb the targets on their way.
LEMMA OthersComing ==
  ASSUME TypeInv, ComingInv, CloseTrial \/ CloseQuestion \/ Abort
  PROVE  ComingInv'
<1>1. UNCHANGED <<trial, uplink, state, page, present>>
  BY DEF CloseTrial, CloseQuestion, Abort, viewVars, cursorVars
<1>2. PICK messages \in Seq(CountedMessage) :
        /\ SendAll(messages)
        /\ \A i \in DOMAIN messages : messages[i].kind \notin {"target", "show"}
  BY OthersSend
<1>3. NoneIn(messages)
  BY <1>2 DEF NoneIn
<1>4. ASSUME NEW v \in Pages
      PROVE  /\ inbox'[v] = inbox[v] \o messages
             /\ \A u : IsLast(inbox[v], u) => IsLast(inbox'[v], u)
             /\ NoneIn(inbox[v]) <=> NoneIn(inbox'[v])
  <2>1. inbox'[v] = inbox[v] \o messages /\ inbox[v] \in Seq(CountedMessage)
    BY <1>2 DEF SendAll, TypeInv, LinesTyped
  <2>2. \A i \in DOMAIN inbox[v] : i \in DOMAIN inbox'[v] /\ inbox'[v][i] = inbox[v][i]
    BY <2>1, ConcatElements
  <2>3. NoneIn(inbox'[v]) => NoneIn(inbox[v])
    BY <2>2 DEF NoneIn
  <2> QED
    BY <1>3, <2>1, <2>3, LastOfBoth
<1>5. Upcoming' = Upcoming
  BY <1>1, <1>4 DEF Upcoming, Pages
<1>6. Followed \subseteq Pages
  BY DEF Pages
<1> QED
  BY <1>1, <1>4, <1>5, <1>6 DEF ComingInv, Arrives

\* At the beginning of a trial everyone is about to get its first target.
LEMMA OpenComing ==
  ASSUME TypeInv, AdminInv, OpenTrial
  PROVE  ComingInv'
<1> DEFINE u == InitialTarget(trial')
           m1 == [kind |-> "target", target |-> u]
           m2 == [kind |-> "show", target |-> NoTarget]
           messages == <<m1, m2>>
<1>1. SendAll(messages) /\ m1 \in CountedMessage /\ m2 \in CountedMessage
  BY OpenSends
<1>2. uplink' = <<>>
  BY NothingShown DEF OpenTrial
<1>3. messages \in Seq(CountedMessage)
  BY <1>1
<1>4. IsLast(messages, u)
  <2>1. DOMAIN messages = 1 .. 2 /\ messages[1] = m1 /\ messages[2] = m2 /\ m2.kind # "target"
        /\ m1.target = u /\ m1.kind = "target"
    OBVIOUS
  <2> HIDE DEF messages, m1, m2
  <2>2. 1 \in DOMAIN messages /\ \A j \in DOMAIN messages : messages[j].kind = "target" => j <= 1
    BY <2>1
  <2> QED
    BY <2>1, <2>2 DEF IsLast
<1> HIDE DEF messages, u
<1>5. ASSUME NEW v \in Pages
      PROVE  IsLast(inbox'[v], u)
  <2>1. inbox'[v] = inbox[v] \o messages /\ inbox[v] \in Seq(CountedMessage)
    BY <1>1 DEF SendAll, TypeInv, LinesTyped
  <2> QED
    BY <1>3, <1>4, <2>1, LastOfBoth
<1>6. Upcoming' = u
  <2>1. ~NoneIn(inbox'[Admin])
    BY <1>5 DEF IsLast, NoneIn, Pages
  <2> QED
    BY <2>1 DEF Upcoming, u
<1>7. NoneIn(uplink')
  BY <1>2 DEF NoneIn
<1> QED
  BY <1>5, <1>6, <1>7 DEF ComingInv, Arrives, Pages

\* The admin's page gets the target that it was about to get.
LEMMA AdminComing ==
  ASSUME TypeInv, AdminInv, ComingInv, DeliverToAdmin
  PROVE  ComingInv'
<1> DEFINE old == inbox[Admin]
           m == Head(old)
<1>1. /\ UNCHANGED <<trial, uplink, page, present>> /\ old # <<>>
      /\ inbox' = [inbox EXCEPT ![Admin] = Tail(old)] /\ state' = View(state, m)
  BY DEF DeliverToAdmin, cursorVars
<1>2. Admin \in Pages /\ old \in Seq(CountedMessage) /\ state \in ViewType
  BY DEF Pages, TypeInv, LinesTyped, ViewTyped
<1>3. inbox'[Admin] = Tail(old) /\ \A p \in Followed : inbox'[p] = inbox[p]
  BY <1>1, <1>2, GameAssumption DEF TypeInv, LinesTyped, Pages
<1>4. m = old[1] /\ 1 \in DOMAIN old /\ \A i \in DOMAIN Tail(old) : i + 1 \in DOMAIN old /\ i + 1 # 1 /\ Tail(old)[i] = old[i + 1]
  <2> DEFINE t == Tail(old)
  <2>1. /\ m = old[1] /\ t \in Seq(CountedMessage) /\ Len(old) \in Nat \ {0} /\ Len(t) = Len(old) - 1
        /\ \A i \in 1 .. Len(t) : t[i] = old[i + 1]
    BY <1>1, <1>2, HeadTailProperties, LenProperties, EmptySeq
  <2>2. DOMAIN old = 1 .. Len(old) /\ DOMAIN t = 1 .. Len(t)
    BY <1>2, <2>1, LenProperties
  <2> HIDE DEF m, t, old
  <2> QED
    BY <2>1, <2>2 DEF t
<1>5. NoneIn(inbox'[Admin])
  BY <1>3, <1>4 DEF AdminInv, NoneIn
<1>6. Upcoming' = state'.target
  BY <1>5 DEF Upcoming
<1>7. state'.target = Upcoming
  <2>1. CASE m.kind = "target"
    <3>1. state'.target = m.target
      BY <1>1, <1>2, <2>1 DEF View, ViewType
    <3>2. ~NoneIn(old) /\ m.target = InitialTarget(trial)
      BY <1>4, <2>1 DEF NoneIn, AdminInv
    <3> QED
      BY <3>1, <3>2 DEF Upcoming
  <2>2. CASE m.kind # "target"
    <3>1. state'.target = state.target
      BY <1>1, <1>2, <2>2 DEF View, ViewType
    <3>2. NoneIn(old)
      BY <1>4, <2>2 DEF NoneIn, AdminInv
    <3> QED
      BY <3>1, <3>2 DEF Upcoming
  <2> QED
    BY <2>1, <2>2
<1> QED
  BY <1>1, <1>3, <1>6, <1>7 DEF ComingInv

\* The media server passes a target on.
LEMMA ForwardComing ==
  ASSUME TypeInv, ComingInv, Forward
  PROVE  ComingInv'
<1> DEFINE m == Head(uplink)
<1>1. /\ UNCHANGED <<trial, state, page, present>> /\ uplink # <<>> /\ uplink' = Tail(uplink)
      /\ inbox' = [v \in Pages |-> IF v = Admin THEN inbox[v] ELSE Append(inbox[v], m)]
  BY DEF Forward, viewVars, cursorVars
<1>2. uplink \in Seq(CountedMessage) /\ m \in CountedMessage
  BY <1>1, HeadTailProperties DEF TypeInv, LinesTyped
<1>3. /\ \A u : IsLast(uplink, u) => IsLast(uplink', u) \/ (NoneIn(uplink') /\ m.kind = "target" /\ m.target = u)
      /\ NoneIn(uplink) => NoneIn(uplink') /\ m.kind # "target"
  BY <1>1, <1>2, LastOfRest
<1> HIDE DEF m
<1>4. Upcoming' = Upcoming
  BY <1>1 DEF Upcoming, Pages
<1> SUFFICES ASSUME NEW p \in Followed \cap present
             PROVE  Arrives(inbox'[p], uplink', page[p].target, Upcoming)
  BY <1>1, <1>4 DEF ComingInv
<1>5. inbox[p] \in Seq(CountedMessage) /\ inbox'[p] = Append(inbox[p], m)
  BY <1>1, GameAssumption DEF TypeInv, LinesTyped, Pages
<1>6. /\ m.kind = "target" => IsLast(inbox'[p], m.target)
      /\ m.kind # "target" /\ IsLast(inbox[p], Upcoming) => IsLast(inbox'[p], Upcoming)
      /\ m.kind # "target" /\ NoneIn(inbox[p]) => NoneIn(inbox'[p])
  BY <1>2, <1>5, LastOfMore
<1> QED
  BY <1>3, <1>6 DEF ComingInv, Arrives

\* A participant's page takes a target.
LEMMA DeliverComing ==
  ASSUME TypeInv, ComingInv, NEW q \in Followed, Deliver(q)
  PROVE  ComingInv'
<1> DEFINE m == Head(inbox[q])
<1>1. UNCHANGED <<trial, state, uplink, present>> /\ inbox[q] # <<>> /\ inbox' = [inbox EXCEPT ![q] = Tail(inbox[q])]
  BY DEF Deliver, cursorVars
<1>2. page' = [page EXCEPT ![q] = CASE m.kind = "ask"   -> [page[q] EXCEPT !.asked = m.target.trial]
                                    [] m.kind = "close" -> [page[q] EXCEPT !.asked = 0]
                                    [] OTHER            -> View(page[q], m)]
  BY DEF Deliver
<1>3. q \in Pages /\ q # Admin /\ inbox[q] \in Seq(CountedMessage) /\ page[q] \in PageType
  BY GameAssumption DEF Pages, TypeInv, LinesTyped, ViewTyped
<1>4. inbox'[q] = Tail(inbox[q]) /\ \A v \in Pages : v # q => inbox'[v] = inbox[v] /\ page'[v] = page[v]
  BY <1>1, <1>2, <1>3 DEF TypeInv, LinesTyped, ViewTyped
<1>5. /\ \A u : IsLast(inbox[q], u) =>
                  IsLast(inbox'[q], u) \/ (NoneIn(inbox'[q]) /\ m.kind = "target" /\ m.target = u)
      /\ NoneIn(inbox[q]) => NoneIn(inbox'[q]) /\ m.kind # "target"
  <2> DEFINE s == inbox[q]
  <2>1. s \in Seq(CountedMessage) /\ s # <<>> /\ inbox'[q] = Tail(s)
    BY <1>1, <1>3, <1>4
  <2> HIDE DEF s
  <2>2. /\ \A u : IsLast(s, u) => IsLast(Tail(s), u) \/ (NoneIn(Tail(s)) /\ Head(s).kind = "target" /\ Head(s).target = u)
        /\ NoneIn(s) => NoneIn(Tail(s)) /\ Head(s).kind # "target"
    BY <2>1, LastOfRest
  <2> QED
    BY <2>1, <2>2 DEF s
<1> HIDE DEF m
<1>6. page'[q].target = IF m.kind = "target" THEN m.target ELSE page[q].target
  BY <1>2, <1>3 DEF View, PageType, TypeInv, ViewTyped
<1>7. Upcoming' = Upcoming
  BY <1>1, <1>3, <1>4 DEF Upcoming, Pages
<1> SUFFICES ASSUME NEW p \in Followed \cap present
             PROVE  Arrives(inbox'[p], uplink, page'[p].target, Upcoming)
  BY <1>1, <1>7 DEF ComingInv
<1>8. CASE p = q
  BY <1>5, <1>6, <1>8 DEF ComingInv, Arrives
<1>9. CASE p # q
  BY <1>4, <1>9 DEF ComingInv, Pages
<1> QED
  BY <1>8, <1>9

\* The admin's page sends the target that it puts in the place of the old one.
LEMMA AcquisitionComing ==
  ASSUME TypeInv, AdminInv, ComingInv, ScoreAcquired
  PROVE  ComingInv'
<1> DEFINE next == Advanced(ref, HitOf(EnsureTrialState(Admin)))
           m == TargetMessage(next)
<1>1. /\ UNCHANGED <<trial, inbox, page, present>> /\ uplink' = Append(uplink, m)
      /\ state' = [state EXCEPT !.target = next] /\ Draws(Admin)
  BY DEF ScoreAcquired, Shows, cursorVars, Hits
<1>2. m \in CountedMessage
  BY Acquired
<1>3. m.kind = "target" /\ m.target = next
  BY DEF TargetMessage
<1> HIDE DEF next, m
<1>4. state'.target = next
  BY <1>1 DEF TypeInv, ViewTyped, ViewType
<1>5. NoneIn(inbox[Admin])
  BY <1>1 DEF AdminInv, Opening, Draws, NoneIn
<1>6. Upcoming' = next
  BY <1>1, <1>4, <1>5 DEF Upcoming
<1>7. IsLast(uplink', next)
  BY <1>1, <1>2, <1>3, LastOfMore DEF TypeInv, LinesTyped
<1> QED
  BY <1>6, <1>7 DEF ComingInv, Arrives

\* At the start no target is on its way.
LEMMA InitAnswer == Init => AnswerOK
<1> SUFFICES ASSUME Init PROVE AnswerOK
  OBVIOUS
<1>1. NoneIn(<<>>)
  BY DEF NoneIn
<1>2. Upcoming = NoTarget
  BY <1>1 DEF Init, Upcoming, Pages
<1>3. ComingInv
  BY <1>1, <1>2 DEF Init, ComingInv, Arrives, Pages
<1> QED
  BY <1>3, InitGame DEF AnswerOK

\* No step loses the last target.
LEMMA AnswerStep == AnswerOK /\ [Next]_vars => AnswerOK'
<1> SUFFICES ASSUME AnswerOK, [Next]_vars PROVE AnswerOK'
  OBVIOUS
<1>1. GameOK /\ ComingInv /\ TypeInv /\ AdminInv
  BY DEF AnswerOK, GameOK
<1>2. GameOK'
  BY <1>1, GameStep
<1>3. Followed \subseteq Pages /\ Admin \notin Followed
  BY GameAssumption DEF Pages
<1>4. ComingInv'
  <2>1. CASE OpenTrial
    BY <1>1, <2>1, OpenComing
  <2>2. CASE CloseTrial \/ CloseQuestion \/ Abort
    BY <1>1, <2>2, OthersComing
  <2>3. CASE DeliverToAdmin
    BY <1>1, <2>3, AdminComing
  <2>4. CASE Commit
    <3>1. UNCHANGED <<trial, inbox, uplink, state, present>>
      BY <2>4 DEF Commit, netVars, cursorVars
    <3>2. \A p \in Followed : page'[p].target = page[p].target
      BY <1>1, <1>3, <2>4 DEF Commit, TypeInv, ViewTyped
    <3> QED
      BY <1>1, <3>1, <3>2, SameComing
  <2>5. CASE Forward
    BY <1>1, <2>5, ForwardComing
  <2>6. CASE ScoreAcquired
    BY <1>1, <2>6, AcquisitionComing
  <2>7. CASE \E p \in Followed : Deliver(p)
    BY <1>1, <2>7, DeliverComing
  <2>8. CASE \E p \in Players : Leave(p)
    <3>1. UNCHANGED <<trial, inbox, uplink, state, page>> /\ present' \subseteq present
      BY <2>8 DEF Leave, netVars, viewVars
    <3> QED
      BY <1>1, <3>1, SameComing
  <2>9. CASE \/ \E v \in Pages : KeepAlive(v) \/ ParticipantDisconnected(v) \/ DrawFrame(v) \/ SoloHit(v)
                                 \/ SharedHit(v) \/ Elapse(v)
             \/ UNCHANGED vars
    <3>1. UNCHANGED <<trial, inbox, uplink, state, page, present>>
      BY <2>9 DEF KeepAlive, ParticipantDisconnected, DrawFrame, SoloHit, SharedHit, Elapse, vars, netVars,
         viewVars, cursorVars
    <3> QED
      BY <1>1, <3>1, SameComing
  <2> QED
    BY <2>1, <2>2, <2>3, <2>4, <2>5, <2>6, <2>7, <2>8, <2>9 DEF Next
<1> QED
  BY <1>2, <1>4 DEF AnswerOK

\* The sketches go on.
LEMMA AnswerPromised == AnswerOK => HitsAnswered
<1> SUFFICES ASSUME AnswerOK PROVE HitsAnswered
  OBVIOUS
<1>1. TypeInv /\ AdminInv /\ HitInv /\ ComingInv /\ TargetInv
  BY DEF AnswerOK, GameOK
<1>2. ASSUME NEW p \in Followed \cap present, Coming(p).trial = ref.trial
      PROVE  Coming(p) = ref
  <2>1. Coming(p) = Upcoming
    BY <1>1, ComingArrives DEF ComingInv
  <2>2. trial \in Nat /\ ref.trial \in Nat /\ InitialTarget(trial).trial = trial
    BY <1>1, Numbers DEF TypeInv, ViewTyped, InitialTarget, NoTarget
  <2>3. CASE NoneIn(inbox[Admin])
    <3>1. Coming(p) = state.target
      BY <2>1, <2>3 DEF Upcoming
    <3>2. ref = state.target \/ (state.target.trial = trial /\ ref.trial < trial)
      BY <1>1, <2>2 DEF AdminInv, Opening
    <3> QED
      BY <1>2, <2>2, <3>1, <3>2
  <2>4. CASE ~NoneIn(inbox[Admin])
    <3>1. Opening
      BY <1>1, <2>4 DEF AdminInv, NoneIn
    <3>2. Coming(p).trial = trial /\ ref.trial < trial
      BY <2>1, <2>2, <2>4, <3>1 DEF Upcoming, Opening
    <3> QED
      BY <1>2, <2>2, <3>2
  <2> QED
    BY <2>3, <2>4
<1> QED
  BY <1>1, <1>2 DEF HitsAnswered, HitInv

\* No hit blocks the shared game: the admin's target is ahead of its waiting
\* sketch, and the last target on its way to a participant is the admin's
\* (App.tsx: handleScoreAcquired, handleDataReceived).
THEOREM GameGoesOn == Spec => []HitsAnswered
<1>1. Init => AnswerOK
  BY InitAnswer
<1>2. AnswerOK /\ [Next]_vars => AnswerOK'
  BY AnswerStep
<1>3. AnswerOK => HitsAnswered
  BY AnswerPromised
<1> QED
  BY <1>1, <1>2, <1>3, PTL DEF Spec

-----------------------------------------------------------------------------
(* No score falls *)

\* Only the admin's page shows more than its sketch has, and then what its next
\* frames will show: its target is ahead, and the sketch gets no other one.
ShownInv ==
    \A v \in Pages :
        shown[v].score > game[v].score =>
            /\ v = Admin /\ IsShared(game[v].trial)
            /\ ref.trial = game[v].trial => shown[v].score = ref.score
            /\ page[v].target.trial = game[v].trial =>
                 page[v].target.seq <= game[v].seq \/ page[v].target = ref
ScoreOK == GameOK /\ CursorOK /\ ShownInv

\* The game of a page and its score after a step, where r is the admin's target.
Rises(v, h, s, r) ==
    /\ h \in CountedGame /\ s \in ShownType
    /\ s.score > h.score =>
          /\ v = Admin /\ IsShared(h.trial)
          /\ r.trial = h.trial => s.score = r.score
          /\ page[v].target.trial = h.trial => page[v].target.seq <= h.seq \/ page[v].target = r
    /\ h.trial = game[v].trial /\ game[v].trial # 0 =>
          \/ h.score >= game[v].score /\ s.score >= shown[v].score
          \/ ~IsShared(game[v].trial) /\ h.id # game[v].id /\ Disturbed

\* The scores are numbers.
LEMMA Scores ==
  /\ \A h \in CountedGame : h.score = h.seq /\ h.seq \in Int
  /\ \A s \in ShownType : s.score \in Int
  /\ \A t \in CountedTarget : t.score = t.seq /\ t.seq \in Int
BY GameAssumption DEF CountedGame, GameType, ShownType, CountedTarget, TargetType

\* ensureTrialState() takes no hit away from the sketch, and the score that a
\* page is told is not below the one it shows.
LEMMA EnsuredRises ==
  ASSUME ScoreOK, NEW v \in Pages, Draws(v)
  PROVE  LET g == EnsureTrialState(v)
         IN  /\ g.trial = game[v].trial =>
                  \/ /\ g.seq >= game[v].seq /\ Informed(v, g).score >= shown[v].score
                     /\ \/ shown[v].score <= g.seq
                        \/ v = Admin /\ IsShared(g.trial) /\ (ref.trial = g.trial => shown[v].score = ref.score)
                  \/ ~IsShared(game[v].trial) /\ g.id # game[v].id /\ Disturbed
             /\ IsShared(g.trial) => page[v].target.seq <= g.seq
<1> DEFINE g == EnsureTrialState(v)
           t == page[v].target
           old == game[v]
<1>1. TypeInv /\ GameInv /\ CursorInv /\ SoloInv
  BY DEF ScoreOK, GameOK, CursorOK
<1>2. t.trial \in Trials /\ t \in CountedTarget
  BY <1>1, DrawsTyped DEF TypeInv, ViewTyped, PageType
<1>3. /\ g \in CountedGame /\ g.trial = t.trial /\ g.id = IdentityKey(v, t.trial)
      /\ Follows(v, g) \/ GoesOn(v, g) \/ BeginsAnew(v, g)
  BY <1>1, <1>2, Ensured
<1>4. old \in CountedGame /\ shown[v] \in ShownType
  BY <1>1 DEF TypeInv, GameTyped
<1>5. /\ g.score = g.seq /\ g.seq \in Int /\ old.score = old.seq /\ old.seq \in Int
      /\ shown[v].score \in Int /\ t.score = t.seq /\ t.seq \in Int
  BY <1>2, <1>3, <1>4, Scores
<1>6. /\ <<g.trial, g.id, g.seq>> = <<old.trial, old.id, old.seq>> => Informed(v, g) = shown[v]
      /\ <<g.trial, g.id, g.seq>> # <<old.trial, old.id, old.seq>> => Informed(v, g).score = g.seq
  BY <1>5 DEF Informed
<1>7. shown[v].score > old.score =>
         /\ v = Admin /\ IsShared(old.trial)
         /\ ref.trial = old.trial => shown[v].score = ref.score
         /\ t.trial = old.trial => t.seq <= old.seq \/ t = ref
  BY DEF ScoreOK, ShownInv
<1>8. t.trial # 0
  BY <1>2, GameAssumption
<1>9. IsShared(t.trial) => IdentityKey(v, t.trial) = Players
  BY DEF IdentityKey
<1>10. IsShared(old.trial) => old.id = Players
  BY <1>1 DEF GameInv
<1>11. \/ Disturbed
       \/ old.trial = t.trial /\ ~IsShared(t.trial) => old.id = IdentityKey(v, t.trial)
  BY <1>1, <1>8, WhoPlays DEF SoloInv
<1>12. CASE Follows(v, g)
  <2>1. /\ IsShared(t.trial) /\ g.seq = t.seq
        /\ old.trial = t.trial => t.seq > old.seq
    BY <1>9, <1>10, <1>12 DEF Follows
  <2> HIDE DEF g, t, old
  <2>2. ASSUME g.trial = old.trial
        PROVE  /\ g.seq >= old.seq /\ Informed(v, g).score >= shown[v].score /\ shown[v].score <= g.seq
    <3>1. g.seq > old.seq
      BY <1>3, <2>1, <2>2
    <3>2. Informed(v, g).score = g.seq
      BY <1>5, <1>6, <3>1
    <3>3. shown[v].score <= g.seq
      <4>1. CASE shown[v].score > old.score
        <5>1. t = ref /\ ref.trial = old.trial
          <6>1. t.trial = old.trial /\ t.seq > old.seq
            BY <1>3, <2>1, <2>2
          <6>2. ~(t.seq <= old.seq)
            BY <1>5, <6>1
          <6>3. t.seq <= old.seq \/ t = ref
            BY <1>7, <4>1, <6>1
          <6>4. t = ref
            BY <6>2, <6>3
          <6> QED
            BY <6>1, <6>4
        <5> QED
          BY <1>5, <1>7, <2>1, <4>1, <5>1
      <4>2. CASE ~(shown[v].score > old.score)
        BY <1>5, <3>1, <4>2
      <4> QED
        BY <4>1, <4>2
    <3> QED
      BY <1>5, <3>1, <3>2, <3>3
  <2> QED
    BY <1>5, <2>1, <2>2 DEF g, t, old
<1>13. CASE GoesOn(v, g)
  <2>1. g = old /\ (IsShared(t.trial) => t.seq <= g.seq)
    BY <1>13 DEF GoesOn
  <2>2. Informed(v, g) = shown[v]
    BY <1>6, <2>1
  <2> HIDE DEF g, t, old
  <2>3. \/ shown[v].score <= g.seq
        \/ v = Admin /\ IsShared(g.trial) /\ (ref.trial = g.trial => shown[v].score = ref.score)
    BY <1>5, <1>7, <2>1
  <2> QED
    BY <1>3, <1>5, <2>1, <2>2, <2>3 DEF g, t, old
<1>14. CASE BeginsAnew(v, g)
  <2>1. /\ ~(old.trial = t.trial /\ old.id = g.id) /\ g.seq = 0
        /\ IsShared(t.trial) => t.seq <= 0
    BY <1>3, <1>14 DEF BeginsAnew
  <2>2. g.trial = old.trial => ~IsShared(old.trial) /\ g.id # old.id /\ Disturbed
    BY <1>3, <1>9, <1>10, <1>11, <2>1
  <2> QED
    BY <1>3, <2>1, <2>2
<1> QED
  BY <1>3, <1>12, <1>13, <1>14

\* The frames of a page never lower its score, unless the cursor of a solo game
\* was lost.
LEMMA FrameRises ==
  ASSUME ScoreOK, NEW v \in Pages, DrawFrame(v) \/ SoloHit(v) \/ SharedHit(v) \/ Elapse(v)
  PROVE  /\ UNCHANGED <<plan, ref, page>>
         /\ \E h, s : game' = [game EXCEPT ![v] = h] /\ shown' = [shown EXCEPT ![v] = s] /\ Rises(v, h, s, ref)
<1> DEFINE g == EnsureTrialState(v)
           t == page[v].target
           old == game[v]
           told == Informed(v, g)
<1>1. UNCHANGED <<plan, ref, page>>
  BY DEF DrawFrame, SoloHit, SharedHit, Elapse, netVars, viewVars
<1>2. TypeInv /\ GameInv /\ Draws(v)
  BY DEF ScoreOK, GameOK, DrawFrame, SoloHit, SharedHit, Elapse, Hits
<1>3. old \in CountedGame /\ shown[v] \in ShownType /\ shown \in [Pages -> ShownType]
  BY <1>2 DEF TypeInv, GameTyped
<1>4. g \in CountedGame /\ g.trial \in Trials /\ g.trial = t.trial /\ told \in ShownType
  BY <1>2, DrawsTyped, Ensured, InformedTyped
<1>5. g.trial = old.trial =>
         \/ /\ g.seq >= old.seq /\ told.score >= shown[v].score
            /\ \/ shown[v].score <= g.seq
               \/ v = Admin /\ IsShared(g.trial) /\ (ref.trial = g.trial => shown[v].score = ref.score)
         \/ ~IsShared(old.trial) /\ g.id # old.id /\ Disturbed
  BY <1>2, EnsuredRises
<1>6. /\ g.score = g.seq /\ g.seq \in Int /\ old.score = old.seq /\ old.seq \in Int
      /\ shown[v].score \in Int /\ told.score \in Int
  BY <1>3, <1>4, Scores
<1>7. /\ <<g.trial, g.id, g.seq>> = <<old.trial, old.id, old.seq>> => told = shown[v]
      /\ <<g.trial, g.id, g.seq>> # <<old.trial, old.id, old.seq>> => told.score = g.seq
  BY <1>6 DEF Informed
<1>8. shown[v].score > old.score =>
         /\ v = Admin /\ IsShared(old.trial)
         /\ ref.trial = old.trial => shown[v].score = ref.score
         /\ t.trial = old.trial => t.seq <= old.seq \/ t = ref
  BY DEF ScoreOK, ShownInv
<1>9. told.score > g.seq =>
         /\ v = Admin /\ IsShared(g.trial)
         /\ ref.trial = g.trial => told.score = ref.score
         /\ t.trial = g.trial => t.seq <= g.seq \/ t = ref
  BY <1>6, <1>7, <1>8
\* A game with the numbers of g, and the score the page is told.
<1>10. ASSUME NEW h \in CountedGame, h.trial = g.trial, h.id = g.id, h.seq = g.seq
       PROVE  Rises(v, h, told, ref)
  <2> HIDE DEF g, t, told, old
  <2>1. h.score = g.seq
    BY <1>10, Scores
  <2> QED
    BY <1>4, <1>5, <1>6, <1>9, <1>10, <2>1 DEF Rises, t, old
<1>11. CASE DrawFrame(v)
  <2>1. PICK dwell \in {"out", "in", "scored"} :
           /\ [g EXCEPT !.dwell = dwell] \in CountedGame
           /\ game' = [game EXCEPT ![v] = [g EXCEPT !.dwell = dwell]]
           /\ shown' = [shown EXCEPT ![v] = told]
    BY <1>2, <1>11, FrameDrawn
  <2> DEFINE h == [g EXCEPT !.dwell = dwell]
  <2> HIDE DEF g, told
  <2>2. h.trial = g.trial /\ h.id = g.id /\ h.seq = g.seq
    BY <1>4 DEF CountedGame, GameType
  <2> HIDE DEF h
  <2>3. Rises(v, h, told, ref) /\ game' = [game EXCEPT ![v] = h]
    BY <1>10, <2>1, <2>2 DEF h
  <2> QED
    BY <1>1, <2>1, <2>3
<1>12. CASE SharedHit(v)
  <2> DEFINE h == AfterHit(g)
  <2>1. Hits(v, g) /\ IsShared(g.trial) /\ game' = [game EXCEPT ![v] = h] /\ shown' = [shown EXCEPT ![v] = told]
    BY <1>12 DEF SharedHit
  <2>2. h \in CountedGame /\ h.trial = g.trial /\ h.id = g.id /\ h.seq = g.seq
    BY <1>2, <1>4, <2>1, HitTyped
  <2> HIDE DEF h, g, told
  <2>3. Rises(v, h, told, ref)
    BY <1>10, <2>2
  <2> QED
    BY <1>1, <2>1, <2>3
<1>13. CASE SoloHit(v)
  <2> DEFINE h == AfterHit(g)
             s == [trial |-> g.trial, score |-> g.score + 1]
  <2>1. Hits(v, g) /\ ~IsShared(g.trial) /\ game' = [game EXCEPT ![v] = h] /\ shown' = [shown EXCEPT ![v] = s]
    BY <1>13 DEF SoloHit
  <2>2. h \in CountedGame /\ h.trial = g.trial /\ h.id = g.id /\ h.seq = g.seq + 1 /\ g.seq + 1 \in 0 .. MaxScore
    BY <1>2, <1>4, <2>1, HitTyped
  <2>3. s \in ShownType /\ s.score = g.seq + 1
    BY <1>4, <1>6, <2>2 DEF ShownType
  <2> HIDE DEF h, g, s, told, t, old
  <2>4. h.score = g.seq + 1
    BY <2>2, Scores
  <2>5. Rises(v, h, s, ref)
    BY <1>5, <1>6, <2>1, <2>2, <2>3, <2>4 DEF Rises, old
  <2> QED
    BY <1>1, <2>1, <2>5
<1>14. CASE Elapse(v)
  <2> DEFINE clock == IF game[v].clock = "countdown" THEN "running" ELSE "complete"
             h == [game[v] EXCEPT !.clock = clock]
  <2>1. game' = [game EXCEPT ![v] = h] /\ shown' = shown
    BY <1>14 DEF Elapse
  <2>2. shown' = [shown EXCEPT ![v] = shown[v]]
    BY <1>3, <2>1
  <2>3. clock \in {"countdown", "running", "complete"}
    OBVIOUS
  <2> HIDE DEF clock
  <2>4. h \in CountedGame /\ h.trial = old.trial /\ h.seq = old.seq
    BY <1>3, <2>3 DEF CountedGame, GameType
  <2> HIDE DEF h
  <2>5. h.score = old.score
    BY <1>3, <2>4, Scores
  <2>6. Rises(v, h, shown[v], ref)
    BY <1>3, <1>6, <1>8, <2>4, <2>5 DEF Rises
  <2> QED
    BY <1>1, <2>1, <2>2, <2>6
<1> QED
  BY <1>11, <1>12, <1>13, <1>14

\* Nor does a hit that the admin's page turns into the next target.
LEMMA AcquisitionRises ==
  ASSUME ScoreOK, ScoreAcquired
  PROVE  /\ UNCHANGED <<plan, page>>
         /\ \E h, s : /\ game' = [game EXCEPT ![Admin] = h] /\ shown' = [shown EXCEPT ![Admin] = s]
                      /\ Rises(Admin, h, s, ref')
<1> DEFINE g == EnsureTrialState(Admin)
           next == Advanced(ref, HitOf(g))
           h == AfterHit(g)
           s == [trial |-> next.trial, score |-> next.score]
           t == page[Admin].target
           old == game[Admin]
<1>1. TypeInv /\ GameInv /\ Admin \in Pages
  BY DEF ScoreOK, GameOK, Pages
<1>2. Hits(Admin, g) /\ IsShared(g.trial) /\ Expects(ref, HitOf(g)) /\ Draws(Admin)
  BY DEF ScoreAcquired, Hits
<1>3. /\ UNCHANGED <<plan, page>> /\ game' = [game EXCEPT ![Admin] = h] /\ ref' = next
      /\ shown' = [shown EXCEPT ![Admin] = s]
  BY DEF ScoreAcquired
<1>4. g \in CountedGame /\ g.trial \in Trials /\ next \in CountedTarget
  BY <1>1, Acquired
<1>5. /\ next.trial = ref.trial /\ next.seq = ref.seq + 1 /\ next.score = ref.seq + 1
      /\ ref.trial = g.trial /\ ref.seq = g.seq
  BY <1>1, <1>2, <1>4, AdvancedTyped
<1>6. h \in CountedGame /\ h.trial = g.trial /\ h.id = g.id /\ h.seq = g.seq
  BY <1>1, <1>2, <1>4, HitTyped
<1>7. /\ g.trial = old.trial =>
            \/ /\ g.seq >= old.seq
               /\ shown[Admin].score <= g.seq \/ (ref.trial = g.trial => shown[Admin].score = ref.score)
            \/ ~IsShared(old.trial) /\ g.id # old.id /\ Disturbed
      /\ t.seq <= g.seq
  BY <1>1, <1>2, EnsuredRises
<1>8. old \in CountedGame /\ shown[Admin] \in ShownType /\ ref \in CountedTarget
  BY <1>1 DEF TypeInv, GameTyped, ViewTyped
<1>9. s \in ShownType /\ s.score = g.seq + 1
  BY <1>4, <1>5 DEF CountedTarget, TargetType, ShownType
<1> HIDE DEF g, next, h, s, t, old
<1>10. /\ h.score = g.seq /\ g.seq \in Int /\ old.score = old.seq /\ old.seq \in Int
       /\ shown[Admin].score \in Int /\ ref.score = ref.seq
  BY <1>4, <1>6, <1>8, Scores
<1>11. Rises(Admin, h, s, next)
  BY <1>2, <1>5, <1>6, <1>7, <1>9, <1>10 DEF Rises, t, old
<1> QED
  BY <1>3, <1>11

\* What ScoreKept says of a step.
ScoresKept ==
    \A v \in Pages :
        (game'[v].trial = game[v].trial /\ game[v].trial # 0) =>
            \/ /\ game'[v].score >= game[v].score
               /\ shown[v].trial = game[v].trial => shown'[v].score >= shown[v].score
            \/ /\ ~IsShared(game[v].trial)
               /\ game'[v].id # game[v].id /\ (losses > Stale \/ present # Players)

\* A step that changes the game of one page.
LEMMA OneRises ==
  ASSUME ScoreOK, NEW v \in Pages, NEW h, NEW s,
         game' = [game EXCEPT ![v] = h], shown' = [shown EXCEPT ![v] = s], Rises(v, h, s, ref'),
         UNCHANGED <<plan, page>>, ref' = ref \/ v = Admin
  PROVE  ShownInv' /\ ScoresKept
<1>1. game \in [Pages -> CountedGame] /\ shown \in [Pages -> ShownType]
  BY DEF ScoreOK, GameOK, TypeInv, GameTyped
<1>2. \A u \in Pages : /\ game'[u] = IF u = v THEN h ELSE game[u]
                       /\ shown'[u] = IF u = v THEN s ELSE shown[u]
  BY <1>1
<1>3. \A k : IsShared(k)' = IsShared(k)
  BY DEF IsShared
<1>4. \A u \in Pages : game[u].score \in Int /\ shown[u].score \in Int
  BY <1>1, Scores
<1>5. ShownInv'
  <2> SUFFICES ASSUME NEW u \in Pages, shown'[u].score > game'[u].score
               PROVE  /\ u = Admin /\ IsShared(game'[u].trial)
                      /\ ref'.trial = game'[u].trial => shown'[u].score = ref'.score
                      /\ page[u].target.trial = game'[u].trial =>
                           page[u].target.seq <= game'[u].seq \/ page[u].target = ref'
    BY <1>3 DEF ShownInv
  <2>1. CASE u = v
    BY <1>2, <2>1 DEF Rises
  <2>2. CASE u # v
    <3>1. game'[u] = game[u] /\ shown'[u] = shown[u]
      BY <1>2, <2>2
    <3>2. u = Admin
      BY <3>1 DEF ScoreOK, ShownInv
    <3>3. ref' = ref
      BY <2>2, <3>2
    <3> QED
      BY <3>1, <3>3 DEF ScoreOK, ShownInv
  <2> QED
    BY <2>1, <2>2
<1>6. ScoresKept
  <2> SUFFICES ASSUME NEW u \in Pages, game'[u].trial = game[u].trial, game[u].trial # 0
               PROVE  \/ game'[u].score >= game[u].score /\ shown'[u].score >= shown[u].score
                      \/ ~IsShared(game[u].trial) /\ game'[u].id # game[u].id /\ Disturbed
    BY DEF ScoresKept, Disturbed
  <2>1. CASE u = v
    BY <1>2, <2>1 DEF Rises
  <2>2. CASE u # v
    BY <1>2, <1>4, <2>2
  <2> QED
    BY <2>1, <2>2
<1> QED
  BY <1>5, <1>6

\* A step that leaves the games and their scores alone.
LEMMA NoneRises ==
  ASSUME ScoreOK, UNCHANGED <<game, shown>>
  PROVE  ScoresKept
<1>1. \A v \in Pages : game[v].score \in Int /\ shown[v].score \in Int
  BY Scores DEF ScoreOK, GameOK, TypeInv, GameTyped
<1> QED
  BY <1>1 DEF ScoresKept

\* A step that leaves the admin's targets alone, too.
LEMMA SameShown ==
  ASSUME ScoreOK, UNCHANGED <<plan, ref, game, shown>>, page'[Admin].target = page[Admin].target
  PROVE  ShownInv'
<1>1. \A k : IsShared(k)' = IsShared(k)
  BY DEF IsShared
<1> QED
  BY <1>1 DEF ScoreOK, ShownInv

\* A commit of the admin's page brings its score the target it belongs to, or
\* that of a trial that its sketch has not begun.
LEMMA CommitShown ==
  ASSUME ScoreOK, Commit
  PROVE  ShownInv'
<1>1. UNCHANGED <<plan, game, shown>> /\ ref' = state.target
  BY DEF Commit, netVars, gameVars
<1>2. page'[Admin].target = state.target
  BY DEF Commit, ScoreOK, GameOK, TypeInv, ViewTyped, PageType, Pages
<1>3. \A k : IsShared(k)' = IsShared(k)
  BY <1>1 DEF IsShared
<1>4. ref' = ref \/ ref'.trial # game[Admin].trial
  <2>1. CASE ref = state.target
    BY <1>1, <2>1
  <2>2. CASE ref # state.target
    <3>1. ref' = InitialTarget(trial) /\ game[Admin].trial < trial
      BY <1>1, <2>2 DEF ScoreOK, GameOK, AdminInv, Opening
    <3>2. trial \in Nat /\ game[Admin].trial \in Nat /\ InitialTarget(trial).trial = trial
      BY Numbers DEF ScoreOK, GameOK, TypeInv, GameTyped, Pages, InitialTarget, NoTarget
    <3> QED
      BY <3>1, <3>2
  <2> QED
    BY <2>1, <2>2
<1> QED
  BY <1>1, <1>2, <1>3, <1>4 DEF ScoreOK, ShownInv

\* At the start every score is zero.
LEMMA InitScore == Init => ScoreOK
<1> SUFFICES ASSUME Init PROVE ScoreOK
  OBVIOUS
<1>1. \A v \in Pages : ~(shown[v].score > game[v].score)
  BY DEF Init, NoGame
<1> QED
  BY <1>1, InitGame, InitCursors DEF ScoreOK, ShownInv

\* Every step keeps the scores, and what is known of them.
LEMMA ScoreStep == ScoreOK /\ [Next]_vars => ScoreOK' /\ ScoresKept
<1> SUFFICES ASSUME ScoreOK, [Next]_vars PROVE ScoreOK' /\ ScoresKept
  OBVIOUS
<1>1. GameOK /\ CursorOK /\ TypeInv
  BY DEF ScoreOK, GameOK
<1>2. GameOK' /\ CursorOK'
  BY <1>1, GameStep, CursorStep
<1>3. Admin \in Pages /\ Admin \notin Followed
  BY GameAssumption DEF Pages
<1>4. ShownInv' /\ ScoresKept
  <2>1. CASE \E v \in Pages : DrawFrame(v) \/ SoloHit(v) \/ SharedHit(v) \/ Elapse(v)
    <3>1. PICK v \in Pages : DrawFrame(v) \/ SoloHit(v) \/ SharedHit(v) \/ Elapse(v)
      BY <2>1
    <3>2. /\ UNCHANGED <<plan, ref, page>>
          /\ \E h, s : game' = [game EXCEPT ![v] = h] /\ shown' = [shown EXCEPT ![v] = s] /\ Rises(v, h, s, ref)
      BY <3>1, FrameRises
    <3>3. PICK h, s : game' = [game EXCEPT ![v] = h] /\ shown' = [shown EXCEPT ![v] = s] /\ Rises(v, h, s, ref)
      BY <3>2
    <3>4. Rises(v, h, s, ref')
      BY <3>2, <3>3
    <3> QED
      BY <3>2, <3>3, <3>4, OneRises
  <2>2. CASE ScoreAcquired
    <3>1. /\ UNCHANGED <<plan, page>>
          /\ \E h, s : /\ game' = [game EXCEPT ![Admin] = h] /\ shown' = [shown EXCEPT ![Admin] = s]
                       /\ Rises(Admin, h, s, ref')
      BY <2>2, AcquisitionRises
    <3>2. PICK h, s : /\ game' = [game EXCEPT ![Admin] = h] /\ shown' = [shown EXCEPT ![Admin] = s]
                      /\ Rises(Admin, h, s, ref')
      BY <3>1
    <3> QED
      BY <1>3, <3>1, <3>2, OneRises
  <2>3. CASE Commit
    <3>1. UNCHANGED <<game, shown>>
      BY <2>3 DEF Commit, gameVars
    <3> QED
      BY <2>3, <3>1, CommitShown, NoneRises
  <2>4. CASE \E p \in Followed : Deliver(p)
    <3>1. UNCHANGED <<plan, ref, game, shown>>
      BY <2>4 DEF Deliver, gameVars
    <3>2. page'[Admin].target = page[Admin].target
      BY <1>1, <1>3, <2>4 DEF Deliver, TypeInv, ViewTyped
    <3> QED
      BY <3>1, <3>2, SameShown, NoneRises
  <2>5. CASE \/ OpenTrial \/ CloseTrial \/ CloseQuestion \/ Abort \/ DeliverToAdmin \/ Forward
             \/ \E p \in Players : Leave(p)
             \/ \E v \in Pages : KeepAlive(v) \/ ParticipantDisconnected(v)
             \/ UNCHANGED vars
    <3>1. UNCHANGED <<plan, ref, page, game, shown>>
      BY <2>5 DEF OpenTrial, CloseTrial, CloseQuestion, Abort, DeliverToAdmin, Forward, Leave, KeepAlive,
         ParticipantDisconnected, vars, netVars, viewVars, gameVars
    <3> QED
      BY <3>1, SameShown, NoneRises
  <2> QED
    BY <2>1, <2>2, <2>3, <2>4, <2>5 DEF Next
<1> QED
  BY <1>2, <1>4 DEF ScoreOK

\* Within a trial no page's score falls, unless its sketch lost the cursor it
\* plays a solo game with, of which packets were lost or whose participant left
\* (sketch.ts: ensureTrialState, syncTask9AuthoritativeState).
THEOREM ScoresNeverFall == Spec => ScoreKept
<1>1. Init => ScoreOK
  BY InitScore
<1>2. ScoreOK /\ [Next]_vars => ScoreOK'
  BY ScoreStep
<1>3. ScoreOK /\ [Next]_vars => [ScoresKept]_vars
  BY ScoreStep
<1> QED
  BY <1>1, <1>2, <1>3, PTL DEF Spec, ScoreKept, ScoresKept
=============================================================================
