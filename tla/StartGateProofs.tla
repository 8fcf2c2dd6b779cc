-------------------------- MODULE StartGateProofs --------------------------
(***************************************************************************)
(* What holds of the START gate for any number of participants, presses    *)
(* and sessions.                                                           *)
(***************************************************************************)
EXTENDS StartGate, FiniteSetTheorems, TLAPS

\* The conjuncts of Next by name, for the case splits below.
Steps ==
    \/ \E p \in Members : Join(p)
    \/ \E p \in Members : Leave(p)
    \/ \E p \in Members, k \in Presses : Click(p, k)
    \/ \E k \in Presses : Listed(k)
    \/ \E k \in Presses : Bootstrap(k)
    \/ \E k \in Presses : Answer(k)
    \/ \E t \in {"task1", "task9"} : OperatorStart(t)
    \/ \E s \in {"over", "idle"} : OperatorStop(s)
    \/ GateEntered \/ GatePoll \/ GateIdentities
    \/ StartTimedOut \/ NoPartner \/ GateGivesUp
    \/ PairRecovered \/ Restart \/ SessionOver

\* Every step of the specification is one of the named actions.
LEMMA NextSteps == Next <=> Steps
BY Zenon DEF Next, Steps, Page, Request, Operator, Run, Gate

\* A room of participants has a finite number of them.
LEMMA CountNat ==
    ASSUME TypeOK
    PROVE  /\ IsFiniteSet(present)
           /\ Cardinality(present) \in Nat
           /\ CountAnswers \subseteq Nat
<1>1. IsFiniteSet(present)
    BY StartGateAssumption, FS_Subset DEF TypeOK
<1>2. Cardinality(present) \in Nat
    BY <1>1, FS_CardinalityType
<1> QED BY <1>1, <1>2 DEF CountAnswers, TypeOK

\* A request under way was made by a participant.
Owned == \A k \in Presses :
    press[k].at \notin {"unused", "answered"} => press[k].by \in Members

TypeInv == TypeOK /\ Owned

\* What a page forgets keeps the types of the pages.
LEMMA PagesType ==
    ASSUME TypeOK, NEW here \in SUBSET Members, PagesSee(here)
    PROVE  /\ press' \in [Presses -> [by : Members \cup {0}, at : PressAt, heard : BOOLEAN]]
           /\ clicked' \in [Members -> BOOLEAN]
           /\ pending' \in [Members -> BOOLEAN]
           /\ present' \subseteq Members
<1>1. clicked' \in [Members -> BOOLEAN] /\ pending' \in [Members -> BOOLEAN]
    BY Zenon DEF PagesSee, TypeOK
<1>2. present' \subseteq Members
    BY Zenon DEF PagesSee
<1>3. press' \in [Presses -> [by : Members \cup {0}, at : PressAt, heard : BOOLEAN]]
  <2>1. \A k \in Presses : press[k] \in [by : Members \cup {0}, at : PressAt, heard : BOOLEAN]
    BY Zenon DEF TypeOK
  <2>2. \A k \in Presses : (press[k].heard /\ press[k].by \in here) \in BOOLEAN
    BY Zenon
  <2>3. \A k \in Presses :
          [press[k] EXCEPT !.heard = press[k].heard /\ press[k].by \in here]
            \in [by : Members \cup {0}, at : PressAt, heard : BOOLEAN]
    BY <2>1, <2>2
  <2> QED BY <2>3, Zenon DEF PagesSee
<1> QED BY <1>1, <1>2, <1>3

\* What a page forgets keeps the owners of the presses.
LEMMA PagesOwned ==
    ASSUME TypeInv, NEW here \in SUBSET Members, PagesSee(here)
    PROVE  Owned'
<1> SUFFICES ASSUME NEW k \in Presses
             PROVE  /\ press'[k].at = press[k].at
                    /\ press'[k].by = press[k].by
    BY DEF TypeInv, Owned
<1>1. press[k] \in [by : Members \cup {0}, at : PressAt, heard : BOOLEAN]
    BY DEF TypeInv, TypeOK
<1>2. press'[k] = [press[k] EXCEPT !.heard = press[k].heard /\ press[k].by \in here]
    BY DEF PagesSee
<1> QED BY <1>1, <1>2

\* The presses keep their types and owners when one of them moves on.
LEMMA PressMoves ==
    ASSUME TypeInv, NEW k \in Presses, NEW l \in PressAt, PressGoes(k, l),
           press[k].at \notin {"unused", "answered"}
    PROVE  /\ press' \in [Presses -> [by : Members \cup {0}, at : PressAt, heard : BOOLEAN]]
           /\ Owned'
<1>1. press' \in [Presses -> [by : Members \cup {0}, at : PressAt, heard : BOOLEAN]]
    BY DEF TypeInv, TypeOK, PressGoes
<1>2. ASSUME NEW j \in Presses PROVE press'[j].by = press[j].by
    BY DEF TypeInv, TypeOK, PressGoes
<1>3. ASSUME NEW j \in Presses, j # k PROVE press'[j].at = press[j].at
    BY <1>3 DEF TypeInv, TypeOK, PressGoes
<1> QED BY <1>1, <1>2, <1>3 DEF TypeInv, Owned

\* Dismissed participants leave; the rest of the agent's state stays typed.
LEMMA DismissType ==
    ASSUME TypeInv, NEW gone \in SUBSET Members, Dismiss(gone),
           UNCHANGED <<task, paired, flaky, history>>
    PROVE  TypeInv'
<1> USE DEF history
<1>1. PagesSee(present \ gone) /\ present \ gone \in SUBSET Members
    BY DEF Dismiss, TypeInv, TypeOK
<1>2. Owned'
    BY <1>1, PagesOwned
<1>3. /\ press' \in [Presses -> [by : Members \cup {0}, at : PressAt, heard : BOOLEAN]]
      /\ clicked' \in [Members -> BOOLEAN]
      /\ pending' \in [Members -> BOOLEAN]
      /\ present' \subseteq Members
    BY <1>1, PagesType DEF TypeInv
<1>4. /\ status' \in Statuses /\ gate' \in GateAt /\ reports' \subseteq Members
      /\ count' \in Nat /\ window' \in (SUBSET Members) \cup {NoWindow}
    BY DEF Dismiss, TypeInv, TypeOK, Statuses, GateAt, NoWindow, CountReset
<1>5. task' = task /\ paired' = paired /\ flaky' = flaky /\ session' = session /\ counted' = counted
    OBVIOUS
<1> QED BY <1>2, <1>3, <1>4, <1>5 DEF TypeInv, TypeOK

\* The types of the gate, with the owners of the presses, are inductive.
LEMMA TypeStep == TypeInv /\ [Next]_vars => TypeInv'
<1> SUFFICES ASSUME TypeInv, [Next]_vars PROVE TypeInv' OBVIOUS
<1> USE DEF agentVars, clientVars, roomVars, history
<1>0. CASE UNCHANGED vars
    BY <1>0 DEF vars, TypeInv, TypeOK, Owned
<1>1. ASSUME NEW p \in Members, Join(p) PROVE TypeInv'
  <2>1. PagesSee(present \cup {p}) /\ present \cup {p} \in SUBSET Members
    BY <1>1 DEF Join, TypeInv, TypeOK
  <2> QED BY <1>1, <2>1, PagesType, PagesOwned DEF Join, TypeInv, TypeOK
<1>2. ASSUME NEW p \in Members, Leave(p) PROVE TypeInv'
  <2>1. PagesSee(present \ {p}) /\ present \ {p} \in SUBSET Members
    BY <1>2 DEF Leave, TypeInv, TypeOK
  <2> QED BY <1>2, <2>1, PagesType, PagesOwned DEF Leave, TypeInv, TypeOK
<1>3. ASSUME NEW p \in Members, NEW k \in Presses, Click(p, k) PROVE TypeInv'
  <2>1. press' \in [Presses -> [by : Members \cup {0}, at : PressAt, heard : BOOLEAN]]
    BY <1>3 DEF Click, TypeInv, TypeOK, PressAt
  <2>2. Owned'
    BY <1>3 DEF Click, TypeInv, TypeOK, Owned
  <2> QED BY <1>3, <2>1, <2>2 DEF Click, TypeInv, TypeOK
<1>4. ASSUME NEW k \in Presses, Listed(k) PROVE TypeInv'
  <2>1. PICK l \in PressAt : PressGoes(k, l)
    BY <1>4, Zenon DEF Listed, PressAt
  <2>2. /\ press' \in [Presses -> [by : Members \cup {0}, at : PressAt, heard : BOOLEAN]]
        /\ Owned'
    BY <1>4, <2>1, PressMoves DEF Listed
  <2>3. press[k].by \in Members
    BY <1>4 DEF Listed, TypeInv, Owned
  <2>4. reports' \subseteq Members /\ counted' \subseteq Members
    BY <1>4, <2>3 DEF Listed, TypeInv, TypeOK
  <2> QED BY <1>4, <2>2, <2>4 DEF Listed, TypeInv, TypeOK
<1>5. ASSUME NEW k \in Presses, Bootstrap(k) PROVE TypeInv'
  <2>1. PICK l \in PressAt : PressGoes(k, l)
    BY <1>5, Zenon DEF Bootstrap, PressAt
  <2>2. /\ press' \in [Presses -> [by : Members \cup {0}, at : PressAt, heard : BOOLEAN]]
        /\ Owned'
    BY <1>5, <2>1, PressMoves DEF Bootstrap
  <2>3. press[k].by \in Members
    BY <1>5 DEF Bootstrap, TypeInv, Owned
  <2>4. count' \in Nat
    BY <1>5, CountNat DEF Bootstrap, TypeInv
  <2>5. /\ status' \in Statuses /\ task' \in {"task1", "task9"} /\ gate' \in GateAt
        /\ reports' \subseteq Members /\ paired' \subseteq Members
        /\ window' \in (SUBSET Members) \cup {NoWindow}
    BY <1>5, <2>3 DEF Bootstrap, BeginSession, TypeInv, TypeOK, Cleared, Statuses, GateAt, NoWindow
  <2>6. session' \in Nat /\ counted' \subseteq Members
    BY <1>5, <2>3 DEF Bootstrap, BeginSession, TypeInv, TypeOK
  <2> QED BY <1>5, <2>2, <2>4, <2>5, <2>6 DEF Bootstrap, TypeInv, TypeOK
<1>6. ASSUME NEW k \in Presses, Answer(k) PROVE TypeInv'
  <2>1. press' \in [Presses -> [by : Members \cup {0}, at : PressAt, heard : BOOLEAN]]
    BY <1>6 DEF Answer, Answered, TypeInv, TypeOK, PressAt
  <2>2. Owned'
    BY <1>6 DEF Answer, Answered, TypeInv, TypeOK, Owned
  <2>3. clicked' \in [Members -> BOOLEAN] /\ pending' \in [Members -> BOOLEAN]
    <3>1. CASE press[k].heard
      <4>1. clicked' \in [Members -> BOOLEAN]
        BY <1>6, <3>1, Zenon DEF Answer, TypeInv, TypeOK
      <4>2. pending' \in [Members -> BOOLEAN]
        BY <1>6, <3>1, Zenon DEF Answer, TypeInv, TypeOK
      <4> QED BY <4>1, <4>2
    <3>2. CASE ~press[k].heard
      BY <1>6, <3>2 DEF Answer, TypeInv, TypeOK
    <3> QED BY <3>1, <3>2
  <2> QED BY <1>6, <2>1, <2>2, <2>3 DEF Answer, TypeInv, TypeOK
<1>7. ASSUME NEW t \in {"task1", "task9"}, OperatorStart(t) PROVE TypeInv'
  BY <1>7 DEF OperatorStart, BeginSession, Cleared, TypeInv, TypeOK, Owned, Statuses, GateAt, NoWindow
<1>8. ASSUME NEW r \in {"over", "idle"}, OperatorStop(r) PROVE TypeInv'
  BY <1>8 DEF OperatorStop, TypeInv, TypeOK, Owned, Statuses, GateAt, NoWindow
<1>9. CASE GateEntered
  BY <1>9 DEF GateEntered, TypeInv, TypeOK, Owned, Statuses, GateAt
<1>10. CASE GatePoll
  <2>1. count' \in Nat
    BY <1>10, CountNat DEF GatePoll, TypeInv
  <2> QED BY <1>10, <2>1 DEF GatePoll, TypeInv, TypeOK, Owned, GateAt, NoWindow
<1>11. CASE GateIdentities
  <2>1. PICK here \in RoomAnswers :
          LET ids == FirstPlaces(here)
              counting == IF window # ids THEN StillCounted(ids) ELSE reports
          IN  /\ reports' = counting
              /\ paired' \in {ids, paired}
              /\ window' \in {ids, NoWindow}
              /\ gate' \in GateAt
    BY <1>11 DEF GateIdentities, GateAt
  <2>2. FirstPlaces(here) \subseteq Members
    BY <2>1 DEF FirstPlaces, RoomAnswers, TypeInv, TypeOK
  <2>3. reports' \subseteq Members /\ paired' \subseteq Members /\ gate' \in GateAt
        /\ window' \in (SUBSET Members) \cup {NoWindow}
    BY <2>1, <2>2 DEF StillCounted, TypeInv, TypeOK
  <2> QED BY <1>11, <2>3 DEF GateIdentities, TypeInv, TypeOK, Owned
<1>12. CASE StartTimedOut
  <2>1. present \cap window \in SUBSET Members
    BY DEF TypeInv, TypeOK
  <2>2. CASE window \in SUBSET Members
    BY <1>12, <2>2, DismissType DEF StartTimedOut
  <2>3. CASE window = NoWindow
    <3>1. 0 \notin Members
      BY StartGateAssumption
    <3>2. present \ window = present \ {} /\ reports \ window = reports \ {}
      BY <2>3, <3>1 DEF NoWindow, TypeInv, TypeOK
    <3>3. Dismiss({})
      BY <1>12, <3>2 DEF StartTimedOut, Dismiss
    <3> QED BY <1>12, <3>3, DismissType DEF StartTimedOut
  <2> QED BY <2>2, <2>3 DEF TypeInv, TypeOK
<1>13. CASE NoPartner
  <2>1. present \in SUBSET Members
    BY DEF TypeInv, TypeOK
  <2> QED BY <1>13, <2>1, DismissType DEF NoPartner
<1>14. CASE GateGivesUp
  BY <1>14 DEF GateGivesUp, TypeInv, TypeOK, Owned, GateAt
<1>15. CASE PairRecovered
  <2>1. PagesSee(present \ paired) /\ present \ paired \in SUBSET Members
    BY <1>15 DEF PairRecovered, TypeInv, TypeOK
  <2>2. Owned'
    BY <2>1, PagesOwned
  <2>3. /\ press' \in [Presses -> [by : Members \cup {0}, at : PressAt, heard : BOOLEAN]]
        /\ clicked' \in [Members -> BOOLEAN]
        /\ pending' \in [Members -> BOOLEAN]
        /\ present' \subseteq Members
    BY <2>1, PagesType DEF TypeInv
  <2> QED BY <1>15, <2>2, <2>3 DEF PairRecovered, TypeInv, TypeOK, GateAt
<1>16. CASE Restart
  BY <1>16 DEF Restart, BeginSession, Cleared, CountReset, TypeInv, TypeOK, Owned, Statuses, GateAt, NoWindow
<1>17. CASE SessionOver
  BY <1>17 DEF SessionOver, TypeInv, TypeOK, Owned, Statuses, GateAt
<1>18. Next => Steps
  BY NextSteps
<1> QED BY <1>0, <1>1, <1>2, <1>3, <1>4, <1>5, <1>6, <1>7, <1>8, <1>9, <1>10, <1>11,
          <1>12, <1>13, <1>14, <1>15, <1>16, <1>17, <1>18, Zenon DEF Steps

\* The state of the gate has the types TypeOK gives it.
THEOREM GateTypes == Spec => []TypeOK
<1>1. Init => TypeInv
  <2> SUFFICES ASSUME Init PROVE TypeInv OBVIOUS
  <2>1. press \in [Presses -> [by : Members \cup {0}, at : PressAt, heard : BOOLEAN]]
    BY DEF Init, NoPress, PressAt
  <2>2. Owned
    BY DEF Init, NoPress, Owned
  <2> QED BY <2>1, <2>2 DEF Init, TypeInv, TypeOK, Statuses, GateAt, NoWindow
<1>2. TypeInv => TypeOK
  BY DEF TypeInv
<1> QED BY <1>1, <1>2, TypeStep, PTL DEF Spec
-----------------------------------------------------------------------------
(* Sessions and their presses.                                             *)

\* Presses are recorded in their session only, and never outlive it.
LEMMA PressesStep ==
    PressesAreOfThisSession /\ [Next]_vars => PressesAreOfThisSession'
<1> SUFFICES ASSUME PressesAreOfThisSession, Next \/ UNCHANGED vars
             PROVE  reports' \subseteq counted'
    BY DEF PressesAreOfThisSession
<1> USE DEF PressesAreOfThisSession, agentVars, clientVars, roomVars, history
<1>0. CASE UNCHANGED vars
  BY <1>0 DEF vars
<1>1. ASSUME NEW p \in Members, Join(p) \/ Leave(p) PROVE reports' \subseteq counted'
  BY <1>1 DEF Join, Leave
<1>2. ASSUME NEW p \in Members, NEW k \in Presses, Click(p, k) PROVE reports' \subseteq counted'
  BY <1>2 DEF Click
<1>3. ASSUME NEW k \in Presses, Listed(k) PROVE reports' \subseteq counted'
  BY <1>3 DEF Listed
<1>4. ASSUME NEW k \in Presses, Bootstrap(k) PROVE reports' \subseteq counted'
  BY <1>4 DEF Bootstrap, Cleared
<1>5. ASSUME NEW k \in Presses, Answer(k) PROVE reports' \subseteq counted'
  BY <1>5 DEF Answer
<1>6. ASSUME NEW t \in {"task1", "task9"}, OperatorStart(t) PROVE reports' \subseteq counted'
  BY <1>6 DEF OperatorStart, Cleared
<1>7. ASSUME NEW r \in {"over", "idle"}, OperatorStop(r) PROVE reports' \subseteq counted'
  BY <1>7 DEF OperatorStop
<1>8. CASE GateEntered \/ GatePoll \/ GateGivesUp \/ PairRecovered \/ SessionOver
  BY <1>8 DEF GateEntered, GatePoll, GateGivesUp, PairRecovered, SessionOver
<1>9. CASE GateIdentities
  BY <1>9 DEF GateIdentities, StillCounted
<1>10. CASE StartTimedOut \/ NoPartner
  BY <1>10 DEF StartTimedOut, NoPartner, Dismiss
<1>11. CASE Restart
  BY <1>11 DEF Restart, Cleared
<1> QED BY <1>0, <1>1, <1>2, <1>3, <1>4, <1>5, <1>6, <1>7, <1>8, <1>9, <1>10, <1>11,
          NextSteps, Zenon DEF Steps

\* A press counts in the session it was made in, however the presses of two
\* sessions, their answers and the restarts interleave.
THEOREM SessionPresses == Spec => []PressesAreOfThisSession
<1>1. Init => PressesAreOfThisSession
  BY DEF Init, PressesAreOfThisSession
<1> QED BY <1>1, PressesStep, PTL DEF Spec

-----------------------------------------------------------------------------
(* The pair.                                                               *)

\* Two different identities are two.
LEMMA PairSize ==
    ASSUME NEW a, NEW b, a # b
    PROVE  IsFiniteSet({a, b}) /\ Cardinality({a, b}) = 2
<1>1. IsFiniteSet({a}) /\ Cardinality({a}) = 1 /\ {a, b} = {a} \cup {b} /\ b \notin {a}
  BY FS_Singleton
<1> QED BY <1>1, FS_AddElement

\* Of any set of identities, the gate takes two at most.
LEMMA FirstTwo ==
    ASSUME NEW S \in SUBSET Members
    PROVE  /\ FirstPlaces(S) \subseteq S
           /\ IsFiniteSet(FirstPlaces(S))
           /\ Cardinality(FirstPlaces(S)) \in Nat
           /\ Cardinality(FirstPlaces(S)) <= Places
<1> DEFINE T == FirstPlaces(S)
<1>1. T \subseteq S /\ S \subseteq Nat /\ IsFiniteSet(S)
  BY StartGateAssumption, FS_Subset DEF FirstPlaces
<1>2. IsFiniteSet(T) /\ Cardinality(T) \in Nat
  BY <1>1, FS_Subset, FS_CardinalityType
<1>3. ASSUME NEW a \in T, NEW b \in T, NEW c \in T, a < c, b < c, a # b PROVE FALSE
  <2> DEFINE L == {q \in S : q < c}
  <2>1. {a, b} \subseteq L /\ L \subseteq S
    BY <1>1, <1>3
  <2>2. IsFiniteSet(L) /\ Cardinality({a, b}) <= Cardinality(L)
    BY <1>1, <2>1, FS_Subset
  <2>3. Cardinality({a, b}) = 2
    BY <1>3, PairSize
  <2>4. Cardinality(L) < Places
    BY <1>3 DEF FirstPlaces
  <2>5. Cardinality(L) \in Nat
    BY <2>2, FS_CardinalityType
  <2> QED BY <2>2, <2>3, <2>4, <2>5 DEF Places
<1>4. ASSUME NEW a \in T, NEW b \in T, NEW c \in T, a # b, b # c, a # c PROVE FALSE
  <2> HIDE DEF T
  <2>1. a \in Nat /\ b \in Nat /\ c \in Nat
    BY <1>1
  <2> QED BY <1>3, <1>4, <2>1
<1>5. Cardinality(T) <= 2
  <2> HIDE DEF T
  <2>1. CASE T = {}
    BY <2>1, FS_EmptySet
  <2>2. ASSUME T # {} PROVE Cardinality(T) <= 2
    <3>1. PICK a \in T : TRUE BY <2>2
    <3>2. CASE T = {a}
      BY <3>2, FS_Singleton
    <3>3. ASSUME T # {a} PROVE Cardinality(T) <= 2
      <4>1. PICK b \in T : b # a BY <3>1, <3>3
      <4>2. T = {a, b} BY <1>4, <3>1, <4>1
      <4>3. Cardinality({a, b}) = 2
        BY <4>1, PairSize, Zenon
      <4> QED BY <4>2, <4>3
    <3> QED BY <3>2, <3>3
  <2> QED BY <2>1, <2>2
<1> QED BY <1>1, <1>2, <1>5 DEF Places

\* A pair passes the gate only on the presses both of them made in this
\* session, and stays the pair until the next session.
THEOREM PairsPressed == Spec => PairPressed
<1> DEFINE A == \/ paired' = {}
                \/ /\ paired' \subseteq reports' \cap counted
                   /\ Cardinality(paired') = Places
<1>1. ASSUME TypeOK, PressesAreOfThisSession, Next, paired' # paired PROVE A
  <2> USE <1>1 DEF agentVars
  <2>1. ASSUME NEW p \in Members, Join(p) \/ Leave(p) PROVE FALSE
    BY <2>1 DEF Join, Leave
  <2>2. ASSUME NEW p \in Members, NEW k \in Presses, Click(p, k) PROVE FALSE
    BY <2>2 DEF Click
  <2>3. ASSUME NEW k \in Presses, Listed(k) \/ Answer(k) PROVE FALSE
    BY <2>3 DEF Listed, Answer
  <2>4. ASSUME NEW k \in Presses, Bootstrap(k) PROVE paired' = {}
    BY <2>4 DEF Bootstrap, BeginSession
  <2>5. ASSUME NEW t \in {"task1", "task9"}, OperatorStart(t) PROVE paired' = {}
    BY <2>5 DEF OperatorStart, BeginSession
  <2>6. ASSUME NEW r \in {"over", "idle"}, OperatorStop(r) PROVE paired' = {}
    BY <2>6 DEF OperatorStop
  <2>7. CASE Restart
    BY <2>7 DEF Restart, BeginSession
  <2>8. CASE GateEntered \/ GatePoll \/ GateGivesUp
    BY <2>8 DEF GateEntered, GatePoll, GateGivesUp
  <2>9. CASE StartTimedOut \/ NoPartner \/ PairRecovered \/ SessionOver
    BY <2>9 DEF StartTimedOut, NoPartner, PairRecovered, SessionOver
  <2>10. CASE GateIdentities
    <3>1. PICK here \in RoomAnswers :
            LET ids == FirstPlaces(here)
                counting == IF window # ids THEN StillCounted(ids) ELSE reports
            IN  /\ reports' = counting
                /\ AllPressed(ids, counting)
                /\ paired' = ids
      BY <2>10 DEF GateIdentities
    <3>2. here \in SUBSET Members
      BY <3>1 DEF RoomAnswers, TypeOK
    <3>3. paired' = FirstPlaces(here) /\ paired' \subseteq reports'
          /\ Cardinality(paired') >= Places
      BY <3>1 DEF AllPressed
    <3>4. reports' \subseteq reports
      BY <3>1 DEF StillCounted
    <3>5. Cardinality(paired') = Places
      BY <3>2, <3>3, FirstTwo DEF Places
    <3>6. paired' \subseteq reports' \cap counted
      BY <3>3, <3>4 DEF PressesAreOfThisSession
    <3> QED BY <3>5, <3>6
  <2> HIDE DEF A
  <2>11. paired' = {} => A
    BY DEF A
  <2> QED BY <2>1, <2>2, <2>3, <2>4, <2>5, <2>6, <2>7, <2>8, <2>9, <2>10, <2>11, NextSteps, Zenon DEF Steps
<1>2. ASSUME TypeOK, PressesAreOfThisSession, [Next]_vars PROVE [paired' # paired => A]_vars
  BY <1>1, <1>2
<1> QED BY <1>2, GateTypes, SessionPresses, PTL DEF Spec, PairPressed
-----------------------------------------------------------------------------
(* What a page believes.                                                   *)

\* The room has as many places as the study, and what a page shows or waits
\* for is about somebody in it.
InTheRoom ==
    /\ Cardinality(present) <= Places
    /\ \A p \in Members : clicked[p] => p \in present
    /\ \A k \in Presses : press[k].heard => press[k].by \in present

\* Before the gate has let a pair through; it may be about to give one up.
Waiting == GateOpen \/ gate = "expired"

\* Who believes, or is about to be told, that a press was taken.
Believers ==
    {p \in Members :
        \/ clicked[p]
        \/ \E k \in Presses : press[k].by = p /\ press[k].at = "accepted" /\ press[k].heard}

\* With a room that can be listed the agent has every press of its session
\* that a page believes in.
Kept ==
    ~flaky /\ Waiting => Believers \cap counted \subseteq reports

PageInv == TypeInv /\ InTheRoom /\ Kept

\* A room as large as the study is taken as a whole.
LEMMA AllPlaced ==
    ASSUME NEW S \in SUBSET Members, Cardinality(S) <= Places
    PROVE  FirstPlaces(S) = S
<1>1. IsFiniteSet(S) /\ Cardinality(S) \in Nat /\ S \subseteq Nat
  BY StartGateAssumption, FS_Subset, FS_CardinalityType
<1>2. ASSUME NEW p \in S PROVE Cardinality({q \in S : q < p}) < Places
  <2> DEFINE L == {q \in S : q < p}
  <2>1. L \subseteq S \ {p}
    BY <1>1, <1>2
  <2>2. IsFiniteSet(S \ {p}) /\ Cardinality(S \ {p}) = Cardinality(S) - 1
    BY <1>1, <1>2, FS_RemoveElement
  <2>3. IsFiniteSet(L) /\ Cardinality(L) <= Cardinality(S \ {p})
    BY <2>1, <2>2, FS_Subset
  <2>4. Cardinality(L) \in Nat
    BY <2>3, FS_CardinalityType
  <2> QED BY <1>1, <2>2, <2>3, <2>4 DEF Places
<1> QED BY <1>2 DEF FirstPlaces

\* The pages follow the room.
LEMMA RoomFollowed ==
    ASSUME TypeInv, NEW here \in SUBSET Members, PagesSee(here),
           Cardinality(here) <= Places
    PROVE  /\ InTheRoom'
           /\ Believers' \subseteq Believers \cap here
<1>1. present' = here
  BY DEF PagesSee
<1>2. \A p \in Members : clicked'[p] => clicked[p] /\ p \in here
  BY DEF PagesSee
<1>3. ASSUME NEW k \in Presses
      PROVE  /\ press'[k].by = press[k].by
             /\ press'[k].at = press[k].at
             /\ press'[k].heard = (press[k].heard /\ press[k].by \in here)
  <2>1. press[k] \in [by : Members \cup {0}, at : PressAt, heard : BOOLEAN]
    BY DEF TypeInv, TypeOK
  <2>2. press'[k] = [press[k] EXCEPT !.heard = press[k].heard /\ press[k].by \in here]
    BY DEF PagesSee
  <2> QED BY <2>1, <2>2
<1>4. InTheRoom'
  BY <1>1, <1>2, <1>3 DEF InTheRoom
<1>5. ASSUME NEW k \in Presses, press'[k].heard
      PROVE  press[k].heard /\ press[k].by \in here
  BY <1>3, <1>5, Zenon
<1>6. Believers' \subseteq Believers \cap here
  <2> SUFFICES ASSUME NEW p \in Believers' PROVE p \in Believers /\ p \in here OBVIOUS
  <2>1. p \in Members
    BY DEF Believers
  <2>2. CASE clicked'[p]
    BY <2>1, <2>2, <1>2 DEF Believers
  <2>3. ASSUME NEW k \in Presses, press'[k].by = p, press'[k].at = "accepted", press'[k].heard
        PROVE  p \in Believers /\ p \in here
    BY <2>1, <2>3, <1>3, <1>5 DEF Believers
  <2> QED BY <2>2, <2>3 DEF Believers
<1> QED BY <1>4, <1>6

\* A smaller room has no more participants than a larger one.
LEMMA FewerLeft ==
    ASSUME TypeInv, InTheRoom, NEW gone
    PROVE  present \ gone \in SUBSET Members /\ Cardinality(present \ gone) <= Places
<1>1. IsFiniteSet(present) /\ Cardinality(present) \in Nat
  BY CountNat DEF TypeInv
<1>2. IsFiniteSet(present \ gone) /\ Cardinality(present \ gone) <= Cardinality(present)
  BY <1>1, FS_Subset
<1>3. Cardinality(present \ gone) \in Nat
  BY <1>2, FS_CardinalityType
<1> QED BY <1>1, <1>2, <1>3 DEF InTheRoom, Places, TypeInv, TypeOK
\* What a page believes changes with the presses and the pages only.
LEMMA SameBelievers ==
    ASSUME UNCHANGED <<press, clicked>>
    PROVE  Believers' = Believers
BY DEF Believers

\* The pages of a room that did not change.
LEMMA SameRoom ==
    ASSUME InTheRoom, UNCHANGED <<press, clicked, present>>
    PROVE  InTheRoom'
BY DEF InTheRoom

\* A press that moves on makes nobody believe, unless it is accepted.
LEMMA PressBelieved ==
    ASSUME TypeInv, InTheRoom, NEW k \in Presses, NEW l \in PressAt, PressGoes(k, l),
           UNCHANGED <<clicked, present>>
    PROVE  /\ InTheRoom'
           /\ l # "accepted" => Believers' \subseteq Believers
           /\ Believers' \subseteq Believers \cup {press[k].by}
<1>1. \A j \in Presses : /\ press'[j].by = press[j].by
                         /\ press'[j].heard = press[j].heard
                         /\ j # k => press'[j].at = press[j].at
  BY DEF PressGoes, TypeInv, TypeOK
<1>2. press'[k].at = l
  BY DEF PressGoes, TypeInv, TypeOK
<1>3. InTheRoom'
  BY <1>1 DEF InTheRoom
<1>4. l # "accepted" => Believers' \subseteq Believers
  BY <1>1, <1>2 DEF Believers
<1>5. Believers' \subseteq Believers \cup {press[k].by}
  BY <1>1, <1>2 DEF Believers
<1> QED BY <1>3, <1>4, <1>5

\* The gate keeps what a page believes, step by step.
LEMMA PageStep == PageInv /\ [Next]_vars => PageInv'
<1> SUFFICES ASSUME PageInv, Next \/ UNCHANGED vars PROVE InTheRoom' /\ Kept'
    BY TypeStep DEF PageInv
<1> USE DEF PageInv, agentVars, clientVars, roomVars, history
<1>0. CASE UNCHANGED vars
  BY <1>0, SameRoom, SameBelievers DEF vars, Kept, Waiting, GateOpen
<1>a. ASSUME NEW gone, PagesSee(present \ gone), UNCHANGED <<flaky, counted>>,
             reports' = reports \/ reports' = reports \ gone, Waiting' => Waiting
      PROVE  InTheRoom' /\ Kept'
  <2>1. /\ InTheRoom'
        /\ Believers' \subseteq Believers \cap (present \ gone)
    BY <1>a, FewerLeft, RoomFollowed
  <2> QED BY <1>a, <2>1 DEF Kept
<1>1. ASSUME NEW p \in Members, Join(p) PROVE InTheRoom' /\ Kept'
  <2>1. PagesSee(present \cup {p}) /\ present \cup {p} \in SUBSET Members
    BY <1>1 DEF Join, TypeInv, TypeOK
  <2>2. Cardinality(present \cup {p}) <= Places
    <3>1. IsFiniteSet(present) /\ Cardinality(present) \in Nat
      BY CountNat DEF TypeInv
    <3>2. Cardinality(present \cup {p}) = Cardinality(present) + 1
      BY <1>1, <3>1, FS_AddElement DEF Join
    <3> QED BY <1>1, <3>1, <3>2 DEF Join, Places
  <2>3. InTheRoom' /\ Believers' \subseteq Believers
    BY <2>1, <2>2, RoomFollowed
  <2> QED BY <1>1, <2>3 DEF Join, Kept, Waiting, GateOpen
<1>2. ASSUME NEW p \in Members, Leave(p) PROVE InTheRoom' /\ Kept'
  BY <1>2, <1>a DEF Leave, Waiting, GateOpen
<1>3. ASSUME NEW p \in Members, NEW k \in Presses, Click(p, k) PROVE InTheRoom' /\ Kept'
  <2>1. \A j \in Presses : j # k => press'[j] = press[j]
    BY <1>3 DEF Click, TypeInv, TypeOK
  <2>2. press'[k] = [by |-> p, at |-> "listing", heard |-> TRUE]
    BY <1>3 DEF Click, TypeInv, TypeOK
  <2>3. p \in present /\ present' = present /\ clicked' = clicked
    BY <1>3 DEF Click, StartShown
  <2>4. InTheRoom'
    BY <2>1, <2>2, <2>3 DEF InTheRoom
  <2>5. Believers' \subseteq Believers
    BY <2>1, <2>2, <2>3 DEF Believers
  <2> QED BY <1>3, <2>4, <2>5 DEF Click, Kept, Waiting, GateOpen
<1>4. ASSUME NEW k \in Presses, Listed(k) PROVE InTheRoom' /\ Kept'
  <2>1. PICK l \in PressAt : /\ PressGoes(k, l)
                             /\ l = "accepted" => reports' = reports \cup {press[k].by}
                             /\ l # "accepted" => reports' = reports /\ counted' = counted
    BY <1>4 DEF Listed, PressAt
  <2>2. /\ InTheRoom'
        /\ l # "accepted" => Believers' \subseteq Believers
        /\ Believers' \subseteq Believers \cup {press[k].by}
    BY <1>4, <2>1, PressBelieved DEF Listed
  <2>3. counted' \subseteq counted \cup {press[k].by}
    BY <1>4 DEF Listed
  <2>4. Waiting' = Waiting /\ flaky' = flaky
    BY <1>4 DEF Listed, Waiting, GateOpen
  <2>5. CASE l = "accepted"
    BY <2>1, <2>2, <2>3, <2>4, <2>5 DEF Kept
  <2>6. CASE l # "accepted"
    BY <2>1, <2>2, <2>4, <2>6 DEF Kept
  <2> QED BY <2>2, <2>5, <2>6
<1>5. ASSUME NEW k \in Presses, Bootstrap(k) PROVE InTheRoom' /\ Kept'
  <2>1. CASE PressGoes(k, "refused") /\ UNCHANGED <<gate, reports, counted>>
    <3>1. InTheRoom' /\ Believers' \subseteq Believers
      BY <1>5, <2>1, PressBelieved DEF Bootstrap, PressAt
    <3> QED BY <1>5, <2>1, <3>1 DEF Bootstrap, Kept, Waiting, GateOpen
  <2>2. CASE PressGoes(k, "accepted") /\ reports' = Cleared \cup {press[k].by}
             /\ counted' = {press[k].by}
    <3>1. InTheRoom'
      BY <1>5, <2>2, PressBelieved DEF Bootstrap, PressAt
    <3> QED BY <2>2, <3>1 DEF Kept, Cleared
  <2> QED BY <1>5, <2>1, <2>2 DEF Bootstrap
<1>6. ASSUME NEW k \in Presses, Answer(k) PROVE InTheRoom' /\ Kept'
  <2>1. \A j \in Presses : j # k => press'[j] = press[j]
    BY <1>6 DEF Answer, TypeInv, TypeOK
  <2>2. press'[k] = Answered
    BY <1>6 DEF Answer, TypeInv, TypeOK
  <2>3. press[k].heard => press[k].by \in present /\ press[k].by \in Members \cup {0}
    BY DEF InTheRoom, TypeInv, TypeOK
  <2>4. ASSUME NEW p \in Members, clicked'[p]
        PROVE  p \in Believers
    <3>1. CASE press[k].heard
      <4>1. clicked' = [clicked EXCEPT ![press[k].by] = press[k].at = "accepted"]
        BY <1>6, <3>1 DEF Answer
      <4>2. CASE p = press[k].by
        <5>1. press[k].at = "accepted"
          BY <2>4, <4>1, <4>2, Zenon DEF TypeInv, TypeOK
        <5> QED BY <3>1, <4>2, <5>1 DEF Believers
      <4>3. CASE p # press[k].by
        <5>1. clicked'[p] = clicked[p]
          BY <4>1, <4>3, Zenon DEF TypeInv, TypeOK
        <5>2. clicked[p]
          BY <2>4, <5>1, Zenon
        <5> QED BY <5>2 DEF Believers
      <4> QED BY <4>2, <4>3
    <3>2. CASE ~press[k].heard
      <4>1. clicked' = clicked
        BY <1>6, <3>2 DEF Answer
      <4>2. clicked[p]
        BY <2>4, <4>1, Zenon
      <4> QED BY <4>2 DEF Believers
    <3> QED BY <3>1, <3>2
  <2>5. Believers' \subseteq Believers
    BY <2>1, <2>2, <2>4 DEF Believers, Answered
  <2>6. present' = present
    BY <1>6 DEF Answer
  <2>7. \A p \in Members : clicked'[p] => p \in present
    BY <2>4 DEF InTheRoom, Believers
  <2>8. \A j \in Presses : press'[j].heard => press'[j].by \in present
    BY <2>1, <2>2 DEF InTheRoom, Answered
  <2>9. InTheRoom'
    BY <2>6, <2>7, <2>8 DEF InTheRoom
  <2> QED BY <1>6, <2>5, <2>9 DEF Answer, Kept, Waiting, GateOpen
<1>7. ASSUME NEW t \in {"task1", "task9"}, OperatorStart(t) PROVE InTheRoom' /\ Kept'
  BY <1>7, SameRoom DEF OperatorStart, Kept
<1>8. ASSUME NEW r \in {"over", "idle"}, OperatorStop(r) PROVE InTheRoom' /\ Kept'
  BY <1>8, SameRoom DEF OperatorStop, Kept, Waiting, GateOpen
<1>9. CASE GateEntered \/ GatePoll \/ GateGivesUp \/ SessionOver
  <2>1. UNCHANGED <<press, clicked, present, flaky, counted, reports>> /\ (Waiting' => Waiting)
    BY <1>9 DEF GateEntered, GatePoll, GateGivesUp, SessionOver, Waiting, GateOpen
  <2> QED BY <2>1, SameRoom, SameBelievers DEF Kept
<1>10. CASE GateIdentities
  <2>1. UNCHANGED <<press, clicked, present, flaky, counted>> /\ Waiting
    BY <1>10 DEF GateIdentities, Waiting, GateOpen
  <2>2. InTheRoom' /\ Believers' = Believers
    BY <2>1, SameRoom, SameBelievers
  <2>3. Believers \subseteq present
    BY DEF InTheRoom, Believers
  <2>4. PICK here \in RoomAnswers :
          reports' = IF window # FirstPlaces(here) THEN StillCounted(FirstPlaces(here))
                                                   ELSE reports
    BY <1>10 DEF GateIdentities
  <2>5. ASSUME ~flaky PROVE here = present /\ FirstPlaces(here) = present
    <3>1. here = present
      BY <2>5, <2>4 DEF RoomAnswers
    <3>2. present \in SUBSET Members
      BY DEF TypeInv, TypeOK
    <3> QED BY <3>1, <3>2, AllPlaced DEF InTheRoom
  <2>6. ASSUME ~flaky PROVE reports \cap present \subseteq reports'
    BY <2>4, <2>5, <2>6 DEF StillCounted
  <2> QED BY <2>1, <2>2, <2>3, <2>6 DEF Kept
<1>11. ASSUME NEW gone, Dismiss(gone), gate \in {"expired", "poll"}, UNCHANGED <<flaky, history>>
       PROVE InTheRoom' /\ Kept'
  BY <1>11, <1>a DEF Dismiss, Waiting, GateOpen
<1>12. CASE StartTimedOut
  BY <1>12, <1>11 DEF StartTimedOut
<1>13. CASE NoPartner
  BY <1>13, <1>11 DEF NoPartner
<1>14. CASE PairRecovered
  BY <1>14, <1>a DEF PairRecovered, Waiting, GateOpen
<1>15. CASE Restart
  BY <1>15, SameRoom DEF Restart, Kept
<1> QED BY <1>0, <1>1, <1>2, <1>3, <1>4, <1>5, <1>6, <1>7, <1>8, <1>9, <1>10, <1>12,
          <1>13, <1>14, <1>15, NextSteps, Zenon DEF Steps

\* No press has been made at first.
LEMMA PageInit == Init => PageInv
<1> SUFFICES ASSUME Init PROVE PageInv OBVIOUS
<1>1. TypeInv
  <2>1. press \in [Presses -> [by : Members \cup {0}, at : PressAt, heard : BOOLEAN]]
    BY DEF Init, NoPress, PressAt
  <2>2. Owned
    BY DEF Init, NoPress, Owned
  <2> QED BY <2>1, <2>2 DEF Init, TypeInv, TypeOK, Statuses, GateAt, NoWindow
<1>2. InTheRoom
  BY FS_EmptySet DEF Init, InTheRoom, NoPress, Places
<1>3. Kept
  BY DEF Init, Kept, Waiting, GateOpen
<1> QED BY <1>1, <1>2, <1>3 DEF PageInv

\* A page that shows "START confirmed" while its session waits at the gate is
\* right: with a room that can be listed, no poll, no timeout and no other
\* press makes the agent forget a press that a page believes in.
THEOREM ConfirmedPresses == Spec => []ConfirmedIsRecorded
<1>1. PageInv => ConfirmedIsRecorded
  BY DEF PageInv, Kept, Believers, Waiting, ConfirmedIsRecorded
<1> QED BY <1>1, PageInit, PageStep, PTL DEF Spec
-----------------------------------------------------------------------------
(* What the agent keeps of the presses.                                    *)

\* A run that has not ended keeps the agent from another configuration.
Engaged == gate # "off" => status = "running"

\* Only the end of its run lets go of the status.
LEMMA EngagedStep == Engaged /\ [Next]_vars => Engaged'
<1> SUFFICES ASSUME Engaged, Next \/ UNCHANGED vars PROVE Engaged'
  OBVIOUS
<1> USE DEF Engaged, agentVars, clientVars, roomVars, history
<1>0. CASE UNCHANGED vars
  BY <1>0 DEF vars
<1>1. ASSUME NEW p \in Members, Join(p) \/ Leave(p) PROVE Engaged'
  BY <1>1 DEF Join, Leave
<1>2. ASSUME NEW p \in Members, NEW k \in Presses, Click(p, k) PROVE Engaged'
  BY <1>2 DEF Click
<1>3. ASSUME NEW k \in Presses, Listed(k) \/ Answer(k) PROVE Engaged'
  BY <1>3 DEF Listed, Answer
<1>4. ASSUME NEW k \in Presses, Bootstrap(k) PROVE Engaged'
  BY <1>4 DEF Bootstrap, BeginSession
<1>5. ASSUME NEW t \in {"task1", "task9"}, OperatorStart(t) PROVE Engaged'
  BY <1>5 DEF OperatorStart, BeginSession
<1>6. ASSUME NEW r \in {"over", "idle"}, OperatorStop(r) PROVE Engaged'
  BY <1>6 DEF OperatorStop
<1>7. CASE GateEntered \/ GatePoll \/ GateIdentities \/ GateGivesUp
  BY <1>7 DEF GateEntered, GatePoll, GateIdentities, GateGivesUp
<1>8. CASE StartTimedOut \/ NoPartner
  BY <1>8 DEF StartTimedOut, NoPartner, Dismiss
<1>9. CASE PairRecovered \/ Restart \/ SessionOver
  BY <1>9 DEF PairRecovered, Restart, BeginSession, SessionOver
<1> QED BY <1>0, <1>1, <1>2, <1>3, <1>4, <1>5, <1>6, <1>7, <1>8, <1>9, NextSteps, Zenon DEF Steps

\* Before the pair is let through, a press is dropped only with the one who
\* made it or with the session.
LEMMA PressKeeping ==
    ASSUME PageInv, Engaged, Next, ~flaky, Waiting,
           NEW p \in reports \cap present, p \notin reports'
    PROVE  p \notin present' \/ status' # "running"
<1> DEFINE Goal == p \notin present' \/ status' # "running"
<1> USE DEF PageInv, agentVars, clientVars, roomVars, history
<1>a. status = "running" /\ gate \in {"startup", "poll", "ident", "expired"}
  BY DEF Engaged, Waiting, GateOpen
<1>1. ASSUME NEW q \in Members, Join(q) \/ Leave(q) PROVE Goal
  BY <1>1 DEF Join, Leave
<1>2. ASSUME NEW q \in Members, NEW k \in Presses, Click(q, k) PROVE Goal
  BY <1>2 DEF Click
<1>3. ASSUME NEW k \in Presses, Listed(k) \/ Answer(k) PROVE Goal
  BY <1>3 DEF Listed, Answer
<1>4. ASSUME NEW k \in Presses, Bootstrap(k) PROVE Goal
  BY <1>4, <1>a DEF Bootstrap, MayConfigure
<1>5. ASSUME NEW t \in {"task1", "task9"}, OperatorStart(t) PROVE Goal
  BY <1>5, <1>a DEF OperatorStart, MayConfigure
<1>6. ASSUME NEW r \in {"over", "idle"}, OperatorStop(r) PROVE Goal
  BY <1>6 DEF OperatorStop
<1>7. CASE GateEntered \/ GatePoll \/ GateGivesUp
  BY <1>7 DEF GateEntered, GatePoll, GateGivesUp
<1>8. CASE GateIdentities
  <2>1. PICK here \in RoomAnswers :
          reports' = IF window # FirstPlaces(here) THEN StillCounted(FirstPlaces(here))
                                                   ELSE reports
    BY <1>8 DEF GateIdentities
  <2>2. here = present
    BY <2>1 DEF RoomAnswers
  <2>3. FirstPlaces(here) = present
    BY <2>2, AllPlaced DEF InTheRoom, TypeInv, TypeOK
  <2> QED BY <2>1, <2>3 DEF StillCounted
<1>9. ASSUME NEW gone, Dismiss(gone) PROVE Goal
  BY <1>9 DEF Dismiss, PagesSee
<1>10. CASE StartTimedOut
  BY <1>10, <1>9 DEF StartTimedOut
<1>11. CASE NoPartner
  BY <1>11, <1>9 DEF NoPartner
<1>12. CASE PairRecovered \/ Restart \/ SessionOver
  BY <1>12, <1>a DEF PairRecovered, Restart, SessionOver
<1> QED BY <1>1, <1>2, <1>3, <1>4, <1>5, <1>6, <1>7, <1>8, <1>10, <1>11, <1>12,
          NextSteps, Zenon DEF Steps

\* Until the pair is let through, and with a room that can be listed, the agent
\* forgets a press only with its participant or with the session: no poll, no
\* timeout of others and no late first press costs somebody the START given.
THEOREM PressesKept == Spec => PressKept
<1> DEFINE Forgotten ==
      \A p \in reports \cap present :
        ~flaky /\ gate \in {"startup", "poll", "ident", "expired"} /\ p \notin reports'
          => p \notin present' \/ status' # "running"
<1>1. ASSUME PageInv, Engaged, Next PROVE Forgotten
  <2> SUFFICES ASSUME NEW p \in reports \cap present, ~flaky, Waiting, p \notin reports'
               PROVE  p \notin present' \/ status' # "running"
    BY DEF Waiting, GateOpen
  <2> QED BY <1>1, PressKeeping
<1>2. UNCHANGED vars => Forgotten
  BY DEF vars, agentVars
<1>3. Init => Engaged
  BY DEF Init, Engaged
<1>4. PageInv /\ Engaged /\ [Next]_vars => [Forgotten]_vars
  BY <1>1, <1>2
<1> QED BY <1>3, <1>4, PageInit, PageStep, EngagedStep, PTL DEF Spec, PressKept
=============================================================================
