------------------------ MODULE ParticipantPageProofs ------------------------
(***************************************************************************)
(* A participant's page, for any pages, calls, measured medians, settings  *)
(* and mishaps: types, no way back into the room of an ended page, and the *)
(* setting a newcomer shows.                                               *)
(***************************************************************************)
EXTENDS ParticipantPage, TLAPS, SequenceTheorems, FiniteSetTheorems

\* The first element removed is the rest: how the admin's page takes a message.
LEMMA HeadRemoved ==
  ASSUME NEW S, NEW s \in Seq(S), s # <<>>
  PROVE  RemoveAt(s, 1) = Tail(s)
<1>1. Len(s) \in Nat /\ Len(s) >= 1
  OBVIOUS
<1>2. SubSeq(s, 1, 0) = <<>>
  OBVIOUS
<1>3. SubSeq(s, 2, Len(s)) = Tail(s)
  BY <1>1
<1>4. Tail(s) \in Seq(S)
  OBVIOUS
<1>5. RemoveAt(s, 1) = SubSeq(s, 1, 1 - 1) \o SubSeq(s, 1 + 1, Len(s))
  BY DEF RemoveAt
<1> QED
  BY <1>1, <1>2, <1>3, <1>5

-----------------------------------------------------------------------------
(* Types *)

\* The operator adds one setting to those of the agent, and only once.
SettingBounded == setting <= Settings + IF "operator" \in mishaps THEN 1 ELSE 0
\* The inductive type invariant.
TypeInv == TypeOK /\ SettingBounded

\* A message of a known type with a setting that exists is a message.
LEMMA MessageType ==
  ASSUME NEW type \in {"flow", "complete", "end", "kick", "set", "state", "hello"},
         NEW value \in 0 .. Settings + 1
  PROVE  Message(type, value) \in Messages
BY DEF Message, Messages

\* A message of the room leaves the inboxes well-formed.
LEMMA ReceivedType ==
  ASSUME TypeOK, NEW S, NEW message \in Messages
  PROVE  /\ DOMAIN Received(S, message) = Pages
         /\ \A p \in Pages : Received(S, message)[p] \in [Calls(p) -> Seq(Messages)]
BY DEF Received, TypeOK

\* What goes wrong is one of the mishaps of some plan.
LEMMA MishapType ==
  ASSUME NEW m, NEW S, TypeOK, Mishap(m, S)
  PROVE  /\ mishaps' \in SUBSET UNION Plans
         /\ mishaps' = mishaps \cup {m} /\ m \notin mishaps
BY DEF Mishap, TypeOK

\* The types of the variables of the link.
ConnTyped == conn \in [Pages -> {"disconnected", "connecting", "connected"}]
RefTyped == DOMAIN roomRef = Pages /\ \A p \in Pages : roomRef[p] \in 0..Attempts[p]
CallType(p) == [Calls(p) -> [at : Awaits, closes : 0..Attempts[p]]]
CallTyped == DOMAIN call = Pages /\ \A p \in Pages : call[p] \in CallType(p)
RoomTyped == DOMAIN room = Pages /\ \A p \in Pages : room[p] \in [Calls(p) -> {"none", "in", "removed", "out"}]
HeardTyped == DOMAIN heard = Pages /\ \A p \in Pages : heard[p] \in [Calls(p) -> BOOLEAN]
InboxTyped == DOMAIN inbox = Pages /\ \A p \in Pages : inbox[p] \in [Calls(p) -> Seq(Messages)]
ShownTyped == joinedAt \in [Pages -> 0..Settings + 1] /\ shown \in [Pages -> 0..Settings + 1]
LinkType ==
    ConnTyped /\ RefTyped /\ CallTyped /\ RoomTyped /\ HeardTyped /\ InboxTyped /\ ShownTyped

\* What the page was told, and what the two roles of the server keep.
EntryType == [check : {"none", "measuring", "done", "error"}, rtt : Rtts \cup {0}, threshold : {Default, ServedThreshold},
              passed : BOOLEAN, consented : BOOLEAN, cancelled : BOOLEAN]
ViewType == [open : BOOLEAN, flow : BOOLEAN, told : BOOLEAN, reported : BOOLEAN,
             outcome : BOOLEAN, kicked : BOOLEAN, leaving : BOOLEAN]
PageTyped == entry \in [Pages -> EntryType] /\ view \in [Pages -> ViewType]
ServerTyped ==
    /\ phase \in {"waiting", "running", "completed", "cleaned", "stopped"}
    /\ setting \in 0..Settings + 1
    /\ admin \in [shows : 0..Settings + 1, reads : 0..Settings + 1, stale : BOOLEAN, inbox : Seq(Messages)]
    /\ requests \in [Kinds -> SUBSET Pages]
    /\ mishaps \in SUBSET UNION Plans
    /\ SettingBounded

\* The type invariant and its parts.
LEMMA TypesByPart == TypeInv <=> PageTyped /\ LinkType /\ ServerTyped
<1>1. TypeInv => PageTyped /\ ServerTyped /\ LinkType
  BY DEF TypeInv, TypeOK, PageTyped, EntryType, ViewType, ServerTyped, LinkType, ConnTyped, RefTyped, CallTyped, CallType,
         RoomTyped, HeardTyped, InboxTyped, ShownTyped
<1>2. PageTyped /\ LinkType /\ ServerTyped => TypeInv
  BY DEF TypeInv, TypeOK, PageTyped, EntryType, ViewType, ServerTyped, LinkType, ConnTyped, RefTyped, CallTyped, CallType,
         RoomTyped, HeardTyped, InboxTyped, ShownTyped
<1> QED
  BY <1>1, <1>2

\* The same after a step.
LEMMA TypesAfter == PageTyped' /\ LinkType' /\ ServerTyped' => TypeInv'
BY DEF TypeInv, TypeOK, PageTyped, EntryType, ViewType, ServerTyped, LinkType, ConnTyped, RefTyped, CallTyped, CallType,
       RoomTyped, HeardTyped, InboxTyped, ShownTyped

\* What Init sets is of its type.
LEMMA InitTypes == Init => TypeInv
<1> SUFFICES ASSUME Init PROVE TypeInv
  OBVIOUS
<1> USE PageAssumption
<1>1. entry \in [Pages -> EntryType]
  BY DEF Init, NewEntry, EntryType
<1>2. view \in [Pages -> ViewType]
  BY DEF Init, NewView, ViewType
<1>3. LinkType
  <2>1. ConnTyped /\ RefTyped /\ ShownTyped
    BY DEF Init, ConnTyped, RefTyped, ShownTyped
  <2>2. CallTyped
    BY DEF Init, CallTyped, CallType, Awaits
  <2>3. RoomTyped /\ HeardTyped /\ InboxTyped
    BY DEF Init, RoomTyped, HeardTyped, InboxTyped
  <2> QED
    BY <2>1, <2>2, <2>3 DEF LinkType
<1>4. ServerTyped
  BY DEF Init, ServerTyped, SettingBounded
<1> QED
  BY <1>1, <1>2, <1>3, <1>4, TypesByPart DEF PageTyped

\* The steps of a page on its way to the consent keep the types.
LEMMA EnteringTypes ==
  ASSUME TypeInv, NEW p \in Pages, Entering(p)
  PROVE  TypeInv'
<1>1. entry \in [Pages -> EntryType] /\ entry[p] \in EntryType
  BY DEF TypeInv, TypeOK, EntryType
<1>2. ASSUME NEW changed \in EntryType, Enter(p, changed)
      PROVE  TypeInv'
  BY <1>1, <1>2 DEF Enter, TypeInv, TypeOK, SettingBounded, linkVars, serverVars, EntryType
<1>3. CASE LearnThreshold(p)
  <2>1. [entry[p] EXCEPT !.threshold = ServedThreshold] \in EntryType
    BY <1>1 DEF EntryType
  <2> QED
    BY <1>2, <1>3, <2>1 DEF LearnThreshold
<1>4. CASE MeasureLatency(p)
  <2>1. [entry[p] EXCEPT !.check = "measuring", !.rtt = 0] \in EntryType
    BY <1>1 DEF EntryType
  <2> QED
    BY <1>2, <1>4, <2>1 DEF MeasureLatency
<1>5. CASE NoSample(p)
  <2>1. [entry[p] EXCEPT !.check = "error"] \in EntryType
    BY <1>1 DEF EntryType
  <2> QED
    BY <1>2, <1>5, <2>1 DEF NoSample
<1>6. CASE Measured(p)
  <2>1. PICK median \in Rtts : Enter(p, [entry[p] EXCEPT !.check = "done", !.rtt = median])
    BY <1>6 DEF Measured
  <2>2. [entry[p] EXCEPT !.check = "done", !.rtt = median] \in EntryType
    BY <1>1 DEF EntryType
  <2> QED
    BY <1>2, <2>1, <2>2
<1>7. CASE Continue(p)
  <2>1. [entry[p] EXCEPT !.passed = TRUE] \in EntryType
    BY <1>1 DEF EntryType
  <2> QED
    BY <1>2, <1>7, <2>1 DEF Continue
<1>8. CASE Agree(p)
  <2>1. [entry[p] EXCEPT !.consented = TRUE] \in EntryType
    BY <1>1 DEF EntryType
  <2> QED
    BY <1>2, <1>8, <2>1 DEF Agree
<1>9. CASE Decline(p) \/ Deadline(p)
  <2>1. [entry[p] EXCEPT !.cancelled = TRUE] \in EntryType
    BY <1>1 DEF EntryType
  <2> QED
    BY <1>2, <1>9, <2>1 DEF Decline, Deadline
<1> QED
  BY <1>3, <1>4, <1>5, <1>6, <1>7, <1>8, <1>9 DEF Entering

\* A call of connect() that goes on keeps its type, and the others keep theirs.
LEMMA CallMoves ==
  ASSUME CallTyped, NEW p \in Pages, NEW i \in Calls(p),
         NEW at \in Awaits, NEW closes \in 0..Attempts[p],
         call' = [call EXCEPT ![p][i] = [at |-> at, closes |-> closes]]
  PROVE  /\ CallTyped'
         /\ \A q \in Pages : \A j \in Calls(q) :
              call'[q][j] = IF q = p /\ j = i THEN [at |-> at, closes |-> closes] ELSE call[q][j]
<1> DEFINE r == [at |-> at, closes |-> closes]
<1>1. r \in [at : Awaits, closes : 0..Attempts[p]]
  OBVIOUS
<1>2. call' = [call EXCEPT ![p] = [call[p] EXCEPT ![i] = r]]
  OBVIOUS
<1> HIDE DEF r
<1>3. CallTyped'
  BY <1>1, <1>2 DEF CallType, CallTyped
<1>4. \A q \in Pages : \A j \in Calls(q) : call'[q][j] = IF q = p /\ j = i THEN r ELSE call[q][j]
  BY <1>2 DEF CallType, CallTyped
<1> QED
  BY <1>3, <1>4 DEF r

\* Goto moves the call and leaves what it closes.
LEMMA GotoMoves ==
  ASSUME CallTyped, NEW p \in Pages, NEW i \in Calls(p), NEW at \in Awaits, Goto(p, i, at)
  PROVE  /\ CallTyped'
         /\ \A q \in Pages : \A j \in Calls(q) :
              call'[q][j].at = IF q = p /\ j = i THEN at ELSE call[q][j].at
<1>1. call[p][i] \in [at : Awaits, closes : 0..Attempts[p]] /\ DOMAIN call = Pages /\ call[p] \in CallType(p)
  BY DEF CallTyped, CallType
<1>2. [call[p][i] EXCEPT !.at = at] = [at |-> at, closes |-> call[p][i].closes]
  BY <1>1
<1>3. call' = [call EXCEPT ![p][i] = [call[p][i] EXCEPT !.at = at]]
  BY <1>1 DEF Goto, CallType
<1>4. call' = [call EXCEPT ![p][i] = [at |-> at, closes |-> call[p][i].closes]]
  BY <1>2, <1>3
<1> HIDE DEF Goto
<1>5. call[p][i].closes \in 0..Attempts[p]
  BY <1>1
<1>6. /\ CallTyped'
      /\ \A q \in Pages : \A j \in Calls(q) :
           call'[q][j] = IF q = p /\ j = i THEN [at |-> at, closes |-> call[p][i].closes] ELSE call[q][j]
  BY <1>4, <1>5, CallMoves
<1> QED
  BY <1>6

\* A room of a page changes, and the others stay.
LEMMA RoomMoves ==
  ASSUME RoomTyped, NEW p \in Pages, NEW i \in Calls(p), NEW r \in {"none", "in", "removed", "out"},
         room' = [room EXCEPT ![p][i] = r]
  PROVE  /\ RoomTyped'
         /\ \A q \in Pages : \A j \in Calls(q) : room'[q][j] = IF q = p /\ j = i THEN r ELSE room[q][j]
<1>1. room' = [room EXCEPT ![p] = [room[p] EXCEPT ![i] = r]]
  OBVIOUS
<1> QED
  BY <1>1 DEF RoomTyped

\* The listeners of a room are set or removed.
LEMMA HeardMoves ==
  ASSUME HeardTyped, NEW p \in Pages, NEW i \in Calls(p), NEW b \in BOOLEAN,
         heard' = [heard EXCEPT ![p][i] = b]
  PROVE  /\ HeardTyped'
         /\ \A q \in Pages : \A j \in Calls(q) : heard'[q][j] = IF q = p /\ j = i THEN b ELSE heard[q][j]
<1>1. heard' = [heard EXCEPT ![p] = [heard[p] EXCEPT ![i] = b]]
  OBVIOUS
<1> QED
  BY <1>1 DEF HeardTyped

\* The inbox of a room changes.
LEMMA InboxMoves ==
  ASSUME InboxTyped, NEW p \in Pages, NEW i \in Calls(p), NEW s \in Seq(Messages),
         inbox' = [inbox EXCEPT ![p][i] = s]
  PROVE  /\ InboxTyped'
         /\ \A q \in Pages : \A j \in Calls(q) : inbox'[q][j] = IF q = p /\ j = i THEN s ELSE inbox[q][j]
<1>1. inbox' = [inbox EXCEPT ![p] = [inbox[p] EXCEPT ![i] = s]]
  OBVIOUS
<1> QED
  BY <1>1 DEF InboxTyped

\* The catch of a call keeps the types.
LEMMA CatchTypes ==
  ASSUME LinkType, NEW p \in Pages, NEW i \in Calls(p),
         NEW state \in {"disconnected", "connecting", "connected"}, Catch(p, i, state)
  PROVE  LinkType'
<1> DEFINE r == roomRef[p]
<1> USE PageAssumption DEF LinkType
<1>1. r \in 0..Attempts[p]
  BY DEF RefTyped
<1>2. CASE r = 0
  <2>1. CallTyped'
    BY <1>2, GotoMoves DEF Catch, Awaits
  <2> QED
    BY <1>2, <2>1 DEF Catch, ConnTyped, RefTyped, RoomTyped, HeardTyped, InboxTyped, ShownTyped
<1>3. CASE r # 0
  <2>1. r \in Calls(p)
    BY <1>1, <1>3 DEF Calls
  <2>2. CallTyped'
    BY <1>1, <1>3, CallMoves DEF Catch, Awaits
  <2>3. RoomTyped'
    BY <1>3, <2>1, RoomMoves DEF Catch
  <2>4. HeardTyped'
    BY <1>3, <2>1, HeardMoves DEF Catch
  <2>5. InboxTyped'
    BY <1>3, <2>1, InboxMoves, <<>> \in Seq(Messages) DEF Catch
  <2> QED
    BY <1>3, <2>2, <2>3, <2>4, <2>5 DEF Catch, ConnTyped, RefTyped, ShownTyped
<1> QED
  BY <1>2, <1>3

\* So does the end of a connection.
LEMMA EndedTypes ==
  ASSUME LinkType, NEW p \in Pages, NEW i \in Calls(p), Ended(p, i)
  PROVE  ConnTyped' /\ RoomTyped' /\ InboxTyped'
<1> USE DEF LinkType
<1>1. RoomTyped'
  BY RoomMoves DEF Ended
<1>2. InboxTyped'
  BY InboxMoves, <<>> \in Seq(Messages) DEF Ended
<1>3. ConnTyped'
  BY DEF Ended, ConnTyped
<1> QED
  BY <1>1, <1>2, <1>3

\* A page that is gone has closed its rooms and ended its calls.
LEMMA GoneTypes ==
  ASSUME PageTyped, LinkType, NEW p \in Pages, Gone(p)
  PROVE  PageTyped' /\ LinkType'
<1> USE PageAssumption DEF LinkType
<1>1. [view[p] EXCEPT !.open = FALSE] \in ViewType
  BY DEF PageTyped, ViewType
<1>2. PageTyped'
  BY <1>1 DEF Gone, See, PageTyped
<1>3. CallTyped'
  <2> DEFINE new == [i \in Calls(p) |-> IF call[p][i].at = "none" THEN call[p][i] ELSE [at |-> "over", closes |-> 0]]
  <2>1. [at |-> "over", closes |-> 0] \in [at : Awaits, closes : 0..Attempts[p]]
    BY DEF Awaits
  <2>2. new \in CallType(p)
    BY <2>1 DEF CallTyped, CallType
  <2>3. call' = [call EXCEPT ![p] = new]
    BY DEF Gone, CallTyped
  <2> HIDE DEF new
  <2> QED
    BY <2>2, <2>3 DEF CallTyped
<1>4. RoomTyped' /\ InboxTyped' /\ HeardTyped'
  BY DEF Gone, RoomTyped, InboxTyped, HeardTyped
<1>5. ConnTyped' /\ RefTyped' /\ ShownTyped'
  <2>1. ConnTyped' /\ ShownTyped'
    BY DEF Gone, ConnTyped, ShownTyped
  <2>2. roomRef' = [roomRef EXCEPT ![p] = 0]
    BY DEF Gone
  <2>3. RefTyped'
    BY <2>2 DEF RefTyped
  <2> QED
    BY <2>1, <2>3
<1> QED
  BY <1>2, <1>3, <1>4, <1>5

\* The admin's page takes the first of its messages.
LEMMA HeadOfAdmin ==
  ASSUME admin.inbox \in Seq(Messages), AdminReceives
  PROVE  /\ Head(admin.inbox) \in Messages /\ Tail(admin.inbox) \in Seq(Messages) /\ admin.inbox # <<>>
         /\ IF Head(admin.inbox).type = "hello"
              THEN /\ inbox' = Received(Pages, Message("state", admin.reads))
                   /\ admin' = [admin EXCEPT !.inbox = Tail(admin.inbox), !.stale = (admin.reads # admin.shows)]
              ELSE /\ admin' = [admin EXCEPT !.inbox = Tail(admin.inbox), !.shows = Head(admin.inbox).value]
                   /\ inbox' = inbox
<1>1. admin.inbox # <<>>
  BY DEF AdminReceives
<1>2. admin.inbox[NextForAdmin] = Head(admin.inbox)
  BY <1>1 DEF NextForAdmin
<1>3. RemoveAt(admin.inbox, NextForAdmin) = Tail(admin.inbox)
  BY <1>1, HeadRemoved DEF NextForAdmin
<1>4. Head(admin.inbox) \in Messages /\ Tail(admin.inbox) \in Seq(Messages)
  BY <1>1
<1> QED
  BY <1>1, <1>2, <1>3, <1>4 DEF AdminReceives

\* The calls of connect() keep the types.
LEMMA ConnectingTypes ==
  ASSUME TypeInv, NEW p \in Pages, Connecting(p)
  PROVE  TypeInv'
<1> USE PageAssumption
<1>1. UNCHANGED <<pageVars, phase, setting, requests, mishaps>>
  BY DEF Connecting, Connect, Token, Join, Register, Hello, JoinCut, Catch, Closed, Left, Ended, serverVars
<1>2. PageTyped /\ LinkType /\ ServerTyped
  BY TypesByPart
<1>3. LinkType'
  <2> USE DEF LinkType
  <2>1. CASE Connect(p)
    <3>1. PICK i \in Calls(p) : Goto(p, i, "token")
      BY <2>1 DEF Connect
    <3>2. CallTyped'
      BY <1>2, <3>1, GotoMoves DEF Awaits
    <3> QED
      BY <1>2, <2>1, <3>2 DEF Connect, ConnTyped, RefTyped, RoomTyped, HeardTyped, InboxTyped, ShownTyped
  <2>2. ASSUME NEW i \in Calls(p), Token(p, i)
        PROVE  LinkType'
    <3>1. CallTyped'
      BY <1>2, <2>2, GotoMoves DEF Token, Awaits
    <3>2. HeardTyped'
      BY <1>2, <2>2, HeardMoves DEF Token
    <3>3. RefTyped'
      BY <1>2, <2>2 DEF Token, RefTyped, Calls
    <3> QED
      BY <1>2, <2>2, <3>1, <3>2, <3>3 DEF Token, ConnTyped, RoomTyped, InboxTyped, ShownTyped
  <2>3. ASSUME NEW i \in Calls(p), Join(p, i)
        PROVE  LinkType'
    <3>1. CallTyped'
      BY <1>2, <2>3, GotoMoves DEF Join, Awaits
    <3>2. RoomTyped'
      BY <1>2, <2>3 DEF Join, Displacing, RoomTyped
    <3>3. ShownTyped'
      BY <1>2, <2>3 DEF Join, ShownTyped, ServerTyped
    <3> QED
      BY <1>2, <2>3, <3>1, <3>2, <3>3 DEF Join, ConnTyped, RefTyped, HeardTyped, InboxTyped
  <2>4. ASSUME NEW i \in Calls(p), Register(p, i)
        PROVE  LinkType'
    <3>1. CallTyped'
      BY <1>2, <2>4, GotoMoves DEF Register, Awaits
    <3> QED
      BY <1>2, <2>4, <3>1 DEF Register, ConnTyped, RefTyped, RoomTyped, HeardTyped, InboxTyped, ShownTyped
  <2>5. ASSUME NEW i \in Calls(p), Hello(p, i)
        PROVE  LinkType'
    <3>1. CallTyped'
      BY <1>2, <2>5, GotoMoves DEF Hello, Awaits
    <3> QED
      BY <1>2, <2>5, <3>1 DEF Hello, ConnTyped, RefTyped, RoomTyped, HeardTyped, InboxTyped, ShownTyped
  <2>6. ASSUME NEW i \in Calls(p), JoinCut(p, i)
        PROVE  LinkType'
    <3>1. conn[p] \in {"disconnected", "connecting", "connected"} /\ Catch(p, i, conn[p])
      BY <1>2, <2>6 DEF JoinCut, ConnTyped
    <3> QED
      BY <1>2, <3>1, CatchTypes
  <2>7. ASSUME NEW i \in Calls(p), Closed(p, i)
        PROVE  LinkType'
    <3>1. CallTyped'
      <4>1. "over" \in Awaits /\ 0 \in 0 .. Attempts[p]
        BY DEF Awaits
      <4>2. call' = [call EXCEPT ![p][i] = [at |-> "over", closes |-> 0]]
        BY <2>7 DEF Closed
      <4> QED
        BY <1>2, <4>1, <4>2, CallMoves
    <3>2. RefTyped'
      BY <1>2, <2>7 DEF Closed, RefTyped
    <3> QED
      BY <1>2, <2>7, <3>1, <3>2 DEF Closed, ConnTyped, RefTyped, RoomTyped, HeardTyped, InboxTyped, ShownTyped
  <2>8. ASSUME NEW i \in Calls(p), Left(p, i)
        PROVE  LinkType'
    BY <1>2, <2>8, EndedTypes DEF Left, CallTyped, RefTyped, HeardTyped, ShownTyped
  <2> QED
    BY <2>1, <2>2, <2>3, <2>4, <2>5, <2>6, <2>7, <2>8 DEF Connecting
<1>4. ServerTyped'
  <2>1. Message("hello", 0) \in Messages
    BY MessageType
  <2>2. admin' = admin \/ admin' = [admin EXCEPT !.inbox = Append(@, Message("hello", 0))]
    BY DEF Connecting, Connect, Token, Join, Register, Hello, JoinCut, Catch, Closed, Left, Ended, serverVars
  <2>3. admin \in [shows : 0..Settings + 1, reads : 0..Settings + 1, stale : BOOLEAN, inbox : Seq(Messages)]
    BY <1>2 DEF ServerTyped
  <2>4. Append(admin.inbox, Message("hello", 0)) \in Seq(Messages)
    BY <2>1, <2>3
  <2>5. admin' \in [shows : 0..Settings + 1, reads : 0..Settings + 1, stale : BOOLEAN, inbox : Seq(Messages)]
    BY <2>2, <2>3, <2>4
  <2> QED
    BY <1>1, <1>2, <2>5 DEF ServerTyped, SettingBounded
<1>5. PageTyped'
  BY <1>1, <1>2 DEF PageTyped, pageVars
<1> QED
  BY <1>3, <1>4, <1>5, TypesAfter

\* So do the failures.
LEMMA FailingTypes ==
  ASSUME TypeInv, NEW p \in Pages, Failing(p)
  PROVE  TypeInv'
<1> USE PageAssumption
<1>1. UNCHANGED <<pageVars, phase, setting, admin, requests>>
  BY DEF Failing, TokenFails, JoinFails, RegisterFails, Drop, Catch, serverVars, pageVars
<1>2. PageTyped /\ LinkType /\ ServerTyped
  BY TypesByPart
<1>3. LinkType'
  <2>1. PICK i \in Calls(p) : TokenFails(p, i) \/ JoinFails(p, i) \/ RegisterFails(p, i) \/ Drop(p, i)
    BY DEF Failing
  <2>2. CASE Drop(p, i)
    BY <1>2, <2>2, EndedTypes DEF Drop, LinkType, CallTyped, RefTyped, HeardTyped, ShownTyped
  <2>3. CASE TokenFails(p, i) \/ JoinFails(p, i) \/ RegisterFails(p, i)
    <3>1. \E state \in {"disconnected", "connecting", "connected"} : Catch(p, i, state)
      BY <1>2, <2>3 DEF TokenFails, JoinFails, RegisterFails, LinkType, ConnTyped
    <3> QED
      BY <1>2, <3>1, CatchTypes
  <2> QED
    BY <2>1, <2>2, <2>3
<1>4. \E m, S : Mishap(m, S)
  BY DEF Failing, TokenFails, JoinFails, RegisterFails, Drop
<1>5. ServerTyped'
  BY <1>1, <1>2, <1>4, MishapType DEF ServerTyped, SettingBounded, TypeInv
<1>6. PageTyped'
  BY <1>1, <1>2 DEF PageTyped, pageVars
<1> QED
  BY <1>3, <1>5, <1>6, TypesAfter

\* What arrives at a page, and the way out, keep the types.
LEMMA ReceivingTypes ==
  ASSUME TypeInv, NEW p \in Pages, Receiving(p)
  PROVE  TypeInv'
<1> USE PageAssumption
<1>2. PageTyped /\ LinkType /\ ServerTyped
  BY TypesByPart
<1>3. ASSUME NEW i \in Calls(p), Deliver(p, i)
      PROVE  TypeInv'
  <2> DEFINE message == Head(inbox[p][i])
  <2>1. inbox[p][i] \in Seq(Messages) /\ message \in Messages /\ Tail(inbox[p][i]) \in Seq(Messages)
    BY <1>2, <1>3 DEF Deliver, LinkType, InboxTyped
  <2>2. UNCHANGED <<entry, roomRef, call, heard, joinedAt, phase, setting, admin, mishaps>>
    BY <1>3 DEF Deliver
  <2>3. CASE message.type = "complete"
    <3>1. Finish(p, i)
      BY <1>3, <2>3 DEF Deliver
    <3>2. view[p] \in ViewType /\ [view[p] EXCEPT !.told = TRUE, !.leaving = TRUE] \in ViewType
      BY <1>2 DEF PageTyped, ViewType
    <3>3. PageTyped'
      BY <1>2, <2>2, <3>1, <3>2 DEF Finish, See, PageTyped
    <3>4. ServerTyped'
      BY <1>2, <2>2, <3>1 DEF Finish, Ask, ServerTyped, SettingBounded, Kinds
    <3>5. RoomTyped'
      BY <1>2, <3>1 DEF Finish, LinkType, RoomTyped
    <3>6. InboxTyped'
      <4> DEFINE r == roomRef[p]
                 new == [j \in Calls(p) |-> IF j = r THEN <<>>
                                            ELSE IF j = i THEN Tail(inbox[p][j]) ELSE inbox[p][j]]
      <4>1. new \in [Calls(p) -> Seq(Messages)]
        BY <1>2, <2>1 DEF LinkType, InboxTyped
      <4>2. inbox' = [inbox EXCEPT ![p] = new]
        BY <1>2, <3>1 DEF Finish, LinkType, InboxTyped
      <4> HIDE DEF new
      <4> QED
        BY <1>2, <4>1, <4>2 DEF LinkType, InboxTyped
    <3>7. ConnTyped' /\ ShownTyped'
      BY <1>2, <2>2, <3>1 DEF Finish, LinkType, ConnTyped, ShownTyped
    <3>8. LinkType'
      BY <1>2, <2>2, <3>5, <3>6, <3>7 DEF LinkType, RefTyped, CallTyped, HeardTyped
    <3> QED
      BY <3>3, <3>4, <3>8, TypesAfter
  <2>4. CASE message.type # "complete"
    <3>1. /\ Handle(p, message)
          /\ inbox' = [inbox EXCEPT ![p][i] = Tail(inbox[p][i])]
          /\ UNCHANGED <<conn, room, requests>>
      BY <1>2, <1>3, <2>4 DEF Deliver, LinkType, InboxTyped
    <3>2. InboxTyped'
      BY <1>2, <2>1, <3>1, InboxMoves DEF LinkType
    <3>3. view[p] \in ViewType /\ message.value \in 0..Settings + 1
      BY <1>2, <2>1 DEF PageTyped, Messages
    <3>4. /\ [view[p] EXCEPT !.flow = TRUE] \in ViewType
          /\ [view[p] EXCEPT !.told = TRUE, !.outcome = TRUE] \in ViewType
          /\ [view[p] EXCEPT !.kicked = TRUE] \in ViewType
      BY <3>3 DEF ViewType
    <3>5. PageTyped'
      BY <1>2, <2>2, <3>1, <3>4 DEF Handle, See, PageTyped
    <3>6. ShownTyped'
      BY <1>2, <2>2, <3>1, <3>3 DEF Handle, LinkType, ShownTyped
    <3>7. LinkType'
      BY <1>2, <2>2, <3>1, <3>2, <3>6 DEF LinkType, ConnTyped, RefTyped, CallTyped, RoomTyped, HeardTyped
    <3>8. ServerTyped'
      BY <1>2, <2>2, <3>1 DEF ServerTyped, SettingBounded
    <3> QED
      BY <3>5, <3>7, <3>8, TypesAfter
  <2> QED
    BY <2>3, <2>4
<1>4. CASE Navigate(p)
  <2>1. PageTyped' /\ LinkType'
    BY <1>2, <1>4, GoneTypes DEF Navigate
  <2>2. ServerTyped'
    BY <1>2, <1>4 DEF Navigate, Gone, ServerTyped, SettingBounded
  <2> QED
    BY <2>1, <2>2, TypesAfter
<1> QED
  BY <1>3, <1>4 DEF Receiving

\* How a page ends, and what befalls it, keep the types.
LEMMA EndingTypes ==
  ASSUME TypeInv, NEW p \in Pages, Ending(p)
  PROVE  TypeInv'
<1> USE PageAssumption
<1>2. PageTyped /\ LinkType /\ ServerTyped
  BY TypesByPart
<1>3. TypeOK
  BY DEF TypeInv
<1>4. mishaps' \in SUBSET UNION Plans /\ mishaps \subseteq mishaps'
  <2>1. \E m, S : Mishap(m, S)
    BY DEF Ending, Unload, Reopen, Inactive, Kick
  <2> QED
    BY <1>3, <2>1, MishapType
<1>5. UNCHANGED <<phase, setting, admin>>
  BY DEF Ending, Unload, Reopen, Inactive, Kick, Gone, serverVars
<1>6. requests' \in [Kinds -> SUBSET Pages]
  BY <1>2 DEF Ending, Unload, Reopen, Inactive, Kick, Ask, serverVars, ServerTyped, Kinds
<1>7. ServerTyped'
  BY <1>2, <1>4, <1>5, <1>6 DEF ServerTyped, SettingBounded
<1>8. CASE Unload(p)
  BY <1>2, <1>7, <1>8, GoneTypes, TypesAfter DEF Unload
<1>9. CASE Reopen(p)
  <2>1. NewEntry(p) \in EntryType /\ NewView \in ViewType
    BY DEF NewEntry, NewView, EntryType, ViewType
  <2>2. PageTyped'
    BY <1>2, <1>9, <2>1 DEF Reopen, See, PageTyped
  <2>3. LinkType'
    BY <1>2, <1>9 DEF Reopen, LinkType, ConnTyped, RefTyped, CallTyped, RoomTyped, HeardTyped, InboxTyped, ShownTyped
  <2> QED
    BY <1>7, <2>2, <2>3, TypesAfter
<1>10. CASE Inactive(p)
  <2>1. [view[p] EXCEPT !.reported = TRUE] \in ViewType
    BY <1>2 DEF PageTyped, ViewType
  <2>2. PageTyped'
    BY <1>2, <1>10, <2>1 DEF Inactive, See, PageTyped
  <2>3. LinkType'
    BY <1>2, <1>10 DEF Inactive, linkVars, LinkType, ConnTyped, RefTyped, CallTyped, RoomTyped, HeardTyped, InboxTyped, ShownTyped
  <2> QED
    BY <1>7, <2>2, <2>3, TypesAfter
<1>11. CASE Kick(p)
  <2>1. Message("kick", 0) \in Messages
    BY MessageType
  <2>2. InboxTyped'
    BY <1>2, <1>3, <1>11, <2>1, ReceivedType DEF Kick, LinkType, InboxTyped
  <2>3. PageTyped' /\ LinkType'
    BY <1>2, <1>11, <2>2 DEF Kick, pageVars, PageTyped, LinkType, ConnTyped, RefTyped, CallTyped, RoomTyped, HeardTyped, ShownTyped
  <2> QED
    BY <1>7, <2>3, TypesAfter
<1> QED
  BY <1>8, <1>9, <1>10, <1>11 DEF Ending

\* Removing participants from the room keeps the types.
LEMMA RemovedTypes ==
  ASSUME RoomTyped, NEW S, Removed(S)
  PROVE  RoomTyped'
BY DEF Removed, RoomTyped

\* A message to those in the room keeps the types.
LEMMA InboxReceives ==
  ASSUME TypeInv, NEW S, NEW message \in Messages, inbox' = Received(S, message)
  PROVE  InboxTyped'
BY ReceivedType DEF TypeInv, InboxTyped

\* The end of an interrupted session keeps the types.
LEMMA InterruptTypes ==
  ASSUME TypeInv, Interrupt
  PROVE  /\ PageTyped' /\ LinkType'
         /\ mishaps' \in SUBSET UNION Plans /\ mishaps \subseteq mishaps'
         /\ phase' \in {"waiting", "running", "completed", "cleaned", "stopped"}
         /\ UNCHANGED <<setting, admin>>
<1> USE PageAssumption
<1>1. PageTyped /\ LinkType /\ ServerTyped /\ TypeOK
  BY TypesByPart DEF TypeInv
<1>2. Message("end", 0) \in Messages
  BY MessageType
<1>3. InboxTyped'
  <2>1. CASE inbox' = Received(Pages, Message("end", 0))
    BY <1>2, <2>1, InboxReceives
  <2>2. CASE inbox' = inbox
    BY <1>1, <2>2 DEF LinkType, InboxTyped
  <2> QED
    BY <2>1, <2>2 DEF Interrupt
<1>4. mishaps' \in SUBSET UNION Plans /\ mishaps \subseteq mishaps'
  BY <1>1, MishapType DEF Interrupt, TypeOK
<1>5. PageTyped' /\ LinkType'
  BY <1>1, <1>3 DEF Interrupt, pageVars, PageTyped, LinkType, ConnTyped, RefTyped, CallTyped, RoomTyped, HeardTyped, ShownTyped
<1> QED
  BY <1>4, <1>5 DEF Interrupt

\* What the server does with the requests keeps the types.
LEMMA ServingTypes ==
  ASSUME TypeInv, NEW p \in Pages, Serving(p)
  PROVE  TypeInv'
<1> USE PageAssumption
<1>1. PageTyped /\ LinkType /\ ServerTyped
  BY TypesByPart
<1>2. requests' \in [Kinds -> SUBSET Pages]
  BY <1>1 DEF Serving, HandleReport, RemoveInterrupted, RemoveCompleted, RemoveKicked, RemoveFromRoom, ServerTyped, Kinds
<1>3. CASE HandleReport(p) /\ phase = "running"
  <2>1. Interrupt
    BY <1>3 DEF HandleReport
  <2>2. ServerTyped'
    BY <1>1, <1>2, <2>1, InterruptTypes DEF ServerTyped, SettingBounded
  <2> QED
    BY <2>1, <2>2, InterruptTypes, TypesAfter
<1>4. CASE HandleReport(p) /\ phase # "running"
  <2>1. UNCHANGED <<pageVars, linkVars, phase, setting, admin, mishaps>>
    BY <1>4 DEF HandleReport
  <2>2. PageTyped' /\ LinkType' /\ ServerTyped'
    BY <1>1, <1>2, <2>1 DEF pageVars, linkVars, PageTyped, LinkType, ConnTyped, RefTyped, CallTyped, RoomTyped, HeardTyped,
         InboxTyped, ShownTyped, ServerTyped, SettingBounded
  <2> QED
    BY <2>2, TypesAfter
<1>5. CASE \E kind \in Kinds : RemoveFromRoom(kind, p)
  <2>1. Removed({p}) /\ UNCHANGED <<pageVars, conn, roomRef, call, heard, inbox, joinedAt, shown, phase, setting, admin, mishaps>>
    BY <1>5 DEF RemoveFromRoom
  <2>2. RoomTyped'
    BY <1>1, <2>1, RemovedTypes DEF LinkType
  <2>3. PageTyped' /\ LinkType' /\ ServerTyped'
    BY <1>1, <1>2, <2>1, <2>2 DEF pageVars, PageTyped, LinkType, ConnTyped, RefTyped, CallTyped, HeardTyped,
         InboxTyped, ShownTyped, ServerTyped, SettingBounded
  <2> QED
    BY <2>3, TypesAfter
<1> QED
  BY <1>3, <1>4, <1>5 DEF Serving, RemoveInterrupted, RemoveCompleted, RemoveKicked, Kinds

\* The steps of the agent, of the admin's page and of the routes that concern
\* no page of their own.
Others == Begin \/ SetControl \/ OperatorSets \/ AdminReceives \/ AdminRenders \/ CompleteSession \/ Absence \/ CleanUp

\* They keep the types: the agent sets no more than Settings allows, and the
\* operator adds one.
LEMMA OthersTypes ==
  ASSUME TypeInv, Others
  PROVE  TypeInv'
<1> USE PageAssumption
<1>1. PageTyped /\ LinkType /\ ServerTyped /\ TypeOK
  BY TypesByPart DEF TypeInv
<1>2. ASSUME InboxTyped', UNCHANGED <<pageVars, conn, roomRef, call, room, heard, joinedAt, shown>>
      PROVE  PageTyped' /\ LinkType'
  BY <1>1, <1>2 DEF pageVars, PageTyped, LinkType, ConnTyped, RefTyped, CallTyped, RoomTyped, HeardTyped, ShownTyped
<1>3. setting \in 0..Settings + 1 /\ admin.inbox \in Seq(Messages) /\ admin.shows \in 0..Settings + 1
      /\ admin.reads \in 0..Settings + 1
  BY <1>1 DEF ServerTyped
<1>4. CASE Begin
  <2>1. InboxTyped'
    BY <1>4, MessageType, InboxReceives DEF Begin
  <2>2. ServerTyped'
    BY <1>1, <1>4 DEF Begin, ServerTyped, SettingBounded
  <2> QED
    BY <1>2, <1>4, <2>1, <2>2, TypesAfter DEF Begin
<1>5. CASE SetControl
  <2>1. Cardinality(mishaps \cap {"operator"}) = IF "operator" \in mishaps THEN 1 ELSE 0
    <3>1. CASE "operator" \in mishaps
      <4>1. mishaps \cap {"operator"} = {"operator"}
        BY <3>1
      <4> QED
        BY <3>1, <4>1, FS_Singleton
    <3>2. CASE "operator" \notin mishaps
      <4>1. mishaps \cap {"operator"} = {}
        BY <3>2
      <4> QED
        BY <3>2, <4>1, FS_EmptySet
    <3> QED
      BY <3>1, <3>2
  <2>2. setting' = setting + 1 /\ mishaps' = mishaps /\ SettingBounded' /\ setting' \in 0..Settings + 1
    BY <1>1, <1>3, <1>5, <2>1 DEF SetControl, SettingBounded
  <2>3. Message("set", setting') \in Messages
    BY <2>2, MessageType
  <2>4. InboxTyped'
    BY <1>5, <2>3, InboxReceives DEF SetControl
  <2>5. admin' = [admin EXCEPT !.inbox = Append(admin.inbox, Message("set", setting'))]
    BY <1>5 DEF SetControl
  <2>6. Append(admin.inbox, Message("set", setting')) \in Seq(Messages)
    BY <1>3, <2>3
  <2>7. admin' \in [shows : 0..Settings + 1, reads : 0..Settings + 1, stale : BOOLEAN, inbox : Seq(Messages)]
    BY <1>1, <2>5, <2>6 DEF ServerTyped
  <2>8. ServerTyped'
    BY <1>1, <1>5, <2>2, <2>7 DEF SetControl, ServerTyped
  <2> QED
    BY <1>2, <1>5, <2>4, <2>8, TypesAfter DEF SetControl
<1>6. CASE OperatorSets
  <2>1. mishaps' = mishaps \cup {"operator"} /\ "operator" \notin mishaps /\ mishaps' \in SUBSET UNION Plans
    BY <1>1, <1>6, MishapType DEF OperatorSets
  <2>2. setting' = setting + 1 /\ SettingBounded' /\ setting' \in 0..Settings + 1
    BY <1>1, <1>3, <1>6, <2>1 DEF OperatorSets, SettingBounded, ServerTyped
  <2>3. InboxTyped'
    BY <1>6, <2>2, MessageType, InboxReceives DEF OperatorSets
  <2>4. admin' \in [shows : 0..Settings + 1, reads : 0..Settings + 1, stale : BOOLEAN, inbox : Seq(Messages)]
    BY <1>1, <1>6, <2>2 DEF OperatorSets, ServerTyped
  <2>5. ServerTyped'
    BY <1>1, <1>6, <2>1, <2>2, <2>4 DEF OperatorSets, ServerTyped
  <2> QED
    BY <1>2, <1>6, <2>3, <2>5, TypesAfter DEF OperatorSets
<1>7. CASE AdminReceives
  <2> DEFINE message == Head(admin.inbox)
             rest == Tail(admin.inbox)
  <2>1. /\ message \in Messages /\ rest \in Seq(Messages)
        /\ IF message.type = "hello"
             THEN /\ inbox' = Received(Pages, Message("state", admin.reads))
                  /\ admin' = [admin EXCEPT !.inbox = rest, !.stale = (admin.reads # admin.shows)]
             ELSE /\ admin' = [admin EXCEPT !.inbox = rest, !.shows = message.value]
                  /\ inbox' = inbox
    BY <1>3, <1>7, HeadOfAdmin
  <2> HIDE DEF message, rest
  <2>2. message.value \in 0..Settings + 1
    BY <2>1 DEF Messages
  <2>3. InboxTyped'
    BY <1>1, <1>3, <2>1, MessageType, InboxReceives DEF LinkType, InboxTyped
  <2>4. admin' \in [shows : 0..Settings + 1, reads : 0..Settings + 1, stale : BOOLEAN, inbox : Seq(Messages)]
    BY <1>1, <2>1, <2>2 DEF ServerTyped
  <2>5. ServerTyped'
    BY <1>1, <1>7, <2>4 DEF AdminReceives, ServerTyped, SettingBounded
  <2> QED
    BY <1>2, <1>7, <2>3, <2>5, TypesAfter DEF AdminReceives
<1>8. CASE CompleteSession
  <2>1. InboxTyped'
    BY <1>8, MessageType, InboxReceives DEF CompleteSession
  <2>2. ServerTyped'
    BY <1>1, <1>8 DEF CompleteSession, ServerTyped, SettingBounded
  <2> QED
    BY <1>2, <1>8, <2>1, <2>2, TypesAfter DEF CompleteSession
<1>9. CASE Absence
  <2>1. Interrupt /\ requests' \in [Kinds -> SUBSET Pages]
    BY <1>1, <1>9 DEF Absence, Ask, ServerTyped, Kinds
  <2>2. ServerTyped'
    BY <1>1, <2>1, InterruptTypes DEF ServerTyped, SettingBounded
  <2> QED
    BY <2>1, <2>2, InterruptTypes, TypesAfter
<1>10. CASE CleanUp
  <2>1. RoomTyped'
    BY <1>1, <1>10, RemovedTypes DEF CleanUp, LinkType
  <2>2. PageTyped' /\ LinkType' /\ ServerTyped'
    BY <1>1, <1>10, <2>1 DEF CleanUp, pageVars, PageTyped, LinkType, ConnTyped, RefTyped, CallTyped, HeardTyped,
         InboxTyped, ShownTyped, ServerTyped, SettingBounded
  <2> QED
    BY <2>2, TypesAfter
<1>11. CASE AdminRenders
  <2>1. admin' \in [shows : 0..Settings + 1, reads : 0..Settings + 1, stale : BOOLEAN, inbox : Seq(Messages)]
    BY <1>1, <1>11 DEF AdminRenders, ServerTyped
  <2>2. ServerTyped' /\ InboxTyped'
    BY <1>1, <1>11, <2>1 DEF AdminRenders, ServerTyped, SettingBounded, LinkType, InboxTyped, linkVars
  <2> QED
    BY <1>2, <1>11, <2>2, TypesAfter DEF AdminRenders, linkVars
<1> QED
  BY <1>4, <1>5, <1>6, <1>7, <1>8, <1>9, <1>10, <1>11 DEF Others

\* No step leaves the types.
LEMMA TypeStep == TypeInv /\ [Next]_vars => TypeInv'
<1> SUFFICES ASSUME TypeInv, [Next]_vars PROVE TypeInv'
  OBVIOUS
<1>1. CASE \E p \in Pages : Connecting(p) \/ Failing(p) \/ Entering(p) \/ Receiving(p) \/ Ending(p) \/ Serving(p)
  BY <1>1, ConnectingTypes, FailingTypes, EnteringTypes, ReceivingTypes, EndingTypes, ServingTypes
<1>2. CASE Others
  BY <1>2, OthersTypes
<1>3. CASE UNCHANGED vars
  BY <1>3 DEF vars, pageVars, linkVars, serverVars, TypeInv, TypeOK, SettingBounded
<1> QED
  BY <1>1, <1>2, <1>3 DEF Next, Others

\* Every variable of a page, of its calls and of the server's side keeps its
\* type (App.tsx: connect(), the speed check, the messages of the room).
THEOREM TypeCorrect == Spec => []TypeOK
<1>1. Init => TypeInv
  BY InitTypes
<1>2. TypeInv /\ [Next]_vars => TypeInv'
  BY TypeStep
<1>3. TypeInv => TypeOK
  BY DEF TypeInv
<1> QED
  BY <1>1, <1>2, <1>3, PTL DEF Spec

-----------------------------------------------------------------------------
(* One connection at a time                                                *)

\* The server still has the connection of the call.
Live(p, i) == room[p][i] \in {"in", "removed"}
\* The call is about to connect, or about to declare the page disconnected.
Under(p, i) == call[p][i].at \in {"token", "join", "closing"}

\* As long as no connection and no registration failed, a page has one
\* connection, the one it uses and hears, messages wait in no other room, and
\* a call under way is alone: the page is connecting then.
CallInv ==
    \A p \in Pages : \A i \in Calls(p) :
        /\ Live(p, i) => /\ conn[p] = "connected" /\ roomRef[p] = i /\ heard[p][i] /\ view[p].open
                         /\ call[p][i].at \in {"register", "hello", "over"}
        /\ inbox[p][i] # <<>> => Live(p, i)
        /\ Under(p, i) => conn[p] = "connecting"
        /\ \A j \in Calls(p) : Under(p, i) /\ Under(p, j) => i = j
        /\ call[p][i].at = "join" => room[p][i] = "none" /\ roomRef[p] = i /\ heard[p][i]
        /\ call[p][i].at \in {"none", "token"} => room[p][i] = "none" /\ roomRef[p] # i
        /\ call[p][i].at \in {"token", "join"} => view[p].open /\ entry[p].consented /\ ~view[p].outcome
\* Who cancelled did not consent before.
CancelInv == \A p \in Pages : entry[p].cancelled => ~entry[p].consented
Troubled == Went({"join", "register"})
LinkInv == CancelInv /\ (Troubled \/ CallInv)

\* Nothing that happened is undone.
LEMMA MishapsGrow ==
  ASSUME TypeInv, [Next]_vars
  PROVE  mishaps \subseteq mishaps'
<1>1. ASSUME NEW m, NEW S, Mishap(m, S)
      PROVE  mishaps \subseteq mishaps'
  BY <1>1 DEF Mishap
<1>2. CASE \E p \in Pages : Connecting(p)
  BY <1>2 DEF Connecting, Connect, Token, Join, Register, Hello, JoinCut, Closed, Left
<1>3. CASE \E p \in Pages : Failing(p)
  BY <1>1, <1>3 DEF Failing, TokenFails, JoinFails, RegisterFails, Drop
<1>4. CASE \E p \in Pages : Entering(p)
  BY <1>4 DEF Entering, Enter, LearnThreshold, MeasureLatency, NoSample, Measured, Continue, Agree, Decline, Deadline
<1>5. CASE \E p \in Pages : Receiving(p) \/ Serving(p)
  BY <1>1, <1>5 DEF Receiving, Deliver, Navigate, Serving, HandleReport, Interrupt, RemoveFromRoom, RemoveInterrupted, RemoveCompleted, RemoveKicked
<1>6. CASE \E p \in Pages : Ending(p)
  BY <1>1, <1>6 DEF Ending, Unload, Reopen, Inactive, Kick
<1>7. CASE Others
  BY <1>1, <1>7 DEF Others, Begin, SetControl, OperatorSets, AdminReceives, AdminRenders, CompleteSession, Absence, Interrupt, CleanUp
<1>8. CASE UNCHANGED vars
  BY <1>8 DEF vars
<1> QED
  BY <1>2, <1>3, <1>4, <1>5, <1>6, <1>7, <1>8 DEF Next, Others

\* At the start no call was made.
LEMMA InitLink == Init => LinkInv
<1> SUFFICES ASSUME Init PROVE LinkInv
  OBVIOUS
<1>1. CancelInv
  BY DEF Init, CancelInv, NewEntry
<1>2. \A p \in Pages : 0 \notin Calls(p)
  BY PageAssumption DEF Calls
<1>3. \A p \in Pages : \A i \in Calls(p) :
         call[p][i].at = "none" /\ room[p][i] = "none" /\ inbox[p][i] = <<>> /\ roomRef[p] # i
  BY <1>2 DEF Init
<1>4. CallInv
  BY <1>3 DEF CallInv, Live, Under
<1> QED
  BY <1>1, <1>4 DEF LinkInv

\* The end of the connection leaves the page disconnected.
LEMMA EndedLink ==
  ASSUME TypeInv, CallInv, NEW p \in Pages, NEW i \in Calls(p), Live(p, i), Ended(p, i),
         UNCHANGED <<entry, view, call, roomRef, heard>>
  PROVE  CallInv'
<1>1. LinkType
  BY TypesByPart
<1>2. \A q \in Pages : \A j \in Calls(q) : room'[q][j] = IF q = p /\ j = i THEN "out" ELSE room[q][j]
  BY <1>1, RoomMoves DEF Ended, LinkType
<1>3. \A q \in Pages : \A j \in Calls(q) : inbox'[q][j] = IF q = p /\ j = i THEN <<>> ELSE inbox[q][j]
  BY <1>1, InboxMoves, <<>> \in Seq(Messages) DEF Ended, LinkType
<1>4. heard[p][i]
  BY DEF CallInv
<1>5. \A q \in Pages : conn'[q] = IF q = p THEN "disconnected" ELSE conn[q]
  BY <1>1, <1>4 DEF Ended, LinkType, ConnTyped
<1> QED
  BY <1>2, <1>3, <1>5 DEF CallInv, Live, Under

\* A step of connect() keeps the one connection.
LEMMA ConnectingLink ==
  ASSUME TypeInv, CallInv, NEW p \in Pages, Connecting(p)
  PROVE  CallInv'
<1>1. CallTyped /\ RoomTyped /\ HeardTyped /\ InboxTyped /\ RefTyped /\ ConnTyped
  BY TypesByPart DEF LinkType
<1>2. CASE Connect(p)
  <2>1. PICK i \in Calls(p) : call[p][i].at = "none" /\ Goto(p, i, "token")
    BY <1>2 DEF Connect
  <2>2. \A q \in Pages : \A j \in Calls(q) :
           call'[q][j].at = IF q = p /\ j = i THEN "token" ELSE call[q][j].at
    BY <1>1, <2>1, GotoMoves DEF Awaits
  <2>3. conn[p] = "disconnected" /\ view[p].open /\ entry[p].consented /\ ~view[p].outcome
    BY <1>2 DEF Connect, MayConnect
  <2>4. \A q \in Pages : conn'[q] = IF q = p THEN "connecting" ELSE conn[q]
    BY <1>1, <1>2 DEF Connect, ConnTyped
  <2>5. UNCHANGED <<entry, view, roomRef, room, heard, inbox>>
    BY <1>2 DEF Connect, pageVars
  <2> QED
    BY <2>1, <2>2, <2>3, <2>4, <2>5 DEF CallInv, Live, Under
<1>3. ASSUME NEW i \in Calls(p), Token(p, i)
      PROVE  CallInv'
  <2>1. \A q \in Pages : \A j \in Calls(q) :
           call'[q][j].at = IF q = p /\ j = i THEN "join" ELSE call[q][j].at
    BY <1>1, <1>3, GotoMoves DEF Token, Awaits
  <2>2. heard'[p][i] /\ \A q \in Pages : \A j \in Calls(q) : heard[q][j] => heard'[q][j]
    <3>1. heard' = [heard EXCEPT ![p][i] = TRUE]
      BY <1>3 DEF Token
    <3>2. \A q \in Pages : \A j \in Calls(q) : heard'[q][j] = IF q = p /\ j = i THEN TRUE ELSE heard[q][j]
      BY <1>1, <3>1, HeardMoves
    <3> QED
      BY <3>2
  <2>3. \A q \in Pages : roomRef'[q] = IF q = p THEN i ELSE roomRef[q]
    BY <1>1, <1>3 DEF Token, RefTyped
  <2>4. call[p][i].at = "token" /\ UNCHANGED <<entry, view, conn, room, inbox>>
    BY <1>3 DEF Token, At, pageVars
  <2>5. \A j \in Calls(p) : ~Live(p, j) /\ (j # i => ~Under(p, j))
    BY <2>4 DEF CallInv, Live, Under
  <2>6. /\ room[p][i] = "none" /\ inbox[p][i] = <<>> /\ view[p].open /\ entry[p].consented /\ ~view[p].outcome
        /\ conn[p] = "connecting" /\ \A j \in Calls(p) : inbox[p][j] = <<>>
    BY <2>4, <2>5 DEF CallInv, Live, Under
  <2> QED
    BY <2>1, <2>2, <2>3, <2>4, <2>5, <2>6 DEF CallInv, Live, Under
<1>4. ASSUME NEW i \in Calls(p), Join(p, i)
      PROVE  CallInv'
  <2>1. \A q \in Pages : \A j \in Calls(q) :
           call'[q][j].at = IF q = p /\ j = i THEN "register" ELSE call[q][j].at
    BY <1>1, <1>4, GotoMoves DEF Join, Awaits
  <2>2. \A q \in Pages : \A j \in Calls(q) :
           room'[q][j] = IF q = p THEN IF j = i THEN "in" ELSE IF room[q][j] = "in" THEN "removed" ELSE room[q][j]
                         ELSE room[q][j]
    BY <1>1, <1>4 DEF Join, Displacing, RoomTyped
  <2>3. \A q \in Pages : conn'[q] = IF q = p THEN "connected" ELSE conn[q]
    BY <1>1, <1>4 DEF Join, ConnTyped
  <2>4. call[p][i].at = "join" /\ UNCHANGED <<entry, view, roomRef, heard, inbox>>
    BY <1>4 DEF Join, At, pageVars
  <2> QED
    BY <2>1, <2>2, <2>3, <2>4 DEF CallInv, Live, Under
<1>5. ASSUME NEW i \in Calls(p), Register(p, i) \/ Hello(p, i)
      PROVE  CallInv'
  <2>1. PICK at \in {"hello", "over"} : Goto(p, i, at)
    BY <1>5 DEF Register, Hello
  <2>2. \A q \in Pages : \A j \in Calls(q) :
           call'[q][j].at = IF q = p /\ j = i THEN at ELSE call[q][j].at
    BY <1>1, <2>1, GotoMoves DEF Awaits
  <2>3. UNCHANGED <<entry, view, conn, roomRef, room, heard, inbox>>
    BY <1>5 DEF Register, Hello, pageVars
  <2> QED
    BY <2>2, <2>3 DEF CallInv, Live, Under
<1>6. ASSUME NEW i \in Calls(p), JoinCut(p, i)
      PROVE  FALSE
  BY <1>6 DEF JoinCut, At, CallInv
<1>7. ASSUME NEW i \in Calls(p), Closed(p, i)
      PROVE  CallInv'
  <2>1. \A q \in Pages : \A j \in Calls(q) :
           call'[q][j].at = IF q = p /\ j = i THEN "over" ELSE call[q][j].at
    <3> DEFINE r == [at |-> "over", closes |-> 0]
    <3>1. call' = [call EXCEPT ![p] = [call[p] EXCEPT ![i] = r]]
      BY <1>7 DEF Closed
    <3>2. r.at = "over"
      OBVIOUS
    <3> HIDE DEF r
    <3> QED
      BY <1>1, <3>1, <3>2 DEF CallTyped, CallType
  <2>2. \A q \in Pages : conn'[q] = IF q = p THEN "disconnected" ELSE conn[q]
    BY <1>1, <1>7 DEF Closed, ConnTyped
  <2>3. \A q \in Pages : roomRef'[q] = IF q = p THEN 0 ELSE roomRef[q]
    BY <1>1, <1>7 DEF Closed, RefTyped
  <2>4. call[p][i].at = "closing" /\ UNCHANGED <<entry, view, room, heard, inbox>>
    BY <1>7 DEF Closed, At, pageVars
  <2>5. 0 \notin Calls(p)
    BY PageAssumption DEF Calls
  <2> QED
    BY <2>1, <2>2, <2>3, <2>4, <2>5 DEF CallInv, Live, Under
<1>8. ASSUME NEW i \in Calls(p), Left(p, i)
      PROVE  CallInv'
  BY <1>8, EndedLink DEF Left, Live, pageVars
<1> QED
  BY <1>2, <1>3, <1>4, <1>5, <1>6, <1>7, <1>8 DEF Connecting

\* A page that is gone has no connection.
LEMMA GoneLink ==
  ASSUME TypeInv, CallInv, NEW p \in Pages, Gone(p)
  PROVE  CallInv'
<1>1. CallTyped /\ RoomTyped /\ HeardTyped /\ InboxTyped /\ RefTyped /\ ConnTyped /\ view \in [Pages -> ViewType]
  BY TypesByPart DEF LinkType, PageTyped
<1>2. \A i \in Calls(p) :
        /\ call'[p][i].at \in {"none", "over"} /\ (call'[p][i].at = "none" => call[p][i].at = "none")
        /\ room'[p][i] \in {"none", "out"} /\ (room[p][i] = "none" => room'[p][i] = "none")
        /\ inbox'[p][i] = <<>>
  BY <1>1 DEF Gone, CallTyped, CallType, RoomTyped, InboxTyped
<1>3. roomRef'[p] \notin Calls(p)
  BY <1>1, PageAssumption DEF Gone, RefTyped, Calls
<1>4. \A q \in Pages : q # p => /\ call'[q] = call[q] /\ room'[q] = room[q] /\ inbox'[q] = inbox[q] /\ heard'[q] = heard[q]
                                /\ conn'[q] = conn[q] /\ roomRef'[q] = roomRef[q] /\ view'[q] = view[q]
  BY <1>1 DEF Gone, See, CallTyped, RoomTyped, InboxTyped, HeardTyped, RefTyped, ConnTyped
<1>5. entry' = entry
  BY DEF Gone
<1> QED
  BY <1>2, <1>3, <1>4, <1>5 DEF CallInv, Live, Under

\* A message over the room reaches those only who are in it.
LEMMA ReceivedLink ==
  ASSUME TypeInv, CallInv, NEW S, NEW message, inbox' = Received(S, message),
         UNCHANGED <<entry, view, conn, roomRef, call, room, heard>>
  PROVE  CallInv'
<1>1. \A p \in Pages : \A i \in Calls(p) : inbox'[p][i] # <<>> => inbox[p][i] # <<>> \/ room[p][i] = "in"
  BY DEF Received
<1> QED
  BY <1>1 DEF CallInv, Live, Under

\* A failure other than of a connection or a registration keeps it, too.
LEMMA FailingLink ==
  ASSUME TypeInv, CallInv, NEW p \in Pages, Failing(p)
  PROVE  Troubled' \/ CallInv'
<1>1. CallTyped /\ RoomTyped /\ HeardTyped /\ InboxTyped /\ RefTyped /\ ConnTyped
  BY TypesByPart DEF LinkType
<1>2. PICK i \in Calls(p) : TokenFails(p, i) \/ JoinFails(p, i) \/ RegisterFails(p, i) \/ Drop(p, i)
  BY DEF Failing
<1>3. CASE JoinFails(p, i) \/ RegisterFails(p, i)
  <2>1. "join" \in mishaps' \/ "register" \in mishaps'
    BY <1>3 DEF JoinFails, RegisterFails, Mishap
  <2> QED
    BY <2>1 DEF Troubled, Went
<1>4. CASE Drop(p, i)
  BY <1>4, EndedLink DEF Drop, Live, pageVars
<1>5. CASE TokenFails(p, i)
  <2> DEFINE r == roomRef[p]
  <2>1. call[p][i].at = "token" /\ Catch(p, i, conn[p])
    BY <1>5 DEF TokenFails, At
  <2>2. /\ \A j \in Calls(p) : ~Live(p, j) /\ (j # i => ~Under(p, j)) /\ inbox[p][j] = <<>>
        /\ conn[p] = "connecting" /\ r # i
    BY <2>1 DEF CallInv, Live, Under
  <2>3. UNCHANGED <<entry, view, roomRef>>
    BY <2>1 DEF Catch, pageVars
  <2>4. CASE r = 0
    <3>1. \A q \in Pages : \A j \in Calls(q) :
             call'[q][j].at = IF q = p /\ j = i THEN "over" ELSE call[q][j].at
      <4>1. Goto(p, i, "over")
        BY <2>1, <2>4 DEF Catch
      <4> QED
        BY <1>1, <4>1, GotoMoves DEF Awaits
    <3>2. \A q \in Pages : conn'[q] = IF q = p THEN "disconnected" ELSE conn[q]
      BY <1>1, <2>1, <2>4 DEF Catch, ConnTyped
    <3>3. UNCHANGED <<room, heard, inbox>>
      BY <2>1, <2>4 DEF Catch
    <3>4. 0 \notin Calls(p)
      BY PageAssumption DEF Calls
    <3> QED
      BY <2>2, <2>3, <2>4, <3>1, <3>2, <3>3, <3>4 DEF CallInv, Live, Under
  <2>5. CASE r # 0
    <3>1. r \in Calls(p)
      BY <1>1, <2>5, PageAssumption DEF RefTyped, Calls
    <3>2. \A q \in Pages : \A j \in Calls(q) :
             call'[q][j].at = IF q = p /\ j = i THEN "closing" ELSE call[q][j].at
      <4> DEFINE new == [at |-> "closing", closes |-> r]
      <4>1. call' = [call EXCEPT ![p] = [call[p] EXCEPT ![i] = new]]
        BY <2>1, <2>5 DEF Catch
      <4>2. new.at = "closing"
        OBVIOUS
      <4> HIDE DEF new
      <4> QED
        BY <1>1, <4>1, <4>2 DEF CallTyped, CallType
    <3>3. \A q \in Pages : \A j \in Calls(q) : room'[q][j] = IF q = p /\ j = r THEN "out" ELSE room[q][j]
      BY <1>1, <2>1, <2>5, <3>1, RoomMoves DEF Catch
    <3>4. \A q \in Pages : \A j \in Calls(q) : q # p \/ j # r => inbox'[q][j] = inbox[q][j] /\ heard'[q][j] = heard[q][j]
      BY <1>1, <2>1, <2>5, <3>1 DEF Catch, InboxTyped, HeardTyped
    <3>5. \A j \in Calls(p) : inbox'[p][j] = <<>>
      BY <1>1, <2>1, <2>2, <2>5, <3>1 DEF Catch, InboxTyped
    <3>6. conn' = conn
      BY <1>1, <2>1, <2>5 DEF Catch, ConnTyped
    <3>7. \A j \in Calls(p) : call'[p][j].at # "join"
      BY <2>2, <3>2 DEF Under
    <3>8. call[p][r].at \notin {"none", "token"}
      BY <3>1 DEF CallInv
    <3>9. \A q \in Pages : \A j \in Calls(q) : q # p =>
             /\ call'[q][j].at = call[q][j].at /\ room'[q][j] = room[q][j]
             /\ inbox'[q][j] = inbox[q][j] /\ heard'[q][j] = heard[q][j]
      BY <3>2, <3>3, <3>4
    <3> QED
      BY <2>1, <2>2, <2>3, <3>2, <3>3, <3>5, <3>6, <3>7, <3>8, <3>9 DEF CallInv, Live, Under
  <2> QED
    BY <2>4, <2>5
<1> QED
  BY <1>2, <1>3, <1>4, <1>5

\* What a page does before the room: a consent is given once, and not after a
\* cancellation.
LEMMA EnteringLink ==
  ASSUME TypeInv, CancelInv, NEW p \in Pages, Entering(p)
  PROVE  CancelInv' /\ (CallInv => CallInv')
<1>1. entry \in [Pages -> EntryType]
  BY TypesByPart DEF PageTyped
<1>2. UNCHANGED <<view, conn, roomRef, call, room, heard, inbox>>
  BY DEF Entering, LearnThreshold, MeasureLatency, NoSample, Measured, Continue, Agree, Decline, Deadline, Enter, linkVars
<1>3. \A q \in Pages : entry[q].consented => entry'[q].consented
  BY <1>1 DEF Entering, LearnThreshold, MeasureLatency, NoSample, Measured, Continue, Agree, Decline, Deadline, Enter, EntryType
<1>4. CallInv => CallInv'
  BY <1>2, <1>3 DEF CallInv, Live, Under
<1>5. CancelInv'
  <2>1. \A q \in Pages : q # p => entry'[q] = entry[q]
    BY <1>1 DEF Entering, LearnThreshold, MeasureLatency, NoSample, Measured, Continue, Agree, Decline, Deadline, Enter
  <2>2. CASE Agree(p)
    <3>1. ~entry'[p].cancelled
      BY <1>1, <2>2 DEF Agree, Enter, EntryType, AtConsent
    <3> QED
      BY <2>1, <3>1 DEF CancelInv
  <2>3. CASE Decline(p) \/ Deadline(p)
    <3>1. ~entry'[p].consented
      BY <1>1, <2>3 DEF Decline, Deadline, Enter, EntryType, AtConsent
    <3> QED
      BY <2>1, <3>1 DEF CancelInv
  <2>4. CASE LearnThreshold(p) \/ MeasureLatency(p) \/ NoSample(p) \/ Measured(p) \/ Continue(p)
    <3>1. entry'[p].consented = entry[p].consented /\ entry'[p].cancelled = entry[p].cancelled
      BY <1>1, <2>4 DEF LearnThreshold, MeasureLatency, NoSample, Measured, Continue, Enter, EntryType
    <3> QED
      BY <2>1, <3>1 DEF CancelInv
  <2> QED
    BY <2>2, <2>3, <2>4 DEF Entering
<1> QED
  BY <1>4, <1>5

\* A message that arrives, and the way out.
LEMMA ReceivingLink ==
  ASSUME TypeInv, CallInv, NEW p \in Pages, Receiving(p)
  PROVE  CallInv'
<1>1. CallTyped /\ RoomTyped /\ HeardTyped /\ InboxTyped /\ RefTyped /\ ConnTyped /\ view \in [Pages -> ViewType]
  BY TypesByPart DEF LinkType, PageTyped
<1>2. ASSUME NEW i \in Calls(p), Deliver(p, i)
      PROVE  CallInv'
  <2> DEFINE message == Head(inbox[p][i])
  <2>1. inbox[p][i] # <<>> /\ UNCHANGED <<entry, roomRef, call, heard>>
    BY <1>2 DEF Deliver
  <2>2. /\ Live(p, i) /\ conn[p] = "connected" /\ roomRef[p] = i
        /\ \A j \in Calls(p) : ~Under(p, j) /\ (Live(p, j) => i = j)
        /\ \A j \in Calls(p) : j # i => inbox[p][j] = <<>>
    BY <2>1 DEF CallInv, Live, Under
  <2>3. \A q \in Pages : (q # p => view'[q] = view[q]) /\ view'[q].open = view[q].open
    BY <1>1, <1>2 DEF Deliver, Finish, Handle, See, ViewType
  <2>4. CASE message.type = "complete"
    <3>1. Finish(p, i)
      BY <1>2, <2>4 DEF Deliver
    <3>2. \A q \in Pages : \A j \in Calls(q) : room'[q][j] = IF q = p /\ j = i THEN "out" ELSE room[q][j]
      BY <1>1, <2>2, <3>1 DEF Finish, RoomTyped
    <3>3. \A q \in Pages : \A j \in Calls(q) : inbox'[q][j] = IF q = p /\ j = i THEN <<>> ELSE inbox[q][j]
      BY <1>1, <2>2, <3>1 DEF Finish, InboxTyped
    <3>4. 0 \notin Calls(p)
      BY PageAssumption DEF Calls
    <3>5. \A q \in Pages : conn'[q] = IF q = p THEN "disconnected" ELSE conn[q]
      BY <1>1, <2>2, <3>1, <3>4 DEF Finish, ConnTyped
    <3> QED
      BY <2>1, <2>2, <2>3, <3>2, <3>3, <3>5 DEF CallInv, Live, Under
  <2>5. CASE message.type # "complete"
    <3>1. inbox' = [inbox EXCEPT ![p][i] = Tail(inbox[p][i])] /\ UNCHANGED <<conn, room>>
      BY <1>1, <1>2, <2>5 DEF Deliver, InboxTyped
    <3>2. \A q \in Pages : \A j \in Calls(q) : q # p \/ j # i => inbox'[q][j] = inbox[q][j]
      BY <1>1, <3>1 DEF InboxTyped
    <3> QED
      BY <2>1, <2>2, <2>3, <3>1, <3>2 DEF CallInv, Live, Under
  <2> QED
    BY <2>4, <2>5
<1>3. CASE Navigate(p)
  BY <1>3, GoneLink DEF Navigate
<1> QED
  BY <1>2, <1>3 DEF Receiving

\* How a page ends, and begins again.
LEMMA EndingLink ==
  ASSUME TypeInv, CancelInv, NEW p \in Pages, Ending(p)
  PROVE  CancelInv' /\ (CallInv => CallInv')
<1>1. CallTyped /\ RoomTyped /\ HeardTyped /\ InboxTyped /\ RefTyped /\ ConnTyped /\ ShownTyped
      /\ view \in [Pages -> ViewType] /\ entry \in [Pages -> EntryType]
  BY TypesByPart DEF LinkType, PageTyped
<1>2. CASE Unload(p)
  BY <1>2, GoneLink DEF Unload, Gone, CancelInv
<1>3. CASE Reopen(p)
  <2>1. ~view[p].open /\ UNCHANGED <<conn, roomRef, call, room, heard, inbox>>
    BY <1>3 DEF Reopen
  <2>2. \A q \in Pages : q # p => entry'[q] = entry[q] /\ view'[q] = view[q]
    BY <1>1, <1>3 DEF Reopen, See
  <2>3. ~entry'[p].cancelled
    BY <1>1, <1>3 DEF Reopen, NewEntry
  <2> QED
    BY <2>1, <2>2, <2>3 DEF CallInv, CancelInv, Live, Under
<1>4. CASE Inactive(p)
  <2>1. UNCHANGED <<entry, conn, roomRef, call, room, heard, inbox>>
    BY <1>4 DEF Inactive, linkVars
  <2>2. \A q \in Pages : view'[q].open = view[q].open /\ view'[q].outcome = view[q].outcome
    BY <1>1, <1>4 DEF Inactive, See, ViewType
  <2> QED
    BY <2>1, <2>2 DEF CallInv, CancelInv, Live, Under
<1>5. CASE Kick(p)
  <2>1. UNCHANGED <<entry, view, conn, roomRef, call, room, heard>>
    BY <1>5 DEF Kick, pageVars
  <2>2. CallInv => CallInv'
    BY <1>5, <2>1, ReceivedLink DEF Kick
  <2> QED
    BY <2>1, <2>2 DEF CancelInv
<1> QED
  BY <1>2, <1>3, <1>4, <1>5 DEF Ending

\* What the server removes it does not return, and what the others send they
\* send to those who are there.
LEMMA ServerLink ==
  ASSUME TypeInv, CallInv, Others \/ \E p \in Pages : Serving(p)
  PROVE  CallInv'
<1>1. InboxTyped /\ RoomTyped
  BY TypesByPart DEF LinkType
<1>2. UNCHANGED <<entry, view, conn, roomRef, call, heard>>
  BY DEF Others, Begin, SetControl, OperatorSets, AdminReceives, AdminRenders, CompleteSession, Absence, Interrupt, CleanUp,
         Serving, HandleReport, RemoveFromRoom, RemoveInterrupted, RemoveCompleted, RemoveKicked, pageVars, linkVars
<1>3. CASE room' = room /\ inbox' = inbox
  BY <1>2, <1>3 DEF CallInv, Live, Under
<1>4. CASE room' = room /\ \E S, message : inbox' = Received(S, message)
  BY <1>2, <1>4, ReceivedLink
<1>5. CASE inbox' = inbox /\ \E S : Removed(S)
  <2>1. \A p \in Pages : \A i \in Calls(p) : Live(p, i)' <=> Live(p, i)
    BY <1>1, <1>5 DEF Removed, Live
  <2>2. \A p \in Pages : \A i \in Calls(p) : room[p][i] = "none" => room'[p][i] = "none"
    BY <1>1, <1>5 DEF Removed
  <2> QED
    BY <1>2, <1>5, <2>1, <2>2 DEF CallInv, Under
<1>6. \/ room' = room /\ inbox' = inbox
      \/ room' = room /\ \E S, message : inbox' = Received(S, message)
      \/ inbox' = inbox /\ \E S : Removed(S)
  BY DEF Others, Begin, SetControl, OperatorSets, AdminReceives, AdminRenders, CompleteSession, Absence, Interrupt, CleanUp,
         Serving, HandleReport, RemoveFromRoom, RemoveInterrupted, RemoveCompleted, RemoveKicked, linkVars
<1> QED
  BY <1>3, <1>4, <1>5, <1>6

\* The one connection is kept, as long as no connection or registration failed.
LEMMA LinkStep == TypeInv /\ LinkInv /\ [Next]_vars => LinkInv'
<1> SUFFICES ASSUME TypeInv, LinkInv, [Next]_vars PROVE LinkInv'
  OBVIOUS
<1>1. Troubled => Troubled'
  BY MishapsGrow DEF Troubled, Went
<1>2. CASE \E p \in Pages : Connecting(p) \/ Failing(p) \/ Receiving(p)
  <2>1. entry' = entry
    BY <1>2 DEF Connecting, Connect, Token, Join, Register, Hello, JoinCut, Catch, Closed, Left, Failing, TokenFails, JoinFails,
                RegisterFails, Drop, Receiving, Deliver, Navigate, Gone, pageVars
  <2>2. CancelInv'
    BY <2>1 DEF LinkInv, CancelInv
  <2> QED
    BY <1>1, <1>2, <2>2, ConnectingLink, FailingLink, ReceivingLink DEF LinkInv
<1>3. CASE \E p \in Pages : Entering(p) \/ Ending(p)
  BY <1>1, <1>3, EnteringLink, EndingLink DEF LinkInv
<1>4. CASE Others \/ \E p \in Pages : Serving(p)
  <2>1. entry' = entry
    BY <1>4 DEF Others, Begin, SetControl, OperatorSets, AdminReceives, AdminRenders, CompleteSession, Absence, Interrupt, CleanUp,
         Serving, HandleReport, RemoveFromRoom, RemoveInterrupted, RemoveCompleted, RemoveKicked, pageVars
  <2>2. CancelInv'
    BY <2>1 DEF LinkInv, CancelInv
  <2> QED
    BY <1>1, <1>4, <2>2, ServerLink DEF LinkInv
<1>5. CASE UNCHANGED vars
  BY <1>5 DEF vars, pageVars, linkVars, serverVars, LinkInv, CancelInv, Troubled, Went, CallInv, Live, Under
<1> QED
  BY <1>2, <1>3, <1>4, <1>5 DEF Next, Others

\* Neither a catch nor the end of a connection brings a page into the room.
LEMMA EndsEnterNobody ==
  ASSUME LinkType, NEW q \in Pages, NEW j \in Calls(q), (\E state : Catch(q, j, state)) \/ Ended(q, j)
  PROVE  \A p \in Pages : \A i \in Calls(p) : room'[p][i] = "in" => room[p][i] = "in"
<1>1. room' = room \/ \E r \in Calls(q) : room' = [room EXCEPT ![q][r] = "out"]
  <2>1. CASE \E state : Catch(q, j, state)
    BY <2>1, PageAssumption DEF LinkType, RefTyped, Catch, Calls
  <2>2. CASE Ended(q, j)
    BY <2>2 DEF Ended
  <2> QED
    BY <2>1, <2>2
<1>2. ASSUME NEW r \in Calls(q), room' = [room EXCEPT ![q][r] = "out"]
      PROVE  \A p \in Pages : \A i \in Calls(p) : room'[p][i] = "in" => room[p][i] = "in"
  <2>1. \A p \in Pages : \A i \in Calls(p) : room'[p][i] = IF p = q /\ i = r THEN "out" ELSE room[p][i]
    BY <1>2, RoomMoves DEF LinkType
  <2> QED
    BY <2>1
<1> QED
  BY <1>1, <1>2

\* Only connect() brings a page into the room.
LEMMA OnlyJoinEnters ==
  ASSUME TypeInv, [Next]_vars, NEW p \in Pages, NEW i \in Calls(p), room'[p][i] = "in", room[p][i] # "in"
  PROVE  \E j \in Calls(p) : Join(p, j)
<1>1. LinkType /\ RoomTyped
  BY TypesByPart DEF LinkType
<1>2. ASSUME NEW q \in Pages, Connecting(q)
      PROVE  \E j \in Calls(p) : Join(p, j)
  <2>1. CASE \E j \in Calls(q) : Join(q, j)
    BY <1>1, <2>1 DEF Join, RoomTyped
  <2>2. CASE \E j \in Calls(q) : JoinCut(q, j) \/ Left(q, j)
    BY <1>1, <2>2, EndsEnterNobody DEF JoinCut, Left
  <2>3. CASE Connect(q) \/ \E j \in Calls(q) : Token(q, j) \/ Register(q, j) \/ Hello(q, j) \/ Closed(q, j)
    BY <2>3 DEF Connect, Token, Register, Hello, Closed
  <2> QED
    BY <1>2, <2>1, <2>2, <2>3 DEF Connecting
<1>3. ASSUME NEW q \in Pages, Failing(q)
      PROVE  FALSE
  BY <1>1, <1>3, EndsEnterNobody DEF Failing, TokenFails, JoinFails, RegisterFails, Drop
<1>4. ASSUME NEW q \in Pages, Entering(q) \/ Ending(q)
      PROVE  FALSE
  <2>1. CASE Unload(q)
    BY <1>1, <2>1 DEF Unload, Gone, RoomTyped
  <2>2. CASE Entering(q) \/ Reopen(q) \/ Inactive(q) \/ Kick(q)
    BY <2>2 DEF Entering, Enter, LearnThreshold, MeasureLatency, NoSample, Measured, Continue, Agree, Decline, Deadline, linkVars,
                Reopen, Inactive, Kick
  <2> QED
    BY <1>4, <2>1, <2>2 DEF Ending
<1>5. ASSUME NEW q \in Pages, Receiving(q)
      PROVE  FALSE
  BY <1>1, <1>5 DEF Receiving, Deliver, Finish, Navigate, Gone, RoomTyped
<1>6. ASSUME Others \/ \E q \in Pages : Serving(q)
      PROVE  FALSE
  BY <1>1, <1>6 DEF Others, Begin, SetControl, OperatorSets, AdminReceives, AdminRenders, CompleteSession, Absence, Interrupt, CleanUp,
         Serving, HandleReport, RemoveFromRoom, RemoveInterrupted, RemoveCompleted, RemoveKicked, linkVars, Removed, RoomTyped
<1>7. ASSUME UNCHANGED vars
      PROVE  FALSE
  BY <1>7 DEF vars, linkVars
<1> QED
  BY <1>2, <1>3, <1>4, <1>5, <1>6, <1>7 DEF Next, Others

\* As long as no connection or registration failed, a page that told its
\* participant that it is over makes no connection any more, also not by a call
\* that was under way (App.tsx: the effect that connects, connect(),
\* handleBroadcastMessage()).
THEOREM EndedForGood == Spec => EndedStaysOut
<1> DEFINE Out == \A p \in Pages : entry[p].cancelled \/ view[p].outcome \/ ~view[p].open =>
                    \A i \in Calls(p) : room'[p][i] = "in" => room[p][i] = "in" \/ Went({"join", "register"})
<1>1. Init => TypeInv /\ LinkInv
  BY InitTypes, InitLink
<1>2. TypeInv /\ LinkInv /\ [Next]_vars => TypeInv' /\ LinkInv'
  BY TypeStep, LinkStep
<1>3. TypeInv /\ LinkInv /\ [Next]_vars => Out
  <2> SUFFICES ASSUME TypeInv, LinkInv, [Next]_vars, NEW p \in Pages, entry[p].cancelled \/ view[p].outcome \/ ~view[p].open,
                      NEW i \in Calls(p), room'[p][i] = "in", room[p][i] # "in"
               PROVE  Went({"join", "register"})
    OBVIOUS
  <2>1. PICK j \in Calls(p) : Join(p, j)
    BY OnlyJoinEnters
  <2>2. call[p][j].at = "join"
    BY <2>1 DEF Join, At
  <2> QED
    BY <2>2 DEF LinkInv, CancelInv, CallInv, Troubled
<1>4. (TypeInv /\ LinkInv) /\ [Next]_vars => [Out]_vars
  BY <1>3
<1> QED
  BY <1>1, <1>2, <1>4, PTL DEF Spec, EndedStaysOut

-----------------------------------------------------------------------------
(* What a newcomer shows                                                   *)

Shows(m) == m.type \in {"set", "state"}
\* A page that shows v and has s on its way will show n or something newer.
WillShow(s, v, n) ==
    /\ n <= v \/ \E l \in DOMAIN s : Shows(s[l]) /\ n <= s[l].value
    /\ \A k \in DOMAIN s : Shows(s[k]) /\ s[k].value < n
         => \E l \in DOMAIN s : k < l /\ Shows(s[l]) /\ n <= s[l].value
\* An admin's page that shows x and has s on its way will answer a hello with n
\* or something newer.
WillAnswer(s, x, n) ==
    \E k \in DOMAIN s :
        /\ s[k].type = "hello"
        /\ n <= x \/ \E l \in 1 .. k : s[l].type = "set" /\ n <= s[l].value
\* The settings on their way to the admin's page come in order, up to the last.
InOrder(s, x, last) ==
    /\ x <= last
    /\ \A k \in DOMAIN s :
         /\ s[k].type \in {"set", "hello"}
         /\ s[k].type = "set" => x <= s[k].value /\ s[k].value <= last
    /\ \A k, l \in DOMAIN s : k < l /\ s[k].type = "set" /\ s[l].type = "set" => s[k].value <= s[l].value
    /\ x = last \/ \E k \in DOMAIN s : s[k].type = "set" /\ s[k].value = last

\* The elements of a longer sequence.
LEMMA AppendElements ==
  ASSUME NEW s \in Seq(Messages), NEW m \in Messages
  PROVE  /\ Append(s, m) \in Seq(Messages) /\ Len(s) \in Nat
         /\ DOMAIN s = 1 .. Len(s) /\ DOMAIN Append(s, m) = 1 .. Len(s) + 1
         /\ \A k \in 1 .. Len(s) : Append(s, m)[k] = s[k] /\ s[k] \in Messages /\ s[k].value \in Nat
         /\ Append(s, m)[Len(s) + 1] = m /\ m.value \in Nat
<1>1. Len(s) \in Nat /\ DOMAIN s = 1 .. Len(s)
  BY LenProperties
<1>2. Append(s, m) \in Seq(Messages) /\ DOMAIN Append(s, m) = 1 .. Len(s) + 1
      /\ \A k \in 1 .. Len(s) : Append(s, m)[k] = s[k]
      /\ Append(s, m)[Len(s) + 1] = m
  BY <1>1, AppendProperties, LenProperties
<1>3. \A k \in 1 .. Len(s) : s[k] \in Messages
  BY ElementOfSeq
<1>4. \A x \in Messages : x.value \in Nat
  BY PageAssumption DEF Messages
<1> QED
  BY <1>1, <1>2, <1>3, <1>4

\* The elements of a sequence without its first.
LEMMA TailElements ==
  ASSUME NEW s \in Seq(Messages), s # <<>>
  PROVE  /\ Tail(s) \in Seq(Messages) /\ Len(s) \in Nat \ {0} /\ Head(s) = s[1]
         /\ DOMAIN s = 1 .. Len(s) /\ DOMAIN Tail(s) = 1 .. Len(s) - 1
         /\ \A k \in 1 .. Len(s) - 1 : Tail(s)[k] = s[k + 1]
         /\ \A k \in 1 .. Len(s) : s[k] \in Messages /\ s[k].value \in Nat
<1>1. Len(s) \in Nat \ {0} /\ DOMAIN s = 1 .. Len(s)
  BY EmptySeq, LenProperties
<1>2. Tail(s) \in Seq(Messages) /\ Len(Tail(s)) = Len(s) - 1 /\ Head(s) = s[1]
      /\ \A k \in 1 .. Len(s) - 1 : Tail(s)[k] = s[k + 1]
  BY <1>1, HeadTailProperties
<1>3. DOMAIN Tail(s) = 1 .. Len(s) - 1
  BY <1>2, LenProperties
<1>4. \A k \in 1 .. Len(s) : s[k] \in Messages
  BY ElementOfSeq
<1>5. \A x \in Messages : x.value \in Nat
  BY PageAssumption DEF Messages
<1> QED
  BY <1>1, <1>2, <1>3, <1>4, <1>5

\* A message that shows nothing older does not harm.
LEMMA WillShowMore ==
  ASSUME NEW s \in Seq(Messages), NEW m \in Messages, NEW v \in Nat, NEW n \in Nat,
         WillShow(s, v, n), Shows(m) => n <= m.value
  PROVE  WillShow(Append(s, m), v, n)
<1> DEFINE t == Append(s, m)
<1>1. /\ Len(s) \in Nat /\ DOMAIN s = 1 .. Len(s) /\ DOMAIN t = 1 .. Len(s) + 1
      /\ \A k \in 1 .. Len(s) : t[k] = s[k] /\ s[k].value \in Nat
      /\ t[Len(s) + 1] = m /\ m.value \in Nat
  BY AppendElements
<1> HIDE DEF t
<1> QED
  BY <1>1 DEF WillShow

\* A message that shows something new enough suffices.
LEMMA WillShowNew ==
  ASSUME NEW s \in Seq(Messages), NEW m \in Messages, NEW v \in Nat, NEW n \in Nat,
         Shows(m), n <= m.value
  PROVE  WillShow(Append(s, m), v, n)
<1> DEFINE t == Append(s, m)
<1>1. /\ Len(s) \in Nat /\ DOMAIN t = 1 .. Len(s) + 1
      /\ \A k \in 1 .. Len(s) : t[k] = s[k]
      /\ t[Len(s) + 1] = m /\ m.value \in Nat
  BY AppendElements
<1> HIDE DEF t
<1>2. Len(s) + 1 \in DOMAIN t /\ ~(m.value < n)
  BY <1>1
<1>3. \A k \in DOMAIN t : k # Len(s) + 1 => k < Len(s) + 1
  BY <1>1
<1> QED
  BY <1>1, <1>2, <1>3 DEF WillShow

\* What is delivered is shown.
LEMMA WillShowNext ==
  ASSUME NEW s \in Seq(Messages), s # <<>>, NEW v \in Nat, NEW n \in Nat, NEW w \in Nat,
         w = IF Shows(Head(s)) THEN Head(s).value ELSE v, WillShow(s, v, n)
  PROVE  WillShow(Tail(s), w, n)
<1> DEFINE t == Tail(s)
<1>1. /\ Len(s) \in Nat \ {0} /\ DOMAIN s = 1 .. Len(s) /\ DOMAIN t = 1 .. Len(s) - 1 /\ Head(s) = s[1]
      /\ \A k \in 1 .. Len(s) - 1 : t[k] = s[k + 1]
      /\ \A k \in 1 .. Len(s) : s[k].value \in Nat
  BY TailElements
<1> HIDE DEF t
<1>2. \A l \in DOMAIN s : l > 1 => l - 1 \in DOMAIN t /\ t[l - 1] = s[l]
  BY <1>1
<1>3. \A k \in DOMAIN t : k + 1 \in DOMAIN s /\ t[k] = s[k + 1]
  BY <1>1
<1>4. n <= w \/ \E l \in DOMAIN t : Shows(t[l]) /\ n <= t[l].value
  <2>1. CASE \E l \in DOMAIN s : 1 < l /\ Shows(s[l]) /\ n <= s[l].value
    BY <1>1, <1>2, <2>1
  <2>2. CASE ~\E l \in DOMAIN s : 1 < l /\ Shows(s[l]) /\ n <= s[l].value
    <3>1. 1 \in DOMAIN s /\ s[1].value \in Nat
      BY <1>1
    <3>2. ~(Shows(s[1]) /\ s[1].value < n)
      BY <2>2, <3>1 DEF WillShow
    <3>3. CASE Shows(s[1])
      BY <1>1, <3>1, <3>2, <3>3
    <3>4. CASE ~Shows(s[1])
      <4>1. ~\E l \in DOMAIN s : Shows(s[l]) /\ n <= s[l].value
        BY <1>1, <2>2, <3>4
      <4> QED
        BY <1>1, <3>4, <4>1 DEF WillShow
    <3> QED
      BY <3>3, <3>4
  <2> QED
    BY <2>1, <2>2
<1>5. ASSUME NEW k \in DOMAIN t, Shows(t[k]), t[k].value < n
      PROVE  \E l \in DOMAIN t : k < l /\ Shows(t[l]) /\ n <= t[l].value
  <2>1. PICK l \in DOMAIN s : k + 1 < l /\ Shows(s[l]) /\ n <= s[l].value
    BY <1>3, <1>5 DEF WillShow
  <2>2. k \in Int /\ l \in Int /\ l > 1 /\ k < l - 1
    BY <1>1, <2>1
  <2> QED
    BY <1>2, <2>1, <2>2
<1> QED
  BY <1>4, <1>5 DEF WillShow, t

\* More messages for the admin's page do not take an answer back.
LEMMA WillAnswerMore ==
  ASSUME NEW s \in Seq(Messages), NEW m \in Messages, NEW x \in Nat, NEW n \in Nat, WillAnswer(s, x, n)
  PROVE  WillAnswer(Append(s, m), x, n)
<1> DEFINE t == Append(s, m)
<1>1. /\ Len(s) \in Nat /\ DOMAIN s = 1 .. Len(s) /\ DOMAIN t = 1 .. Len(s) + 1
      /\ \A k \in 1 .. Len(s) : t[k] = s[k]
  BY AppendElements
<1> HIDE DEF t
<1> QED
  BY <1>1 DEF WillAnswer

\* A hello comes after every setting sent before it.
LEMMA WillAnswerHello ==
  ASSUME NEW s \in Seq(Messages), NEW m \in Messages, NEW x \in Nat, NEW n \in Nat, NEW last \in Nat,
         InOrder(s, x, last), n <= last, m.type = "hello"
  PROVE  WillAnswer(Append(s, m), x, n)
<1> DEFINE t == Append(s, m)
<1>1. /\ Len(s) \in Nat /\ DOMAIN s = 1 .. Len(s) /\ DOMAIN t = 1 .. Len(s) + 1
      /\ \A k \in 1 .. Len(s) : t[k] = s[k]
      /\ t[Len(s) + 1] = m
  BY AppendElements
<1> HIDE DEF t
<1>2. n <= x \/ \E l \in 1 .. Len(s) + 1 : t[l].type = "set" /\ n <= t[l].value
  BY <1>1 DEF InOrder
<1> QED
  BY <1>1, <1>2 DEF WillAnswer

\* The admin's page takes a message: a setting is adopted, another hello leaves
\* the answer on its way, and the hello in question is answered new enough.
LEMMA WillAnswerNext ==
  ASSUME NEW s \in Seq(Messages), s # <<>>, NEW x \in Nat, NEW n \in Nat, WillAnswer(s, x, n)
  PROVE  /\ s[1].type = "set" /\ x <= s[1].value => WillAnswer(Tail(s), s[1].value, n)
         /\ s[1].type = "hello" => WillAnswer(Tail(s), x, n) \/ n <= x
<1> DEFINE t == Tail(s)
<1>1. /\ Len(s) \in Nat \ {0} /\ DOMAIN s = 1 .. Len(s) /\ DOMAIN t = 1 .. Len(s) - 1
      /\ \A k \in 1 .. Len(s) - 1 : t[k] = s[k + 1]
      /\ s[1].value \in Nat
  BY TailElements
<1> HIDE DEF t
<1>2. PICK k \in DOMAIN s : s[k].type = "hello" /\ (n <= x \/ \E l \in 1 .. k : s[l].type = "set" /\ n <= s[l].value)
  BY DEF WillAnswer
<1>3. ASSUME n <= x, s[1].type = "set", x <= s[1].value
      PROVE  WillAnswer(t, s[1].value, n)
  <2>1. k # 1
    BY <1>2, <1>3
  <2>2. k - 1 \in DOMAIN t /\ t[k - 1] = s[k]
    BY <1>1, <2>1
  <2>3. n <= s[1].value
    BY <1>1, <1>3
  <2> QED
    BY <1>2, <2>2, <2>3 DEF WillAnswer
<1>4. ASSUME NEW l \in 1 .. k, s[l].type = "set", n <= s[l].value
      PROVE  /\ s[1].type = "set" => WillAnswer(t, s[1].value, n)
             /\ s[1].type = "hello" => WillAnswer(t, x, n)
  <2>1. k # l
    BY <1>2, <1>4
  <2>2. k - 1 \in DOMAIN t /\ t[k - 1] = s[k]
    BY <1>1, <1>4, <2>1
  <2>3. CASE l = 1
    BY <1>2, <1>4, <2>2, <2>3 DEF WillAnswer
  <2>4. CASE l # 1
    <3>1. l - 1 \in 1 .. k - 1 /\ t[l - 1] = s[l]
      BY <1>1, <1>4, <2>1, <2>4
    <3> QED
      BY <1>2, <1>4, <2>2, <3>1 DEF WillAnswer
  <2> QED
    BY <2>3, <2>4
<1> QED
  BY <1>2, <1>3, <1>4 DEF t

\* A new setting is the last one.
LEMMA InOrderSet ==
  ASSUME NEW s \in Seq(Messages), NEW m \in Messages, NEW x \in Nat, NEW last \in Nat,
         InOrder(s, x, last), m.type = "set", m.value = last + 1
  PROVE  InOrder(Append(s, m), x, last + 1)
<1> DEFINE t == Append(s, m)
<1>1. /\ Len(s) \in Nat /\ DOMAIN s = 1 .. Len(s) /\ DOMAIN t = 1 .. Len(s) + 1
      /\ \A k \in 1 .. Len(s) : t[k] = s[k] /\ s[k].value \in Nat
      /\ t[Len(s) + 1] = m
  BY AppendElements
<1> HIDE DEF t
<1>2. x <= last + 1 /\ \A k \in DOMAIN s : s[k].type = "set" => s[k].value <= last + 1
  BY <1>1 DEF InOrder
<1>3. \A k \in DOMAIN t : /\ t[k].type \in {"set", "hello"}
                          /\ t[k].type = "set" => x <= t[k].value /\ t[k].value <= last + 1
  BY <1>1, <1>2 DEF InOrder
<1>4. \A k, l \in DOMAIN t : k < l /\ t[k].type = "set" /\ t[l].type = "set" => t[k].value <= t[l].value
  <2> SUFFICES ASSUME NEW k \in DOMAIN t, NEW l \in DOMAIN t, k < l, t[k].type = "set", t[l].type = "set"
               PROVE  t[k].value <= t[l].value
    OBVIOUS
  <2>1. CASE l = Len(s) + 1
    BY <1>1, <1>3, <2>1
  <2>2. CASE l # Len(s) + 1
    <3>1. k \in DOMAIN s /\ l \in DOMAIN s /\ t[k] = s[k] /\ t[l] = s[l]
      BY <1>1, <2>2
    <3> QED
      BY <3>1 DEF InOrder
  <2> QED
    BY <2>1, <2>2
<1>5. Len(s) + 1 \in DOMAIN t
  BY <1>1
<1> QED
  BY <1>1, <1>2, <1>3, <1>4, <1>5 DEF InOrder

\* A hello is no setting.
LEMMA InOrderHello ==
  ASSUME NEW s \in Seq(Messages), NEW m \in Messages, NEW x \in Nat, NEW last \in Nat,
         InOrder(s, x, last), m.type = "hello"
  PROVE  InOrder(Append(s, m), x, last)
<1> DEFINE t == Append(s, m)
<1>1. /\ Len(s) \in Nat /\ DOMAIN s = 1 .. Len(s) /\ DOMAIN t = 1 .. Len(s) + 1
      /\ \A k \in 1 .. Len(s) : t[k] = s[k]
      /\ t[Len(s) + 1] = m
  BY AppendElements
<1> HIDE DEF t
<1>2. \A k \in DOMAIN t : t[k].type = "set" => k \in DOMAIN s /\ t[k] = s[k]
  BY <1>1
<1>3. \A k \in DOMAIN s : k \in DOMAIN t /\ t[k] = s[k]
  BY <1>1
<1>4. \A k \in DOMAIN t : t[k].type \in {"set", "hello"}
  BY <1>1 DEF InOrder
<1> QED
  BY <1>2, <1>3, <1>4 DEF InOrder

\* The admin's page that takes a message stays in order.
LEMMA InOrderNext ==
  ASSUME NEW s \in Seq(Messages), s # <<>>, NEW x \in Nat, NEW last \in Nat, InOrder(s, x, last)
  PROVE  /\ s[1].type \in {"set", "hello"}
         /\ s[1].type = "set" => InOrder(Tail(s), s[1].value, last) /\ x <= s[1].value
         /\ s[1].type = "hello" => InOrder(Tail(s), x, last)
<1> DEFINE t == Tail(s)
<1>1. /\ Len(s) \in Nat \ {0} /\ DOMAIN s = 1 .. Len(s) /\ DOMAIN t = 1 .. Len(s) - 1
      /\ \A k \in 1 .. Len(s) - 1 : t[k] = s[k + 1]
      /\ \A k \in 1 .. Len(s) : s[k].value \in Nat
  BY TailElements
<1> HIDE DEF t
<1>2. 1 \in DOMAIN s /\ \A k \in DOMAIN t : k + 1 \in DOMAIN s /\ t[k] = s[k + 1] /\ 1 < k + 1
  BY <1>1
<1>3. \A l \in DOMAIN s : l # 1 => l - 1 \in DOMAIN t /\ t[l - 1] = s[l]
  BY <1>1
<1>4. \A k, l \in DOMAIN t : k < l => k + 1 < l + 1
  BY <1>1
<1>5. \A k, l \in DOMAIN t : k < l /\ t[k].type = "set" /\ t[l].type = "set" => t[k].value <= t[l].value
  BY <1>2, <1>4 DEF InOrder
<1>6. s[1].type \in {"set", "hello"} /\ \A k \in DOMAIN t : t[k].type \in {"set", "hello"}
  BY <1>2 DEF InOrder
<1>7. ASSUME s[1].type = "set"
      PROVE  InOrder(t, s[1].value, last) /\ x <= s[1].value
  <2>1. x <= s[1].value /\ s[1].value <= last
    BY <1>2, <1>7 DEF InOrder
  <2>2. \A k \in DOMAIN t : t[k].type = "set" => s[1].value <= t[k].value /\ t[k].value <= last
    BY <1>2, <1>7 DEF InOrder
  <2>3. s[1].value = last \/ \E k \in DOMAIN t : t[k].type = "set" /\ t[k].value = last
    <3>1. CASE x = last
      BY <1>1, <2>1, <3>1
    <3>2. ASSUME NEW k \in DOMAIN s, s[k].type = "set", s[k].value = last
          PROVE  s[1].value = last \/ \E j \in DOMAIN t : t[j].type = "set" /\ t[j].value = last
      BY <1>3, <3>2
    <3> QED
      BY <3>1, <3>2 DEF InOrder
  <2> QED
    BY <1>5, <1>6, <2>1, <2>2, <2>3 DEF InOrder
<1>8. ASSUME s[1].type = "hello"
      PROVE  InOrder(t, x, last)
  <2>1. \A k \in DOMAIN t : t[k].type = "set" => x <= t[k].value /\ t[k].value <= last
    BY <1>2 DEF InOrder
  <2>2. x = last \/ \E k \in DOMAIN t : t[k].type = "set" /\ t[k].value = last
    BY <1>3, <1>8 DEF InOrder
  <2> QED
    BY <1>5, <1>6, <2>1, <2>2 DEF InOrder
<1> QED
  BY <1>6, <1>7, <1>8 DEF t

\* The admin's page is in order; what a page found when it connected is no
\* newer than the agent's setting; and as long as a page has one connection,
\* whoever said hello will be answered, or the admin's page shows a setting new
\* enough, and the page shows it, or will, unless the last answer was stale.
AdminInv == InOrder(admin.inbox, admin.shows, setting) /\ \A p \in Pages : joinedAt[p] <= setting
AnswerInv ==
    \A p \in Pages : \A i \in Calls(p) :
        room[p][i] = "in" /\ call[p][i].at = "over" =>
            \/ WillAnswer(admin.inbox, admin.shows, joinedAt[p])
            \/ joinedAt[p] <= admin.shows /\ (admin.stale \/ WillShow(inbox[p][i], shown[p], joinedAt[p]))
NewcomerInv == AdminInv /\ (Troubled \/ AnswerInv)

\* At the start nobody is there.
LEMMA InitNewcomer == Init => NewcomerInv
<1> SUFFICES ASSUME Init PROVE NewcomerInv
  OBVIOUS
<1>1. InOrder(<<>>, 0, 0)
  BY DEF InOrder
<1>2. AdminInv
  BY <1>1 DEF Init, AdminInv
<1>3. AnswerInv
  BY DEF Init, AnswerInv
<1> QED
  BY <1>2, <1>3 DEF NewcomerInv

\* The numbers and sequences in question.
LEMMA NewcomerTypes ==
  ASSUME TypeInv
  PROVE  /\ admin.inbox \in Seq(Messages) /\ admin.shows \in Nat /\ setting \in Nat
         /\ \A p \in Pages : joinedAt[p] \in Nat /\ shown[p] \in Nat
         /\ \A p \in Pages : \A i \in Calls(p) : inbox[p][i] \in Seq(Messages)
BY TypesByPart, PageAssumption DEF ServerTyped, LinkType, ShownTyped, InboxTyped

\* The order at the admin's page, under every step.
LEMMA AdminStep ==
  ASSUME TypeInv, AdminInv, [Next]_vars
  PROVE  AdminInv'
<1>1. /\ admin.inbox \in Seq(Messages) /\ admin.shows \in Nat /\ setting \in Nat
      /\ \A p \in Pages : joinedAt[p] \in Nat
      /\ admin \in [shows : 0..Settings + 1, reads : 0..Settings + 1, stale : BOOLEAN, inbox : Seq(Messages)]
      /\ joinedAt \in [Pages -> 0..Settings + 1]
  BY NewcomerTypes, TypesByPart DEF ServerTyped, LinkType, ShownTyped
<1>2. CASE SetControl
  <2> DEFINE m == Message("set", setting + 1)
  <2>1. admin' = [admin EXCEPT !.inbox = Append(admin.inbox, m)] /\ setting' = setting + 1 /\ joinedAt' = joinedAt
    BY <1>2 DEF SetControl
  <2>2. m \in Messages
    <3>1. setting + 1 \in 0 .. Settings + 1
      BY <1>2, OthersTypes, TypesByPart, PageAssumption, <2>1 DEF Others, TypeInv, TypeOK
    <3> QED
      BY <3>1, MessageType
  <2>3. m.type = "set" /\ m.value = setting + 1
    BY DEF Message
  <2> HIDE DEF m
  <2>4. InOrder(Append(admin.inbox, m), admin.shows, setting + 1)
    BY <1>1, <2>2, <2>3, InOrderSet DEF AdminInv
  <2>5. admin'.inbox = Append(admin.inbox, m) /\ admin'.shows = admin.shows
    BY <1>1, <2>1
  <2> QED
    BY <1>1, <2>1, <2>4, <2>5 DEF AdminInv
<1>3. CASE OperatorSets
  <2>1. admin' = [admin EXCEPT !.shows = setting + 1] /\ setting' = setting + 1 /\ joinedAt' = joinedAt
        /\ \A k \in DOMAIN admin.inbox : admin.inbox[k].type # "set"
    BY <1>3 DEF OperatorSets
  <2>2. InOrder(admin.inbox, setting + 1, setting + 1)
    BY <1>1, <2>1 DEF AdminInv, InOrder
  <2>3. admin'.inbox = admin.inbox /\ admin'.shows = setting + 1
    BY <1>1, <2>1
  <2> QED
    BY <1>1, <2>1, <2>2, <2>3 DEF AdminInv
<1>4. CASE AdminReceives
  <2>1. /\ admin.inbox # <<>> /\ UNCHANGED <<setting, joinedAt>>
        /\ IF Head(admin.inbox).type = "hello"
             THEN admin' = [admin EXCEPT !.inbox = Tail(admin.inbox), !.stale = (admin.reads # admin.shows)]
             ELSE admin' = [admin EXCEPT !.inbox = Tail(admin.inbox), !.shows = Head(admin.inbox).value]
    BY <1>1, <1>4, HeadOfAdmin DEF AdminReceives
  <2>2. Head(admin.inbox) = admin.inbox[1]
    BY <1>1, <2>1, TailElements
  <2>3. InOrder(admin'.inbox, admin'.shows, setting)
    <3>1. InOrder(admin.inbox, admin.shows, setting)
      BY DEF AdminInv
    <3>2. CASE admin.inbox[1].type = "hello"
      <4>1. InOrder(Tail(admin.inbox), admin.shows, setting)
        BY <1>1, <2>1, <3>1, <3>2, InOrderNext
      <4> QED
        BY <1>1, <2>1, <2>2, <3>2, <4>1
    <3>3. CASE admin.inbox[1].type # "hello"
      <4>1. InOrder(Tail(admin.inbox), admin.inbox[1].value, setting)
        BY <1>1, <2>1, <3>1, <3>3, InOrderNext
      <4>2. admin'.inbox = Tail(admin.inbox) /\ admin'.shows = admin.inbox[1].value
        BY <1>1, <2>1, <2>2, <3>3
      <4> QED
        BY <4>1, <4>2
    <3> QED
      BY <3>2, <3>3
  <2> QED
    BY <2>1, <2>3 DEF AdminInv
<1>5. ASSUME NEW p \in Pages, NEW i \in Calls(p), Hello(p, i)
      PROVE  AdminInv'
  <2>1. UNCHANGED <<setting, joinedAt>>
        /\ (admin' = admin \/ admin' = [admin EXCEPT !.inbox = Append(admin.inbox, Message("hello", 0))])
    BY <1>5 DEF Hello
  <2>2. Message("hello", 0) \in Messages /\ Message("hello", 0).type = "hello"
    BY MessageType, PageAssumption DEF Message
  <2>3. InOrder(Append(admin.inbox, Message("hello", 0)), admin.shows, setting)
    BY <1>1, <2>2, InOrderHello DEF AdminInv
  <2>4. InOrder(admin'.inbox, admin'.shows, setting)
    BY <1>1, <2>1, <2>3 DEF AdminInv
  <2> QED
    BY <2>1, <2>4 DEF AdminInv
<1>6. ASSUME NEW p \in Pages, NEW i \in Calls(p), Join(p, i)
      PROVE  AdminInv'
  <2>1. UNCHANGED <<admin, setting>> /\ joinedAt' = [joinedAt EXCEPT ![p] = setting]
    BY <1>6 DEF Join, serverVars
  <2> QED
    BY <1>1, <2>1 DEF AdminInv
<1>7. CASE UNCHANGED <<admin, setting, joinedAt>>
  BY <1>7 DEF AdminInv
<1>8. ASSUME NEW p \in Pages, Connecting(p)
      PROVE  AdminInv'
  BY <1>5, <1>6, <1>7, <1>8 DEF Connecting, Connect, Token, Register, JoinCut, Catch, Closed, Left, Ended, serverVars
<1>9. ASSUME NEW p \in Pages, Failing(p) \/ Entering(p) \/ Receiving(p) \/ Ending(p) \/ Serving(p)
      PROVE  UNCHANGED <<admin, setting, joinedAt>>
  BY <1>9 DEF Failing, TokenFails, JoinFails, RegisterFails, Catch, Drop, Ended, Entering, Enter, LearnThreshold, MeasureLatency,
              NoSample, Measured, Continue, Agree, Decline, Deadline, Receiving, Deliver, Navigate, Gone, Ending, Unload, Reopen,
              Inactive, Kick, Serving, HandleReport, Interrupt, RemoveFromRoom, RemoveInterrupted, RemoveCompleted, RemoveKicked,
              linkVars, serverVars
<1>10. CASE Begin \/ CompleteSession \/ Absence \/ CleanUp
  BY <1>7, <1>10 DEF Begin, CompleteSession, Absence, Interrupt, CleanUp
<1>11. CASE UNCHANGED vars
  BY <1>7, <1>11 DEF vars, linkVars, serverVars
<1>12. CASE AdminRenders
  <2>1. admin' = [admin EXCEPT !.reads = admin.shows] /\ UNCHANGED <<setting, joinedAt>>
    BY <1>12 DEF AdminRenders, linkVars
  <2>2. admin'.inbox = admin.inbox /\ admin'.shows = admin.shows
    BY <1>1, <2>1
  <2> QED
    BY <2>1, <2>2 DEF AdminInv
<1> QED
  BY <1>2, <1>3, <1>4, <1>7, <1>8, <1>9, <1>10, <1>11, <1>12 DEF Next

\* Who has an answer on its way, or a setting new enough, keeps it as long as
\* nothing of that changes.
LEMMA AnswersStay ==
  ASSUME AnswerInv, admin' = admin,
         \A p \in Pages : \A i \in Calls(p) : room'[p][i] = "in" /\ call'[p][i].at = "over" =>
            /\ room[p][i] = "in" /\ call[p][i].at = "over"
            /\ inbox'[p][i] = inbox[p][i] /\ shown'[p] = shown[p] /\ joinedAt'[p] = joinedAt[p]
  PROVE  AnswerInv'
BY DEF AnswerInv

\* A message that shows nothing, or a setting newer than all, takes nothing back.
LEMMA AnswersReceive ==
  ASSUME TypeInv, AdminInv, AnswerInv, NEW S, NEW m \in Messages, inbox' = Received(S, m), Shows(m) => m.value = setting + 1,
         \A p \in Pages : \A i \in Calls(p) : room'[p][i] = "in" => room[p][i] = "in",
         UNCHANGED <<call, shown, joinedAt>>,
         \A n \in Nat : WillAnswer(admin.inbox, admin.shows, n) => WillAnswer(admin'.inbox, admin'.shows, n),
         admin.shows <= admin'.shows, admin'.shows \in Nat, admin.stale => admin'.stale
  PROVE  AnswerInv'
<1> SUFFICES ASSUME NEW p \in Pages, NEW i \in Calls(p), room'[p][i] = "in", call'[p][i].at = "over"
             PROVE  \/ WillAnswer(admin'.inbox, admin'.shows, joinedAt[p])
                    \/ joinedAt[p] <= admin'.shows /\ (admin'.stale \/ WillShow(inbox'[p][i], shown[p], joinedAt[p]))
  BY DEF AnswerInv
<1>1. /\ admin.shows \in Nat /\ setting \in Nat /\ joinedAt[p] \in Nat /\ shown[p] \in Nat
      /\ inbox[p][i] \in Seq(Messages)
  BY NewcomerTypes
<1>2. joinedAt[p] <= setting
  BY DEF AdminInv
<1>3. Shows(m) => joinedAt[p] <= m.value
  BY <1>1, <1>2
<1>4. inbox'[p][i] = Append(inbox[p][i], m) \/ inbox'[p][i] = inbox[p][i]
  BY DEF Received
<1>5. WillShow(inbox[p][i], shown[p], joinedAt[p]) => WillShow(inbox'[p][i], shown[p], joinedAt[p])
  BY <1>1, <1>3, <1>4, WillShowMore
<1>6. joinedAt[p] <= admin.shows => joinedAt[p] <= admin'.shows
  BY <1>1
<1> QED
  BY <1>1, <1>5, <1>6 DEF AnswerInv

\* A message about no setting takes nothing back.
LEMMA PlainMessage ==
  ASSUME TypeInv, AdminInv, AnswerInv, NEW S, NEW type \in {"flow", "complete", "end", "kick"},
         inbox' = Received(S, Message(type, 0)), UNCHANGED <<room, call, shown, joinedAt, admin>>
  PROVE  AnswerInv'
<1> DEFINE m == Message(type, 0)
<1>1. m \in Messages /\ ~Shows(m)
  BY MessageType, PageAssumption DEF Message, Shows
<1>2. admin.shows \in Nat
  BY NewcomerTypes
<1> HIDE DEF m
<1>3. inbox' = Received(S, m)
  BY DEF m
<1> QED
  BY <1>1, <1>2, <1>3, AnswersReceive

\* A connection that ends takes only its own messages with it.
LEMMA EndedAnswers ==
  ASSUME TypeInv, AnswerInv, NEW p \in Pages, NEW i \in Calls(p), Ended(p, i), UNCHANGED <<call, joinedAt, shown, admin>>
  PROVE  AnswerInv'
<1>1. RoomTyped /\ InboxTyped
  BY TypesByPart DEF LinkType
<1>2. \A q \in Pages : \A j \in Calls(q) : room'[q][j] = IF q = p /\ j = i THEN "out" ELSE room[q][j]
  BY <1>1, RoomMoves DEF Ended
<1>3. \A q \in Pages : \A j \in Calls(q) : q # p \/ j # i => inbox'[q][j] = inbox[q][j]
  BY <1>1 DEF Ended, InboxTyped
<1> QED
  BY <1>2, <1>3, AnswersStay

\* So does a page that is gone.
LEMMA GoneAnswers ==
  ASSUME TypeInv, AnswerInv, NEW p \in Pages, Gone(p)
  PROVE  AnswerInv'
<1>1. CallTyped /\ RoomTyped /\ InboxTyped
  BY TypesByPart DEF LinkType
<1>2. \A q \in Pages : q # p => call'[q] = call[q] /\ room'[q] = room[q] /\ inbox'[q] = inbox[q]
  BY <1>1 DEF Gone, CallTyped, RoomTyped, InboxTyped
<1>3. \A i \in Calls(p) : room'[p][i] # "in"
  BY <1>1 DEF Gone, RoomTyped
<1>4. UNCHANGED <<joinedAt, shown, admin>>
  BY DEF Gone
<1> QED
  BY <1>2, <1>3, <1>4, AnswersStay

\* The steps of connect().
LEMMA ConnectingAnswers ==
  ASSUME TypeInv, CallInv, AdminInv, AnswerInv, NEW p \in Pages, Connecting(p)
  PROVE  AnswerInv'
<1>1. CallTyped /\ RoomTyped /\ HeardTyped /\ InboxTyped /\ RefTyped /\ ShownTyped /\ ServerTyped
  BY TypesByPart DEF LinkType
<1>2. ASSUME NEW i \in Calls(p), NEW at \in Awaits \ {"over"}, Goto(p, i, at), UNCHANGED <<admin, room, inbox, shown, joinedAt>>
      PROVE  AnswerInv'
  <2>1. \A q \in Pages : \A j \in Calls(q) : call'[q][j].at = IF q = p /\ j = i THEN at ELSE call[q][j].at
    BY <1>1, <1>2, GotoMoves
  <2> QED
    BY <1>2, <2>1, AnswersStay
<1>3. CASE Connect(p)
  BY <1>2, <1>3 DEF Connect, Awaits, serverVars
<1>4. ASSUME NEW i \in Calls(p), Token(p, i)
      PROVE  AnswerInv'
  BY <1>2, <1>4 DEF Token, Awaits, serverVars
<1>5. ASSUME NEW i \in Calls(p), Register(p, i)
      PROVE  AnswerInv'
  BY <1>2, <1>5 DEF Register, Awaits, serverVars
<1>6. ASSUME NEW i \in Calls(p), Join(p, i)
      PROVE  AnswerInv'
  <2>1. \A q \in Pages : \A j \in Calls(q) : call'[q][j].at = IF q = p /\ j = i THEN "register" ELSE call[q][j].at
    BY <1>1, <1>6, GotoMoves DEF Join, Awaits
  <2>2. \A j \in Calls(p) : j # i => room'[p][j] # "in"
    BY <1>1, <1>6 DEF Join, Displacing, RoomTyped
  <2>3. \A q \in Pages : q # p => room'[q] = room[q] /\ joinedAt'[q] = joinedAt[q]
    BY <1>1, <1>6 DEF Join, RoomTyped, ShownTyped
  <2>4. UNCHANGED <<admin, inbox, shown>>
    BY <1>6 DEF Join, serverVars
  <2> QED
    BY <2>1, <2>2, <2>3, <2>4, AnswersStay
<1>7. ASSUME NEW i \in Calls(p), Hello(p, i)
      PROVE  AnswerInv'
  <2> DEFINE m == Message("hello", 0)
  <2>1. \A q \in Pages : \A j \in Calls(q) : call'[q][j].at = IF q = p /\ j = i THEN "over" ELSE call[q][j].at
    BY <1>1, <1>7, GotoMoves DEF Hello, Awaits
  <2>2. UNCHANGED <<setting, room, inbox, shown, joinedAt>>
    BY <1>7 DEF Hello
  <2>3. /\ admin.inbox \in Seq(Messages) /\ admin.shows \in Nat /\ setting \in Nat
        /\ \A q \in Pages : joinedAt[q] \in Nat
    BY NewcomerTypes
  <2>4. m \in Messages /\ m.type = "hello"
    BY MessageType, PageAssumption DEF Message
  <2>5. CASE room[p][i] = "in"
    <3>1. admin' = [admin EXCEPT !.inbox = Append(admin.inbox, m)]
      BY <1>7, <2>5 DEF Hello
    <3>2. admin'.inbox = Append(admin.inbox, m) /\ admin'.shows = admin.shows /\ admin'.stale = admin.stale
      BY <1>1, <3>1 DEF ServerTyped
    <3> HIDE DEF m
    <3>3. WillAnswer(admin'.inbox, admin'.shows, joinedAt[p])
      BY <2>3, <2>4, <3>2, WillAnswerHello DEF AdminInv
    <3>4. \A n \in Nat : WillAnswer(admin.inbox, admin.shows, n) => WillAnswer(admin'.inbox, admin'.shows, n)
      BY <2>3, <2>4, <3>2, WillAnswerMore
    <3>5. \A q \in Pages : \A j \in Calls(q) : room[q][j] = "in" /\ call[q][j].at = "over" =>
             \/ WillAnswer(admin'.inbox, admin'.shows, joinedAt[q])
             \/ joinedAt[q] <= admin.shows /\ (admin.stale \/ WillShow(inbox[q][j], shown[q], joinedAt[q]))
      BY <2>3, <3>4 DEF AnswerInv
    <3> QED
      BY <2>1, <2>2, <3>2, <3>3, <3>5 DEF AnswerInv
  <2>6. CASE room[p][i] # "in"
    <3>1. admin' = admin
      BY <1>7, <2>6 DEF Hello
    <3> QED
      BY <2>1, <2>2, <2>6, <3>1, AnswersStay
  <2> QED
    BY <2>5, <2>6
<1>8. ASSUME NEW i \in Calls(p), JoinCut(p, i)
      PROVE  FALSE
  BY <1>8 DEF JoinCut, At, CallInv
<1>9. ASSUME NEW i \in Calls(p), Closed(p, i)
      PROVE  AnswerInv'
  <2>1. \A q \in Pages : \A j \in Calls(q) : q # p \/ j # i => call'[q][j] = call[q][j]
    BY <1>1, <1>9 DEF Closed, CallTyped, CallType
  <2>2. room[p][i] # "in"
    BY <1>9 DEF Closed, At, CallInv, Live, Under
  <2>3. UNCHANGED <<admin, room, inbox, shown, joinedAt>>
    BY <1>9 DEF Closed, serverVars
  <2> QED
    BY <2>1, <2>2, <2>3, AnswersStay
<1>10. ASSUME NEW i \in Calls(p), Left(p, i)
       PROVE  AnswerInv'
  BY <1>10, EndedAnswers DEF Left, serverVars
<1> QED
  BY <1>3, <1>4, <1>5, <1>6, <1>7, <1>8, <1>9, <1>10 DEF Connecting

\* Failures that end no call of their own.
LEMMA FailingAnswers ==
  ASSUME TypeInv, CallInv, AdminInv, AnswerInv, NEW p \in Pages, Failing(p)
  PROVE  Troubled' \/ AnswerInv'
<1>1. CallTyped /\ RoomTyped /\ InboxTyped /\ RefTyped
  BY TypesByPart DEF LinkType
<1>2. PICK i \in Calls(p) : TokenFails(p, i) \/ JoinFails(p, i) \/ RegisterFails(p, i) \/ Drop(p, i)
  BY DEF Failing
<1>3. CASE JoinFails(p, i) \/ RegisterFails(p, i)
  <2>1. "join" \in mishaps' \/ "register" \in mishaps'
    BY <1>3 DEF JoinFails, RegisterFails, Mishap
  <2> QED
    BY <2>1 DEF Troubled, Went
<1>4. CASE Drop(p, i)
  BY <1>4, EndedAnswers DEF Drop, serverVars
<1>5. CASE TokenFails(p, i)
  <2> DEFINE r == roomRef[p]
  <2>1. call[p][i].at = "token" /\ Catch(p, i, conn[p]) /\ UNCHANGED <<admin, shown, joinedAt>>
    BY <1>5 DEF TokenFails, At, Catch, serverVars
  <2>2. room[p][i] = "none"
    BY <2>1 DEF CallInv
  <2>3. CASE r = 0
    <3>1. Goto(p, i, "over") /\ UNCHANGED <<room, inbox>>
      BY <2>1, <2>3 DEF Catch
    <3>2. \A q \in Pages : \A j \in Calls(q) : call'[q][j].at = IF q = p /\ j = i THEN "over" ELSE call[q][j].at
      BY <1>1, <3>1, GotoMoves DEF Awaits
    <3> QED
      BY <2>1, <2>2, <3>1, <3>2, AnswersStay
  <2>4. CASE r # 0
    <3>1. r \in Calls(p)
      BY <1>1, <2>4, PageAssumption DEF RefTyped, Calls
    <3>2. \A q \in Pages : \A j \in Calls(q) : call'[q][j].at = "over" => call[q][j].at = "over"
      <4> DEFINE new == [at |-> "closing", closes |-> r]
      <4>1. call' = [call EXCEPT ![p] = [call[p] EXCEPT ![i] = new]]
        BY <2>1, <2>4 DEF Catch
      <4>2. new.at = "closing"
        OBVIOUS
      <4> HIDE DEF new
      <4> QED
        BY <1>1, <4>1, <4>2 DEF CallTyped, CallType
    <3>3. \A q \in Pages : \A j \in Calls(q) : room'[q][j] = IF q = p /\ j = r THEN "out" ELSE room[q][j]
      BY <1>1, <2>1, <2>4, <3>1, RoomMoves DEF Catch
    <3>4. \A q \in Pages : \A j \in Calls(q) : q # p \/ j # r => inbox'[q][j] = inbox[q][j]
      BY <1>1, <2>1, <2>4, <3>1 DEF Catch, InboxTyped
    <3> QED
      BY <2>1, <3>2, <3>3, <3>4, AnswersStay
  <2> QED
    BY <2>3, <2>4
<1> QED
  BY <1>2, <1>3, <1>4, <1>5

\* What a page reads it shows: what it will show stays new enough.
LEMMA ReceivingAnswers ==
  ASSUME TypeInv, CallInv, AdminInv, AnswerInv, NEW p \in Pages, Receiving(p)
  PROVE  AnswerInv'
<1>1. RoomTyped /\ InboxTyped /\ ShownTyped
  BY TypesByPart DEF LinkType
<1>2. ASSUME NEW i \in Calls(p), Deliver(p, i)
      PROVE  AnswerInv'
  <2> DEFINE message == Head(inbox[p][i])
  <2>1. inbox[p][i] # <<>> /\ UNCHANGED <<call, joinedAt, admin>>
    BY <1>2 DEF Deliver
  <2>2. roomRef[p] = i /\ \A j \in Calls(p) : j # i => room[p][j] # "in"
    BY <2>1 DEF CallInv, Live
  <2>3. CASE message.type = "complete"
    <3>1. Finish(p, i)
      BY <1>2, <2>3 DEF Deliver
    <3>2. \A q \in Pages : \A j \in Calls(q) : room'[q][j] = IF q = p /\ j = i THEN "out" ELSE room[q][j]
      BY <1>1, <2>2, <3>1 DEF Finish, RoomTyped
    <3>3. \A q \in Pages : q # p => inbox'[q] = inbox[q]
      BY <1>1, <3>1 DEF Finish, InboxTyped
    <3>4. shown' = shown
      BY <3>1 DEF Finish
    <3> QED
      BY <2>1, <2>2, <3>2, <3>3, <3>4, AnswersStay
  <2>4. CASE message.type # "complete"
    <3>1. Handle(p, message) /\ inbox' = [inbox EXCEPT ![p][i] = Tail(inbox[p][i])] /\ room' = room
      BY <1>1, <1>2, <2>4 DEF Deliver, InboxTyped
    <3>2. inbox[p][i] \in Seq(Messages) /\ message \in Messages /\ message.value \in Nat
          /\ joinedAt[p] \in Nat /\ shown[p] \in Nat
      <4>1. inbox[p][i] \in Seq(Messages) /\ joinedAt[p] \in Nat /\ shown[p] \in Nat
        BY NewcomerTypes
      <4>2. message = inbox[p][i][1] /\ inbox[p][i][1] \in Messages /\ inbox[p][i][1].value \in Nat
        BY <2>1, <4>1, TailElements
      <4> QED
        BY <4>1, <4>2
    <3>3. shown'[p] = IF Shows(message) THEN message.value ELSE shown[p]
      BY <1>1, <3>1 DEF Handle, Shows, ShownTyped
    <3>4. \A q \in Pages : q # p => shown'[q] = shown[q] /\ inbox'[q] = inbox[q]
      BY <1>1, <3>1 DEF Handle, ShownTyped, InboxTyped
    <3>5. inbox'[p][i] = Tail(inbox[p][i])
      BY <1>1, <3>1 DEF InboxTyped
    <3>6. shown'[p] \in Nat
      BY <3>2, <3>3
    <3>7. WillShow(inbox[p][i], shown[p], joinedAt[p]) => WillShow(inbox'[p][i], shown'[p], joinedAt[p])
      BY <2>1, <3>2, <3>3, <3>5, <3>6, WillShowNext
    <3> QED
      BY <2>1, <2>2, <3>1, <3>4, <3>7 DEF AnswerInv
  <2> QED
    BY <2>3, <2>4
<1>3. CASE Navigate(p)
  BY <1>3, GoneAnswers DEF Navigate
<1> QED
  BY <1>2, <1>3 DEF Receiving

\* The admin's page answers with a setting new enough for whoever was heard.
LEMMA AdminAnswers ==
  ASSUME TypeInv, AdminInv, AnswerInv, AdminReceives
  PROVE  AnswerInv'
<1> DEFINE s == admin.inbox
           x == admin.shows
<1>1. /\ s \in Seq(Messages) /\ x \in Nat /\ setting \in Nat /\ s # <<>>
      /\ admin \in [shows : 0..Settings + 1, reads : 0..Settings + 1, stale : BOOLEAN, inbox : Seq(Messages)]
  BY NewcomerTypes, TypesByPart DEF ServerTyped, AdminReceives
<1>2. /\ Head(s) = s[1] /\ s[1] \in Messages /\ s[1].value \in Nat
  BY <1>1, TailElements
<1>3. UNCHANGED <<call, room, shown, joinedAt>>
  BY DEF AdminReceives
<1>4. InOrder(s, x, setting)
  BY DEF AdminInv
<1>5. CASE s[1].type = "hello"
  <2> DEFINE m == Message("state", admin.reads)
             stale == admin.reads # x
  <2>1. inbox' = Received(Pages, m) /\ admin'.inbox = Tail(s) /\ admin'.shows = x /\ (stale => admin'.stale)
    <3>1. inbox' = Received(Pages, m) /\ admin' = [admin EXCEPT !.inbox = Tail(s), !.stale = stale]
      BY <1>1, <1>2, <1>5, HeadOfAdmin
    <3> HIDE DEF stale
    <3> QED
      BY <1>1, <3>1
  <2>2. m \in Messages /\ Shows(m) /\ (~stale => m.value = x)
    <3>1. admin.reads \in 0 .. Settings + 1
      BY <1>1
    <3> QED
      BY <3>1, MessageType DEF Message, Shows
  <2> HIDE DEF m, stale
  <2> SUFFICES ASSUME NEW p \in Pages, NEW i \in Calls(p), room[p][i] = "in", call[p][i].at = "over"
               PROVE  \/ WillAnswer(Tail(s), x, joinedAt[p])
                      \/ joinedAt[p] <= x /\ (stale \/ WillShow(inbox'[p][i], shown[p], joinedAt[p]))
    BY <1>3, <2>1 DEF AnswerInv
  <2>3. inbox[p][i] \in Seq(Messages) /\ joinedAt[p] \in Nat /\ shown[p] \in Nat
    BY NewcomerTypes
  <2>4. WillAnswer(Tail(s), x, joinedAt[p]) \/ joinedAt[p] <= x
    BY <1>1, <1>5, <2>3, WillAnswerNext DEF AnswerInv
  <2>5. inbox'[p][i] = Append(inbox[p][i], m)
    BY <2>1 DEF Received
  <2>6. joinedAt[p] <= x /\ ~stale => WillShow(inbox'[p][i], shown[p], joinedAt[p])
    BY <2>2, <2>3, <2>5, WillShowNew
  <2> QED
    BY <2>4, <2>6
<1>6. CASE s[1].type # "hello"
  <2>1. inbox' = inbox /\ admin'.inbox = Tail(s) /\ admin'.shows = s[1].value /\ admin'.stale = admin.stale
    BY <1>1, <1>2, <1>6, HeadOfAdmin
  <2>2. s[1].type = "set" /\ x <= s[1].value
    BY <1>1, <1>4, <1>6, InOrderNext
  <2>3. \A n \in Nat : WillAnswer(s, x, n) => WillAnswer(Tail(s), s[1].value, n)
    BY <1>1, <2>2, WillAnswerNext
  <2>4. \A n \in Nat : n <= x => n <= s[1].value
    BY <1>1, <1>2, <2>2
  <2>5. \A p \in Pages : joinedAt[p] \in Nat
    BY NewcomerTypes
  <2>6. \A p \in Pages : \A i \in Calls(p) : room[p][i] = "in" /\ call[p][i].at = "over" =>
           \/ WillAnswer(Tail(s), s[1].value, joinedAt[p])
           \/ joinedAt[p] <= s[1].value /\ (admin.stale \/ WillShow(inbox[p][i], shown[p], joinedAt[p]))
    BY <2>3, <2>4, <2>5 DEF AnswerInv
  <2> QED
    BY <1>3, <2>1, <2>6 DEF AnswerInv
<1> QED
  BY <1>5, <1>6

\* The end of a page, its return, and what befalls it.
LEMMA EndingAnswers ==
  ASSUME TypeInv, CallInv, AdminInv, AnswerInv, NEW p \in Pages, Ending(p)
  PROVE  AnswerInv'
<1>1. ShownTyped
  BY TypesByPart DEF LinkType
<1>2. CASE Unload(p)
  BY <1>2, GoneAnswers DEF Unload
<1>3. CASE Reopen(p)
  <2>1. \A i \in Calls(p) : room[p][i] # "in"
    BY <1>3 DEF Reopen, CallInv, Live
  <2>2. UNCHANGED <<call, room, inbox, joinedAt, admin>>
    BY <1>3 DEF Reopen, serverVars
  <2>3. \A q \in Pages : q # p => shown'[q] = shown[q]
    BY <1>1, <1>3 DEF Reopen, ShownTyped
  <2> QED
    BY <2>1, <2>2, <2>3, AnswersStay
<1>4. CASE Inactive(p)
  <2>1. UNCHANGED <<call, room, inbox, joinedAt, shown, admin>>
    BY <1>4 DEF Inactive, linkVars
  <2> QED
    BY <2>1, AnswersStay
<1>5. CASE Kick(p)
  BY <1>5, PlainMessage DEF Kick
<1> QED
  BY <1>2, <1>3, <1>4, <1>5 DEF Ending

\* The agent, the admin's page, the operator and the routes.
LEMMA ServerAnswers ==
  ASSUME TypeInv, AdminInv, AnswerInv, Others \/ \E p \in Pages : Serving(p)
  PROVE  AnswerInv'
<1>1. /\ RoomTyped /\ admin \in [shows : 0..Settings + 1, reads : 0..Settings + 1, stale : BOOLEAN, inbox : Seq(Messages)]
      /\ admin.inbox \in Seq(Messages) /\ admin.shows \in Nat /\ setting \in Nat
  BY NewcomerTypes, TypesByPart DEF LinkType, ServerTyped
<1>2. CASE SetControl
  <2> DEFINE m == Message("set", setting + 1)
  <2>1. /\ admin' = [admin EXCEPT !.inbox = Append(admin.inbox, m)] /\ inbox' = Received(Pages, m)
        /\ setting' = setting + 1 /\ UNCHANGED <<room, call, shown, joinedAt>>
    BY <1>2 DEF SetControl
  <2>2. m \in Messages /\ m.value = setting + 1
    <3>1. setting + 1 \in 0 .. Settings + 1
      BY <1>2, <2>1, OthersTypes DEF Others, TypeInv, TypeOK
    <3> QED
      BY <3>1, MessageType DEF Message
  <2> HIDE DEF m
  <2>3. admin'.inbox = Append(admin.inbox, m) /\ admin'.shows = admin.shows /\ admin'.stale = admin.stale
    BY <1>1, <2>1
  <2>4. \A n \in Nat : WillAnswer(admin.inbox, admin.shows, n) => WillAnswer(admin'.inbox, admin'.shows, n)
    BY <1>1, <2>2, <2>3, WillAnswerMore
  <2> QED
    BY <1>1, <2>1, <2>2, <2>3, <2>4, AnswersReceive
<1>3. CASE OperatorSets
  <2> DEFINE m == Message("set", setting + 1)
  <2>1. /\ admin' = [admin EXCEPT !.shows = setting + 1] /\ inbox' = Received(Pages, m)
        /\ setting' = setting + 1 /\ UNCHANGED <<room, call, shown, joinedAt>>
    BY <1>3 DEF OperatorSets
  <2>2. m \in Messages /\ m.value = setting + 1
    <3>1. setting + 1 \in 0 .. Settings + 1
      BY <1>3, <2>1, OthersTypes DEF Others, TypeInv, TypeOK
    <3> QED
      BY <3>1, MessageType DEF Message
  <2> HIDE DEF m
  <2>3. admin'.inbox = admin.inbox /\ admin'.shows = setting + 1 /\ admin.shows <= setting /\ admin'.stale = admin.stale
    BY <1>1, <2>1 DEF AdminInv, InOrder
  <2>4. \A n \in Nat : WillAnswer(admin.inbox, admin.shows, n) => WillAnswer(admin'.inbox, admin'.shows, n)
    <3>1. \A n \in Nat : n <= admin.shows => n <= setting + 1
      BY <1>1, <2>3
    <3> QED
      BY <2>3, <3>1 DEF WillAnswer
  <2> QED
    BY <1>1, <2>1, <2>2, <2>3, <2>4, AnswersReceive
<1>4. CASE AdminReceives
  BY <1>4, AdminAnswers
<1>5. CASE Begin
  BY <1>5, PlainMessage DEF Begin
<1>6. CASE CompleteSession
  BY <1>6, PlainMessage DEF CompleteSession
<1>7. ASSUME Interrupt
      PROVE  AnswerInv'
  <2>1. UNCHANGED <<room, call, shown, joinedAt, admin>> /\ (inbox' = inbox \/ inbox' = Received(Pages, Message("end", 0)))
    BY <1>7 DEF Interrupt
  <2>2. CASE inbox' = inbox
    BY <2>1, <2>2, AnswersStay
  <2>3. CASE inbox' = Received(Pages, Message("end", 0))
    BY <2>1, <2>3, PlainMessage
  <2> QED
    BY <2>1, <2>2, <2>3
<1>8. CASE Absence
  BY <1>7, <1>8 DEF Absence
<1>9. ASSUME NEW S, Removed(S), UNCHANGED <<call, inbox, joinedAt, shown, admin>>
      PROVE  AnswerInv'
  <2>1. \A p \in Pages : \A i \in Calls(p) : room'[p][i] = "in" => room[p][i] = "in"
    BY <1>1, <1>9 DEF Removed
  <2> QED
    BY <1>9, <2>1, AnswersStay
<1>10. CASE CleanUp
  BY <1>9, <1>10 DEF CleanUp
<1>11. ASSUME NEW p \in Pages, HandleReport(p)
       PROVE  AnswerInv'
  <2>1. CASE phase = "running"
    BY <1>7, <1>11, <2>1 DEF HandleReport
  <2>2. CASE phase # "running"
    <3>1. UNCHANGED <<room, call, inbox, shown, joinedAt, admin>>
      BY <1>11, <2>2 DEF HandleReport, linkVars
    <3> QED
      BY <3>1, AnswersStay
  <2> QED
    BY <2>1, <2>2
<1>12. ASSUME NEW p \in Pages, NEW kind, RemoveFromRoom(kind, p)
       PROVE  AnswerInv'
  BY <1>9, <1>12 DEF RemoveFromRoom
<1>13. CASE AdminRenders
  <2>1. admin' = [admin EXCEPT !.reads = admin.shows] /\ UNCHANGED <<room, call, inbox, shown, joinedAt>>
    BY <1>13 DEF AdminRenders, linkVars
  <2>2. admin'.inbox = admin.inbox /\ admin'.shows = admin.shows /\ admin'.stale = admin.stale
    BY <1>1, <2>1
  <2> QED
    BY <2>1, <2>2 DEF AnswerInv
<1> QED
  BY <1>2, <1>3, <1>4, <1>5, <1>6, <1>8, <1>10, <1>11, <1>12, <1>13
  DEF Others, Serving, RemoveInterrupted, RemoveCompleted, RemoveKicked

\* The answer that is due stays due, or given.
LEMMA NewcomerStep == TypeInv /\ LinkInv /\ NewcomerInv /\ [Next]_vars => NewcomerInv'
<1> SUFFICES ASSUME TypeInv, LinkInv, NewcomerInv, [Next]_vars PROVE NewcomerInv'
  OBVIOUS
<1>1. AdminInv'
  BY AdminStep DEF NewcomerInv
<1>2. Troubled => Troubled'
  BY MishapsGrow DEF Troubled, Went
<1>3. ASSUME ~Troubled
      PROVE  Troubled' \/ AnswerInv'
  <2>1. CallInv /\ AdminInv /\ AnswerInv
    BY <1>3 DEF LinkInv, NewcomerInv
  <2>2. CASE \E p \in Pages : Connecting(p) \/ Failing(p) \/ Receiving(p) \/ Ending(p)
    BY <2>1, <2>2, ConnectingAnswers, FailingAnswers, ReceivingAnswers, EndingAnswers
  <2>3. CASE \E p \in Pages : Entering(p)
    <3>1. UNCHANGED <<room, call, inbox, shown, joinedAt, admin>>
      BY <2>3 DEF Entering, LearnThreshold, MeasureLatency, NoSample, Measured, Continue, Agree, Decline, Deadline, Enter,
                  linkVars, serverVars
    <3> QED
      BY <2>1, <3>1, AnswersStay
  <2>4. CASE Others \/ \E p \in Pages : Serving(p)
    BY <2>1, <2>4, ServerAnswers
  <2>5. CASE UNCHANGED vars
    <3>1. UNCHANGED <<room, call, inbox, shown, joinedAt, admin>>
      BY <2>5 DEF vars, linkVars, serverVars
    <3> QED
      BY <2>1, <3>1, AnswersStay
  <2> QED
    BY <2>2, <2>3, <2>4, <2>5 DEF Next, Others
<1> QED
  BY <1>1, <1>2, <1>3 DEF NewcomerInv

\* Whoever said hello, and got everything that was sent, shows a setting at
\* least as new as the agent's when the page connected, unless the admin gave
\* its last answer between a setting and its render (App.tsx: the hello of
\* connect(), the admin's answer to all, the handler that an effect replaces).
THEOREM NewcomersCaughtUp == Spec => []JoinerCaughtUp
<1>1. Init => TypeInv /\ LinkInv /\ NewcomerInv
  BY InitTypes, InitLink, InitNewcomer
<1>2. TypeInv /\ LinkInv /\ NewcomerInv /\ [Next]_vars => TypeInv' /\ LinkInv' /\ NewcomerInv'
  BY TypeStep, LinkStep, NewcomerStep
<1>3. TypeInv /\ LinkInv /\ NewcomerInv => JoinerCaughtUp
  <2> SUFFICES ASSUME TypeInv, NewcomerInv, ~Troubled, NEW p \in Pages, NEW i \in Calls(p),
                      room[p][i] = "in", call[p][i].at = "over", inbox[p][i] = <<>>,
                      \A k \in DOMAIN admin.inbox : admin.inbox[k].type # "hello",
                      ~admin.stale
               PROVE  shown[p] >= joinedAt[p]
    BY DEF JoinerCaughtUp, Troubled
  <2>1. WillShow(<<>>, shown[p], joinedAt[p])
    BY DEF NewcomerInv, AnswerInv, WillAnswer
  <2>2. shown[p] \in Nat /\ joinedAt[p] \in Nat
    BY NewcomerTypes
  <2>3. joinedAt[p] <= shown[p]
    BY <2>1 DEF WillShow
  <2> QED
    BY <2>2, <2>3
<1> QED
  BY <1>1, <1>2, <1>3, PTL DEF Spec
=============================================================================
