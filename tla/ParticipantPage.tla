--------------------------- MODULE ParticipantPage ---------------------------
(***************************************************************************)
(* A participant's page from its opening to its end: the speed check and   *)
(* the consent screen, the calls of connect() with their awaits, what the  *)
(* room, the agent and the operator send it, its withdraw reports, and its *)
(* way out.  Every call of connect() keeps a room and listeners of its     *)
(* own, while the connection state and roomRef are the page's: that is     *)
(* where calls meet.                                                       *)
(*                                                                         *)
(* The agent is reduced to what it tells the pages; StartGate, TrialSession*)
(* and PairedSession are about its side.                                   *)
(***************************************************************************)
EXTENDS Naturals, Sequences, FiniteSets, SequencesExt

CONSTANTS
    Pages,          \* the pages of a pair, each with an identity of its own
    AutoConnect,    \* those opened with ?autoConnect=1&skipLatency=1
    Attempts,       \* calls of connect() each page makes in a behaviour
    Rtts,           \* the medians a speed check may measure
    Default,        \* DEFAULT_LATENCY_THRESHOLD_MS
    Configured,     \* the threshold of the experiment's configuration, 0 for none
    Settings,       \* control messages the agent sends
    Exposed,        \* the pages that meet mishaps
    Plans           \* the sets of mishaps of a behaviour

ASSUME PageAssumption ==
    /\ AutoConnect \subseteq Pages /\ Exposed \subseteq Pages
    /\ Attempts \in [Pages -> Nat] /\ Settings \in Nat
    /\ Rtts \subseteq Nat /\ Default \in Nat /\ Configured \in Nat

VARIABLES
    entry,      \* the page's way to the consent: the check, its threshold, the buttons
    view,       \* what the page was told, and what it reported
    conn,       \* connectionState of the page
    roomRef,    \* the call whose room the page uses, 0 for none
    call,       \* where each call of connect() waits, and the room it closes
    room,       \* the connection of each call, as the media server has it
    heard,      \* whether the room of a call has its listeners
    inbox,      \* messages on their way over the connection of a call
    joinedAt,   \* the agent's setting when the page last connected
    shown,      \* the setting the page shows
    phase,      \* the session, as the agent has it
    setting,    \* control messages the agent has sent
    admin,      \* the admin page: the setting it shows, the one its handler
                \* reads, whether its last answer was a stale one, its inbox
    requests,   \* reports, completions and removals on their way
    mishaps     \* what went wrong so far

pageVars == <<entry, view>>
linkVars == <<conn, roomRef, call, room, heard, inbox, joinedAt, shown>>
serverVars == <<phase, setting, admin, requests>>
vars == <<pageVars, linkVars, serverVars, mishaps>>

\* The route /latency-threshold.
ServedThreshold == IF Configured > 0 THEN Configured ELSE Default

Calls(p) == 1..Attempts[p]
Awaits == {"none", "token", "join", "register", "hello", "closing", "over"}
Kinds == {"withdraw", "complete", "remove", "kick"}
Message(type, value) == [type |-> type, value |-> value]
Messages == [type : {"flow", "complete", "end", "kick", "set", "state", "hello"}, value : 0..Settings + 1]

TypeOK ==
    /\ entry \in [Pages -> [check : {"none", "measuring", "done", "error"}, rtt : Rtts \cup {0}, threshold : {Default, ServedThreshold},
                            passed : BOOLEAN, consented : BOOLEAN, cancelled : BOOLEAN]]
    /\ view \in [Pages -> [open : BOOLEAN, flow : BOOLEAN, told : BOOLEAN, reported : BOOLEAN,
                           outcome : BOOLEAN, kicked : BOOLEAN, leaving : BOOLEAN]]
    /\ conn \in [Pages -> {"disconnected", "connecting", "connected"}]
    /\ DOMAIN roomRef = Pages /\ \A p \in Pages : roomRef[p] \in 0..Attempts[p]
    /\ DOMAIN call = Pages /\ DOMAIN room = Pages /\ DOMAIN heard = Pages /\ DOMAIN inbox = Pages
    /\ \A p \in Pages :
        /\ call[p] \in [Calls(p) -> [at : Awaits, closes : 0..Attempts[p]]]
        /\ room[p] \in [Calls(p) -> {"none", "in", "removed", "out"}]
        /\ heard[p] \in [Calls(p) -> BOOLEAN]
        /\ inbox[p] \in [Calls(p) -> Seq(Messages)]
    /\ joinedAt \in [Pages -> 0..Settings + 1]
    /\ shown \in [Pages -> 0..Settings + 1]
    /\ phase \in {"waiting", "running", "completed", "cleaned", "stopped"}
    /\ setting \in 0..Settings + 1
    /\ admin \in [shows : 0..Settings + 1, reads : 0..Settings + 1, stale : BOOLEAN, inbox : Seq(Messages)]
    /\ requests \in [Kinds -> SUBSET Pages]
    /\ mishaps \in SUBSET UNION Plans

NewEntry(p) == [check |-> "none", rtt |-> 0, threshold |-> Default, passed |-> p \in AutoConnect,
                consented |-> p \in AutoConnect, cancelled |-> FALSE]
NewView == [open |-> TRUE, flow |-> FALSE, told |-> FALSE, reported |-> FALSE,
            outcome |-> FALSE, kicked |-> FALSE, leaving |-> FALSE]

Init ==
    /\ entry = [p \in Pages |-> NewEntry(p)]
    /\ view = [p \in Pages |-> NewView]
    /\ conn = [p \in Pages |-> "disconnected"]
    /\ roomRef = [p \in Pages |-> 0]
    /\ call = [p \in Pages |-> [i \in Calls(p) |-> [at |-> "none", closes |-> 0]]]
    /\ room = [p \in Pages |-> [i \in Calls(p) |-> "none"]]
    /\ heard = [p \in Pages |-> [i \in Calls(p) |-> FALSE]]
    /\ inbox = [p \in Pages |-> [i \in Calls(p) |-> <<>>]]
    /\ joinedAt = [p \in Pages |-> 0]
    /\ shown = [p \in Pages |-> 0]
    /\ phase = "waiting"
    /\ setting = 0
    /\ admin = [shows |-> 0, reads |-> 0, stale |-> FALSE, inbox |-> <<>>]
    /\ requests = [k \in Kinds |-> {}]
    /\ mishaps = {}

Mishap(m, S) ==
    /\ S \subseteq Exposed
    /\ m \notin mishaps
    /\ \E plan \in Plans : mishaps \cup {m} \subseteq plan
    /\ mishaps' = mishaps \cup {m}

InRoom(p) == \E i \in Calls(p) : room[p][i] = "in"

\* A message over the room to the pages of S that are in it.
Received(S, message) ==
    [p \in Pages |-> [i \in Calls(p) |->
        IF p \in S /\ room[p][i] = "in" THEN Append(inbox[p][i], message) ELSE inbox[p][i]]]

-----------------------------------------------------------------------------
(* Before the room: the speed check and the consent screen.                 *)

\* The screens that come before the consent screen hide it.
AtConsent(p) == view[p].open /\ ~entry[p].consented /\ ~entry[p].cancelled

Enter(p, changed) ==
    /\ entry' = [entry EXCEPT ![p] = changed]
    /\ UNCHANGED <<view, linkVars, serverVars, mishaps>>

\* The page learns the configured threshold; until then the default counts.
LearnThreshold(p) ==
    /\ AtConsent(p) /\ p \notin AutoConnect /\ entry[p].threshold # ServedThreshold
    /\ Enter(p, [entry[p] EXCEPT !.threshold = ServedThreshold])

MeasureLatency(p) ==
    /\ AtConsent(p) /\ ~entry[p].passed
    /\ entry[p].check # "measuring"
    /\ Enter(p, [entry[p] EXCEPT !.check = "measuring", !.rtt = 0])

Measuring(p) == view[p].open /\ entry[p].check = "measuring"

\* No token, no connection, or getRttMs() never found a selected pair.
NoSample(p) == Measuring(p) /\ Enter(p, [entry[p] EXCEPT !.check = "error"])

\* The median of ten seconds.
Measured(p) ==
    /\ Measuring(p)
    /\ \E median \in Rtts : Enter(p, [entry[p] EXCEPT !.check = "done", !.rtt = median])

\* "Continue" is shown for a result within the threshold.
ContinueShown(p) == entry[p].check = "done" /\ entry[p].rtt <= entry[p].threshold

Continue(p) ==
    /\ AtConsent(p) /\ ~entry[p].passed
    /\ ContinueShown(p)
    /\ Enter(p, [entry[p] EXCEPT !.passed = TRUE])

Agree(p) ==
    /\ AtConsent(p) /\ entry[p].passed
    /\ Enter(p, [entry[p] EXCEPT !.consented = TRUE])

\* "I Do Not Agree".
Decline(p) == AtConsent(p) /\ Enter(p, [entry[p] EXCEPT !.cancelled = TRUE])

\* CONSENT_DEADLINE_SECONDS are over.
Deadline(p) ==
    /\ AtConsent(p) /\ p \notin AutoConnect
    /\ Enter(p, [entry[p] EXCEPT !.cancelled = TRUE])

-----------------------------------------------------------------------------
(* connect() and disconnect().                                              *)

At(p, i, l) == view[p].open /\ call[p][i].at = l
Goto(p, i, l) == call' = [call EXCEPT ![p][i].at = l]

\* mutant of MayConnect: without the look at the outcome
MayConnect_Always(p) == entry[p].consented
MayConnect(p) == entry[p].consented /\ ~view[p].outcome

\* The effect that connects the page whenever it finds it disconnected; it
\* does not look at isKicked.
Connect(p) ==
    /\ view[p].open /\ MayConnect(p) /\ conn[p] = "disconnected"
    /\ \E i \in Calls(p) :
        /\ call[p][i].at = "none"
        /\ \A j \in 1..(i - 1) : call[p][j].at # "none"
        /\ Goto(p, i, "token")
    /\ conn' = [conn EXCEPT ![p] = "connecting"]
    /\ UNCHANGED <<pageVars, roomRef, room, heard, inbox, joinedAt, shown, serverVars, mishaps>>

\* The token arrived: the page's room is a new one, with listeners.
Token(p, i) ==
    /\ At(p, i, "token")
    /\ Goto(p, i, "join")
    /\ roomRef' = [roomRef EXCEPT ![p] = i]
    /\ heard' = [heard EXCEPT ![p][i] = TRUE]
    /\ UNCHANGED <<pageVars, conn, room, inbox, joinedAt, shown, serverVars, mishaps>>

\* The token of every call names the identity the page asks for: the server
\* ends an older connection of it.
Displacing(p, i) ==
    [j \in Calls(p) |-> IF j = i THEN "in" ELSE IF room[p][j] = "in" THEN "removed" ELSE room[p][j]]

\* The connection is made.
Join(p, i) ==
    /\ At(p, i, "join") /\ room[p][i] = "none"
    /\ Goto(p, i, "register")
    /\ room' = [room EXCEPT ![p] = Displacing(p, i)]
    /\ joinedAt' = [joinedAt EXCEPT ![p] = setting]
    /\ conn' = [conn EXCEPT ![p] = "connected"]
    /\ UNCHANGED <<pageVars, roomRef, heard, inbox, shown, serverVars, mishaps>>

\* /agent/prolific-session was answered, with whatever status.
Register(p, i) ==
    /\ At(p, i, "register")
    /\ Goto(p, i, "hello")
    /\ UNCHANGED <<pageVars, conn, roomRef, room, heard, inbox, joinedAt, shown, serverVars, mishaps>>

\* Half a second later the page says hello over the room of this call.
Hello(p, i) ==
    /\ At(p, i, "hello")
    /\ Goto(p, i, "over")
    /\ admin' = IF room[p][i] = "in" THEN [admin EXCEPT !.inbox = Append(@, Message("hello", 0))] ELSE admin
    /\ UNCHANGED <<pageVars, conn, roomRef, room, heard, inbox, joinedAt, shown,
                   phase, setting, requests, mishaps>>

\* The catch of connect(): disconnect() leaves the room the page uses now,
\* which may be the room of a later call.
Catch(p, i, state) ==
    LET r == roomRef[p]
    IN  /\ IF r = 0
             THEN /\ Goto(p, i, "over")
                  /\ conn' = [conn EXCEPT ![p] = "disconnected"]
                  /\ UNCHANGED <<room, heard, inbox>>
             ELSE /\ call' = [call EXCEPT ![p][i] = [at |-> "closing", closes |-> r]]
                  /\ conn' = [conn EXCEPT ![p] = state]
                  /\ room' = [room EXCEPT ![p][r] = "out"]
                  /\ heard' = [heard EXCEPT ![p][r] = FALSE]
                  /\ inbox' = [inbox EXCEPT ![p][r] = <<>>]
        /\ UNCHANGED <<pageVars, roomRef, joinedAt, shown, serverVars>>

TokenFails(p, i) == At(p, i, "token") /\ Mishap("token", {p}) /\ Catch(p, i, conn[p])

\* A failing connection first reports itself as disconnected.
JoinFails(p, i) == At(p, i, "join") /\ room[p][i] = "none" /\ Mishap("join", {p}) /\ Catch(p, i, "disconnected")

\* The room of this call was closed by another call, or by the completion.
JoinCut(p, i) == At(p, i, "join") /\ room[p][i] = "out" /\ Catch(p, i, conn[p]) /\ UNCHANGED mishaps

RegisterFails(p, i) == At(p, i, "register") /\ Mishap("register", {p}) /\ Catch(p, i, conn[p])

\* mutant of Closed: the catch leaves the connection state alone
Closed_Silent(p, i) ==
    /\ At(p, i, "closing")
    /\ call' = [call EXCEPT ![p][i] = [at |-> "over", closes |-> 0]]
    /\ roomRef' = [roomRef EXCEPT ![p] = 0]
    /\ UNCHANGED <<pageVars, conn, room, heard, inbox, joinedAt, shown, serverVars, mishaps>>
\* disconnect() returned: roomRef is cleared, whatever room it names by now.
Closed(p, i) ==
    /\ At(p, i, "closing")
    /\ call' = [call EXCEPT ![p][i] = [at |-> "over", closes |-> 0]]
    /\ roomRef' = [roomRef EXCEPT ![p] = 0]
    /\ conn' = [conn EXCEPT ![p] = "disconnected"]
    /\ UNCHANGED <<pageVars, room, heard, inbox, joinedAt, shown, serverVars, mishaps>>

\* mutant of Ended: the page adopts a state of the library it does not know
Ended_Reconnecting(p, i) ==
    /\ room' = [room EXCEPT ![p][i] = "out"]
    /\ inbox' = [inbox EXCEPT ![p][i] = <<>>]
    /\ conn' = IF heard[p][i] THEN [conn EXCEPT ![p] = "reconnecting"] ELSE conn
\* The listener of a room that ended; what was on its way is lost.
Ended(p, i) ==
    /\ room' = [room EXCEPT ![p][i] = "out"]
    /\ inbox' = [inbox EXCEPT ![p][i] = <<>>]
    /\ conn' = IF heard[p][i] THEN [conn EXCEPT ![p] = "disconnected"] ELSE conn

\* The page notices that the server removed it: the notice may overtake data.
Left(p, i) ==
    /\ view[p].open /\ room[p][i] = "removed"
    /\ Ended(p, i)
    /\ UNCHANGED <<pageVars, roomRef, call, heard, joinedAt, shown, serverVars, mishaps>>

\* The network drops the connection.
Drop(p, i) ==
    /\ view[p].open /\ room[p][i] = "in" /\ Mishap("drop", {p})
    /\ Ended(p, i)
    /\ UNCHANGED <<pageVars, roomRef, call, heard, joinedAt, shown, serverVars>>
-----------------------------------------------------------------------------
(* What arrives over a room, and how a page ends.                           *)

See(p, changed) == view' = [view EXCEPT ![p] = changed]
Ask(kind, S) == requests' = [requests EXCEPT ![kind] = @ \cup S]

\* reportParticipantWithdraw(): one report of a page whose flow began, unless
\* it was told of its end.
Reports(p) == view[p].flow /\ ~view[p].told /\ ~view[p].reported

\* finishParticipantSession(): tell the server, leave the room the page uses.
Finish(p, i) ==
    LET r == roomRef[p]
    IN  /\ See(p, [view[p] EXCEPT !.told = TRUE, !.leaving = TRUE])
        /\ Ask("complete", {p})
        /\ room' = [room EXCEPT ![p] = [j \in Calls(p) |-> IF j = r THEN "out" ELSE @[j]]]
        /\ inbox' = [inbox EXCEPT ![p] = [j \in Calls(p) |-> IF j = r THEN <<>>
                                                        ELSE IF j = i THEN Tail(@[j]) ELSE @[j]]]
        /\ conn' = IF r = 0 THEN conn ELSE [conn EXCEPT ![p] = "disconnected"]
        /\ UNCHANGED shown

\* handleBroadcastMessage() and handleControlMessage() on a participant's page.
Handle(p, message) ==
    \/ /\ message.type = "flow"
       /\ See(p, [view[p] EXCEPT !.flow = TRUE])
       /\ UNCHANGED shown
    \/ /\ message.type = "end"
       /\ See(p, [view[p] EXCEPT !.told = TRUE, !.outcome = TRUE])
       /\ UNCHANGED shown
    \/ /\ message.type = "kick"
       /\ See(p, [view[p] EXCEPT !.kicked = TRUE])
       /\ UNCHANGED shown
    \/ /\ message.type \in {"set", "state"}
       /\ shown' = [shown EXCEPT ![p] = message.value]
       /\ UNCHANGED view

Deliver(p, i) ==
    /\ view[p].open /\ heard[p][i] /\ inbox[p][i] # <<>>
    /\ IF Head(inbox[p][i]).type = "complete"
         THEN Finish(p, i)
         ELSE /\ Handle(p, Head(inbox[p][i]))
              /\ inbox' = [inbox EXCEPT ![p][i] = Tail(@)]
              /\ UNCHANGED <<conn, room, requests>>
    /\ UNCHANGED <<entry, roomRef, call, heard, joinedAt, phase, setting, admin, mishaps>>

\* The page is gone, and with it its calls and connections.
Gone(p) ==
    /\ See(p, [view[p] EXCEPT !.open = FALSE])
    /\ call' = [call EXCEPT ![p] = [i \in Calls(p) |-> IF @[i].at = "none" THEN @[i] ELSE [at |-> "over", closes |-> 0]]]
    /\ room' = [room EXCEPT ![p] = [i \in Calls(p) |-> IF @[i] = "none" THEN @[i] ELSE "out"]]
    /\ inbox' = [inbox EXCEPT ![p] = [i \in Calls(p) |-> <<>>]]
    /\ heard' = [heard EXCEPT ![p] = [i \in Calls(p) |-> FALSE]]
    /\ conn' = [conn EXCEPT ![p] = "disconnected"]
    /\ roomRef' = [roomRef EXCEPT ![p] = 0]
    /\ UNCHANGED <<entry, joinedAt, shown, phase, setting, admin>>

\* The browser follows the completion URL.
Navigate(p) ==
    /\ view[p].open /\ view[p].leaving
    /\ Gone(p)
    /\ UNCHANGED <<requests, mishaps>>

\* The participant closes the page; its beacon may be lost on the way.
Unload(p) ==
    /\ view[p].open /\ Mishap("close", {p})
    /\ Gone(p)
    /\ \/ Reports(p) /\ Ask("withdraw", {p})
       \/ UNCHANGED requests

\* The participant opens the page again.
Reopen(p) ==
    /\ ~view[p].open /\ Mishap("reopen", {p})
    /\ entry' = [entry EXCEPT ![p] = NewEntry(p)]
    /\ See(p, NewView)
    /\ shown' = [shown EXCEPT ![p] = 0]
    /\ UNCHANGED <<conn, roomRef, call, room, heard, inbox, joinedAt, serverVars>>

\* Two minutes without a movement of the cursor.
Inactive(p) ==
    /\ view[p].open /\ conn[p] = "connected" /\ Reports(p) /\ Mishap("idle", {p})
    /\ See(p, [view[p] EXCEPT !.reported = TRUE])
    /\ Ask("withdraw", {p})
    /\ UNCHANGED <<entry, linkVars, phase, setting, admin>>

-----------------------------------------------------------------------------
(* The agent, the admin's page and the routes, as the pages meet them.      *)

\* Both are in the room: the instructions begin.
Begin ==
    /\ phase = "waiting" /\ \A p \in Pages : InRoom(p)
    /\ phase' = "running"
    /\ inbox' = Received(Pages, Message("flow", 0))
    /\ UNCHANGED <<pageVars, conn, roomRef, call, room, heard, joinedAt, shown, setting, admin, requests, mishaps>>

\* The agent changes a setting of every page.
SetControl ==
    /\ phase = "running" /\ setting < Settings + Cardinality(mishaps \cap {"operator"})
    /\ setting' = setting + 1
    /\ inbox' = Received(Pages, Message("set", setting'))
    /\ admin' = [admin EXCEPT !.inbox = Append(@, Message("set", setting'))]
    /\ UNCHANGED <<pageVars, conn, roomRef, call, room, heard, joinedAt, shown, phase, requests, mishaps>>

\* The operator changes a setting on the admin's page, which adopts it and sends
\* it.  One of the agent that is on its way there would replace it again: that
\* race of two who set the same is left out.
OperatorSets ==
    /\ Mishap("operator", {})
    /\ \A k \in DOMAIN admin.inbox : admin.inbox[k].type # "set"
    /\ setting' = setting + 1
    /\ inbox' = Received(Pages, Message("set", setting'))
    /\ admin' = [admin EXCEPT !.shows = setting']
    /\ UNCHANGED <<pageVars, conn, roomRef, call, room, heard, joinedAt, shown, phase, requests>>

\* mutant of NextForAdmin: a hello is answered before what came before it
NextForAdmin_Hello ==
    IF \E k \in DOMAIN admin.inbox : admin.inbox[k].type = "hello"
      THEN CHOOSE k \in DOMAIN admin.inbox : admin.inbox[k].type = "hello"
      ELSE 1
\* Messages reach the admin's page in the order in which the room took them.
NextForAdmin == 1

\* The admin's page adopts a setting of the agent, and answers a hello to the
\* whole room, with what the handler of its last render reads: an older setting
\* if one came just before.
AdminReceives ==
    /\ admin.inbox # <<>>
    /\ LET message == admin.inbox[NextForAdmin]
           rest == RemoveAt(admin.inbox, NextForAdmin)
       IN  IF message.type = "hello"
             THEN /\ inbox' = Received(Pages, Message("state", admin.reads))
                  /\ admin' = [admin EXCEPT !.inbox = rest, !.stale = (admin.reads # admin.shows)]
             ELSE /\ admin' = [admin EXCEPT !.inbox = rest, !.shows = message.value]
                  /\ UNCHANGED inbox
    /\ UNCHANGED <<pageVars, conn, roomRef, call, room, heard, joinedAt, shown, phase, setting, requests, mishaps>>

\* React renders what was adopted, and an effect gives the listeners the new
\* handler.
AdminRenders ==
    /\ admin.reads # admin.shows
    /\ admin' = [admin EXCEPT !.reads = admin.shows]
    /\ UNCHANGED <<pageVars, linkVars, phase, setting, requests, mishaps>>

\* execEndSession(): everybody in the room is sent to the completion URL.
CompleteSession ==
    /\ phase = "running"
    /\ phase' = "completed"
    /\ inbox' = Received(Pages, Message("complete", 0))
    /\ UNCHANGED <<pageVars, conn, roomRef, call, room, heard, joinedAt, shown, setting, admin, requests, mishaps>>

\* A lost participant ends the session of the pair: those who are there are
\* told, unless the message fails, and the recovery may remove both.
Interrupt ==
    /\ phase' = "stopped"
    /\ \/ inbox' = Received(Pages, Message("end", 0)) /\ UNCHANGED mishaps
       \/ Mishap("send", {}) /\ UNCHANGED inbox
    /\ UNCHANGED <<pageVars, conn, roomRef, call, room, heard, joinedAt, shown, setting, admin>>

\* The agent misses one of the pages.
Absence ==
    /\ phase = "running" /\ \E p \in Pages : ~InRoom(p)
    /\ \E removed \in {{}, Pages} : Interrupt /\ Ask("remove", removed)

\* /agent/participant-withdraw answers at once; the agent looks at its state only.
HandleReport(p) ==
    /\ p \in requests["withdraw"]
    /\ IF phase = "running"
         THEN \E removed \in {{}, Pages} :
                /\ Interrupt
                /\ requests' = [requests EXCEPT !["withdraw"] = @ \ {p}, !["remove"] = removed]
         ELSE /\ requests' = [requests EXCEPT !["withdraw"] = @ \ {p}]
              /\ UNCHANGED <<pageVars, linkVars, phase, setting, admin, mishaps>>

\* removeParticipant() of whoever of S is in the room.
Removed(S) ==
    room' = [p \in Pages |-> [i \in Calls(p) |-> IF p \in S /\ room[p][i] = "in" THEN "removed" ELSE room[p][i]]]

RemoveFromRoom(kind, p) ==
    /\ p \in requests[kind]
    /\ requests' = [requests EXCEPT ![kind] = @ \ {p}]
    /\ Removed({p})
    /\ UNCHANGED <<pageVars, conn, roomRef, call, heard, inbox, joinedAt, shown, phase, setting, admin, mishaps>>

\* The end of a recovery, /agent/participant-complete and /kick.
RemoveInterrupted(p) == RemoveFromRoom("remove", p)
RemoveCompleted(p) == RemoveFromRoom("complete", p)
RemoveKicked(p) == RemoveFromRoom("kick", p)

\* Two minutes after the end of the session.
CleanUp ==
    /\ phase = "completed"
    /\ phase' = "cleaned"
    /\ Removed(Pages)
    /\ UNCHANGED <<pageVars, conn, roomRef, call, heard, inbox, joinedAt, shown, setting, admin, requests, mishaps>>

\* The operator removes a participant: a message, and a request that may fail.
Kick(p) ==
    /\ Mishap("kick", {p}) /\ InRoom(p)
    /\ inbox' = Received({p}, Message("kick", 0))
    /\ Ask("kick", {p}) \/ UNCHANGED requests
    /\ UNCHANGED <<pageVars, conn, roomRef, call, room, heard, joinedAt, shown, phase, setting, admin>>

-----------------------------------------------------------------------------
Connecting(p) ==
    \/ Connect(p)
    \/ \E i \in Calls(p) : Token(p, i) \/ Join(p, i) \/ Register(p, i) \/ Hello(p, i) \/ JoinCut(p, i)
                        \/ Closed(p, i) \/ Left(p, i)
Failing(p) ==
    \E i \in Calls(p) : TokenFails(p, i) \/ JoinFails(p, i) \/ RegisterFails(p, i) \/ Drop(p, i)
Entering(p) ==
    \/ LearnThreshold(p) \/ MeasureLatency(p) \/ NoSample(p) \/ Measured(p) \/ Continue(p)
    \/ Agree(p) \/ Decline(p) \/ Deadline(p)
Receiving(p) == (\E i \in Calls(p) : Deliver(p, i)) \/ Navigate(p)
Ending(p) == Unload(p) \/ Reopen(p) \/ Inactive(p) \/ Kick(p)
Serving(p) == HandleReport(p) \/ RemoveInterrupted(p) \/ RemoveCompleted(p) \/ RemoveKicked(p)

Next ==
    \/ \E p \in Pages : Connecting(p) \/ Failing(p) \/ Entering(p) \/ Receiving(p) \/ Ending(p) \/ Serving(p)
    \/ Begin \/ SetControl \/ OperatorSets \/ AdminReceives \/ AdminRenders \/ CompleteSession \/ Absence \/ CleanUp

Spec == Init /\ [][Next]_vars

\* Awaits are answered, rooms deliver, and the two roles of the server go on;
\* participants and what goes wrong may take their time for ever.
Fairness ==
    /\ \A p \in Pages : WF_vars(Connecting(p)) /\ WF_vars(Receiving(p)) /\ WF_vars(Serving(p))
    /\ WF_vars(AdminReceives)
FairSpec == Spec /\ Fairness

-----------------------------------------------------------------------------
Went(S) == mishaps \cap S # {}

\* A page that told its participant that it is over (cancelled, ended, closed)
\* makes no connection any more, also not by a call that was under way.  A
\* failed registration or connection may let a page run two calls at a time.
EndedStaysOut ==
    [][\A p \in Pages : entry[p].cancelled \/ view[p].outcome \/ ~view[p].open =>
            \A i \in Calls(p) : room'[p][i] = "in" => room[p][i] = "in" \/ Went({"join", "register"})]_vars

\* Once a page said hello, the admin answered and everything arrived, it shows
\* a setting at least as new as the agent's when it connected: the answers to
\* all pages go to all, in the order of what the admin heard before.  It need
\* not if the last answer was given between a setting and its render, which may
\* take every page back to an older one; and a page with two connections may
\* read an old answer on the older one.
JoinerCaughtUp ==
    \A p \in Pages : \A i \in Calls(p) :
        /\ room[p][i] = "in" /\ call[p][i].at = "over" /\ inbox[p][i] = <<>>
        /\ \A k \in DOMAIN admin.inbox : admin.inbox[k].type # "hello"
        => shown[p] >= joinedAt[p] \/ admin.stale \/ Went({"join", "register"})

Settled(p) ==
    conn[p] = "connected" /\ roomRef[p] # 0 /\ room[p][roomRef[p]] = "in"

Spent(p) == call[p][Attempts[p]].at # "none"

\* A page whose participant consented is back in the room after every loss,
\* with the room it uses being the one that is connected, until it is over
\* for it.
BackInRoom ==
    \A p \in Pages :
        (view[p].open /\ entry[p].consented)
        ~> (Settled(p) \/ ~view[p].open \/ view[p].outcome \/ view[p].leaving
            \/ Spent(p) \/ Went({"join", "register"}))

\* execEndSession() redirects all participants to the completion URL.
EveryoneRedirected == phase = "completed" ~> \A p \in Pages : ~view[p].open
=============================================================================
