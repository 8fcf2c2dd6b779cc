---------------------------- MODULE Recruitment ----------------------------
(***************************************************************************)
(* What the paired-session core promises of one Prolific study: which      *)
(* changes of its recruitment the agent may cause.  While the agent        *)
(* recruits the study is left alone; a pair that could not start is        *)
(* released with the study paused, and a paused study is reopened only     *)
(* when it holds nobody any more; once a pair has started, recruitment is  *)
(* held for the rest of that session.                                      *)
(***************************************************************************)

VARIABLES
    phase,      \* what the agent does with the study
    open,       \* does the study recruit?
    holds       \* does the study hold a submission?

Init == phase = "recruiting" /\ open = TRUE /\ holds = FALSE

\* People come only while the study recruits, and go when they like.
People ==
    /\ holds' \in {FALSE, open}
    /\ UNCHANGED <<phase, open>>

\* Both participants pressed START: pause, for the rest of the session.
Hold ==
    /\ phase = "recruiting"
    /\ phase' = "held" /\ open' = FALSE

\* Nobody started: begin to release the participants ...
Release == phase = "recruiting" /\ phase' = "releasing" /\ UNCHANGED open

\* ... with recruitment paused ...
Pause == phase = "releasing" /\ open' = FALSE /\ UNCHANGED phase
\* ... and reopened when they, and whoever came meanwhile, are gone.
Reopens == (open \/ ~holds) /\ open' = TRUE
Reopen == phase = "releasing" /\ Reopens /\ UNCHANGED phase

\* Wait for the next pair, behind a study that was reopened.
Recruit ==
    /\ phase = "releasing" /\ open
    /\ phase' = "recruiting" /\ UNCHANGED open

\* The session ends, orderly or because a request failed.  The last pause or
\* start request may have reached Prolific although its answer did not arrive.
End ==
    /\ phase # "over"
    /\ phase' = "over"
    /\ \/ UNCHANGED open
       \/ phase = "recruiting" /\ open' = FALSE
       \/ phase = "releasing" /\ (open' = FALSE \/ Reopens)

\* The experiment is started again; the study is as it was left.
Begin == phase = "over" /\ phase' = "recruiting" /\ UNCHANGED open

Agent == Hold \/ Release \/ Pause \/ Reopen \/ Recruit \/ End \/ Begin

Next == People \/ (Agent /\ UNCHANGED holds)

Spec == Init /\ [][Next]_<<phase, open, holds>>

-----------------------------------------------------------------------------
\* A study whose pair started does not recruit before that session is over.
HeldForGood == [][phase = "held" => phase' \in {"held", "over"} /\ ~open']_<<phase, open>>
=============================================================================
