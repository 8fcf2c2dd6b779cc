-------------------------- MODULE MCParticipantPage --------------------------
EXTENDS ParticipantPage, TLC

CONSTANTS p1, p2

\* The page that meets the mishaps connects again and again, the other once.
MCAttempts == [p \in Pages |-> IF p = p1 THEN 3 ELSE 1]
\* Two ordinary mishaps; a connection or a registration that fails, which may
\* leave the page with two calls at a time, comes alone.
Ordinary == {"token", "drop", "send", "close", "reopen", "idle", "kick"}
MCPlans == {{m, n} : m, n \in Ordinary} \cup {{"join"}, {"register"}, {"operator", "drop"}}
\* The network only.
MCDrop == {{"drop"}}
=============================================================================
