---------------------------- MODULE MCStartGate ----------------------------
EXTENDS StartGate

\* Two identities and two presses: one press each, raced, repeated by one of
\* them, answered late or left over from a session before.
MCMembers == 1..2
MCPresses == 1..2
=============================================================================
