---------------------------- MODULE UploadService ----------------------------
(***************************************************************************)
(* What the upload queue promises its caller: a line of recordings, served *)
(* one at a time and first come first served.                              *)
(***************************************************************************)
EXTENDS Sequences

CONSTANT Recordings

VARIABLES
    line,       \* the recordings accepted, the one being stored first
    result      \* what became of each recording

InLine(r) == \E i \in DOMAIN line : line[i] = r

Init == line = <<>> /\ result = [r \in Recordings |-> "none"]

\* A recording joins the line unless it is already in it.
Accept(r) ==
    /\ ~InLine(r)
    /\ line' = Append(line, r)
    /\ result' = [result EXCEPT ![r] = "pending"]

\* The first recording is stored, or given up.
Serve(outcome) ==
    /\ line # <<>>
    /\ line' = Tail(line)
    /\ result' = [result EXCEPT ![Head(line)] = outcome]

Next ==
    \/ \E r \in Recordings : Accept(r)
    \/ \E outcome \in {"stored", "failed"} : Serve(outcome)

Spec == Init /\ [][Next]_<<line, result>>
=============================================================================
