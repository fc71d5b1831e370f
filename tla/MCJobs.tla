------------------------------- MODULE MCJobs -------------------------------
(* Small instances of Jobs and WebApp for TLC. *)
EXTENDS WebApp, TLC

CONSTANTS a, b, c, m1, m2

\* Two jobs that may be grouped, and one that never is, with the name of the first.
MCKey  == [j \in Job |-> IF j = c THEN Alone ELSE "k"]
MCName == [j \in Job |-> IF j = c THEN a ELSE j]

\* The two that may be grouped are files of one request.
MCRequests == {<<a, b>>, <<c>>}

\* Each file by itself, or both at once.
MCSingles == {<<a>>, <<b>>, <<c>>}
MCPair    == {<<a, b>>}

\* The third job is for another model.
MCEngine == [j \in Job |-> IF j = c THEN m2 ELSE m1]

\* Files of the same name, in one batch.
MCSameKey  == [j \in Job |-> "k"]
MCSameName == [j \in Job |-> a]
=============================================================================
