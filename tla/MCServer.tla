------------------------------ MODULE MCServer ------------------------------
(* Small instances of Server and Http for TLC. *)
EXTENDS Http

\* A target whose next token depends on every token before it.
MCArgmax(s) == 1 + (FoldLeft(LAMBDA a, t : (4 * a + t) % 11, 0, s) % 3)

\* The server never asks for the fast mode.
MCTopK(s) == {MCArgmax(s)}

\* A sliding-window layer before a full-attention one, as in gpt-oss.
MCMixed == <<"window", "full">>
MCFull  == <<"full", "full">>

MCPrompts == BoundedSeq({1, 2}, 3) \ {<<>>}

\* No stop sequence; two, one of which may turn out not to be completed.
MCStopLists == {<<>>, <<<<2, 1>>, <<1, 1, 2>>>>}
=============================================================================
