---------------------------- MODULE MCGeneration ----------------------------
(* Small instances of Generation, Loops and Cli for TLC. *)
EXTENDS Cli

\* A target whose next token depends on every token before it.
MCArgmax(s) == 1 + (FoldLeft(LAMBDA a, t : (2 * a + t) % 11, 0, s) % 3)

\* accept_top_k 2: the argmax and one other token.
MCTopK(s) == {MCArgmax(s), 1 + ((MCArgmax(s) + Len(s)) % 3)}

\* Two children of the root, two of each of them.
MCBranching == <<2, 2>>

\* One full-attention layer; one and a sliding-window layer before it.
MCFull == <<"full">>
MCMixed == <<"window", "full">>

\* Command lines: one for each loop, and each that is refused.
Bare == [ngram |-> FALSE, eagle |-> "none", draft |-> "none", fast |-> FALSE,
         quant |-> TRUE, prompt |-> TRUE]
MCCommands ==
  {Bare, [Bare EXCEPT !.ngram = TRUE], [Bare EXCEPT !.eagle = "found"],
   [Bare EXCEPT !.draft = "model"], [Bare EXCEPT !.draft = "model", !.fast = TRUE],
   [Bare EXCEPT !.draft = "assistant"],
   [Bare EXCEPT !.ngram = TRUE, !.draft = "model"], [Bare EXCEPT !.quant = FALSE],
   [Bare EXCEPT !.prompt = FALSE], [Bare EXCEPT !.eagle = "missing"]}
MCBare == {Bare}

MCPrompts == BoundedSeq({1, 2}, 3) \ {<<>>}
=============================================================================
