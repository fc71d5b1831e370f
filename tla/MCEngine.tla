------------------------------ MODULE MCEngine ------------------------------
(* Small instances of Engine for TLC. *)
EXTENDS Engine

Dense == [type |-> "llama", n |-> 2, experts |-> 0, types |-> <<>>, window |-> 1,
          pattern |-> 1, shared |-> 0, blockMoe |-> FALSE, step |-> 1, dense |-> {}]

\* Dense and MoE layers by turns; a dense layer before MoE ones; sliding and full by
\* turns; the upper half of the layers sharing keys with the lower; and, as in the
\* default of Gemma 4, more layers sharing keys than there are others.
MCConfigs == {
  Dense,
  [Dense EXCEPT !.type = "qwen3_moe", !.n = 3, !.experts = 2, !.dense = {1}],
  [Dense EXCEPT !.type = "gpt_oss", !.experts = 2, !.window = 2],
  [Dense EXCEPT !.type = "deepseek_v32", !.n = 3, !.experts = 2, !.dense = {0}],
  [Dense EXCEPT !.type = "gemma3", !.pattern = 2, !.window = 2],
  [Dense EXCEPT !.type = "gemma4", !.n = 6, !.shared = 3, !.window = 2,
    !.types = <<"sliding", "full", "sliding", "sliding", "full", "sliding">>],
  [Dense EXCEPT !.type = "gemma4", !.n = 3, !.shared = 2, !.window = 2,
    !.types = <<"sliding", "full", "sliding">>]}

\* A wide window; or every guess at the experts.
MCOptions == {
  [prefetch |-> TRUE, window |-> 2, experts |-> FALSE, depth |-> 0, topn |-> 1, frac |-> 8],
  [prefetch |-> TRUE, window |-> 1, experts |-> TRUE, depth |-> 1, topn |-> 1, frac |-> 8]}

MCBytes(p) == 1
MCFileBytes(p) == 1
=============================================================================
