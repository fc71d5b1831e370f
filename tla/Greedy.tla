------------------------------- MODULE Greedy -------------------------------
(***************************************************************************)
(* What a greedy decoding loop promises to the consumer of its tokens: it  *)
(* yields the target model's own argmax after the prompt and the tokens    *)
(* yielded so far, one at a time, up to the limit or to the end-of-text    *)
(* token, and then it ends.  A loop that is not exact yields one of the    *)
(* target's likeliest tokens instead.  The consumer may stop resuming it.  *)
(***************************************************************************)
EXTENDS Integers, Sequences

CONSTANTS
  Eos,        \* the end-of-text token
  Argmax(_),  \* the target's most likely token after a sequence
  TopK(_)     \* its accept_top_k most likely ones

VARIABLES
  prompt, limit,
  heedsEos,   \* the loop itself stops at Eos (stream_generate leaves it to its caller)
  exact,      \* accept_top_k is 1
  abandoned,  \* the consumer will not resume the loop again
  out         \* tokens yielded

call == <<prompt, limit, heedsEos, exact>>
vars == <<call, abandoned, out>>

Init == out = <<>> /\ ~abandoned

Finished ==
  Len(out) = limit \/ (heedsEos /\ out # <<>> /\ out[Len(out)] = Eos)

Yield ==
  /\ ~Finished /\ ~abandoned
  /\ \E t \in IF exact THEN {Argmax(prompt \o out)} ELSE TopK(prompt \o out) :
       out' = Append(out, t)
  /\ UNCHANGED <<call, abandoned>>

Abandon ==
  /\ ~abandoned /\ abandoned' = TRUE
  /\ UNCHANGED <<call, out>>

Spec == Init /\ [][Yield \/ Abandon]_vars /\ WF_vars(Yield)
=============================================================================
