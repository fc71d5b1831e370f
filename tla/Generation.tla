----------------------------- MODULE Generation -----------------------------
(***************************************************************************)
(* The greedy decoding loops of src/nunspark/generate.py and               *)
(* generate_optimized.py: one generator that prefills a prompt and yields  *)
(* tokens, drafting and verifying several at a time.                       *)
(*                                                                         *)
(* What the target computes is abstracted to Argmax, a fixed function of   *)
(* the sequence whose rows its KV caches hold.  When the layers' caches no *)
(* longer hold the rows of one sequence, it may answer anything.  A draft  *)
(* may propose anything.  A token's row is the token itself; a layer of a  *)
(* sliding-window architecture keeps its last Window rows, and a trim does *)
(* not bring back what it dropped.                                         *)
(*                                                                         *)
(* The methods: "stream" (stream_generate and generate, temp 0), "draft"   *)
(* and "fast" (speculative_generate with accept_top_k 1 and greater),      *)
(* "ngram" (any drafter without a model), "adaptive" and "optimized" (a    *)
(* draft model, a varying number of draft tokens, a verification on the    *)
(* store itself that is rolled back).  Loops has the other loops.          *)
(***************************************************************************)
EXTENDS Integers, SequencesExt

CONSTANTS
  Token, Eos,
  Lost,          \* what a rotated cache holds of a row outside its window
  Argmax(_),     \* the target's most likely token after a sequence
  TopK(_),       \* its accept_top_k most likely ones
  Kind,          \* per layer: "full" or "window"
  Window,        \* the size of the sliding windows
  Chunk,         \* prefill_chunk
  Methods,       \* the loops to run
  InitK, MinK, MaxK, Up, Down,   \* draft tokens: first, bounds, adjustments
  Interval,      \* adjustment_interval
  Scale,         \* bound: a multiple of every number of draft tokens
  Prompts,       \* bound: the prompts
  MaxTokens      \* bound: the greatest max_tokens

Layer == 1 .. Len(Kind)

ASSUME GenerationAssumption ==
  /\ Eos \in Token /\ Lost \notin Token
  /\ \A s \in Prompts : s # <<>> /\ s \in Seq(Token)
  /\ Kind \in Seq({"full", "window"}) /\ \E l \in Layer : Kind[l] = "full"
  /\ Window \in Nat \ {0} /\ Chunk \in Nat \ {0}
  /\ {InitK, MinK, MaxK} \subseteq Nat \ {0} /\ InitK \in MinK .. MaxK
  /\ {Up, Down, Scale, Interval, MaxTokens} \subseteq Nat
  /\ Methods \subseteq {"stream", "draft", "fast", "ngram", "adaptive", "optimized",
                        "lookup", "tree", "mtp", "eagle", "batch"}

VARIABLES
  prompt, limit, method,   \* the arguments of the call
  rest,      \* the part of the prompt still to prefill
  kv,        \* the rows each layer's cache holds
  draft,     \* the rows the draft model's cache holds
  out,       \* tokens yielded
  pend,      \* tokens of this round still to yield
  k,         \* K, num_draft_tokens
  history,   \* acceptance_history, times Scale
  since,     \* passes_since_adjustment
  at         \* where the generator stands

call   == <<prompt, limit, method>>
caches == <<kv, draft>>
adapt  == <<k, history, since>>
gvars  == <<call, rest, caches, out, pend, adapt, at>>

Lesser(m, n)  == IF m < n THEN m ELSE n
Greater(m, n) == IF m > n THEN m ELSE n

------------------------------------------------------------------------------
(* The caches. *)

\* Layer l's cache after the rows x have been appended to its rows c.
Grown(l, c, x) ==
  LET s == c \o x IN
  IF Kind[l] = "full" THEN s
  ELSE [i \in 1 .. Len(s) |-> IF i + Window <= Len(s) THEN Lost ELSE s[i]]

\* trim(n): clamped to the rows there are.
Trimmed(c, n) == IF n <= 0 THEN c ELSE SubSeq(c, 1, Greater(0, Len(c) - n))

Fed(x)      == [l \in Layer |-> Grown(l, kv[l], x)]
Rolled(c, n) == [l \in Layer |-> Trimmed(c[l], n)]

\* PrefixCache's probe layer: the first whose length is that of the sequence.
Probe == CHOOSE l \in Layer :
  Kind[l] = "full" /\ \A j \in Layer : Kind[j] = "full" => l <= j
Rows  == kv[Probe]

\* Every layer holds its part of the rows of the sequence s.
Holds(s) == \A l \in Layer : kv[l] = Grown(l, <<>>, s)

\* The target's argmax after each position of x, fed on top of the caches.
Targets(x) ==
  IF Holds(Rows) THEN {[i \in 1 .. Len(x) |-> Argmax(Rows \o SubSeq(x, 1, i))]}
  ELSE [1 .. Len(x) -> Token]

\* Draft token i passes: it is the argmax or, in the fast mode, one of the top.
Plausible(q, i, targ) ==
  \/ q[i] = targ[i]
  \/ /\ method = "fast"
     /\ Holds(Rows) => q[i] \in TopK(Rows \o <<Last(out)>> \o SubSeq(q, 1, i - 1))

\* How many draft tokens are accepted: the longest prefix that passes.
Accepted(q, targ) ==
  CHOOSE m \in 0 .. Len(q) :
    /\ \A i \in 1 .. m : Plausible(q, i, targ)
    /\ m = Len(q) \/ ~Plausible(q, m + 1, targ)

------------------------------------------------------------------------------
NoCall ==
  /\ rest = <<>> /\ draft = <<>> /\ out = <<>> /\ pend = <<>>
  /\ k = InitK /\ history = <<>> /\ since = 0

\* One call with a store of its own.
Init ==
  /\ prompt \in Prompts /\ limit \in 1 .. MaxTokens /\ method \in Methods
  /\ rest = prompt
  /\ kv = [l \in Layer |-> <<>>]
  /\ draft = <<>> /\ out = <<>> /\ pend = <<>>
  /\ k = InitK /\ history = <<>> /\ since = 0
  /\ at = "prefill"

\* The rows of the next prefill pass: the MTP assistant attends to the states of the
\* whole prompt, so its loop does not cut it into windows, nor do two others.
PrefillRows ==
  IF method \in {"tree", "mtp", "optimized"} THEN Len(rest) ELSE Lesser(Chunk, Len(rest))

\* One window of _prefill; the last one gives the first token, and the draft
\* model reads the whole prompt.
Prefill ==
  LET w == SubSeq(rest, 1, PrefillRows) IN
  /\ at = "prefill" /\ method # "batch"
  /\ kv' = Fed(w)
  /\ rest' = SubSeq(rest, PrefillRows + 1, Len(rest))
  /\ IF rest' = <<>>
       THEN /\ \E targ \in Targets(w) : pend' = <<Last(targ)>>
            /\ draft' = prompt
            /\ at' = "emit"
       ELSE UNCHANGED <<draft, pend, at>>
  /\ UNCHANGED <<call, out, adapt>>

\* The loop is over for a generator resumed after a yield.
Returns ==
  method # "stream" /\ (Last(out) = Eos \/ Len(out) >= limit)

\* Yield the next token.  The generator stops there until it is resumed.
Emit ==
  /\ pend # <<>>
  /\ at = "emit" \/ (at = "yielded" /\ ~Returns)
  /\ out' = Append(out, Head(pend))
  /\ pend' = Tail(pend)
  /\ at' = "yielded"
  /\ UNCHANGED <<call, rest, caches, adapt>>

Return ==
  /\ at = "yielded" /\ Returns
  /\ at' = "done"
  /\ UNCHANGED <<call, rest, caches, out, pend, adapt>>

\* stream_generate feeds the token it has just yielded, the last one too.
StreamStep ==
  /\ at = "yielded" /\ method = "stream"
  /\ kv' = Fed(<<Last(out)>>)
  /\ IF Len(out) >= limit
       THEN at' = "done" /\ UNCHANGED pend
       ELSE /\ \E targ \in Targets(<<Last(out)>>) : pend' = targ
            /\ at' = "emit"
  /\ UNCHANGED <<call, rest, draft, out, adapt>>

\* The next round of a drafting loop starts; b, its bootstrap, is Last(out).
NextRound(M) == at = "yielded" /\ method \in M /\ pend = <<>> /\ ~Returns

\* The draft's cache after drafting q from b: q's last token is never fed.
Drafted(q) == draft \o SubSeq(<<Last(out)>> \o q, 1, Len(q))

MutantDraftRound(q) ==
  LET x == <<Last(out)>> \o q IN
  /\ NextRound({"draft", "fast"}) /\ Len(q) = k
  /\ \E targ \in Targets(x) :
       LET m == Accepted(q, targ) IN
       /\ kv' = Fed(SubSeq(x, 1, m))
       /\ draft' = IF m < k THEN Trimmed(Drafted(q), k - 1 - m) ELSE Append(Drafted(q), q[k])
       /\ pend' = SubSeq(q, 1, m) \o <<targ[m + 1]>>
  /\ at' = "emit"
  /\ UNCHANGED <<call, rest, out, adapt>>

MutantRealigned(q, n, m) ==
  IF m < n THEN Trimmed(Drafted(q), n - m) ELSE Append(Drafted(q), q[n])

\* The draft's cache once m of the n draft tokens were kept: the rejected tail is
\* trimmed, or the one token it has not seen is fed.
Realigned(q, n, m) ==
  IF m < n THEN Trimmed(Drafted(q), n - 1 - m) ELSE Append(Drafted(q), q[n])

\* speculative_generate: verify on ephemeral clones, commit what was accepted.
DraftRound(q) ==
  LET x == <<Last(out)>> \o q IN
  /\ NextRound({"draft", "fast"}) /\ Len(q) = k
  /\ \E targ \in Targets(x) :
       LET m == Accepted(q, targ) IN
       /\ kv' = Fed(SubSeq(x, 1, m + 1))
       /\ draft' = Realigned(q, k, m)
       /\ pend' = SubSeq(q, 1, m) \o <<targ[m + 1]>>
  /\ at' = "emit"
  /\ UNCHANGED <<call, rest, out, adapt>>

\* ngram_speculative_generate: a lookup finds up to K tokens, or none, and then b
\* alone is fed.
NgramRound(q) ==
  LET x == <<Last(out)>> \o q IN
  /\ NextRound({"ngram"})
  /\ \E targ \in Targets(x) :
       LET m == Accepted(q, targ) IN
       /\ kv' = Fed(SubSeq(x, 1, m + 1))
       /\ pend' = SubSeq(q, 1, m) \o <<targ[m + 1]>>
  /\ at' = "emit"
  /\ UNCHANGED <<call, rest, draft, out, adapt>>

\* The new number of draft tokens, by the average of the acceptance rates h: above
\* 0.8 more, above low / 10 the same, else fewer.
Adjusted(h, low) ==
  LET sum  == FoldLeft(+, 0, h)
      full == Len(h) * Scale IN
  IF 10 * sum > 8 * full THEN Lesser(MaxK, k + Up)
  ELSE IF 10 * sum > low * full THEN k
  ELSE Greater(MinK, k - Down)

\* The last 10 rounds.
Recent(h) == SubSeq(h, Greater(1, Len(h) - 9), Len(h))

\* adaptive_speculative_generate: K is adjusted before the rollback that uses it.
AdaptiveRound(q) ==
  LET x == <<Last(out)>> \o q
      due == since + 1 >= Interval /\ Len(history) + 1 >= 3 IN
  /\ NextRound({"adaptive"}) /\ Len(q) = k
  /\ \E targ \in Targets(x) :
       LET m == Accepted(q, targ) IN
       /\ history' = Append(history, (m * Scale) \div k)
       /\ since' = IF due THEN 0 ELSE since + 1
       /\ k' = IF due THEN Adjusted(Recent(history'), 6) ELSE k
       /\ kv' = Rolled(Fed(x), k' - m)
       /\ draft' = Realigned(q, k', m)
       /\ pend' = SubSeq(q, 1, m) \o <<targ[m + 1]>>
  /\ at' = "emit"
  /\ UNCHANGED <<call, rest, out>>

\* The number of draft tokens optimized_speculative_generate drafts next; its
\* history is a deque of the last 10 rounds.
NextK == IF history = <<>> THEN k ELSE Adjusted(Recent(history), 5)

\* optimized_speculative_generate: K is adjusted before the draft.
OptimizedRound(q) ==
  LET x == <<Last(out)>> \o q IN
  /\ NextRound({"optimized"}) /\ Len(q) = NextK
  /\ k' = NextK
  /\ \E targ \in Targets(x) :
       LET m == Accepted(q, targ) IN
       /\ history' = Append(history, (m * Scale) \div k')
       /\ kv' = Rolled(Fed(x), k' - m)
       /\ draft' = Realigned(q, k', m)
       /\ pend' = SubSeq(q, 1, m) \o <<targ[m + 1]>>
  /\ at' = "emit"
  /\ UNCHANGED <<call, rest, out, since>>

Proposals == UNION {[1 .. n -> Token] : n \in 0 .. MaxK}

Round ==
  \E q \in Proposals :
    DraftRound(q) \/ NgramRound(q) \/ AdaptiveRound(q) \/ OptimizedRound(q)

Generate == Prefill \/ Emit \/ Return \/ StreamStep \/ Round

Next == Generate

\* The consumer resumes the generator until it ends.
Spec == Init /\ [][Next]_gvars /\ WF_gvars(Next)

------------------------------------------------------------------------------
(* Properties. *)

TypeOK ==
  /\ prompt \in Seq(Token) /\ limit \in 0 .. MaxTokens
  /\ method \in Methods
  /\ rest \in Seq(Token) /\ draft \in Seq(Token)
  /\ out \in Seq(Token) /\ Len(out) <= limit /\ pend \in Seq(Token)
  /\ kv \in [Layer -> Seq(Token \cup {Lost})]
  /\ k \in MinK .. MaxK
  /\ history \in Seq(0 .. Scale) /\ since \in Nat
  /\ at \in {"idle", "prefill", "emit", "yielded", "step", "done", "over"}

Abstract == INSTANCE Greedy
  WITH heedsEos <- (method # "stream"), exact <- (method # "fast"), abandoned <- (at = "over")

\* Whatever the draft proposes and however much of it is accepted, a loop yields
\* what single-token greedy decoding would, token by token, and it ends
\* (generate.py:399-408, 554-562; docs: "lossless-by-construction"); the fast mode
\* yields one of the target's likeliest tokens each time (generate.py:409-412).
ImplementsGreedy == Abstract!Spec

\* Between rounds what the draft works from -- its own cache, the target states the
\* MTP assistant attends to, the position of EAGLE's last hidden state -- is exactly
\* the sequence the target's caches hold: the prompt and what was yielded but for
\* the bootstrap token (generate.py:511-514, 741-748, 801-808).
DraftAligned ==
  /\ at = "yielded" /\ pend = <<>>
  /\ method \in {"draft", "fast", "adaptive", "optimized", "mtp", "eagle"}
  => /\ draft = prompt \o Front(out)
     /\ Holds(draft)
=============================================================================
