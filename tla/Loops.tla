-------------------------------- MODULE Loops --------------------------------
(***************************************************************************)
(* The other decoding loops, on the state of Generation: "lookup"          *)
(* (ngram_speculative_generate with the NGramDrafter of ngram_drafter.py), *)
(* "tree" (tree_spec.py over the shapes of tree_shape.py), "mtp" and       *)
(* "eagle" (verification on the store itself, then truncate; what the      *)
(* drafter works from is cut out of that pass), and "batch": one row of    *)
(* batched_generate, beside rows of which only the length matters.         *)
(*                                                                         *)
(* In an "mtp" or "eagle" call `draft` is the sequence of rows covered by  *)
(* kv_states, or ending at last_hidden.                                    *)
(***************************************************************************)
EXTENDS Generation

CONSTANTS
  MaxNgram, Cap, MinDraft, ReprobeEvery,  \* NGramDrafter's max_ngram,
                 \* num_draft_tokens, min_draft_tokens, reprobe_every
  Branching,     \* the shape of the tree: children of a node, per level
  Pad,           \* pad_id
  MaxPad         \* bound: how much longer the longest prompt of a batch is

ASSUME LoopsAssumption ==
  /\ {MaxNgram, Cap, MinDraft, ReprobeEvery} \subseteq Nat \ {0} /\ MinDraft <= Cap
  /\ Branching \in Seq(Nat \ {0}) /\ Branching # <<>>
  /\ Pad \in Token /\ MaxPad \in Nat

VARIABLES
  lookup,    \* the drafter: k_cur, _disabled_calls (mod reprobe_every), _probing
  pads       \* pad_lengths of this row

lvars == <<gvars, lookup, pads>>

\* A batch is refused where a layer is rotating (_reject_rotating).
Batchable == \A l \in Layer : Kind[l] = "full"

FreshDrafter == [k |-> Cap, calls |-> 0, probing |-> FALSE]

LoopsInit ==
  /\ prompt \in Prompts /\ limit \in 1 .. MaxTokens /\ method \in Methods
  /\ method = "batch" => Batchable
  /\ pads \in IF method = "batch" THEN 0 .. MaxPad ELSE {0}
  /\ rest = [i \in 1 .. pads |-> Pad] \o prompt
  /\ kv = [l \in Layer |-> <<>>]
  /\ draft = <<>> /\ out = <<>> /\ pend = <<>>
  /\ k = InitK /\ history = <<>> /\ since = 0
  /\ lookup = FreshDrafter
  /\ at = "prefill"

------------------------------------------------------------------------------
(* NGramDrafter. *)

\* propose: what followed the most recent earlier occurrence of the longest suffix
\* of the context c that has one.
Propose(c, n) ==
  LET Hits == {h \in (1 .. Lesser(MaxNgram, Len(c) - 1)) \X (0 .. Len(c) - 1) :
                 /\ h[2] < Len(c) - h[1]
                 /\ IsSuffix(SubSeq(c, h[2] + 1, h[2] + h[1]), c)}
      Best == CHOOSE h \in Hits :
                \A g \in Hits : g[1] < h[1] \/ (g[1] = h[1] /\ g[2] <= h[2])
      from == Best[1] + Best[2] IN
  IF Hits = {} THEN <<>> ELSE SubSeq(c, from + 1, Lesser(Len(c), from + n))

\* The drafter as propose() leaves it: disabled, it counts the call, and every
\* reprobe_every-th one is a probe.
Asked ==
  LET calls == (lookup.calls + 1) % ReprobeEvery IN
  IF lookup.k # 0 THEN lookup
  ELSE [lookup EXCEPT !.calls = calls, !.probing = @ \/ calls = 0]

\* How many tokens that call may propose.
Allowance ==
  IF lookup.k # 0 THEN lookup.k ELSE IF Asked.calls = 0 THEN MinDraft ELSE 0

MutantObserved(n, m) ==
  LET base == IF Asked.probing THEN MinDraft ELSE lookup.k IN
  [Asked EXCEPT
     !.probing = FALSE,
     !.k = IF m >= n - 1 /\ m >= 2 THEN 2 * base
           ELSE IF 4 * m >= n THEN base
           ELSE IF base <= MinDraft THEN 0
           ELSE Greater(MinDraft, base \div 2)]

\* observe: m of n proposed tokens were accepted.
Observed(n, m) ==
  LET base == IF Asked.probing THEN MinDraft ELSE lookup.k IN
  [Asked EXCEPT
     !.probing = FALSE,
     !.k = IF m >= n - 1 /\ m >= 2 THEN Lesser(Cap, 2 * base)
           ELSE IF 4 * m >= n THEN base
           ELSE IF base <= MinDraft THEN 0
           ELSE Greater(MinDraft, base \div 2)]

\* One round with the drafter.  With nothing proposed b alone is fed, and the drafter
\* hears nothing.
LookupRound ==
  LET q == IF Allowance = 0 THEN <<>> ELSE Propose(prompt \o out, Allowance)
      x == <<Last(out)>> \o q IN
  /\ NextRound({"lookup"})
  /\ \E targ \in Targets(x) :
       LET m == Accepted(q, targ) IN
       /\ kv' = Fed(SubSeq(x, 1, m + 1))
       /\ pend' = SubSeq(q, 1, m) \o <<targ[m + 1]>>
       /\ lookup' = IF q = <<>> THEN Asked ELSE Observed(Len(q), m)
  /\ at' = "emit"
  /\ UNCHANGED <<call, rest, draft, out, adapt, pads>>

------------------------------------------------------------------------------
(* TreeShape: nodes are numbered breadth first, the root is 0. *)

Levels == 0 .. Len(Branching)
Width[d \in Levels] == IF d = 0 THEN 1 ELSE Width[d - 1] * Branching[d]
First[d \in 0 .. Len(Branching) + 1] ==
  IF d = 0 THEN 0 ELSE First[d - 1] + Width[d - 1]
Nodes  == 0 .. First[Len(Branching) + 1] - 1
Leaves == Width[Len(Branching)]

Depth == [n \in Nodes |->
  CHOOSE d \in Levels : First[d] <= n /\ n < First[d] + Width[d]]
Parent == [n \in Nodes \ {0} |->
  First[Depth[n] - 1] + (n - First[Depth[n]]) \div Branching[Depth[n]]]
Children == [n \in Nodes |-> {c \in Nodes \ {0} : Parent[c] = n}]

\* The ids on the path to each leaf, by depth.
Path == [p \in 0 .. Leaves - 1 |->
  [d \in Levels |-> First[d] + p \div (Leaves \div Width[d])]]

\* node_locator: the first path that lands on a node (its depth there is Depth[n]).
Locator == [n \in Nodes |->
  CHOOSE p \in DOMAIN Path :
    /\ Path[p][Depth[n]] = n
    /\ \A o \in 0 .. p - 1 : Path[o][Depth[n]] # n]

\* The tokens a draft may fill the tree below its root with: siblings differ.
Fillings ==
  {tok \in [Nodes \ {0} -> Token] :
     \A c, d \in Nodes \ {0} : c # d /\ Parent[c] = Parent[d] => tok[c] # tok[d]}

\* The tokens from the root to node n, on the path that locates it.
OnPath(tok, n) ==
  [i \in 1 .. Depth[n] + 1 |->
     IF i = 1 THEN Last(out) ELSE tok[Path[Locator[n]][i - 1]]]

\* The target's argmax at every node of one verification of all paths, whose rows
\* follow the prefix_len rows of the sequence.
TreeTargets(tok) ==
  IF Holds(Rows) /\ Len(Rows) = Len(prompt \o out) - 1
    THEN {[n \in Nodes |-> Argmax(Rows \o OnPath(tok, n))]}
    ELSE [Nodes -> Token]

\* sample_accepted_path at temperature 0: from the root to the child that is the
\* target's argmax, until there is none.
FinalNode(tok, targ) ==
  LET taken(c) == tok[c] = targ[Parent[c]] IN
  CHOOSE n \in Nodes :
    /\ \A d \in 1 .. Depth[n] : taken(Path[Locator[n]][d])
    /\ \A c \in Children[n] : ~taken(c)

\* tree_speculative_generate: commit the path to the final node.
TreeRound ==
  /\ NextRound({"tree"})
  /\ \E tok \in Fillings : \E targ \in TreeTargets(tok) :
       LET n    == FinalNode(tok, targ)
           path == OnPath(tok, n) IN
       /\ kv' = Fed(path)
       /\ pend' = Tail(path) \o <<targ[n]>>
  /\ at' = "emit"
  /\ UNCHANGED <<call, rest, draft, out, adapt, lookup, pads>>

------------------------------------------------------------------------------
(* The loops that verify on the store and truncate. *)

\* gemma4_mtp_speculative_generate: the states of this pass, up to prefix_len + m + 1.
MtpRound(q) ==
  LET x == <<Last(out)>> \o q IN
  /\ NextRound({"mtp"}) /\ Len(q) = k
  /\ \E targ \in Targets(x) :
       LET m == Accepted(q, targ) IN
       /\ kv' = Rolled(Fed(x), k - m)
       /\ draft' = SubSeq(Rows \o x, 1, Len(draft) + m + 1)
       /\ pend' = SubSeq(q, 1, m) \o <<targ[m + 1]>>
  /\ at' = "emit"
  /\ UNCHANGED <<call, rest, out, adapt, lookup, pads>>

\* eagle_speculative_generate: the hidden state at position m of this pass.
EagleRound(q) ==
  LET x == <<Last(out)>> \o q IN
  /\ NextRound({"eagle"}) /\ Len(q) = k
  /\ \E targ \in Targets(x) :
       LET m == Accepted(q, targ) IN
       /\ kv' = Rolled(Fed(x), k - m)
       /\ draft' = Rows \o SubSeq(x, 1, m + 1)
       /\ pend' = SubSeq(q, 1, m) \o <<targ[m + 1]>>
  /\ at' = "emit"
  /\ UNCHANGED <<call, rest, out, adapt, lookup, pads>>

------------------------------------------------------------------------------
(* One row of a batch. *)

\* The row's argmax after x is fed: the pad rows are masked.
RowTarget(x) == Argmax(SubSeq(Rows \o x, pads + 1, Len(Rows) + Len(x)))

\* One window of the left-padded prompts.
BatchPrefill ==
  LET n == Lesser(Chunk, Len(rest))
      w == SubSeq(rest, 1, n) IN
  /\ at = "prefill" /\ method = "batch"
  /\ kv' = Fed(w)
  /\ rest' = SubSeq(rest, n + 1, Len(rest))
  /\ IF rest' = <<>>
       THEN pend' = <<RowTarget(w)>> /\ at' = "step"
       ELSE UNCHANGED <<pend, at>>
  /\ UNCHANGED <<call, draft, out, adapt, lookup, pads>>

\* One lock-step: the row takes its token, unless it has ended, and is fed it, or a pad
\* while other rows go on.  The batch ends when every row has, or at max_tokens.
BatchStep ==
  LET rode  == Len(Rows) - pads - Len(prompt) + 1
      ended == out' # <<>> /\ Last(out') = Eos
      feed  == <<IF ended THEN Pad ELSE Last(out')>> IN
  /\ at = "step"
  /\ out' = IF out # <<>> /\ Last(out) = Eos THEN out ELSE out \o pend
  /\ \/ /\ ended
        /\ at' = "done" /\ pend' = <<>>
        /\ UNCHANGED kv
     \/ /\ kv' = Fed(feed)
        /\ IF rode >= limit
             THEN at' = "done" /\ pend' = <<>>
             ELSE pend' = <<RowTarget(feed)>> /\ UNCHANGED at
  /\ UNCHANGED <<call, rest, draft, adapt, lookup, pads>>

------------------------------------------------------------------------------
LoopsNext ==
  \/ Generate /\ UNCHANGED <<lookup, pads>>
  \/ LookupRound
  \/ TreeRound
  \/ \E q \in Proposals : MtpRound(q) \/ EagleRound(q)
  \/ BatchPrefill
  \/ BatchStep

\* The consumer resumes the generator until it ends.
LoopsSpec == LoopsInit /\ [][LoopsNext]_lvars /\ WF_lvars(LoopsNext)

\* The drafter is disabled, or between its floor and its cap, and a probe under way
\* belongs to a disabled drafter (ngram_drafter.py:59-61, 154-165).
LoopsTypeOK ==
  /\ TypeOK
  /\ pads \in 0 .. MaxPad
  /\ lookup.k \in {0} \cup MinDraft .. Cap
  /\ lookup.calls \in 0 .. ReprobeEvery - 1
  /\ lookup.probing => lookup.k = 0
=============================================================================
