------------------------------- MODULE Engine -------------------------------
(***************************************************************************)
(* The streaming engine of src/nunspark/engine.py, over a packed           *)
(* directory: one compute slot that the layers' weights stream through, a  *)
(* pass at a time, and what it asks of the piece cache.                    *)
(*                                                                         *)
(* A tensor is known by the layer it belongs to.  The piece cache          *)
(* (PieceCache.tla) is kept to what the engine relies on: what it holds,   *)
(* in two regions of a byte budget, and that it may drop anything it need  *)
(* not keep when a region is over its share.  The router may fire any      *)
(* experts.  A layer's key-value cache is its length.                      *)
(***************************************************************************)
EXTENDS Packer, FiniteSetsExt

CONSTANTS
  Options,        \* prefetch, window, experts, depth, topn, frac: see Open
  Budgets,        \* budget_bytes
  Bytes(_),       \* what a piece takes once materialized
  FileBytes(_),   \* the size of its file
  TreeTypes,      \* the model types that tree drafts are verified for
  MaxTokens,      \* bound: the tokens of one pass
  MaxRows,        \* bound: the rows of a key-value cache
  MaxPasses       \* bound: how many passes

ASSUME EngineAssumption ==
  /\ Budgets \subseteq Nat
  /\ \A o \in Options : o.frac \in 0 .. 10 /\ o.window \in Nat \ {0}
  /\ TreeTypes \subseteq Supported \ (Sliding \cup Deepseek)
  /\ {MaxTokens, MaxRows, MaxPasses} \subseteq Nat
  \* A file is the tensors of a piece and a header; gpt_oss has no layer without experts;
  \* Gemma 4 has no more layers that share keys than layers.
  /\ \A c \in Configs :
       /\ \A p \in Ids(Pieces(c)) :
            Bytes(p) \in Nat /\ FileBytes(p) \in Nat /\ Bytes(p) <= FileBytes(p)
       /\ c.type = "gpt_oss" => c.experts > 0
       /\ c.type \in Gemma4 => c.shared \in 0 .. c.n

VARIABLES
  opened,      \* the engine exists
  lazy,        \* _fully_resident: the barrier after each layer is skipped
  option, budget,
  resident,    \* pieces in the cache's two regions
  staged,      \* pieces in its staging buffer
  asked,       \* prefetches not yet served: <<piece, speculative>>
  slot,        \* the compute slot: its key, whom it was built for, whose weights it holds
  bufs,        \* _scatter_bufs: expert -> the layer whose weights its row holds, -1 if none
  history,     \* _fired_history: layer -> experts it fired last, and in a multi-token pass
  multi,       \* _cur_pass_multi
  verdict,     \* _lookahead_supported
  kv,          \* the rows of each layer's persistent cache
  shared,      \* keys of shared_kv
  targets,     \* target_kv_states: layer type -> the layer it was taken from
  run,         \* the pass: its kind, tokens, padding, layer, masks, and kv when it began
  fired, left, \* experts the layer's router fired, those still to scatter
  at,          \* where the pass stands
  passes

settings == <<option, budget>>
cached   == <<resident, staged, asked>>
built    == <<slot, bufs>>
guessing == <<history, multi, verdict>>
sharing  == <<shared, targets>>
routed   == <<fired, left>>
evars    == <<opened, lazy, settings, cached, built, guessing, kv, sharing, run, routed, at, passes>>

layer == run.layer

------------------------------------------------------------------------------
(* The byte budget. *)

CoreLayers == {l \in Layers(config) : HasPiece(CorePiece(l))}
Cores      == {CorePiece(l) : l \in CoreLayers}

IsExpert(p) == Head(p) = "expert"
Streamed    == {p \in manifest : Head(p) \in {"layer", "core", "expert"}}

Sum(S, Size(_)) == MapThenSumSet(Size, S)

\* expert_cache_frac counts only for a model that is packed selectively.
ExpertShare == IF Cores = {} THEN 0 ELSE (budget * option.frac) \div 10

\* The core pieces are pinned if all of them fit in the main region.
Pinned == IF Sum(Cores, FileBytes) <= budget - ExpertShare THEN Cores ELSE {}

MutantFullyResident == Sum(Streamed, FileBytes) <= budget

\* _compute_fully_resident, from the sizes of the files.
FullyResident ==
  LET experts == {p \in Streamed : IsExpert(p)} IN
  IF experts = {} THEN Sum(Streamed, FileBytes) <= budget
  ELSE /\ Sum(experts, FileBytes) <= ExpertShare
       /\ Sum(Streamed \ experts, FileBytes) <= budget - ExpertShare

\* What the cache may hold in its regions and in its staging buffer.
Fits(R, S) ==
  /\ Sum({p \in R : ~IsExpert(p)}, Bytes) <= budget - ExpertShare
  /\ Sum({p \in R \cup S : IsExpert(p)}, Bytes) <= ExpertShare

\* What may be left of the regions R once p has come in: no more is dropped than
\* brings a region under its share, unless even everything droppable does not.
Kept(R, S, p) ==
  LET droppable == R \ (Pinned \cup {p})
      enough == {V \in SUBSET droppable : Fits(R \ V, S)} IN
  IF enough = {} THEN {R \ droppable}
  ELSE {R \ V : V \in {V \in enough : \A W \in SUBSET V : W = V \/ W \notin enough}}

\* get(p): p is in the regions afterwards.
Get(p) ==
  /\ resident' \in IF p \in resident THEN {resident}
                   ELSE Kept(resident \cup {p}, staged \ {p}, p)
  /\ staged' = staged \ {p}

\* prefetch(): what is not held is queued.
Queued(S, speculative) == {<<p, speculative>> : p \in S \ (resident \cup staged)}

\* The cache's worker serves one prefetch.
Serve(a) ==
  /\ a \in asked
  /\ asked' = asked \ {a}
  /\ IF a[1] \in resident \cup staged THEN UNCHANGED <<resident, staged>>
     ELSE IF a[2]
       THEN /\ \E S \in SUBSET staged : staged' = S \cup {a[1]}
            /\ resident' \in Kept(resident, staged', a[1])
       ELSE /\ resident' \in Kept(resident \cup {a[1]}, staged, a[1])
            /\ UNCHANGED staged
  /\ UNCHANGED <<opened, lazy, settings, built, guessing, kv, sharing, run, routed, at, passes>>

------------------------------------------------------------------------------
(* Construction. *)

Unbuilt == [key |-> <<"unset">>, built |-> 0, weights |-> -1]
NoRows  == [e \in Experts(config) |-> -1]
Idle    == [kind |-> "none", n |-> 0, padded |-> FALSE, layer |-> 0,
            base |-> <<>>, masks |-> <<>>]
NoKV    == [l \in Layers(config) |-> 0]
NoFn    == [x \in {} |-> 0]

EngineInit ==
  /\ opened = FALSE /\ lazy = FALSE /\ option \in Options /\ budget \in Budgets
  /\ resident = {} /\ staged = {} /\ asked = {}
  /\ slot = Unbuilt /\ bufs = NoRows
  /\ history = NoFn /\ multi = FALSE /\ verdict = "unknown"
  /\ kv = NoKV /\ shared = {} /\ targets = NoFn
  /\ run = Idle /\ fired = {} /\ left = {}
  /\ at = "idle" /\ passes = 0

\* Loaded once, outside the cache, and kept.
HotSet == {<<"embed">>, <<"norm_head">>}

\* StreamingEngine(): the manifest is read and an unsupported type refused; the slot
\* is built for layer 0, under no key.
Open ==
  /\ ~opened /\ manifest # {} /\ todo = <<>> /\ ~over
  /\ \A p \in HotSet : HasPiece(p)
  /\ config.type \in Supported \ {"gemma4_assistant"}
  /\ opened' = TRUE /\ lazy' = FullyResident
  /\ UNCHANGED <<settings, cached, built, guessing, kv, sharing, run, routed, at, passes>>

\* close(), and the cache's.
Close ==
  /\ opened /\ at = "idle"
  /\ opened' = FALSE /\ lazy' = FALSE
  /\ resident' = {} /\ staged' = {} /\ asked' = {}
  /\ slot' = Unbuilt /\ bufs' = NoRows
  /\ history' = NoFn /\ multi' = FALSE /\ verdict' = "unknown"
  /\ kv' = NoKV /\ shared' = {} /\ targets' = NoFn
  /\ UNCHANGED <<settings, run, routed, at, passes>>

\* A new generation brings a KVStore of its own.
NewStore ==
  /\ opened /\ at = "idle" /\ kv # NoKV
  /\ kv' = NoKV
  /\ UNCHANGED <<opened, lazy, settings, cached, built, guessing, sharing, run, routed, at, passes>>

------------------------------------------------------------------------------
(* The masks (MaskPlan), built from the caches before the first layer. *)

PerLayerPlan == config.type \in Sliding

MutantMaskFrom(l) == 0

\* The layer whose cache the mask of layer l is built from.
MaskFrom(l) ==
  IF ~PerLayerPlan THEN 0
  ELSE CHOOSE j \in Layers(config) :
    /\ Kind(config, j) = Kind(config, l)
    /\ \A i \in Layers(config) : Kind(config, i) = Kind(config, l) => j <= i

Lesser(m, n) == IF m < n THEN m ELSE n

\* The keys that layer j's own cache, of b[j] rows, shows once n more come: a rotated
\* cache shows a window of the old ones.
Shown(j, b, n) ==
  IF Rotating(config, j) /\ n > 1
    THEN Lesser(config.window - 1, b[j]) + n
    ELSE b[j] + n

\* The keys the attention of layer l sees: its own, or those of its producer.
Seen(l, b, n) == Shown(IF Consumer(config, l) THEN Producer(config, l) ELSE l, b, n)

\* Layer l has keys of its own or a producer: a negative one does not exist, and what
\* the layer's block then does without keys is not modelled.
HasKeys(l) == Consumer(config, l) => Producer(config, l) \in Layers(config)

\* ArrayCausal: deepseek's indexer needs an array where "causal" would do.
ArrayMask(n) == config.type \in Deepseek /\ n > 1

\* The columns of layer l's mask, 0 if it is no array and fits any number of keys.
\* A left-padded batch has one mask for every layer.
Columns(l, n, padded) ==
  LET j == IF padded THEN 0 ELSE MaskFrom(l) IN
  IF padded \/ ArrayMask(n) THEN kv[j] + n
  ELSE IF Rotating(config, j) /\ n > 1 /\ Shown(j, kv, n) > config.window
    THEN Shown(j, kv, n)
  ELSE 0

------------------------------------------------------------------------------
(* A pass begins. *)

\* The verify passes run on copies of the caches; their rows are committed later.
Ephemeral(kind) == kind \in {"verify", "tree"}

\* begin_pass(): what was staged too long ago expires.
BeginPass == \E S \in SUBSET staged : staged' = S

\* A pass of n tokens starts: masks are built, and what layers share is cleared.
Begin(kind, n, padded) ==
  /\ opened /\ at = "idle" /\ passes < MaxPasses
  /\ kv[0] + n <= MaxRows
  /\ BeginPass
  /\ shared' = {} /\ targets' = NoFn
  /\ run' = [kind |-> kind, n |-> n, padded |-> padded, layer |-> 0,
             base |-> kv, masks |-> [l \in Layers(config) |-> Columns(l, n, padded)]]
  /\ at' = "layer" /\ passes' = passes + 1
  /\ UNCHANGED <<opened, lazy, settings, resident, asked, built, verdict, kv, routed>>

\* _maybe_reset_prefetch: a new generation forgets what was fired.
ResetHistory == history' = IF option.experts /\ kv[0] = 0 THEN NoFn ELSE history

\* forward(), of one sequence or a batch, left-padded or not: batches are refused
\* unless every cache is a plain one (_reject_rotating).
StartForward(n, padded) ==
  /\ Begin("forward", n, padded)
  /\ \E batch \in BOOLEAN :
       /\ batch \/ padded => \A l \in Layers(config) : CacheKind(config, l) = <<"kv">>
       /\ multi' = (batch \/ n > 1)
  /\ ResetHistory

\* verify_forward(): every layer must record rows of its own.
StartVerify(n) ==
  /\ Begin("verify", n, FALSE)
  /\ kv[0] > 0 /\ \A l \in Layers(config) : ~Consumer(config, l)
  /\ multi' = (n > 1) /\ ResetHistory

\* tree_forward(), with paths of n tokens; it leaves _cur_pass_multi as it was.
StartTree(n) ==
  /\ Begin("tree", n, FALSE)
  /\ kv[0] > 0 /\ config.type \in TreeTypes
  /\ UNCHANGED <<multi, history>>

------------------------------------------------------------------------------
(* A layer's weights come into the slot. *)

\* _get_slot, and the update with the layer's weights.
SlotFor(l) ==
  IF slot.key = LayerKey(config, l) THEN [slot EXCEPT !.weights = l]
  ELSE [key |-> LayerKey(config, l), built |-> l, weights |-> l]

\* _make_slot drops the buffers.
BufsFor(l) == IF slot.key = LayerKey(config, l) THEN bufs ELSE NoRows

MutantPrefetchPid(l) == IF CoreLayers = {} THEN LayerPiece(l) ELSE CorePiece(l)

\* _prefetch_pid
PrefetchPid(l) == IF HasPiece(CorePiece(l)) THEN CorePiece(l) ELSE LayerPiece(l)

\* The layers ahead of layer l in the prefetch window.
Ahead(l) ==
  IF option.prefetch THEN l + 1 .. Lesser(l + option.window, config.n - 1) ELSE {}

\* _spec_fired: only what a multi-token pass fired.
SpecFired(l) == IF l \in DOMAIN history /\ history[l].multi THEN history[l].fired ELSE {}

\* A tree pass does not look at the number of its tokens.
MayGuess == option.experts /\ (multi \/ run.kind = "tree")

\* The experts a split layer guesses for the layers ahead.
Guesses(l) ==
  IF MayGuess
    THEN UNION {{ExpertPiece(j, e) : e \in SpecFired(j)} : j \in Ahead(l)}
    ELSE {}

LoadLayer ==
  /\ at = "layer" /\ layer \notin CoreLayers
  /\ Get(LayerPiece(layer))
  /\ slot' = SlotFor(layer) /\ bufs' = BufsFor(layer)
  /\ asked' = asked \cup Queued({PrefetchPid(j) : j \in Ahead(layer)}, FALSE)
  /\ at' = "run"
  /\ UNCHANGED <<opened, lazy, settings, guessing, kv, sharing, run, routed, passes>>

\* The router runs once attention has: for every token it fires some experts.
LoadCore ==
  /\ at = "layer" /\ layer \in CoreLayers
  /\ Get(CorePiece(layer))
  /\ slot' = SlotFor(layer) /\ bufs' = BufsFor(layer)
  /\ asked' = asked \cup Queued({PrefetchPid(j) : j \in Ahead(layer)}, FALSE)
                    \cup Queued(Guesses(layer), TRUE)
  /\ \E F \in SUBSET Experts(config) :
       /\ F # {}
       /\ fired' = F /\ left' = F
  /\ at' = "scatter"
  /\ UNCHANGED <<opened, lazy, settings, guessing, kv, sharing, run, passes>>

MutantScatter ==
  LET e == CHOOSE e \in left : \A i \in left : e <= i IN
  /\ at = "scatter" /\ left # {}
  /\ IF bufs[e] # -1 THEN UNCHANGED <<resident, staged, bufs>>
     ELSE Get(ExpertPiece(layer, e)) /\ bufs' = [bufs EXCEPT ![e] = layer]
  /\ left' = left \ {e}
  /\ UNCHANGED <<opened, lazy, settings, asked, slot, guessing, kv, sharing, run, fired, at, passes>>

\* _scatter_experts: fetch one expert and copy its rows into the buffers.
Scatter ==
  LET e == CHOOSE e \in left : \A i \in left : e <= i IN
  /\ at = "scatter" /\ left # {}
  /\ Get(ExpertPiece(layer, e))
  /\ bufs' = [bufs EXCEPT ![e] = layer]
  /\ left' = left \ {e}
  /\ UNCHANGED <<opened, lazy, settings, asked, slot, guessing, kv, sharing, run, fired, at, passes>>

------------------------------------------------------------------------------
(* The layer runs. *)

\* On to the next layer, or the pass is over and shared_kv is dropped.
Advance(S) ==
  IF layer + 1 < config.n
    THEN run' = [run EXCEPT !.layer = @ + 1] /\ shared' = S /\ at' = "layer"
    ELSE UNCHANGED run /\ shared' = {} /\ at' = IF Ephemeral(run.kind) THEN "commit" ELSE "idle"

\* The rows a forward pass appends; a layer that shares keys has none of its own.
Appended ==
  IF Ephemeral(run.kind) \/ Consumer(config, layer) THEN kv
  ELSE [kv EXCEPT ![layer] = @ + run.n]

MutantStashes(l) == StoresFull(config, l)
Stashes(l) == l \in Producers(config)

\* The layer's runner: Gemma 4's stashes keys and values for the layers that share
\* them, and for the MTP drafter.
RunLayer ==
  /\ at = "run"
  /\ kv' = Appended
  /\ Advance(IF Stashes(layer) THEN shared \cup {layer} ELSE shared)
  /\ targets' = IF StoresFull(config, layer)
       THEN [t \in DOMAIN targets \cup {LayerType(config, layer)} |->
               IF t = LayerType(config, layer) THEN layer ELSE targets[t]]
       ELSE targets
  /\ UNCHANGED <<opened, lazy, settings, cached, built, guessing, routed, passes>>

\* The layers whose core _issue_lookahead finds in the cache, without loading it.
Peekable ==
  {j \in layer + 1 .. layer + option.depth :
     j \in CoreLayers /\ CorePiece(j) \in resident \cup staged}

\* _router_replicable: deepseek's gate is more than a matrix.
Replicable == config.type \notin Deepseek

\* _predict_experts: topn experts, or all there are.
Predictions ==
  {F \in SUBSET Experts(config) : Cardinality(F) = Lesser(option.topn, config.experts)}

\* batch_tokens > 1; a tree pass has not set _cur_pass_multi.
Many == IF run.kind = "tree" THEN run.n > 1 ELSE multi

\* _issue_lookahead, on single-token passes: guess topn experts of each layer ahead.
Lookahead ==
  LET on == option.depth > 0 /\ ~Many /\ Peekable # {} IN
  /\ verdict' = IF on /\ verdict = "unknown"
                  THEN IF Replicable THEN "yes" ELSE "no"
                  ELSE verdict
  /\ IF on /\ verdict' = "yes"
       THEN \E G \in [Peekable -> Predictions] :
              asked' = asked \cup
                Queued(UNION {{ExpertPiece(j, e) : e \in G[j]} : j \in Peekable}, TRUE)
       ELSE UNCHANGED asked

\* The expert mix, once every fired expert's rows are in the slot.
Mix ==
  /\ at = "scatter" /\ left = {}
  /\ history' = IF option.experts
       THEN [j \in DOMAIN history \cup {layer} |->
               IF j = layer THEN [fired |-> fired, multi |-> Many] ELSE history[j]]
       ELSE history
  /\ Lookahead
  /\ kv' = Appended
  /\ Advance(shared)
  /\ UNCHANGED <<opened, lazy, settings, resident, staged, built, multi, targets, routed, passes>>

\* commit_verified: the first m rows go into the persistent caches, if any.
CommitVerified(m) ==
  /\ at = "commit" /\ run.kind = "verify" /\ m <= run.n
  /\ kv' = [l \in Layers(config) |-> kv[l] + m]
  /\ at' = "idle"
  /\ UNCHANGED <<opened, lazy, settings, cached, built, guessing, sharing, run, routed, passes>>

\* commit_path: the first m rows of one path, its root at least.
CommitPath(m) ==
  /\ at = "commit" /\ run.kind = "tree" /\ m \in 1 .. run.n
  /\ kv' = [l \in Layers(config) |-> kv[l] + m]
  /\ at' = "idle"
  /\ UNCHANGED <<opened, lazy, settings, cached, built, guessing, sharing, run, routed, passes>>

------------------------------------------------------------------------------
Stream ==
  \/ Open \/ Close \/ NewStore
  \/ \E n \in 1 .. MaxTokens :
       \/ \E padded \in BOOLEAN : StartForward(n, padded)
       \/ StartVerify(n) \/ StartTree(n)
  \/ LoadLayer \/ LoadCore \/ Scatter \/ RunLayer \/ Mix
  \/ \E m \in 0 .. MaxTokens : CommitVerified(m) \/ CommitPath(m)
  \/ \E a \in asked : Serve(a)

\* The directory is packed before an engine opens it, and not while one is open.
Next ==
  \/ ~opened /\ Pack /\ UNCHANGED evars
  \/ Stream /\ UNCHANGED pvars

Init == PackerInit /\ EngineInit
Spec == Init /\ [][Next]_<<pvars, evars>>

------------------------------------------------------------------------------
(* Properties. *)

\* Every piece the engine fetches or has the cache's worker fetch is a piece of this
\* manifest with a whole file: the worker would hide a missing one (engine.py:534-538,
\* 627-647, 882-893).
AskedOnDisk ==
  opened => \A p \in HotSet \cup resident \cup staged \cup {a[1] : a \in asked} : Whole(p)

\* When a layer is computed the slot has its structure and its weights, and the row
\* of every expert its router fired is this layer's, whatever an earlier layer or an
\* earlier pass left in the buffers (engine.py:526-532, 551-594).
OwnWeights ==
  at = "run" \/ (at = "scatter" /\ left = {}) =>
    /\ LayerKey(config, slot.built) = LayerKey(config, layer)
    /\ slot.weights = layer
    /\ at = "scatter" => \A e \in fired : bufs[e] = layer

\* While the engine skips the barrier after each layer, the cache drops no piece that
\* a lazy graph may still read (engine.py:249-256, "eviction is provably impossible").
SkippedSyncSafe ==
  [][opened /\ opened' /\ lazy => resident \subseteq resident']_<<pvars, evars>>

\* A layer that shares keys and values finds those of its producer, from this very
\* pass, if it has one; and when a Gemma 4 pass is over the drafter finds one entry
\* for each kind of attention (archspec.py:172-195, architectures.py:341-392).
\* Without a producer it finds no keys: _gemma4_kv_sharing gives layers 15 to 19 of
\* its own default, 20 of 35 layers sharing, the producers -5 to -1, though its
\* docstring has them share from layers 0-14 (architectures.py:246-257).
ConsumersServed ==
  /\ at = "run" /\ Consumer(config, layer) /\ HasKeys(layer) =>
       Producer(config, layer) \in shared
  /\ opened /\ at = "idle" /\ run.kind = "forward" /\ config.type \in Gemma4 /\ kv # NoKV =>
       DOMAIN targets = {LayerType(config, l) : l \in 0 .. FirstShared(config) - 1}

\* A mask that is an array has as many columns as the layer's attention has keys, at
\* every length of the caches (archspec.py:144-150: "a mask too short for the
\* full-attention layers' keys once the sequence exceeds the window").
MaskFits ==
  at \in {"run", "scatter"} /\ HasKeys(layer) =>
    run.masks[layer] \in {0, Seen(layer, run.base, run.n)}
=============================================================================
