# Verification of Nunspark

Nunspark runs language models larger than memory: weights are cut into pieces on
disk and streamed through a bounded cache, the KV caches of the layers may be
offloaded too, drafts are verified several tokens per pass, and a chat server and a
web application sit on top. This directory holds TLA+ models of the parts of it
that are hard to test, the TLC runs that check them and machine-checked proofs.
Paths below are relative to `src/src/nunspark/`.

## 1. The system

| part | state it keeps | operations | hard because | model |
|---|---|---|---|---|
| `packer.py`, `manifest.py`, `piece_store.py` | the files of a packed directory | pack, has_piece, load | killed between two files, started again over old ones | `Packer` |
| `architectures.py`, `archspec.py` | none: a registry | layer kinds, keys, masks, shared keys | a slot, a mask or a producer of the wrong kind is silently wrong | `Architectures` |
| `engine.py` StreamingEngine | compute slot, scatter buffers, fired history, shared keys | forward, verify_forward, tree_forward, the commits | buffers and slots are reused across layers and passes, guesses are issued for later layers, a barrier is skipped | `Engine` |
| `piece_cache.py` PieceCache | two LRU tables, a staging buffer, byte counters, in-flight reservations, pending guesses, a prefetch queue | get, prefetch, begin_pass, warm_bulk, close; one worker and a warm pool | loads run outside the lock, several parties want one piece, loads raise, four budgets interact | `PieceCache` |
| `kv_store.py` KVStore | resident caches, layers whose state is on disk, reservations, queue | get, prefetch, truncate, close; one worker | caches grow in place, the worker never evicts, rollback must reach the disk | `KVStore` |
| `generate*.py`, `tree_spec.py`, `tree_shape.py`, `ngram_drafter.py` | target and draft caches, tokens of the round, number of draft tokens, the drafter's allowance | prefill, draft, verify, commit or roll back, yield | off-by-one between two caches, limits in the middle of a round, adaptive lengths, rows of unequal length | `Generation`, `Loops` |
| `cli.py` generate | a token queue, what is open | main, a printer thread | what was opened must be closed on every way out, and all be printed on one of them | `Cli` |
| `prefix_cache.py` PrefixCache | one store and the tokens it is said to hold | begin, commit | a request may be left at any yield or by an error; windows cannot be trimmed back | `Server` |
| `server.py` | the request under way, text held back, the connection | do_GET, do_POST, stream_chat_completion, shutdown | stop sequences that begin and are not completed, writes that fail, errors after the first frame | `Server`, `Http` |
| `webapp/jobs.py`, `webapp/runner.py` | job states, queue, look-ahead buffer, cancels, output files | submit, cancel, pause, shutdown; one worker | grouping takes jobs out of the queue early, cancels at any step, fallbacks, failures | `Jobs` |
| `webapp/engine_pool.py`, `webapp/app.py` | one engine handle; event logs and subscribers | acquire, close; subscribe, emit, the routes | loading raises between two engines, shutdown gives up waiting, late subscribers | `WebApp` |
| memory sizing, draft networks, benchmark | | | | not modelled: section 7 |

The engine calls `PieceCache.get` and `KVStore.get` for each layer of a pass and
prefetches a window ahead; decoding loops call the engine; the command line, the server
and the job runner consume a loop's tokens; the server gives loops the store of its
prefix slot, the others a store of their own that they close.

## 2. Modules

    Architectures <- Packer <- Engine <- MCEngine
    PieceCache <- MCPieceCache                         KVMap <= KVStore
    Greedy <= Generation <- Loops <- Cli <- MCGeneration
              Generation <- Server <- Http <- MCServer
    Jobs <- WebApp <- MCJobs

    PieceCache <- PieceCacheProofs                     KVStore <- KVStoreProofs
    Generation <- GenerationProofs <- ServerProofs     Http <- ServerProofs
                  GenerationProofs <- LoopsProofs      Cli <- LoopsProofs
    Engine <- EngineProofs
    Jobs <- JobsProofs <- WebAppProofs                 WebApp <- WebAppProofs

(`<-` is EXTENDS, read from right to left; `<=` is "is implemented by".)

- `PieceCache`: each action is one section run under `_lock` or one step outside it.
  `get` is `Hit`, `Promote`, `Own` or `Join`, then `LandDemand`, `LandSpeculative` or
  `Fail`, then `Release` on the thread that loads, and `Wake` and `Retry` on one that
  waits; the worker is `WorkerTake` followed by the same load steps, and `WorkerStop`.
  The ordered tables are sets with an order relation, so eviction is the choice of
  `Victims`, the shortest run in the order of the loop. Sizes come from a constant
  function `Bytes` on sets of pieces of which only additivity is assumed.
- `Architectures`: the registry as operators on a configuration: the kind of attention
  and of cache of each layer, the key by which layers may use one slot, which layers
  are split into experts, and who shares whose keys.
- `Packer`: the pieces of a model and their files, `"part"` from the moment one is
  opened until it is closed, and the manifest, which cannot be read from the moment it
  is truncated until it is written; the process may be killed at any point.
- `Engine`: one pass is `StartForward`, `StartVerify` or `StartTree`, then for each
  layer `LoadLayer`, or `LoadCore`, `Scatter` per fired expert and `Mix`, with
  `RunLayer` between them, then `CommitVerified` or `CommitPath`. A tensor is known by
  the layer it belongs to, so that a stale buffer, slot, mask or shared key shows. The
  cache is reduced to what the engine relies on (`Kept`, `Get`, `Serve`).
- `KVStore`: the store driven as the engine drives it, passes of gets and appends
  with a prefetch window (before the get of a layer, or after it in a verification),
  probes, and rollbacks between passes; a load, a save and a layer may raise. `KVMap` is
  what it promises: one sequence of rows per layer.
- `Generation`: the loops, over a target abstracted to a function `Argmax` of the
  rows its caches hold. If the layers no longer hold the rows of one sequence the
  target may answer anything, and a draft may always propose anything. `Greedy` is
  what a loop promises: the target's argmax (in the fast mode one of its likeliest
  tokens), one token at a time, up to its limit, unless its consumer abandons it.
- `Loops`: on the same state, the n-gram loop with the real `NGramDrafter` (it proposes
  exactly what the lookup finds), tree speculation over any branching, the two loops
  that verify on the store itself (MTP and EAGLE), and one row of a batch beside rows of
  which only the length matters.
- `Cli`: `nunspark generate` around a loop: `main()` step by step to its `finally`
  clauses, and the printer thread. A token is queued in the step that yields it, since
  nothing but the printer runs beside `main()`.
- `Server` extends `Generation` with the prefix slot and the chat loop; `Http` with
  what the handlers write for it. A frame is its kind, the tokens of text sent so far
  and a reason; any write may fail, and a failed write leaves the handler.
- `Jobs`: the request threads and the worker of the job queue. A request lists its jobs
  in one step (`Submit`) and puts each on the queue in a later one (`Enqueue`), and a
  shutdown sets its flag and then puts its sentinel (`PutStop`), since the code does the
  second outside the lock. `puts` is a history of the queue. The worker is modelled with
  `run_generation` and `run_generation_batch` as steps at which the worker reads the
  flags and the cancelled set. `WebApp` adds to each of those steps what it does to the
  engine pool and to the event bus.
- `...Proofs` modules hold the theorems of section 6 and no definition that a run uses.
- `MC...` modules hold the instances. Definitions named `Mutant...` are plausible
  bugs of the definition after them; no specification uses them.

## 3. Runs

| run | what it shows |
|---|---|
| `piece_cache_safety` | two callers and the worker, pressure in every region, one load raises, one pinned piece: types, byte counters, single load, shares (the main table shrinks when the split begins), pins |
| `piece_cache_life` | one caller, warm pool, an expert larger than staging: experts and staging share their cap, guesses are accounted for, demanded pieces land hot, calls return, close drains |
| `engine` | packed directories are whole; only their pieces are asked for; each layer runs with its own weights, its mask and its producer's keys; nothing is dropped while the barrier is skipped |
| `kv_store` | the store implements `KVMap`, keeps its budget, has one home per layer; passes end when a reload fails, and when a layer, a load or a save raises and the owner closes the store |
| `kv_store_abandoned_pass` | finding 1 |
| `generation` | every loop implements `Greedy`, liveness included; what drafts work from is aligned between rounds; the drafter keeps to its bounds; the command prints all before it returns 0 and closes what it opened |
| `generation_adaptive` | finding 2 |
| `server` | slot honest after every way a request ends, warm answers equal cold ones, exact text, well-formed answers, every request answered |
| `server_mid_pass_error` | finding 3 |
| `jobs` | cancels, order, events, final states, outputs, one engine, every job ends, the worker stops |
| `jobs_setup_error`, `jobs_same_name` | findings 4 and 5 |

`CHECK_DEADLOCK FALSE` is set everywhere: nobody is obliged to make a further call,
submit a job or send a request, and closed components stop.

### Bounds

- Piece cache: four pieces (two dense, two experts; or one dense and three experts,
  one twice as big), budgets such that each region must evict and the split leaves
  less than the dense pieces need; one load raises (`MaxFailures = 1`). Two callers
  are the fewest that join each other's loads.
- Engine: seven models of two to six layers, one of each family and two of Gemma 4. One
  of these shares the upper half of its layers with the lower, the other has, like the
  default, consumers whose producer would be negative. Two experts; passes of one or two
  tokens, of one sequence or a batch, up to four rows with windows of one and two; two
  passes and two packs: a second pass finds the buffers, history and slot of the first,
  and a second pack the files of a killed one. Budgets 4, 10 and 15 hold few pieces, all
  but for the split, and all. Two settings of the guesses: a wide window, or experts and
  look-ahead.
- KV store: three layers of which two rows fit, a window of two, three rows per
  layer, one error (on the worker, or on the main thread in a load, a save, a rollback or
  between them). That is enough for a layer to be offloaded, reloaded by either
  thread, appended to and offloaded again with a rollback in between.
- Generation: prompts of up to three tokens, up to seven tokens, drafts of 1 to 3,
  suffixes of up to two, an allowance from 2 to 4 and a probe every other call, a tree of
  two levels of two, up to two rows of padding. With these the drafter doubles, halves, is
  disabled, probes and comes back. `MCArgmax` depends on all earlier tokens, so one wrong
  row changes what follows. The command line is run for up to three tokens
  (`Printable`), with one command for each loop and for each refusal. The adaptive loop
  runs here with an interval it does not reach; finding 2 is what happens otherwise.
- Server: a window of four rows, so that requests both fit and rotate it; two stop
  sequences that may begin without being completed; errors before the first layer.
- Jobs: groups of at most two, two jobs that may share one and a third that may not,
  needs another engine and has the name of the first. The two come in one request, the
  third in a concurrent one (`Requests`). Two may be cancelled and the events of one are
  followed. Every prefix of submits, cancels, pauses and a shutdown is covered; the
  shutdown may give up waiting at any time.

### Fairness

The operating system runs a thread that can run, so each step of a call under way and
of each worker is weakly fair: `WF` of the worker's step in `WebApp`, of a request that
has listed its jobs and puts them on the queue, of a shutdown that has still to put its
sentinel, of the request under way in `Http`, of the two threads of `Cli` and of a
program that resumes its generator. Calls, submits and requests are not fair.
`CallReturns` is checked with one caller: with two, eviction by one may keep another's
wait from finding its piece, and the code retries without a bound.

## 4. Findings

1. **A reload may undo a rollback** (`kv_store.py:171-173`). The worker installs what
   it read before `truncate`, against `truncate`'s docstring (116-118). It needs a
   pass that was abandoned by an error in a store that is kept, as the server's is.
2. **The adaptive loop rolls back with the wrong length** (`generate.py:1139`):
   `K` is adjusted between draft and rollback.
3. **The slot trusts one layer's length** (`prefix_cache.py:77`), and keeps a store
   whose layers disagree after an error in the middle of a pass.
4. **An exception before the `try` of `run_generation`** (`webapp/runner.py:243-253`)
   ends the worker thread; `tests/webapp/test_runner.py:139-154` asserts that the
   call does not raise. `run_generation_batch` has the same at 493 and 512.
5. **Same-named files in one batch overwrite each other** (`webapp/runner.py:614-627`).

Noted while modelling, without a run:

- `piece_cache.py:465`: the mark in `_spec_pending` is cleared only after a successful
  load, so the demand load after a guess that raised is staged and not "HOT" (comment
  at 491). `DemandLandsHot` therefore speaks of behaviours in which no load has raised.
- `engine_pool.py:43-53` (and `server.py`'s `build_server` after its check): when the
  tokenizer or the draft model raises, the engine just made is never closed
  (`WebApp` with `"tokenizer"` in `LoadFaults` violates `EngineSound`). When shutdown's
  ten seconds are over the pool is closed under the worker, and a later `acquire` leaves
  an engine open: `EngineSound` holds until then.
- Packing again over a packed directory (`app.py:67-79` does not ask) leaves the old
  manifest over partial files until the end: `PackedWhole` exempts that time. A kill
  inside `manifest.save` (`manifest.py:56-57`) leaves a torn manifest, for which
  `is_packed` says yes and `Manifest.load` raises. Two sources of one base name share a directory.
- `piece_cache.py`, `close()`: when two threads close at once, the second finds the warm
  pool already taken, does not wait for it to drain and sends the sentinel, so a warmed
  piece may be queued after it. `ClosedClean` is checked and proved for one thread.
- `submit_batch` lists jobs under its lock (`jobs.py:108-123`) and puts them on the queue
  after it (124-125), so for concurrent requests `list_jobs()` may show another order
  than the one in which they are served. `FirstComeFirstServed` speaks of the queue's
  order and of the order within one request, and `_order` is not modelled.
- The class comment of `NGramDrafter` says a probe that is not accepted leaves it
  disabled; a probe of middling acceptance enables it (`ngram_drafter.py:165`). With
  `min_draft_tokens` above `num_draft_tokens` a probe exceeds the cap; `LoopsAssumption`
  excludes that.
- `generate.py`: with several end-of-text ids the speculative loops heed one, and the
  server's temperature is ignored with a draft model. The MTP loop rolls back with
  `truncate`, which does not bring back rows a rotating cache has dropped.
- `architectures.py:246-257`: the producer is found by subtraction alone. The docstring
  says that with the default 20 shared of 35 layers the layers 15-34 share from 0-14;
  the code subtracts 20, which for 15-19 is negative, and these layers are given no keys.
  What the block of the library then does is outside `src/`: the model lets the pass go
  on, and `ConsumersServed` and `MaskFits` speak of the layers that have a producer. A
  producer that exists may be of another kind of attention than its consumer, for which
  the mask need not fit (`KindsFit` in `EngineProofs`); in the checked models it is not.
  `verify_forward` does not serve consumer layers. The `gpt_oss` fallback for
  `layer_types` is one short when the number of layers is odd.
- `tree_forward` refuses paired caches only, and is reached for dense and MoE types of
  plain attention (`TreeTypes`); neither the command line nor the server offers it.
- The prefix slot reuses rows without resetting the engine's fired history: guesses
  only, never the output.
- `webapp/runner.py:571-578`: when handing out results raises, jobs that are already
  done run again after their event streams were closed (`Jobs` with `"fanout"` in
  `Faults` violates `TerminalIsFinal`).
- A manager that is paused when it is shut down takes one more job before it ends
  (`webapp/jobs.py:198-200`). The event stream of a job that was never run then waits
  for ever, and `_subs` never shrinks.
- `server.py:72-76` and `103-105` disagree on whether held-back text is sent when the
  end-of-text token comes; the code drops it, and `ExactText` allows that. The first also
  says it is dropped when the length is reached, where the code and `ExactText` send it. The Anthropic
  answers carry the reasons "stop" and "length" as they are; `/v1/models/list` is
  shadowed by the prefix route before it.
- `cli.py:488-512`: a printer that raises (a closed pipe, a decode error) ends silently,
  and `main` may still return 0; when a pass raises the printer is never told to end.

## 5. Properties

Each property has its statement, and the code it is about, in the comment above it.
The deepest are `EachLoadedOnce`, `GuessesAccounted` and `RegionCaps` (piece cache),
`OwnWeights`, `SkippedSyncSafe` and `ConsumersServed` (engine), `ImplementsMap` and
`BudgetEnforced` (KV store), `ImplementsGreedy` and `DraftAligned` (loops),
`PrintedWhole` (command line), `SlotHonest`, `AsIfCold` and `AnswerWhole` (server),
`FirstComeFirstServed`, `TerminalIsFinal`, `EngineSound`, `StreamFaithful`,
`EveryJobEnds` and `WorkerStops` (web application). For each, `PROJECT.json` names a
mutated definition under which the run finds it violated.

## 6. Proofs

The theorems hold for every value of the constants that meets the named assumptions of
the modules (`PieceAssumption`, `ConstantAssumption`, `KVAssumption`, `JobsAssumption`,
`WebAppAssumption`, `PackerAssumption`, `EngineAssumption`, `GenerationAssumption`,
`LoopsAssumption`, `CliAssumption`, `ServerAssumption` and those beside them) and the
hypothesis in the third column. `SoundCall` is one on the call a behaviour begins with.

| theorem | property | hypothesis |
|---|---|---|
| **`PieceCacheProofs`** | | |
| `TypeCorrect` | `TypeOK` | |
| `BytesNeverDrift` | `BytesAccounted` | |
| `RegionsWithinShare` | `RegionCaps` | |
| `LoadsDeduplicated` | `EachLoadedOnce` | |
| `PinnedNeverDropped` | `PinnedStay` | |
| `GuessesNeverLost` | `GuessesAccounted` | |
| `DemandAlwaysHot` | `DemandLandsHot` | |
| `ClosesClean` | `ClosedClean` | `OneClient` |
| **`KVStoreProofs`** | | |
| `TypeCorrect` | `TypeOK` | |
| `OneHomeAlways` | `OneHome` | |
| `BudgetAlways` | `BudgetEnforced` | |
| `Implements` | `ImplementsMap`: the store refines `KVMap` | `NotResumed` |
| `NothingResurrected` | `NoneResurrected` | `NotResumed` |
| **`EngineProofs`** | | |
| `PackedAlwaysWhole`, `DirectoryWhole` | `PackedWhole`, packing alone and with the engine | |
| `OnlyWhatIsOnDisk` | `AskedOnDisk` | |
| `WeightsAlwaysOwn` | `OwnWeights` | |
| `NothingDroppedWhileLazy` | `SkippedSyncSafe` | |
| `MasksAlwaysFit` | `MaskFits` | `KindsFit` |
| `ConsumersAlwaysServed` | `ConsumersServed` | |
| **`GenerationProofs`** | | |
| `TypeCorrect` | `TypeOK` of `Generation` | `Oracle`, `SoundLoops` |
| `DraftsAligned` | `DraftAligned` | the same, no MTP or EAGLE |
| `GreedySteps` | the safety part of `ImplementsGreedy` | `Oracle`, `SoundLoops` |
| **`LoopsProofs`** | | |
| `LoopsTypeCorrect` | `LoopsTypeOK`, of every loop | `Oracle` |
| `PrintsWhole` | `PrintedWhole` | `Oracle` |
| `AllDraftsAligned` | `DraftAligned`, of every loop | `Oracle`, `SoundCall` |
| `AllGreedySteps` | the safety part of `ImplementsGreedy`, of every loop | `Oracle`, `SoundCall` |
| **`ServerProofs`** | | |
| `ServerTypeCorrect` | `ServerTypeOK` | `SoundServer` |
| `SlotAlwaysHonest` | `SlotHonest` | `SoundServer` |
| `AlwaysAsIfCold` | `AsIfCold` | `SoundServer`, no fast mode |
| `AlwaysExactText` | `ExactText` | `SoundServer` |
| `AlwaysAnswerWhole` | `AnswerWhole` | `SoundServer` |
| **`JobsProofs`** | | |
| `TypeCorrect` | `TypeOK` | |
| `CancelAlwaysHonoured` | `CancelHonoured` | |
| `ServedInOrder` | `FirstComeFirstServed` | |
| `EndsOnce` | `TerminalIsFinal` | `"fanout" \notin Faults` |
| `OutputsAlwaysDistinct` | `OutputsDistinct` | `NamesDiffer` |
| **`WebAppProofs`** | | |
| `WebImplementsJobs` | every behaviour of `WebSpec` is one of `Jobs!Spec` | |
| `WebSafe` | `TypeOK`, `CancelHonoured`, `FirstComeFirstServed` under `WebSpec` | |
| `EngineAlwaysSound` | `EngineSound` | `"tokenizer" \notin LoadFaults` |
| `StreamAlwaysFaithful` | `StreamFaithful` | |

### Hypotheses

Each hypothesis excludes something that section 4 describes, and without it the property
it is there for is false of the code. Some theorems share a hypothesis because they share
the invariant, not because they are known to need it: `TypeCorrect` of `Generation`
(`LoopsTypeCorrect` does without), and of the server its types, its text and the form of
its answers, which do not depend on which tokens are said.

- `NotResumed`: no store goes on being used after its pass raised (finding 1).
- `SoundLoops`: not the adaptive loop (finding 2), and the "optimized" one, which rolls
  back with `truncate` alone, only on caches that keep all rows. `Oracle` says that the
  target answers with a token, and that the argmax is among the likeliest tokens.
- `SoundCall`: the same of one call, and of MTP and EAGLE what is said of "optimized".
  Types and `PrintedWhole` need neither: the command keeps its promise even about tokens
  that are not greedy.
- `SoundServer`: those two, and an engine that raises only before its first layer
  (finding 3). The fast mode takes any likely token, so it has no answer to repeat.
- `NamesDiffer`: jobs that may share a batch have files of different names (finding 5).
- `"fanout" \notin Faults`, `"tokenizer" \notin LoadFaults`, `KindsFit`, `OneClient`:
  the notes of section 4 on `runner.py:571-578`, on `engine_pool.py:43-53`, on
  `architectures.py:246-257` and on `close()`.

### The inductive invariants

- `PieceCacheProofs`: `IInv` joins the state properties with what they need of each
  other: a counter is right only if a piece is inserted when it is not held, that is so
  only if its reservation has one server, and the caps speak of the counters.
  `BytesMinus`, `BytesPlus` and `EvictEffect` say from the additivity of `Bytes` what
  eviction does. `Guessing` says whose each pending mark is (the worker's, while no load
  has raised) and `Closing` what each step of `close()` leaves behind.
- `KVStoreProofs`: types and homes are inductive almost as they stand (`SafeInv`). The
  refinement needs to know of each reload under way which rows it carries, and why they
  are still the layer's when it is installed: a reload that is pending is of a layer the
  pass under way has still to visit (`Reloads`), so nothing can have been appended,
  dropped or rolled back in between. That is what an error of the main thread breaks. When
  a save raises, what the eviction has dropped so far is on disk (`Drop`), and a layer
  just loaded is in hand or installed (`Held`).
- `EngineProofs`: `EInv` has a part for the directory, for what the pass under way
  expects (`Standing`, `Streaming`), for the experts fired and the buffers that hold
  them (`Routing`), for the compute slot (`Slotted`) and for the skipped barrier
  (`Skipping`): all the pieces a graph reads fit the budget with everything else the
  cache may hold, so nothing is evicted. `MInv` adds the rows each layer holds within a
  pass, from which the masks follow, and the keys put aside for consumers: a producer
  that exists lies before every consumer and owns its keys, by arithmetic.
- `GenerationProofs`: `GInv` says what the caches hold at every step of a round relative
  to what was yielded and what is about to be, and that everything so far is greedy
  (`Correct`). `TargetsAre` gives the target's answers to a draft from it,
  `AcceptedIs` and `RoundAdds` what is accepted and yielded, `RolledBack` what the caches
  keep. `GreedySteps` follows step by step (`EmitYields`).
- `LoopsProofs`: `TInv` holds of every loop with any caches: no row of the probe layer is
  lost, so the target answers with tokens even after a rollback of the wrong length, a
  loop that speaks has not reached its limit (`Speaking`), and a row of a batch has
  yielded no more than it was fed (`Riding`). `CInv` adds where a token is: printed, in
  the queue, or not yet yielded (`Printing`). `SInv` is `GInv` for the loops beside the
  batch, with `Trailing` for what MTP and EAGLE work from, and `Padded` for the batch: a row
  is its pads and what it said. The numbering of a tree is arithmetic on levels
  (`SpanIs`, `NodeIs`, `PathIs`, `PathsMeet`); from it, the path that is accepted is a
  draft accepted whole (`TreeAsDraft`), so that a tree's round is one of the others.
- `ServerProofs`: `SInv` is `GInv`, with what the slot claims between requests
  (`Slotted`), what was sent, held back and released (`Talk`), and what is on the wire
  relative to the two (`Wired`), which is all of it once an answer is over and no write
  failed.
- `JobsProofs`: `Line` relates the queue, the look-ahead buffer and the worker's hands to
  the order in which jobs were put on the queue: what waits is the tail of that order, and
  what was taken and is still queued is in hand; `InTurn` says that each request's jobs
  come in their order in it. Order, single execution and the cancels follow from it.
  `Outputs` says that a file is chosen before a job is done, and never one in use; that
  a free numbered name exists is a counting argument on finite sets.
- `WebAppProofs`: the jobs' invariant is inherited through `WebImplementsJobs`;
  `PoolInv` and `BusInv` are short beside it.

Recursive functions, folds and CHOOSE are treated with induction told by sets: `Climb`
(a set with 0 and all successors contains the naturals), `Least` and `Greatest`.

### Only model-checked

- Liveness, which is out of the prover's reach with ENABLED: `EveryJobEnds`,
  `WorkerStops`, `PassEnds`, `CallReturns`, `Answered`, and that the loops of
  `ImplementsGreedy` end.
- Beyond types and `PrintedWhole`, the adaptive loop, which is outside `SoundLoops` and
  `SoundCall`: the run `generation` checks it with an interval it does not reach.

Every other property of a passing run is proved.

## 7. Not modelled

Values and numerics (weights, logits, attention, RoPE, quantisation), the encodings of
caches on disk, statistics, text and JSON. Whole components: memory sizing (arithmetic
on the size of RAM; the budget is a constant here), the draft networks (a draft may
propose anything), the benchmark and the scripts (sequences of measured runs), the
registry and downloading of models. Per module:

- `PieceCache`: `warm_bulk` and the order of equal-tier queue entries (any may be taken).
- `Engine`: expert traces, memory wiring, the values the router predicts (it may fire and
  predict any experts); one type stands for each family.
- `Generation`, `Loops`: sampling at a temperature, the residual sampling of trees,
  `accept_top_k > 1` in the MTP loop, the other rows of a batch.
- `Cli`: the other commands, the metrics report.
- `Server`, `Http`: detokenizing (text is counted in tokens), templates, request bodies;
  a refusal is one frame.
- `Jobs`, `WebApp`: sidecars, token and metrics events, prompt building and its cap (a
  step that may raise), resume, names that collide with another file's numbered name.

## 8. Plan

The modules of section 2 cover the parts whose state and interleavings matter, and
section 6 proves every safety property the runs check. What is left to prove: the
adaptive loop while its number of draft tokens stays the same; the loops that roll the
store back, on windows that have not rotated yet (`Unrotated` of `GenerationProofs` is
the condition); and what `close()` does leave behind when two threads close at once.
