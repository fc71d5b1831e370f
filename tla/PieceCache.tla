----------------------------- MODULE PieceCache -----------------------------
(***************************************************************************)
(* The weight-piece cache of src/nunspark/piece_cache.py.                  *)
(*                                                                         *)
(* Callers (the engine's compute thread, and any other thread: the class   *)
(* is documented as thread-safe) and one background worker share two       *)
(* resident tables, a staging buffer for speculative loads, a table of     *)
(* in-flight reservations and a prefetch queue, all behind one lock.       *)
(* Every action is one section run under that lock, or one step outside    *)
(* it (a load, a wait on an Event).                                        *)
(*                                                                         *)
(* What is abstracted:                                                     *)
(*  - An OrderedDict is a set of keys and an order; `older` holds the      *)
(*    pairs <<a, b>> of one table where a stands before b.                 *)
(*  - An Event is known by the piece it was reserved for and the party     *)
(*    that answers for it: a caller that loads on its own thread, or the   *)
(*    worker for a prefetch.  The finally clause pops the reservation and  *)
(*    then sets the Event; a later set() only delays the wake-up, which    *)
(*    the separate Wake step already allows, so the two are one step.      *)
(*  - The epoch of a staged piece is kept as its age in passes.            *)
(*  - The three speculation counters are kept as `unsettled`: issued less  *)
(*    the guesses counted used or wasted.  Hit and miss counts, the peak   *)
(*    and the OS page-cache reads are left out.                            *)
(*  - Within a tier of the queue any entry may be taken (the code takes    *)
(*    the one with the least seq).                                         *)
(***************************************************************************)
EXTENDS Integers, FiniteSets

CONSTANTS
  Piece,         \* piece ids
  Expert,        \* those whose id holds "_expert_"
  Pinned,        \* pieces eviction must not drop
  Bytes,         \* Bytes[S]: the bytes of a set S of pieces
  Budget,        \* budget_bytes
  ExpertBudget,  \* int(budget_bytes * expert_frac)
  StagingCap,    \* spec_staging_bytes
  Client,        \* threads that call the cache
  Worker,        \* the background thread
  None,          \* no reservation, no piece
  WarmPool,      \* io_threads > 1 with a pather
  MaxFailures    \* bound: how many loads may raise

\* A weighing of sets of pieces: what _piece_bytes and the running sums of the
\* code rely on, for any sizes.
ASSUME PieceAssumption ==
  /\ Expert \subseteq Piece
  /\ Pinned \subseteq Piece
  /\ IsFiniteSet(Piece)
  /\ Bytes \in [SUBSET Piece -> Nat]
  /\ Bytes[{}] = 0
  /\ \A S, T \in SUBSET Piece :
       S \cap T = {} => Bytes[S \cup T] = Bytes[S] + Bytes[T]

ASSUME ConstantAssumption ==
  /\ Budget \in Nat /\ ExpertBudget \in 0 .. Budget /\ StagingCap \in Nat
  /\ Worker \notin Client /\ None \notin Client \cup {Worker} \cup Piece
  /\ WarmPool \in BOOLEAN
  /\ MaxFailures \in Nat

VARIABLES
  resident,      \* keys of _resident: dense and core pieces
  experts,       \* keys of _experts
  staging,       \* keys of _staging
  older,         \* the order of the three tables
  age,           \* _epoch less the insertion epoch, of a staged piece
  mainBytes, expertBytes, stagingBytes,
  split,         \* _split_active
  inflight,      \* _inflight: who answers for the piece's Event, or None
  specPending,   \* _spec_pending
  unsettled,     \* speculative_issued - used - wasted, in pieces
  queue,         \* _pq and the warm pool's backlog: reserved pieces, by tier
  sentinel,      \* the tier-3 entry is in _pq
  pool,          \* _warm_pool is not None
  at,            \* where each thread stands
  failures       \* loads that raised so far

tables   == <<resident, experts, staging, older, age>>
sizes    == <<mainBytes, expertBytes, stagingBytes, split>>
spec     == <<specPending, unsettled>>
shutting == <<sentinel, pool>>
vars     == <<tables, sizes, spec, shutting, inflight, queue, at, failures>>

Thread == Client \cup {Worker}
Party  == Thread \cup {None}
Tier   == {"warm", "demand", "spec"}
Op     == {"idle", "load", "release", "wait", "woken", "retry",
           "drain", "stop", "join", "closed", "exited"}

Idle        == [op |-> "idle", pid |-> None, by |-> None]
Doing(o, p, t) == [op |-> o, pid |-> p, by |-> t]

\* _region(pid)
Region(p) == IF p \in Expert THEN experts ELSE resident

Held(p) == p \in Region(p) \/ p \in staging

------------------------------------------------------------------------------
(* Order of the tables, and eviction. *)

\* The order after p becomes the last key of table T (insertion, move_to_end).
Touched(ord, p, T) ==
  {e \in ord : p \notin {e[1], e[2]}} \cup ((T \ {p}) \X {p})

Without(ord, S) == {e \in ord : e[1] \notin S /\ e[2] \notin S}

Reverse(ord) == {<<e[2], e[1]>> : e \in ord}

MutantMainCap == Budget
MainCap   == IF split THEN Budget - ExpertBudget ELSE Budget

MutantExpertCap == ExpertBudget
ExpertCap == ExpertBudget - stagingBytes

MutantProtected(p) == {p}
Protected(p) == Pinned \cup {p}

\* What a loop over a table drops: the shortest run of droppable pieces, in the
\* order of the loop, that brings `bytes` under `cap`, or all of them.
Victims(T, keep, before, bytes, cap) ==
  {V \in SUBSET (T \ keep) :
     /\ \A q \in V, r \in T \ keep : <<r, q>> \in before => r \in V
     /\ bytes - Bytes[V] <= cap \/ V = T \ keep
     /\ \A q \in V : bytes - Bytes[{r \in V : <<r, q>> \in before}] > cap}

\* _evict_locked(protect=p) on tables R (most recent first) and X (least
\* recent first) that weigh mb and eb; reads the new split and staging bytes.
EvictLocked(p, R, mb, X, eb, ord) ==
  \E VM \in Victims(R, Protected(p), Reverse(ord), mb, MainCap'),
     VX \in Victims(X, Protected(p), ord, eb, ExpertCap') :
       /\ resident' = R \ VM /\ mainBytes' = mb - Bytes[VM]
       /\ experts' = X \ VX  /\ expertBytes' = eb - Bytes[VX]
       /\ older' = Without(ord, VM \cup VX)

------------------------------------------------------------------------------
Init ==
  /\ resident = {} /\ experts = {} /\ staging = {} /\ older = {}
  /\ age = [p \in Piece |-> 0]
  /\ mainBytes = 0 /\ expertBytes = 0 /\ stagingBytes = 0 /\ split = FALSE
  /\ inflight = [p \in Piece |-> None]
  /\ specPending = {} /\ unsettled = 0
  /\ queue = {} /\ sentinel = FALSE /\ pool = WarmPool
  /\ at = [t \in Thread |-> Idle]
  /\ failures = 0

------------------------------------------------------------------------------
(* get(): the first section under the lock, and its four outcomes. *)

\* The piece is resident: it becomes the most recent key of its table.
Hit(c, p) ==
  /\ p \in Region(p)
  /\ older' = Touched(older, p, Region(p))
  /\ at' = [at EXCEPT ![c] = Idle]
  /\ UNCHANGED <<resident, experts, staging, age, sizes, spec, shutting,
                 inflight, queue, failures>>

\* _promote_staged: the guess was right; the piece moves to the hot end of the
\* expert table, which is then brought under its cap.
Promote(c, p) ==
  /\ p \notin Region(p) /\ p \in staging
  /\ staging' = staging \ {p} /\ stagingBytes' = stagingBytes - Bytes[{p}]
  /\ age' = [age EXCEPT ![p] = 0]
  /\ unsettled' = unsettled - 1
  /\ split' = TRUE
  /\ EvictLocked(p, resident, mainBytes, experts \cup {p},
                 expertBytes + Bytes[{p}], Touched(older, p, experts))
  /\ at' = [at EXCEPT ![c] = Idle]
  /\ UNCHANGED <<specPending, shutting, inflight, queue, failures>>

\* Nobody loads the piece: this thread reserves it and will load it.
Own(c, p) ==
  /\ ~Held(p) /\ inflight[p] = None
  /\ inflight' = [inflight EXCEPT ![p] = c]
  /\ at' = [at EXCEPT ![c] = Doing("load", p, c)]
  /\ UNCHANGED <<tables, sizes, spec, shutting, queue, failures>>

MutantJoin(c, p) ==
  /\ ~Held(p) /\ inflight[p] # None
  /\ unsettled' = IF p \in specPending THEN unsettled - 1 ELSE unsettled
  /\ at' = [at EXCEPT ![c] = Doing("wait", p, inflight[p])]
  /\ UNCHANGED <<tables, sizes, shutting, inflight, queue, failures, specPending>>

\* Somebody does: wait on the Event.  A guess that is joined counts as used, and
\* its load becomes a demand load.
Join(c, p) ==
  /\ ~Held(p) /\ inflight[p] # None
  /\ specPending' = specPending \ {p}
  /\ unsettled' = IF p \in specPending THEN unsettled - 1 ELSE unsettled
  /\ at' = [at EXCEPT ![c] = Doing("wait", p, inflight[p])]
  /\ UNCHANGED <<tables, sizes, shutting, inflight, queue, failures>>

GetSection(c, p) == Hit(c, p) \/ Promote(c, p) \/ Own(c, p) \/ Join(c, p)

Get(c, p) == at[c].op = "idle" /\ GetSection(c, p)

\* After ev.wait(): the second section finds the piece in its table, or the call
\* starts over.
Wake(c) ==
  LET p == at[c].pid IN
  /\ at[c].op = "woken"
  /\ IF p \in Region(p)
       THEN /\ at' = [at EXCEPT ![c] = Idle]
            /\ older' = Touched(older, p, Region(p))
       ELSE /\ at' = [at EXCEPT ![c] = Doing("retry", p, None)]
            /\ UNCHANGED older
  /\ UNCHANGED <<resident, experts, staging, age, sizes, spec, shutting,
                 inflight, queue, failures>>

Retry(c) == at[c].op = "retry" /\ GetSection(c, at[c].pid)

------------------------------------------------------------------------------
(* _materialize(), on a caller's thread or on the worker. *)

\* A speculative expert goes to staging: never stored when larger than the cap,
\* else the oldest staged pieces D make room (_stage_locked).
Stage(p) ==
  IF Bytes[{p}] > StagingCap
    THEN /\ unsettled' = unsettled - 1
         /\ UNCHANGED <<staging, stagingBytes, age>>
         /\ EvictLocked(p, resident, mainBytes, experts, expertBytes, older)
    ELSE \E D \in Victims(staging, {}, older, stagingBytes,
                          StagingCap - Bytes[{p}]) :
           /\ staging' = (staging \ D) \cup {p}
           /\ stagingBytes' = stagingBytes - Bytes[D] + Bytes[{p}]
           /\ age' = [q \in Piece |-> IF q \in D \cup {p} THEN 0 ELSE age[q]]
           /\ unsettled' = unsettled - Cardinality(D)
           /\ EvictLocked(p, resident, mainBytes, experts, expertBytes,
                          Touched(Without(older, D), p, staging \ D))

MutantLandSpeculative(t) ==
  LET p == at[t].pid IN
  /\ at[t].op = "load"
  /\ p \in specPending /\ p \in Expert
  /\ UNCHANGED <<specPending, split>>
  /\ Stage(p)
  /\ at' = [at EXCEPT ![t].op = "release"]
  /\ UNCHANGED <<shutting, inflight, queue, failures>>

LandSpeculative(t) ==
  LET p == at[t].pid IN
  /\ at[t].op = "load"
  /\ p \in specPending /\ p \in Expert
  /\ specPending' = specPending \ {p}
  /\ UNCHANGED split
  /\ Stage(p)
  /\ at' = [at EXCEPT ![t].op = "release"]
  /\ UNCHANGED <<shutting, inflight, queue, failures>>

\* Any other piece lands at the most recent end of its table.
LandDemand(t) ==
  LET p == at[t].pid
      T == Region(p)
      isExpert == p \in Expert
  IN
  /\ at[t].op = "load"
  /\ ~(p \in specPending /\ isExpert)
  /\ specPending' = specPending \ {p}
  /\ split' = (split \/ isExpert)
  /\ stagingBytes' = stagingBytes
  /\ IF isExpert
       THEN EvictLocked(p, resident, mainBytes, experts \cup {p},
                        expertBytes + Bytes[{p}], Touched(older, p, T))
       ELSE EvictLocked(p, resident \cup {p}, mainBytes + Bytes[{p}],
                        experts, expertBytes, Touched(older, p, T))
  /\ at' = [at EXCEPT ![t].op = "release"]
  /\ UNCHANGED <<staging, age, unsettled, shutting, inflight, queue, failures>>

MutantFail(t) ==
  /\ at[t].op = "load"
  /\ failures < MaxFailures
  /\ failures' = failures + 1
  /\ at' = [at EXCEPT ![t] = Idle]
  /\ UNCHANGED <<tables, sizes, spec, shutting, inflight, queue>>

\* The loader or mx.eval raises: straight to the finally clause.
Fail(t) ==
  /\ at[t].op = "load"
  /\ failures < MaxFailures
  /\ failures' = failures + 1
  /\ at' = [at EXCEPT ![t].op = "release"]
  /\ UNCHANGED <<tables, sizes, spec, shutting, inflight, queue>>

\* `at` once thread t is done with the Event of (p, by), set for its waiters.
Signalled(t, p, by) ==
  [u \in Thread |->
     IF u = t THEN Idle
     ELSE IF at[u] = Doing("wait", p, by) THEN Doing("woken", p, None)
     ELSE at[u]]

MutantRelease(t) ==
  LET p == at[t].pid IN
  /\ at[t].op = "release"
  /\ inflight' = [inflight EXCEPT ![p] = None]
  /\ at' = [at EXCEPT ![t] = Idle]
  /\ UNCHANGED <<tables, sizes, spec, shutting, queue, failures>>

\* The finally clause: give the reservation back and wake the waiters.  A caller
\* then returns the weights or raises; the worker takes its next entry.
Release(t) ==
  LET p == at[t].pid IN
  /\ at[t].op = "release"
  /\ inflight' = [inflight EXCEPT ![p] = None]
  /\ at' = Signalled(t, p, at[t].by)
  /\ UNCHANGED <<tables, sizes, spec, shutting, queue, failures>>

------------------------------------------------------------------------------
(* prefetch(), begin_pass() and the worker. *)

MutantReservable(p) == ~Held(p)
Reservable(p) == ~Held(p) /\ inflight[p] = None

\* prefetch(P, speculative): reserve what is neither held nor in flight.  Only
\* expert pieces are ever guessed; a demand piece goes through the warm pool.
Prefetch(c, P, speculative) ==
  LET new  == {p \in P : Reservable(p)}
      tier == IF speculative THEN "spec" ELSE IF pool THEN "warm" ELSE "demand"
  IN
  /\ at[c].op = "idle"
  /\ new # {}
  /\ speculative => P \subseteq Expert
  /\ inflight' = [p \in Piece |-> IF p \in new THEN Worker ELSE inflight[p]]
  /\ queue' = queue \cup {[pid |-> p, tier |-> tier] : p \in new}
  /\ IF speculative
       THEN /\ specPending' = specPending \cup new
            /\ unsettled' = unsettled + Cardinality(new)
       ELSE UNCHANGED spec
  /\ UNCHANGED <<tables, sizes, shutting, at, failures>>

\* _warm_then_queue: the file has been read (or not: failures are swallowed).
Warmed(p) ==
  LET e == [pid |-> p, tier |-> "warm"] IN
  /\ e \in queue
  /\ queue' = (queue \ {e}) \cup {[e EXCEPT !.tier = "demand"]}
  /\ UNCHANGED <<tables, sizes, spec, shutting, inflight, at, failures>>

MutantExpired == {}
\* Staged pieces whose window is over once the epoch has advanced.
Expired == {p \in staging : age[p] > 0}

\* begin_pass(): one pass of grace, then a staged piece is dropped as wasted.
BeginPass(c) ==
  /\ at[c].op = "idle"
  /\ staging' = staging \ Expired
  /\ stagingBytes' = stagingBytes - Bytes[Expired]
  /\ unsettled' = unsettled - Cardinality(Expired)
  /\ age' = [p \in Piece |-> IF p \in staging \ Expired THEN age[p] + 1 ELSE 0]
  /\ older' = Without(older, Expired)
  /\ UNCHANGED <<resident, experts, mainBytes, expertBytes, split, specPending,
                 shutting, inflight, queue, at, failures>>

Queued(tier) == {e \in queue : e.tier = tier}

\* The worker's loop: the entry of the best tier, and the section that follows.
WorkerTake(e) ==
  /\ at[Worker].op = "idle"
  /\ e \in Queued(IF Queued("demand") # {} THEN "demand" ELSE "spec")
  /\ queue' = queue \ {e}
  /\ IF Held(e.pid)
       THEN /\ inflight' = [inflight EXCEPT ![e.pid] = None]
            /\ specPending' = specPending \ {e.pid}
            /\ at' = Signalled(Worker, e.pid, inflight[e.pid])
       ELSE IF inflight[e.pid] = None
       THEN /\ specPending' = specPending \ {e.pid}
            /\ UNCHANGED <<inflight, at>>
       ELSE /\ at' = [at EXCEPT ![Worker] =
                        Doing("load", e.pid, inflight[e.pid])]
            /\ UNCHANGED <<inflight, specPending>>
  /\ UNCHANGED <<tables, sizes, unsettled, shutting, failures>>

MutantWorkerStop ==
  /\ at[Worker].op = "idle" /\ sentinel
  /\ sentinel' = FALSE
  /\ at' = [at EXCEPT ![Worker] = Doing("exited", None, None)]
  /\ UNCHANGED <<tables, sizes, spec, pool, inflight, queue, failures>>

\* The sentinel sorts after both tiers.
WorkerStop ==
  /\ at[Worker].op = "idle" /\ sentinel
  /\ Queued("demand") = {} /\ Queued("spec") = {}
  /\ sentinel' = FALSE
  /\ at' = [at EXCEPT ![Worker] = Doing("exited", None, None)]
  /\ UNCHANGED <<tables, sizes, spec, pool, inflight, queue, failures>>

------------------------------------------------------------------------------
(* close(): swap the pool out, drain it, put the sentinel, join the worker. *)

Close(c) ==
  /\ at[c].op = "idle"
  /\ pool' = FALSE
  /\ at' = [at EXCEPT ![c] = Doing(IF pool THEN "drain" ELSE "stop", None, None)]
  /\ UNCHANGED <<tables, sizes, spec, sentinel, inflight, queue, failures>>

PutSentinel(c) ==
  /\ at[c].op = "stop" \/ (at[c].op = "drain" /\ Queued("warm") = {})
  /\ sentinel' = TRUE
  /\ at' = [at EXCEPT ![c] = Doing("join", None, None)]
  /\ UNCHANGED <<tables, sizes, spec, pool, inflight, queue, failures>>

JoinWorker(c) ==
  /\ at[c].op = "join" /\ at[Worker].op = "exited"
  /\ at' = [at EXCEPT ![c] = Doing("closed", None, None)]
  /\ UNCHANGED <<tables, sizes, spec, shutting, inflight, queue, failures>>

------------------------------------------------------------------------------
\* What a thread does once a call is under way.
Materialize(t) == LandSpeculative(t) \/ LandDemand(t) \/ Fail(t) \/ Release(t)
ClientStep(c) == Materialize(c) \/ Wake(c) \/ Retry(c) \/ PutSentinel(c) \/ JoinWorker(c)
WorkerStep    == Materialize(Worker) \/ WorkerStop \/ \E e \in queue : WorkerTake(e)

\* The calls a thread may start.
Call(c) ==
  \/ \E p \in Piece : Get(c, p)
  \/ \E P \in SUBSET Piece, speculative \in BOOLEAN : Prefetch(c, P, speculative)
  \/ BeginPass(c)
  \/ Close(c)

Next ==
  \/ \E c \in Client : Call(c) \/ ClientStep(c)
  \/ WorkerStep
  \/ \E p \in Piece : Warmed(p)

Spec == Init /\ [][Next]_vars

\* The operating system runs every thread that can run: a call under way, the
\* worker and the warm pool go on.  Nobody is obliged to call.
Fairness ==
  /\ \A c \in Client : WF_vars(ClientStep(c))
  /\ WF_vars(WorkerStep)
  /\ \A p \in Piece : WF_vars(Warmed(p))

FairSpec == Spec /\ Fairness

------------------------------------------------------------------------------
(* Properties. *)

TypeTables ==
  /\ resident \subseteq Piece \ Expert
  /\ experts \subseteq Expert /\ staging \subseteq Expert
  /\ age \in [Piece -> {0, 1}]
  /\ mainBytes \in Nat /\ expertBytes \in Nat /\ stagingBytes \in Nat

TypeThreads ==
  /\ inflight \in [Piece -> Party]
  /\ specPending \subseteq Expert
  /\ unsettled \in Int
  /\ queue \subseteq [pid : Piece, tier : Tier]
  /\ at \in [Thread -> [op : Op, pid : Piece \cup {None}, by : Party]]
  /\ failures \in 0 .. MaxFailures

TypeFlags == split \in BOOLEAN /\ sentinel \in BOOLEAN /\ pool \in BOOLEAN

TypeOrder == older \subseteq Piece \X Piece

TypeOK == TypeTables /\ TypeOrder /\ TypeThreads /\ TypeFlags

\* The incremental byte counters always equal the weight of the tables they
\* count, whatever loads, promotions, drops and evictions ran in between
\* (piece_cache.py:117-119, 154): a piece inserted twice, or dropped without
\* its bytes, would make the cache over- or under-fill for ever.
BytesAccounted ==
  /\ mainBytes = Bytes[resident]
  /\ expertBytes = Bytes[experts]
  /\ stagingBytes = Bytes[staging]

Serves(t, p) == at[t].op \in {"load", "release"} /\ at[t].pid = p

\* "A piece requested by both get() and the worker is loaded exactly once"
\* (piece_cache.py:56): a reservation has exactly one party that will give it
\* back, nobody loads a piece that is held, and a waiter's Event is the one in
\* the table, so it will be set.
EachLoadedOnce ==
  \A p \in Piece :
    /\ \A t, u \in Thread : Serves(t, p) /\ Serves(u, p) => t = u
    /\ (\E e \in queue : e.pid = p) => \A t \in Thread : ~Serves(t, p)
    /\ inflight[p] # None <=>
         ((\E t \in Thread : Serves(t, p)) \/ \E e \in queue : e.pid = p)
    /\ \A t \in Thread : at[t].op = "load" /\ at[t].pid = p => ~Held(p)
    /\ \A t \in Thread :
         at[t].op = "wait" /\ at[t].pid = p => inflight[p] = at[t].by

\* Every region is within its share whenever the lock is free, but for pinned
\* pieces and one piece too large to fit (the one just handed out): staging
\* within its cap, expert table plus staging within the expert share, main
\* table within the rest once the split is active (piece_cache.py:50-54, 80-84).
RegionCaps ==
  LET Spared(T) == \E p \in Piece : T \subseteq Pinned \cup {p} IN
  /\ Bytes[staging] <= StagingCap
  /\ Bytes[experts] + Bytes[staging] <= ExpertBudget \/ Spared(experts)
  /\ Bytes[resident] <= (IF split THEN Budget - ExpertBudget ELSE Budget)
       \/ Spared(resident)

\* Every guess issued is accounted for once: it is still pending, or staged, or
\* was counted used or wasted (piece_cache.py:69-71, 91-96).  A load that raises
\* leaves its guess pending for ever, so this is said of runs without one.
GuessesAccounted ==
  failures = 0 => unsettled = Cardinality(specPending) + Cardinality(staging)

\* A pinned piece that was once resident stays (piece_cache.py:57-58): no
\* pressure from the main region, the experts or the split drops it.
PinnedStay ==
  [][Pinned \cap (resident \cup experts) \subseteq resident' \cup experts']_vars

\* A get() returns or raises and a close() comes back, whoever loads the piece
\* and whether or not the load fails (piece_cache.py:504-505), when one thread
\* calls the cache, as the engine does.
CallReturns ==
  \A c \in Client : at[c].op # "idle" ~> at[c].op \in {"idle", "closed"}

\* close() leaves nothing reserved: already queued prefetches, warm or not,
\* drain before the worker stops (piece_cache.py:398, 410).
ClosedClean ==
  (\A c \in Client : at[c].op = "closed") =>
     queue = {} /\ \A p \in Piece : inflight[p] = None

\* "Demand experts land HOT" (piece_cache.py:491): a piece that a get() loads on its
\* own thread is not taken for the guess it was once, and put in staging.  A guess
\* whose load raised stays marked, so this is said of runs without one.
DemandLandsHot ==
  failures = 0 =>
    \A c \in Client :
      at[c].op = "release" /\ at[c].by = c => at[c].pid \notin staging
=============================================================================
