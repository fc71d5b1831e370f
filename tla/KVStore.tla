------------------------------- MODULE KVStore -------------------------------
(***************************************************************************)
(* The per-layer KV store of src/nunspark/kv_store.py, driven as the       *)
(* engine drives it: a pass visits layers 0 .. N-1 in order, prefetches a  *)
(* window ahead, gets the layer's cache and appends to it; between passes  *)
(* the decoding loop may roll rows back with truncate().                   *)
(*                                                                         *)
(* Two threads: the main one and the store's worker, which reloads         *)
(* offloaded layers without evicting.  The lock sections are actions; the  *)
(* disk read of _load_cache runs outside the lock and is a step of its     *)
(* own.  A cache is the sequence of its rows, a row the number of the pass *)
(* that wrote it; bytes are counted in rows.                               *)
(***************************************************************************)
EXTENDS Integers, Sequences, FiniteSets

CONSTANTS
  NumLayers,     \* manifest.num_layers
  Budget,        \* budget_bytes, in rows
  Window,        \* the engine's _warm_window
  Prefetching,   \* the engine's _prefetch and the store's _prefetch_enabled
  Kept,          \* the store outlives an error, as the server's prefix slot does
  Faults,        \* which threads may meet an error: a subset of {"main", "worker"}
  MaxFaults,     \* bound: how many errors
  MaxRows        \* bound: how many rows are ever written to a layer

ASSUME KVAssumption ==
  /\ NumLayers \in Nat \ {0} /\ Budget \in Nat /\ Window \in Nat
  /\ Prefetching \in BOOLEAN /\ Kept \in BOOLEAN
  /\ Faults \subseteq {"main", "worker"}
  /\ MaxFaults \in Nat /\ MaxRows \in Nat

Layer == 0 .. NumLayers - 1
Row   == 1 .. MaxRows

VARIABLES
  resident,    \* keys of _resident
  older,       \* its order: <<a, b>> when a stands before b
  cache,       \* the live cache object of a resident layer
  offloaded,   \* _offloaded
  disk,        \* the scratch file of a layer
  inflight,    \* _inflight: the thread that will set the layer's Event, or "none"
  queue,       \* _queue
  main,        \* where the main thread stands
  worker,      \* where the worker stands, with the cache it has read
  written,     \* number of the last row written
  faults       \* errors met so far

store == <<resident, older, cache, offloaded, disk>>
vars  == <<store, inflight, queue, main, worker, written, faults>>

Stop == -1                        \* the None sentinel of close()

Mode == {"forward", "verify", "tree", "commit", "probe"}
Rest == [op |-> "rest", layer |-> 0, mode |-> "probe", copy |-> <<>>]
\* After an error: the next request goes on with the store, or its owner closes it.
Raised == IF Kept THEN Rest ELSE [Rest EXCEPT !.op = "failed"]
At(o, l, m) == [op |-> o, layer |-> l, mode |-> m, copy |-> <<>>]
WIdle == [op |-> "idle", layer |-> 0, copy |-> <<>>]

Init ==
  /\ resident = {} /\ older = {} /\ offloaded = {}
  /\ cache = [l \in Layer |-> <<>>] /\ disk = [l \in Layer |-> <<>>]
  /\ inflight = [l \in Layer |-> "none"]
  /\ queue = <<>>
  /\ main = Rest /\ worker = WIdle
  /\ written = 0 /\ faults = 0

------------------------------------------------------------------------------
(* The table, and eviction to disk. *)

Touched(ord, l, T) == {e \in ord : l \notin {e[1], e[2]}} \cup ((T \ {l}) \X {l})

Rows(T, c) ==
  LET sum[S \in SUBSET T] ==
        IF S = {} THEN 0
        ELSE LET l == CHOOSE l \in S : TRUE IN Len(c[l]) + sum[S \ {l}]
  IN sum[T]

\* What the loop over the most recent layers drops: the shortest run that brings
\* the total, recomputed from the live caches, under the budget.
Victims(keep, T, c, ord) ==
  {V \in SUBSET (T \ {keep}) :
     /\ \A q \in V, r \in T \ {keep} : <<q, r>> \in ord => r \in V
     /\ Rows(T \ V, c) <= Budget \/ V = T \ {keep}
     /\ \A q \in V : Rows(T \ {r \in V : <<q, r>> \in ord}, c) > Budget}

MutantEvict(l, T, c, ord, off) ==
  /\ resident' = T /\ offloaded' = off /\ older' = ord
  /\ disk' = disk

\* The layers of V are saved and dropped; an empty cache is dropped unsaved.
Drop(V, T, c, ord, off) ==
  LET saved == {v \in V : c[v] # <<>>} IN
  /\ resident' = T \ V
  /\ older' = {e \in ord : e[1] \notin V /\ e[2] \notin V}
  /\ offloaded' = off \cup saved
  /\ disk' = [v \in Layer |-> IF v \in saved THEN c[v] ELSE disk[v]]

\* _evict_locked(protect=l).
Evict(l, T, c, ord, off) == \E V \in Victims(l, T, c, ord) : Drop(V, T, c, ord, off)

\* It raises when it saves layer v: only the more recent ones are dropped.
EvictFails(l, T, c, ord, off) ==
  \E V \in Victims(l, T, c, ord) : \E v \in V :
    c[v] # <<>> /\ Drop({q \in V : <<v, q>> \in ord}, T, c, ord, off)

\* _load_cache: the file when the layer is marked offloaded, else a fresh cache.
Loaded(l) == IF l \in offloaded THEN disk[l] ELSE <<>>

MutantNextStop ==
  IF main.mode = "probe" THEN Rest ELSE At("step", main.layer + 1, main.mode)

\* Once get() has returned, the main thread moves on to the next layer of its
\* pass; on the way a forward pass or a commit appends one row to the cache.
NextStop ==
  IF main.mode = "probe" \/ main.layer = NumLayers - 1 THEN Rest
  ELSE At("step", main.layer + 1, main.mode)

WithRow(c) ==
  IF main.mode \in {"forward", "commit"}
    THEN [c EXCEPT ![main.layer] = Append(@, written)] ELSE c

------------------------------------------------------------------------------
(* The main thread: passes, and get() within them. *)

StartPass(m) ==
  /\ main.op = "rest"
  /\ m \in {"forward", "commit"} => written < MaxRows
  /\ written' = IF m \in {"forward", "commit"} THEN written + 1 ELSE written
  /\ main' = At("step", 0, m)
  /\ UNCHANGED <<store, inflight, queue, worker, faults>>

\* The mask plan and PrefixCache.commit read one layer's cache.
StartProbe(l) ==
  /\ main.op = "rest"
  /\ main' = At("get", l, "probe")
  /\ UNCHANGED <<store, inflight, queue, worker, written, faults>>

Reloadable(l) == l \in offloaded /\ l \notin resident /\ inflight[l] = "none"

\* The layers of S, one after another.
Ascending(S) ==
  {q \in [1 .. Cardinality(S) -> S] : \A i, j \in DOMAIN q : i < j => q[i] < q[j]}

\* What prefetch() is asked for before the get() of this layer: the window after it,
\* but in a verification pass, which gets a layer first, the window after the layer
\* before.  A commit does not prefetch.
Ahead ==
  LET from == IF main.mode = "verify" THEN main.layer - 1 ELSE main.layer
      hi   == IF from + Window < NumLayers THEN from + Window ELSE NumLayers - 1 IN
  IF Prefetching /\ main.mode # "commit" /\ from \in Layer THEN from + 1 .. hi ELSE {}

\* Only offloaded layers that nobody holds or loads are queued.
Prefetch ==
  LET new == {l \in Ahead : Reloadable(l)} IN
  /\ inflight' = [l \in Layer |-> IF l \in new THEN "worker" ELSE inflight[l]]
  /\ \E q \in Ascending(new) : queue' = queue \o q

Step ==
  /\ main.op = "step"
  /\ Prefetch
  /\ main' = [main EXCEPT !.op = "get"]
  /\ UNCHANGED <<store, worker, written, faults>>

MainMayFail == "main" \in Faults /\ faults < MaxFaults

\* Loading a piece or computing the layer raises: the pass is abandoned, a
\* verification pass before its prefetch or after it.
Abort ==
  /\ main.op = "step" /\ MainMayFail
  /\ (main.mode = "verify" /\ Prefetch) \/ UNCHANGED <<inflight, queue>>
  /\ faults' = faults + 1
  /\ main' = Raised
  /\ UNCHANGED <<store, worker, written>>

\* get(): the layer is resident, at once or after waiting for its Event.
GetHit ==
  LET l == main.layer IN
  /\ main.op \in {"get", "woken"} /\ l \in resident
  /\ Evict(l, resident, cache, Touched(older, l, resident), offloaded)
  /\ cache' = WithRow(cache)
  /\ main' = NextStop
  /\ UNCHANGED <<inflight, queue, worker, written, faults>>

\* The same, and a save raises.
GetHitFails ==
  LET l == main.layer IN
  /\ main.op \in {"get", "woken"} /\ l \in resident /\ MainMayFail
  /\ EvictFails(l, resident, cache, Touched(older, l, resident), offloaded)
  /\ faults' = faults + 1
  /\ main' = Raised
  /\ UNCHANGED <<cache, inflight, queue, worker, written>>

\* The waiter finds nothing (the load failed): start over.
GetAgain ==
  /\ main.op = "woken" /\ main.layer \notin resident
  /\ main' = [main EXCEPT !.op = "get"]
  /\ UNCHANGED <<store, inflight, queue, worker, written, faults>>

GetOwn ==
  LET l == main.layer IN
  /\ main.op = "get" /\ l \notin resident /\ inflight[l] = "none"
  /\ inflight' = [inflight EXCEPT ![l] = "main"]
  /\ main' = [main EXCEPT !.op = "load"]
  /\ UNCHANGED <<store, queue, worker, written, faults>>

GetJoin ==
  LET l == main.layer IN
  /\ main.op = "get" /\ l \notin resident /\ inflight[l] # "none"
  /\ main' = [main EXCEPT !.op = "wait"]
  /\ UNCHANGED <<store, inflight, queue, worker, written, faults>>

MainLoad ==
  /\ main.op = "load"
  /\ main' = [main EXCEPT !.op = "install", !.copy = Loaded(main.layer)]
  /\ UNCHANGED <<store, inflight, queue, worker, written, faults>>

MainLoadFails ==
  /\ main.op = "load" /\ MainMayFail
  /\ faults' = faults + 1
  /\ inflight' = [inflight EXCEPT ![main.layer] = "none"]
  /\ main' = Raised
  /\ UNCHANGED <<store, queue, worker, written>>

MainInstall ==
  LET l == main.layer
      c == [cache EXCEPT ![l] = main.copy] IN
  /\ main.op = "install"
  /\ Evict(l, resident \cup {l}, c, Touched(older, l, resident),
           offloaded \ {l})
  /\ cache' = WithRow(c)
  /\ inflight' = [inflight EXCEPT ![l] = "none"]
  /\ main' = NextStop
  /\ UNCHANGED <<queue, worker, written, faults>>

\* The layer is installed, a save raises, and the finally clause runs.
MainInstallFails ==
  LET l == main.layer
      c == [cache EXCEPT ![l] = main.copy] IN
  /\ main.op = "install" /\ MainMayFail
  /\ EvictFails(l, resident \cup {l}, c, Touched(older, l, resident),
                offloaded \ {l})
  /\ cache' = c
  /\ inflight' = [inflight EXCEPT ![l] = "none"]
  /\ faults' = faults + 1
  /\ main' = Raised
  /\ UNCHANGED <<queue, worker, written>>

MutantTruncate(n) ==
  /\ main.op = "rest"
  /\ n \in 1 .. written
  /\ cache' = [l \in Layer |->
                 IF l \in resident THEN SubSeq(cache[l], 1, Len(cache[l]) - n) ELSE cache[l]]
  /\ UNCHANGED <<resident, older, offloaded, disk, inflight, queue, main, worker, written, faults>>

\* Offloaded layers are read back, in the order of the set of their numbers.
ReadBack(S) ==
  /\ resident' = resident \cup S
  /\ older' = older \cup ((resident \ S) \X S) \cup {e \in S \X S : e[1] < e[2]}
  /\ offloaded' = offloaded \ S

\* truncate(n), in one lock section: all are read back, then every cache is trimmed.
Truncate(n) ==
  /\ main.op = "rest"
  /\ n \in 1 .. written
  /\ ReadBack(offloaded)
  /\ cache' = [l \in Layer |->
                 LET c == IF l \in offloaded THEN disk[l] ELSE cache[l] IN
                 IF l \in resident' THEN SubSeq(c, 1, Len(c) - n) ELSE c]
  /\ UNCHANGED <<disk, inflight, queue, main, worker, written, faults>>

\* Reading layer l raises: the layers before it are back, and no cache is trimmed.
TruncateFails(l) ==
  LET S == {k \in offloaded : k < l} IN
  /\ main.op = "rest" /\ l \in offloaded /\ MainMayFail
  /\ ReadBack(S)
  /\ cache' = [k \in Layer |-> IF k \in S THEN disk[k] ELSE cache[k]]
  /\ faults' = faults + 1
  /\ main' = Raised
  /\ UNCHANGED <<disk, inflight, queue, worker, written>>

\* close(): the sentinel goes last in the FIFO queue; then join.
Close ==
  /\ main.op \in {"rest", "failed"}
  /\ queue' = Append(queue, Stop)
  /\ main' = [main EXCEPT !.op = "closing"]
  /\ UNCHANGED <<store, inflight, worker, written, faults>>

Closed ==
  /\ main.op = "closing" /\ worker.op = "exited"
  /\ main' = [main EXCEPT !.op = "closed"]
  /\ UNCHANGED <<store, inflight, queue, worker, written, faults>>

------------------------------------------------------------------------------
(* The worker. *)

\* The main thread's position once the Event of layer l is set.
Woken(l) ==
  IF main.op = "wait" /\ main.layer = l THEN [main EXCEPT !.op = "woken"] ELSE main

WorkerTake ==
  LET l == Head(queue) IN
  /\ worker.op = "idle" /\ queue # <<>>
  /\ queue' = Tail(queue)
  /\ IF l = Stop
       THEN worker' = [worker EXCEPT !.op = "exited"] /\ UNCHANGED <<inflight, main>>
     ELSE IF l \in resident
       THEN /\ inflight' = [inflight EXCEPT ![l] = "none"]
            /\ main' = Woken(l) /\ UNCHANGED worker
     ELSE IF inflight[l] = "none"
       THEN UNCHANGED <<inflight, main, worker>>
     ELSE /\ worker' = [WIdle EXCEPT !.op = "load", !.layer = l]
          /\ UNCHANGED <<inflight, main>>
  /\ UNCHANGED <<store, written, faults>>

\* The disk read, outside the lock.
WorkerLoad ==
  /\ worker.op = "load"
  /\ worker' = [worker EXCEPT !.op = "install", !.copy = Loaded(worker.layer)]
  /\ UNCHANGED <<store, inflight, queue, main, written, faults>>

\* A failed prefetch is swallowed; the finally clause runs.
WorkerLoadFails ==
  /\ worker.op = "load"
  /\ "worker" \in Faults /\ faults < MaxFaults
  /\ faults' = faults + 1
  /\ worker' = [worker EXCEPT !.op = "release"]
  /\ UNCHANGED <<store, inflight, queue, main, written>>

MutantWorkerInstall ==
  /\ worker.op = "install"
  /\ resident' = resident \cup {worker.layer}
  /\ older' = Touched(older, worker.layer, resident)
  /\ cache' = [cache EXCEPT ![worker.layer] = worker.copy]
  /\ worker' = [worker EXCEPT !.op = "release", !.copy = <<>>]
  /\ UNCHANGED <<offloaded, disk, inflight, queue, main, written, faults>>

\* The worker installs what it read, over whatever is there, and never evicts.
WorkerInstall ==
  LET l == worker.layer IN
  /\ worker.op = "install"
  /\ resident' = resident \cup {l}
  /\ older' = IF l \in resident THEN older ELSE Touched(older, l, resident)
  /\ cache' = [cache EXCEPT ![l] = worker.copy]
  /\ offloaded' = offloaded \ {l}
  /\ worker' = [worker EXCEPT !.op = "release", !.copy = <<>>]
  /\ UNCHANGED <<disk, inflight, queue, main, written, faults>>

MutantWorkerRelease ==
  /\ worker.op = "release"
  /\ inflight' = [inflight EXCEPT ![worker.layer] = "none"]
  /\ worker' = WIdle
  /\ UNCHANGED <<main, store, queue, written, faults>>

WorkerRelease ==
  /\ worker.op = "release"
  /\ inflight' = [inflight EXCEPT ![worker.layer] = "none"]
  /\ main' = Woken(worker.layer)
  /\ worker' = WIdle
  /\ UNCHANGED <<store, queue, written, faults>>

------------------------------------------------------------------------------
\* What the main thread does of itself once a pass or close() is under way.
MainStep ==
  \/ main.op = "failed" /\ Close
  \/ Step \/ Abort \/ GetHit \/ GetHitFails \/ GetAgain \/ GetOwn \/ GetJoin
  \/ MainLoad \/ MainLoadFails \/ MainInstall \/ MainInstallFails \/ Closed

MainStart ==
  \/ \E m \in Mode \ {"probe"} : StartPass(m)
  \/ \E l \in Layer : StartProbe(l)
  \/ \E n \in Row : Truncate(n)
  \/ \E l \in Layer : TruncateFails(l)
  \/ Close

WorkerStep ==
  WorkerTake \/ WorkerLoad \/ WorkerLoadFails \/ WorkerInstall \/ WorkerRelease

Next == MainStart \/ MainStep \/ WorkerStep

Spec == Init /\ [][Next]_vars

\* Both threads run whenever they can; the loop is free to start no pass.
FairSpec == Spec /\ WF_vars(MainStep) /\ WF_vars(WorkerStep)

------------------------------------------------------------------------------
(* Properties. *)

TypeOK ==
  /\ resident \subseteq Layer /\ offloaded \subseteq Layer
  /\ older \subseteq resident \X resident
  /\ cache \in [Layer -> Seq(Row)] /\ disk \in [Layer -> Seq(Row)]
  /\ inflight \in [Layer -> {"none", "main", "worker"}]
  /\ queue \in Seq(Layer \cup {Stop})
  /\ main \in [op : {"rest", "step", "get", "load", "install", "wait", "woken",
                    "failed", "closing", "closed"},
              layer : Layer, mode : Mode, copy : Seq(Row)]
  /\ worker \in [op : {"idle", "load", "install", "release", "exited"},
                layer : Layer, copy : Seq(Row)]
  /\ written \in 0 .. MaxRows /\ faults \in 0 .. MaxFaults

\* What layer l's cache is, wherever its rows live.
Contents == [l \in Layer |->
  IF l \in resident THEN cache[l] ELSE IF l \in offloaded THEN disk[l] ELSE <<>>]

Map == INSTANCE KVMap WITH rows <- Contents

\* The store implements the map of rows: offloading, reloading by either thread
\* and eviction change no layer's contents, an append reaches the current cache
\* and a truncation every layer, resident or not (kv_store.py:29-34, 113-122).
ImplementsMap == Map!Spec

\* "Offloaded layers are reloaded so their on-disk (un-trimmed) state can't
\* resurrect dropped tokens" (kv_store.py:116-118): a layer only ever grows by
\* the row of the pass under way, whatever reload was in flight when a
\* truncation came.
NoneResurrected ==
  [][\A l \in Layer :
       Len(Contents'[l]) > Len(Contents[l]) =>
         Contents'[l] = Append(Contents[l], written)]_vars

\* A layer's current state lives in one place (kv_store.py:51), so no reload can
\* bring back an older state than the one in memory.
OneHome == resident \cap offloaded = {}

\* The budget is enforced on every main-thread access, hits included
\* (kv_store.py:68-71): when get(l) returns, the other layers have been evicted
\* until the total, as it stood before the append, fits, or until l is alone.
BudgetEnforced ==
  [][main.op \in {"get", "woken", "install"} /\ main.op # main'.op
       /\ main'.op \in {"rest", "step"} /\ faults' = faults
     => LET c == IF main.op = "install" THEN [cache EXCEPT ![main.layer] = main.copy]
                 ELSE cache
        IN resident' = {main.layer} \/ Rows(resident', c) <= Budget]_vars

\* Every get() comes back, whoever loads the layer and even when the worker's
\* load fails, so a pass ends; and close() joins the worker
\* (kv_store.py:95, 136-137, 166-167, 181-184).
PassEnds == main.op # "rest" ~> main.op \in {"rest", "closed"}
=============================================================================
