---------------------------- MODULE KVStoreProofs ----------------------------
(***************************************************************************)
(* Theorems of KVStore, for any number of layers, budget, window, errors   *)
(* and rows.                                                               *)
(***************************************************************************)
EXTENDS KVStore, FiniteSetTheorems, SequenceTheorems, TLAPS

\* No pass is abandoned under a store that is used again: an error of the main
\* thread is met only by a store that is then closed.
NotResumed == Kept => "main" \notin Faults

InPass == main.op \in {"step", "get", "load", "install", "wait", "woken"}
Over   == main.op \in {"failed", "closing", "closed"}
Writes == main.mode \in {"forward", "commit"}

\* A pass that writes rows has a row to write.
RowToWrite == InPass /\ Writes => written \in Row

SafeInv == TypeOK /\ OneHome /\ RowToWrite

\* The worker has l's reload before it, or half done.
Pending(l) ==
  \/ worker.op \in {"load", "install"} /\ worker.layer = l
  \/ \E i \in 1 .. Len(queue) : queue[i] = l

\* A reload that is pending is of a layer that is only on disk and that the pass
\* under way has still to visit; its Event is set.
Reloads ==
  \A l \in Layer : Pending(l) =>
    /\ l \in offloaded /\ l \notin resident /\ inflight[l] = "worker"
    /\ Over \/ (InPass /\ main.mode \in {"forward", "verify", "tree"} /\ main.layer <= l)

\* A layer is queued once, and not while the worker is busy with it.
QueuedOnce ==
  /\ \A i, j \in 1 .. Len(queue) : queue[i] = queue[j] /\ queue[i] # Stop => i = j
  /\ worker.op \in {"load", "install", "release"} =>
       \A i \in 1 .. Len(queue) : queue[i] # worker.layer

\* Whoever loads a layer has set its Event.
Claims ==
  /\ worker.op \in {"load", "install", "release"} => inflight[worker.layer] = "worker"
  /\ main.op \in {"load", "install"} =>
       inflight[main.layer] = "main" /\ main.layer \notin resident

\* What a loader has read is still what the layer holds.
Copies ==
  /\ main.op = "install" => main.copy = Contents[main.layer]
  /\ worker.op = "install" => worker.copy = Contents[worker.layer]

\* Every layer holds the same rows, but for the row of the pass under way, which
\* the layers it has left behind have and the others have not.
Due(l) == InPass /\ Writes /\ l < main.layer

Even ==
  ~Over => \E s \in Seq(Row) : \A l \in Layer :
             Contents[l] = IF Due(l) THEN Append(s, written) ELSE s

\* A pass visits layers by steps; a probe gets one layer and is done.
Stepping == main.op = "step" => main.mode # "probe"

IInv == SafeInv /\ Stepping /\ Reloads /\ QueuedOnce /\ Claims /\ Copies /\ Even

------------------------------------------------------------------------------
(* Types, and the one home of a layer: whatever errors are met. *)

LEMMA LayersAre ==
  ASSUME NEW l \in Layer
  PROVE  l \in Int /\ 0 <= l /\ l <= NumLayers - 1
BY KVAssumption DEF Layer

\* The rows of layer k, given the tables.
RowsOf(k, T, c, off, d) == IF k \in T THEN c[k] ELSE IF k \in off THEN d[k] ELSE <<>>

\* What an eviction needs of the tables, and what it keeps of their types.
Evictable(l, T, c, ord, off) ==
  /\ l \in T /\ T \cap off = {} /\ T \subseteq Layer /\ off \subseteq Layer
  /\ ord \subseteq T \X T
  /\ c \in [Layer -> Seq(Row)] /\ disk \in [Layer -> Seq(Row)]

Shrunk(T) ==
  /\ resident' \subseteq T /\ offloaded' \subseteq Layer
  /\ resident' \cap offloaded' = {}
  /\ older' \subseteq resident' \X resident'
  /\ disk' \in [Layer -> Seq(Row)]

\* What is left of the tables when some layers of T other than l are dropped, each
\* to the disk if it holds a row: no layer's rows change.
Spared(l, T, c, off) ==
  /\ Shrunk(T) /\ l \in resident' /\ off \subseteq offloaded'
  /\ \A k \in Layer : RowsOf(k, resident', c, offloaded', disk') = RowsOf(k, T, c, off, disk)

LEMMA DropEffect ==
  ASSUME NEW l, NEW T, NEW c, NEW ord, NEW off, NEW V \in SUBSET (T \ {l}),
         Drop(V, T, c, ord, off), Evictable(l, T, c, ord, off)
  PROVE  Spared(l, T, c, off)
<1> USE DEF Evictable
<1>1. LET saved == {v \in V : c[v] # <<>>} IN
        /\ resident' = T \ V
        /\ older' = {e \in ord : e[1] \notin V /\ e[2] \notin V}
        /\ offloaded' = off \cup saved
        /\ disk' = [v \in Layer |-> IF v \in saved THEN c[v] ELSE disk[v]]
  BY DEF Drop
<1>2. older' \subseteq resident' \X resident'
  <2> SUFFICES ASSUME NEW e \in older' PROVE e \in resident' \X resident'
    OBVIOUS
  <2>1. e \in T \X T /\ e[1] \notin V /\ e[2] \notin V
    BY <1>1
  <2> QED
    BY <2>1, <1>1
<1>3. disk' \in [Layer -> Seq(Row)]
  BY <1>1
<1>4. \A k \in Layer : disk'[k] = IF k \in V /\ c[k] # <<>> THEN c[k] ELSE disk[k]
  BY <1>1
<1> QED
  BY <1>1, <1>2, <1>3, <1>4 DEF RowsOf, Shrunk, Spared

\* What _evict_locked(protect=l) leaves of a table T.
LEMMA EvictEffect ==
  ASSUME NEW l, NEW T, NEW c, NEW ord, NEW off,
         Evict(l, T, c, ord, off), Evictable(l, T, c, ord, off)
  PROVE  /\ Spared(l, T, c, off)
         /\ resident' = {l} \/ Rows(resident', c) <= Budget
<1>1. PICK V \in Victims(l, T, c, ord) : Drop(V, T, c, ord, off)
  BY DEF Evict
<1>2. V \in SUBSET (T \ {l}) /\ (Rows(T \ V, c) <= Budget \/ V = T \ {l})
  BY DEF Victims
<1>3. resident' = T \ V /\ l \in T
  BY <1>1 DEF Drop, Evictable
<1>4. Spared(l, T, c, off)
  BY <1>1, <1>2, DropEffect
<1> QED
  BY <1>2, <1>3, <1>4

LEMMA EvictFailsEffect ==
  ASSUME NEW l, NEW T, NEW c, NEW ord, NEW off,
         EvictFails(l, T, c, ord, off), Evictable(l, T, c, ord, off)
  PROVE  Spared(l, T, c, off)
<1>1. PICK V \in Victims(l, T, c, ord) :
        \E v \in V : c[v] # <<>> /\ Drop({q \in V : <<v, q>> \in ord}, T, c, ord, off)
  BY DEF EvictFails
<1>2. PICK v \in V : Drop({q \in V : <<v, q>> \in ord}, T, c, ord, off)
  BY <1>1
<1>3. {q \in V : <<v, q>> \in ord} \in SUBSET (T \ {l})
  BY DEF Victims
<1> QED
  BY <1>2, <1>3, DropEffect

LEMMA TouchedType ==
  ASSUME NEW T \in SUBSET Layer, NEW ord \in SUBSET (T \X T), NEW l \in Layer
  PROVE  Touched(ord, l, T) \subseteq (T \cup {l}) \X (T \cup {l})
BY DEF Touched

\* get() within a pass: where it goes next.
LEMMA NextStopType ==
  ASSUME TypeOK
  PROVE  /\ NextStop \in [op : {"rest", "step"}, layer : Layer, mode : Mode, copy : Seq(Row)]
         /\ NextStop.op = "step" => /\ NextStop.layer = main.layer + 1
                                   /\ NextStop.mode = main.mode
                                   /\ main.layer < NumLayers - 1
         /\ NextStop.op = "rest" => main.mode = "probe" \/ main.layer = NumLayers - 1
<1>1. main.layer \in Layer /\ main.mode \in Mode
  BY DEF TypeOK
<1>2. <<>> \in Seq(Row)
  OBVIOUS
<1> QED
  BY <1>1, <1>2, KVAssumption DEF NextStop, Rest, At, Mode, Layer

\* The rows a visit leaves in the cache of the layer the main thread is at.
LEMMA WithRowType ==
  ASSUME TypeOK, RowToWrite, InPass, NEW c \in [Layer -> Seq(Row)]
  PROVE  /\ WithRow(c) \in [Layer -> Seq(Row)]
         /\ \A k \in Layer \ {main.layer} : WithRow(c)[k] = c[k]
         /\ WithRow(c)[main.layer] =
              IF Writes THEN Append(c[main.layer], written) ELSE c[main.layer]
<1>1. main.layer \in Layer /\ c[main.layer] \in Seq(Row)
  BY DEF TypeOK
<1>2. CASE Writes
  <2>1. written \in Row
    BY <1>2 DEF RowToWrite
  <2>2. Append(c[main.layer], written) \in Seq(Row)
    BY <1>1, <2>1, AppendProperties
  <2> QED
    BY <1>1, <1>2, <2>2 DEF WithRow, Writes
<1>3. CASE ~Writes
  BY <1>3 DEF WithRow, Writes
<1> QED
  BY <1>2, <1>3

LEMMA GetHitSafe == SafeInv /\ GetHit => SafeInv'
<1> SUFFICES ASSUME SafeInv, GetHit PROVE SafeInv'
  OBVIOUS
<1> USE DEF SafeInv, OneHome
<1>1. main.layer \in Layer /\ InPass /\ main.layer \in resident
  BY DEF TypeOK, GetHit, InPass
<1>2. Touched(older, main.layer, resident) \subseteq resident \X resident
  <2>1. /\ resident \in SUBSET Layer /\ older \in SUBSET (resident \X resident)
        /\ resident \cup {main.layer} = resident
    BY <1>1 DEF TypeOK
  <2> QED
    BY <1>1, <2>1, TouchedType
<1>3. /\ resident' \subseteq Layer /\ offloaded' \subseteq Layer
      /\ resident' \cap offloaded' = {}
      /\ older' \subseteq resident' \X resident'
      /\ disk' \in [Layer -> Seq(Row)]
  <2>1. PICK l : l = main.layer
    OBVIOUS
  <2>2. PICK ord : ord = Touched(older, l, resident)
    OBVIOUS
  <2>3. Evict(l, resident, cache, ord, offloaded)
    BY <2>1, <2>2 DEF GetHit
  <2>4. l \in resident /\ ord \subseteq resident \X resident
    BY <1>1, <1>2, <2>1, <2>2
  <2>5. /\ resident \subseteq Layer /\ offloaded \subseteq Layer
        /\ cache \in [Layer -> Seq(Row)] /\ disk \in [Layer -> Seq(Row)]
        /\ resident \cap offloaded = {}
    BY DEF TypeOK
  <2>6. Evictable(l, resident, cache, ord, offloaded)
    BY <2>4, <2>5 DEF Evictable
  <2>7. Shrunk(resident)
    BY <2>3, <2>6, EvictEffect DEF Spared
  <2> QED
    BY <2>5, <2>7 DEF Shrunk
<1>4. cache' \in [Layer -> Seq(Row)]
  BY <1>1, WithRowType DEF TypeOK, GetHit
<1>5. TypeOK'
  BY <1>3, <1>4, NextStopType DEF TypeOK, GetHit
<1>6. RowToWrite'
  BY <1>1, NextStopType DEF RowToWrite, InPass, Writes, GetHit
<1> QED
  BY <1>3, <1>5, <1>6

LEMMA MainInstallSafe == SafeInv /\ MainInstall => SafeInv'
<1> SUFFICES ASSUME SafeInv, MainInstall PROVE SafeInv'
  OBVIOUS
<1> USE DEF SafeInv, OneHome
<1> DEFINE l == main.layer
           c == [cache EXCEPT ![l] = main.copy]
<1>1. l \in Layer /\ InPass /\ main.copy \in Seq(Row)
  BY DEF TypeOK, MainInstall, InPass
<1>2. Touched(older, l, resident) \in SUBSET ((resident \cup {l}) \X (resident \cup {l}))
  BY <1>1, TouchedType DEF TypeOK
<1>3. c \in [Layer -> Seq(Row)]
  BY <1>1 DEF TypeOK
<1>4. /\ resident' \subseteq Layer /\ offloaded' \subseteq Layer
      /\ resident' \cap offloaded' = {}
      /\ older' \subseteq resident' \X resident'
      /\ disk' \in [Layer -> Seq(Row)]
  <2>1. Evict(l, resident \cup {l}, c, Touched(older, l, resident), offloaded \ {l})
    BY DEF MainInstall
  <2>2. /\ resident \cup {l} \subseteq Layer /\ offloaded \ {l} \subseteq Layer
        /\ (resident \cup {l}) \cap (offloaded \ {l}) = {}
        /\ disk \in [Layer -> Seq(Row)] /\ l \in resident \cup {l}
    BY <1>1 DEF TypeOK
  <2> HIDE DEF c, l
  <2>3. Evictable(l, resident \cup {l}, c, Touched(older, l, resident), offloaded \ {l})
    BY <1>2, <1>3, <2>2 DEF Evictable
  <2>4. Shrunk(resident \cup {l})
    BY <2>1, <2>3, EvictEffect DEF Spared
  <2> QED
    BY <2>2, <2>4 DEF Shrunk
<1>5. cache' \in [Layer -> Seq(Row)]
  <2>1. cache' = WithRow(c)
    BY DEF MainInstall
  <2> HIDE DEF c
  <2> QED
    BY <1>1, <1>3, <2>1, WithRowType
<1>6. TypeOK'
  BY <1>1, <1>4, <1>5, NextStopType DEF TypeOK, MainInstall
<1>7. RowToWrite'
  BY <1>1, NextStopType DEF RowToWrite, InPass, Writes, MainInstall
<1> QED
  BY <1>4, <1>6, <1>7

\* What an error leaves of the main thread.
LEMMA RaisedType ==
  /\ Raised.op \in {"rest", "failed"}
  /\ Raised \in [op : {"rest", "failed"}, layer : Layer, mode : Mode, copy : Seq(Row)]
<1>1. <<>> \in Seq(Row) /\ 0 \in Layer /\ "probe" \in Mode
  BY KVAssumption DEF Mode, Layer
<1> QED
  BY <1>1 DEF Raised, Rest

\* What get() holds before it evicts: the caches, with the layer it has read.
Held == IF main.op = "install" THEN [cache EXCEPT ![main.layer] = main.copy] ELSE cache

LEMMA HeldEvictable ==
  ASSUME SafeInv, main.op = "install" \/ main.layer \in resident
  PROVE  Evictable(main.layer, resident \cup {main.layer}, Held,
                   Touched(older, main.layer, resident), offloaded \ {main.layer})
<1>1. /\ main.layer \in Layer /\ main.copy \in Seq(Row) /\ resident \cap offloaded = {}
      /\ resident \in SUBSET Layer /\ older \in SUBSET (resident \X resident)
      /\ offloaded \subseteq Layer /\ disk \in [Layer -> Seq(Row)]
      /\ cache \in [Layer -> Seq(Row)]
  BY DEF SafeInv, TypeOK, OneHome
<1>2. Held \in [Layer -> Seq(Row)]
  BY <1>1 DEF Held
<1>3. Touched(older, main.layer, resident)
        \subseteq (resident \cup {main.layer}) \X (resident \cup {main.layer})
  BY <1>1, TouchedType
<1> QED
  BY <1>1, <1>2, <1>3 DEF Evictable

\* A save that raises leaves the layers dropped before it dropped.
LEMMA SaveFails ==
  ASSUME SafeInv, GetHitFails \/ MainInstallFails
  PROVE  /\ Spared(main.layer, resident \cup {main.layer}, Held, offloaded \ {main.layer})
         /\ cache' = Held /\ Held \in [Layer -> Seq(Row)]
<1>1. EvictFails(main.layer, resident \cup {main.layer}, Held,
                 Touched(older, main.layer, resident), offloaded \ {main.layer})
      /\ cache' = Held /\ (main.op = "install" \/ main.layer \in resident)
  <2>1. CASE GetHitFails
    <3>1. /\ resident \cup {main.layer} = resident /\ offloaded \ {main.layer} = offloaded
          /\ Held = cache
      BY <2>1 DEF GetHitFails, Held, SafeInv, OneHome
    <3> QED
      BY <2>1, <3>1 DEF GetHitFails
  <2>2. CASE MainInstallFails
    BY <2>2 DEF MainInstallFails, Held
  <2> QED
    BY <2>1, <2>2
<1>2. Evictable(main.layer, resident \cup {main.layer}, Held,
                Touched(older, main.layer, resident), offloaded \ {main.layer})
  BY <1>1, HeldEvictable
<1> QED
  BY <1>1, <1>2, EvictFailsEffect DEF Evictable

LEMMA GetFailsSafe == SafeInv /\ (GetHitFails \/ MainInstallFails) => SafeInv'
<1> SUFFICES ASSUME SafeInv, GetHitFails \/ MainInstallFails PROVE SafeInv'
  OBVIOUS
<1>1. /\ Shrunk(resident \cup {main.layer}) /\ cache' \in [Layer -> Seq(Row)]
      /\ main.layer \in Layer /\ resident \subseteq Layer
  BY SaveFails DEF Spared, SafeInv, TypeOK
<1>2. /\ UNCHANGED <<queue, worker, written>> /\ main' = Raised
      /\ faults' = faults + 1 /\ faults < MaxFaults
      /\ inflight' = inflight \/ inflight' = [inflight EXCEPT ![main.layer] = "none"]
  BY DEF GetHitFails, MainInstallFails, MainMayFail
<1>3. faults' \in 0 .. MaxFaults
  BY <1>2, KVAssumption DEF SafeInv, TypeOK
<1>4. inflight' \in [Layer -> {"none", "main", "worker"}]
  BY <1>2 DEF SafeInv, TypeOK
<1>5. TypeOK'
  BY <1>1, <1>2, <1>3, <1>4, RaisedType DEF SafeInv, TypeOK, Shrunk
<1>6. OneHome' /\ RowToWrite'
  BY <1>1, <1>2, RaisedType DEF Shrunk, OneHome, RowToWrite, InPass
<1> QED
  BY <1>5, <1>6 DEF SafeInv

LEMMA PrefetchTypes ==
  ASSUME TypeOK, Prefetch
  PROVE  /\ inflight' \in [Layer -> {"none", "main", "worker"}]
         /\ queue' \in Seq(Layer \cup {Stop})
<1>1. inflight' \in [Layer -> {"none", "main", "worker"}]
  BY DEF TypeOK, Prefetch
<1>2. PICK S \in SUBSET Layer : \E q \in Ascending(S) : queue' = queue \o q
  <2> DEFINE new == {l \in Ahead : Reloadable(l)}
  <2>1. new \in SUBSET Layer
    BY DEF Reloadable, TypeOK
  <2>2. \E q \in Ascending(new) : queue' = queue \o q
    BY DEF Prefetch
  <2> QED
    BY <2>1, <2>2
<1>3. PICK q \in Ascending(S) : queue' = queue \o q
  BY <1>2
<1>4. Cardinality(S) \in Nat
  <2>1. IsFiniteSet(0 .. NumLayers - 1)
    BY KVAssumption, FS_Interval
  <2> QED
    BY <2>1, FS_Subset, FS_CardinalityType DEF Layer
<1>5. q \in [1 .. Cardinality(S) -> Layer \cup {Stop}]
  BY <1>3 DEF Ascending
<1>6. q \in Seq(Layer \cup {Stop})
  BY <1>4, <1>5
<1>7. queue' \in Seq(Layer \cup {Stop})
  BY <1>3, <1>6, ConcatProperties DEF TypeOK
<1> QED
  BY <1>1, <1>7

LEMMA StepSafe == SafeInv /\ Step => SafeInv'
<1> SUFFICES ASSUME SafeInv, Step PROVE SafeInv'
  OBVIOUS
<1> USE DEF SafeInv
<1>1. /\ inflight' \in [Layer -> {"none", "main", "worker"}]
      /\ queue' \in Seq(Layer \cup {Stop})
  BY PrefetchTypes DEF Step
<1>2. main' = [main EXCEPT !.op = "get"]
  BY DEF Step
<1>3. TypeOK'
  BY <1>1, <1>2 DEF TypeOK, Step, store
<1>4. RowToWrite'
  BY <1>2 DEF TypeOK, RowToWrite, InPass, Writes, Step
<1> QED
  BY <1>3, <1>4 DEF OneHome, Step, store

LEMMA StartPassSafe ==
  ASSUME SafeInv, NEW m \in Mode \ {"probe"}, StartPass(m) PROVE SafeInv'
<1>1. /\ main' = [op |-> "step", layer |-> 0, mode |-> m, copy |-> <<>>]
      /\ 0 \in Layer /\ m \in Mode /\ <<>> \in Seq(Row)
  BY KVAssumption DEF StartPass, At, Layer
<1>2. written' \in 0 .. MaxRows /\ (m \in {"forward", "commit"} => written' \in Row)
  BY KVAssumption DEF SafeInv, TypeOK, StartPass, Row
<1>3. main' \in [op : {"rest", "step", "get", "load", "install", "wait", "woken",
                      "failed", "closing", "closed"},
                layer : Layer, mode : Mode, copy : Seq(Row)]
  BY <1>1
<1>4. TypeOK'
  BY <1>2, <1>3 DEF SafeInv, TypeOK, StartPass, store
<1>5. RowToWrite'
  BY <1>1, <1>2 DEF RowToWrite, Writes
<1> QED
  BY <1>4, <1>5 DEF SafeInv, OneHome, StartPass, store

LEMMA StartProbeSafe ==
  ASSUME SafeInv, NEW l \in Layer, StartProbe(l) PROVE SafeInv'
<1>1. /\ main' = [op |-> "get", layer |-> l, mode |-> "probe", copy |-> <<>>]
      /\ "probe" \in Mode /\ <<>> \in Seq(Row)
  BY DEF StartProbe, At, Mode
<1>2. main' \in [op : {"rest", "step", "get", "load", "install", "wait", "woken",
                      "failed", "closing", "closed"},
                layer : Layer, mode : Mode, copy : Seq(Row)]
  BY <1>1
<1>3. TypeOK'
  BY <1>2 DEF SafeInv, TypeOK, StartProbe, store
<1>4. RowToWrite'
  BY <1>1 DEF RowToWrite, Writes
<1> QED
  BY <1>3, <1>4 DEF SafeInv, OneHome, StartProbe, store

\* The steps that only move the main thread, or the worker, and touch neither
\* tables nor rows.
LEMMA MoveSafe ==
  ASSUME SafeInv, UNCHANGED <<store, written>>,
         queue' \in Seq(Layer \cup {Stop}),
         inflight' \in [Layer -> {"none", "main", "worker"}],
         main' \in [op : {"rest", "step", "get", "load", "install", "wait", "woken",
                          "failed", "closing", "closed"},
                    layer : Layer, mode : Mode, copy : Seq(Row)],
         worker' \in [op : {"idle", "load", "install", "release", "exited"},
                      layer : Layer, copy : Seq(Row)],
         faults' \in 0 .. MaxFaults,
         InPass' /\ Writes' => InPass /\ Writes
  PROVE  SafeInv'
<1>1. TypeOK'
  BY DEF SafeInv, TypeOK, store
<1>2. RowToWrite'
  BY DEF SafeInv, RowToWrite
<1> QED
  BY <1>1, <1>2 DEF SafeInv, OneHome, store

LEMMA LoadedType ==
  ASSUME TypeOK, NEW l \in Layer PROVE Loaded(l) \in Seq(Row)
<1>1. <<>> \in Seq(Row) /\ disk[l] \in Seq(Row)
  BY DEF TypeOK
<1> QED
  BY <1>1 DEF Loaded

LEMMA MainMovesSafe ==
  SafeInv /\ (Abort \/ GetAgain \/ GetOwn \/ GetJoin \/ MainLoad \/ MainLoadFails
              \/ Closed) => SafeInv'
<1> USE DEF SafeInv
<1> SUFFICES ASSUME SafeInv,
                    Abort \/ GetAgain \/ GetOwn \/ GetJoin \/ MainLoad
                    \/ MainLoadFails \/ Closed
             PROVE  SafeInv'
  OBVIOUS
<1>1. CASE Abort
  <2>1. main' \in [op : {"rest", "failed"}, layer : Layer, mode : Mode, copy : Seq(Row)]
    BY <1>1, RaisedType DEF Abort
  <2>2. faults' \in 0 .. MaxFaults
    BY <1>1, KVAssumption DEF Abort, MainMayFail, TypeOK
  <2>3. /\ inflight' \in [Layer -> {"none", "main", "worker"}]
        /\ queue' \in Seq(Layer \cup {Stop})
    BY <1>1, PrefetchTypes DEF Abort, TypeOK
  <2> QED
    BY <1>1, <2>1, <2>2, <2>3, MoveSafe DEF Abort, TypeOK, InPass
<1>2. CASE GetAgain
  BY <1>2, MoveSafe DEF GetAgain, TypeOK, InPass, Writes
<1>3. CASE GetOwn
  BY <1>3, MoveSafe DEF GetOwn, TypeOK, InPass, Writes
<1>4. CASE GetJoin
  BY <1>4, MoveSafe DEF GetJoin, TypeOK, InPass, Writes
<1>5. CASE MainLoad
  <2>1. Loaded(main.layer) \in Seq(Row)
    BY LoadedType DEF TypeOK
  <2> QED
    BY <1>5, <2>1, MoveSafe DEF MainLoad, TypeOK, InPass, Writes
<1>6. CASE MainLoadFails
  <2>1. main' \in [op : {"rest", "failed"}, layer : Layer, mode : Mode, copy : Seq(Row)]
    BY <1>6, RaisedType DEF MainLoadFails
  <2>2. faults' \in 0 .. MaxFaults
    BY <1>6, KVAssumption DEF MainLoadFails, MainMayFail, TypeOK
  <2> QED
    BY <1>6, <2>1, <2>2, MoveSafe DEF MainLoadFails, TypeOK, InPass
<1>7. CASE Closed
  BY <1>7, MoveSafe DEF Closed, TypeOK, InPass, Writes
<1> QED
  BY <1>1, <1>2, <1>3, <1>4, <1>5, <1>6, <1>7

LEMMA TruncateSafe == ASSUME SafeInv, NEW n \in Row, Truncate(n) PROVE SafeInv'
<1> USE DEF SafeInv
<1>1. offloaded' = {} /\ resident' = resident \cup offloaded /\ resident' \subseteq Layer
  BY DEF Truncate, ReadBack, TypeOK
<1>2. older' \subseteq resident' \X resident'
  BY <1>1 DEF Truncate, ReadBack, TypeOK
<1>3. cache' \in [Layer -> Seq(Row)]
  <2> DEFINE c(l) == IF l \in offloaded THEN disk[l] ELSE cache[l]
             c2(l) == IF l \in resident' THEN SubSeq(c(l), 1, Len(c(l)) - n) ELSE c(l)
  <2>1. ASSUME NEW l \in Layer PROVE c2(l) \in Seq(Row)
    <3>1. c(l) \in Seq(Row)
      BY DEF TypeOK
    <3> HIDE DEF c
    <3>2. Len(c(l)) \in Nat /\ n \in Nat
      BY <3>1, KVAssumption DEF Row
    <3>3. \A i \in 1 .. Len(c(l)) - n : c(l)[i] \in Row
      BY <3>1, <3>2
    <3>4. SubSeq(c(l), 1, Len(c(l)) - n) \in Seq(Row)
      BY <3>2, <3>3, SubSeqProperties
    <3> QED
      BY <3>1, <3>4
  <2>2. cache' = [l \in Layer |-> c2(l)]
    BY DEF Truncate
  <2> HIDE DEF c2
  <2> QED
    BY <2>1, <2>2
<1>4. TypeOK'
  BY <1>1, <1>2, <1>3 DEF Truncate, TypeOK
<1> QED
  BY <1>1, <1>4 DEF Truncate, OneHome, RowToWrite, InPass, Writes

LEMMA TruncateFailsSafe ==
  ASSUME SafeInv, NEW l \in Layer, TruncateFails(l) PROVE SafeInv'
<1> USE DEF SafeInv
<1> DEFINE S == {k \in offloaded : k < l}
<1>1. /\ resident' = resident \cup S /\ offloaded' = offloaded \ S
      /\ S \subseteq offloaded /\ offloaded \subseteq Layer /\ resident \subseteq Layer
      /\ cache' = [k \in Layer |-> IF k \in S THEN disk[k] ELSE cache[k]]
      /\ older' = older \cup ((resident \ S) \X S) \cup {e \in S \X S : e[1] < e[2]}
  BY DEF TruncateFails, ReadBack, TypeOK
<1>2. /\ UNCHANGED <<disk, inflight, queue, worker, written>> /\ main' = Raised
      /\ faults' = faults + 1 /\ faults < MaxFaults
  BY DEF TruncateFails, MainMayFail
<1> HIDE DEF S
<1>3. older' \subseteq resident' \X resident'
  <2>1. older \subseteq resident \X resident
    BY DEF TypeOK
  <2> QED
    BY <1>1, <2>1
<1>4. cache' \in [Layer -> Seq(Row)]
  BY <1>1 DEF TypeOK
<1>5. faults' \in 0 .. MaxFaults
  BY <1>2, KVAssumption DEF TypeOK
<1>6. TypeOK'
  BY <1>1, <1>2, <1>3, <1>4, <1>5, RaisedType DEF TypeOK
<1>7. OneHome' /\ RowToWrite'
  BY <1>1, <1>2, RaisedType DEF OneHome, RowToWrite, InPass
<1> QED
  BY <1>6, <1>7

LEMMA CloseSafe == SafeInv /\ Close => SafeInv'
<1> SUFFICES ASSUME SafeInv, Close PROVE SafeInv'
  OBVIOUS
<1> USE DEF SafeInv
<1>1. queue' \in Seq(Layer \cup {Stop})
  BY DEF Close, TypeOK
<1>2. TypeOK'
  BY <1>1 DEF Close, TypeOK, store
<1> QED
  BY <1>2 DEF Close, OneHome, RowToWrite, InPass, Writes, store, TypeOK

LEMMA WokenType ==
  ASSUME TypeOK, NEW l \in Layer
  PROVE  /\ Woken(l).op \in {main.op, "woken"} /\ (Woken(l).op = "woken" => InPass)
         /\ Woken(l).layer = main.layer /\ Woken(l).mode = main.mode
         /\ Woken(l) \in [op : {"rest", "step", "get", "load", "install", "wait",
                                "woken", "failed", "closing", "closed"},
                          layer : Layer, mode : Mode, copy : Seq(Row)]
         /\ Woken(l).op \in {"load", "install"} => Woken(l) = main
         /\ Woken(l).op = "woken" \/ Woken(l) = main
BY DEF TypeOK, Woken, InPass

LEMMA WorkerSafe == SafeInv /\ WorkerStep => SafeInv'
<1> SUFFICES ASSUME SafeInv, WorkerStep PROVE SafeInv'
  OBVIOUS
<1> USE DEF SafeInv
<1>1. CASE WorkerTake
  <2> DEFINE l == Head(queue)
  <2>1. queue # <<>> /\ queue' = Tail(queue) /\ l \in Layer \cup {Stop}
        /\ queue' \in Seq(Layer \cup {Stop})
    BY <1>1, HeadTailProperties DEF WorkerTake, TypeOK
  <2>2. /\ inflight' \in [Layer -> {"none", "main", "worker"}]
        /\ worker' \in [op : {"idle", "load", "install", "release", "exited"},
                        layer : Layer, copy : Seq(Row)]
    <3>1. <<>> \in Seq(Row)
      OBVIOUS
    <3>2. inflight' = inflight \/ inflight' = [inflight EXCEPT ![l] = "none"]
      BY <1>1 DEF WorkerTake
    <3>3. \/ worker' = worker \/ worker' = [worker EXCEPT !.op = "exited"]
          \/ l \in Layer /\ worker' = [op |-> "load", layer |-> l, copy |-> <<>>]
      BY <1>1, <2>1 DEF WorkerTake, WIdle
    <3> HIDE DEF l
    <3>4. inflight' \in [Layer -> {"none", "main", "worker"}]
      BY <3>2 DEF TypeOK
    <3>5. CASE worker' = worker
      BY <3>4, <3>5 DEF TypeOK
    <3>6. CASE worker' = [worker EXCEPT !.op = "exited"]
      BY <3>4, <3>6 DEF TypeOK
    <3>7. CASE l \in Layer /\ worker' = [op |-> "load", layer |-> l, copy |-> <<>>]
      BY <3>1, <3>4, <3>7
    <3> QED
      BY <3>3, <3>5, <3>6, <3>7
  <2>3. main' = main \/ (l \in Layer /\ main' = Woken(l))
    BY <1>1, <2>1 DEF WorkerTake
  <2>4. TypeOK'
    BY <1>1, <2>1, <2>2, <2>3, WokenType DEF WorkerTake, TypeOK, store
  <2>5. RowToWrite'
    BY <1>1, <2>3, WokenType DEF WorkerTake, RowToWrite, InPass, Writes
  <2> QED
    BY <1>1, <2>4, <2>5 DEF WorkerTake, OneHome, store
<1>2. CASE WorkerLoad
  <2>1. Loaded(worker.layer) \in Seq(Row)
    BY LoadedType DEF TypeOK
  <2> QED
    BY <1>2, <2>1, MoveSafe DEF WorkerLoad, TypeOK, InPass, Writes
<1>3. CASE WorkerLoadFails
  <2>1. faults' \in 0 .. MaxFaults
    BY <1>3, KVAssumption DEF WorkerLoadFails, TypeOK
  <2> QED
    BY <1>3, <2>1, MoveSafe DEF WorkerLoadFails, TypeOK, InPass, Writes
<1>4. CASE WorkerInstall
  <2>1. worker.layer \in Layer /\ worker.copy \in Seq(Row) /\ <<>> \in Seq(Row)
    BY DEF TypeOK
  <2>2. older' \subseteq resident' \X resident'
    <3>1. /\ resident \in SUBSET Layer /\ older \in SUBSET (resident \X resident)
          /\ resident' = resident \cup {worker.layer}
      BY <1>4 DEF TypeOK, WorkerInstall
    <3>2. Touched(older, worker.layer, resident) \subseteq resident' \X resident'
      BY <2>1, <3>1, TouchedType
    <3> QED
      BY <1>4, <3>1, <3>2 DEF WorkerInstall
  <2>3. TypeOK'
    BY <1>4, <2>1, <2>2 DEF WorkerInstall, TypeOK
  <2> QED
    BY <1>4, <2>3 DEF WorkerInstall, OneHome, RowToWrite, InPass, Writes
<1>5. CASE WorkerRelease
  <2>1. worker.layer \in Layer /\ WIdle \in [op : {"idle"}, layer : Layer, copy : Seq(Row)]
    BY KVAssumption DEF TypeOK, WIdle, Layer
  <2>2. inflight' \in [Layer -> {"none", "main", "worker"}]
    BY <1>5, <2>1 DEF WorkerRelease, TypeOK
  <2> QED
    BY <1>5, <2>1, <2>2, WokenType, MoveSafe DEF WorkerRelease, TypeOK, InPass, Writes
<1> QED
  BY <1>1, <1>2, <1>3, <1>4, <1>5 DEF WorkerStep

LEMMA NextSafe == SafeInv /\ [Next]_vars => SafeInv'
<1> SUFFICES ASSUME SafeInv, [Next]_vars PROVE SafeInv'
  OBVIOUS
<1>1. CASE MainStart
  BY <1>1, StartPassSafe, StartProbeSafe, TruncateSafe, TruncateFailsSafe, CloseSafe
     DEF MainStart
<1>2. CASE MainStep
  BY <1>2, StepSafe, GetHitSafe, MainInstallSafe, GetFailsSafe, MainMovesSafe, CloseSafe
     DEF MainStep
<1>3. CASE WorkerStep
  BY <1>3, WorkerSafe
<1>4. CASE UNCHANGED vars
  BY <1>4 DEF vars, store, SafeInv, TypeOK, OneHome, RowToWrite, InPass, Writes
<1> QED
  BY <1>1, <1>2, <1>3, <1>4 DEF Next

LEMMA InitSafe == Init => SafeInv
<1> SUFFICES ASSUME Init PROVE SafeInv
  OBVIOUS
<1>1. <<>> \in Seq(Row) /\ 0 \in Layer /\ "probe" \in Mode /\ 0 \in 0 .. MaxRows
      /\ 0 \in 0 .. MaxFaults /\ <<>> \in Seq(Layer \cup {Stop})
  BY KVAssumption DEF Mode, Layer
<1>2. TypeOK
  BY <1>1 DEF Init, TypeOK, Rest, WIdle
<1> QED
  BY <1>2 DEF SafeInv, OneHome, RowToWrite, Init, InPass, Rest

\* The store's variables keep their types, whoever meets an error.
THEOREM TypeCorrect == Spec => []TypeOK
<1>1. SafeInv => TypeOK
  BY DEF SafeInv
<1> QED
  BY <1>1, InitSafe, NextSafe, PTL DEF Spec

\* A layer is in memory or on disk and never in both (kv_store.py:51), so no
\* reload can bring back an older state than the one in memory; whoever meets
\* an error.
THEOREM OneHomeAlways == Spec => []OneHome
<1>1. SafeInv => OneHome
  BY DEF SafeInv
<1> QED
  BY <1>1, InitSafe, NextSafe, PTL DEF Spec

\* The budget is enforced by every get() that returns, hits included
\* (kv_store.py:68-71): what stays in memory fits, or is the one layer asked for.
THEOREM BudgetAlways == Spec => BudgetEnforced
<1> DEFINE c == IF main.op = "install" THEN [cache EXCEPT ![main.layer] = main.copy]
                ELSE cache
           Fits == main.op \in {"get", "woken", "install"} /\ main.op # main'.op
                   /\ main'.op \in {"rest", "step"} /\ faults' = faults
                   => resident' = {main.layer} \/ Rows(resident', c) <= Budget
<1>1. ASSUME SafeInv, [Next]_vars PROVE [Fits]_vars
  <2>1. ASSUME GetHit PROVE Fits
    <3>1. /\ main.layer \in resident /\ resident \subseteq Layer
          /\ c = cache
      BY <1>1, <2>1 DEF SafeInv, TypeOK, GetHit
    <3>2. \E V \in Victims(main.layer, resident, cache, Touched(older, main.layer, resident)) :
            resident' = resident \ V
      BY <2>1 DEF GetHit, Evict, Drop
    <3>3. resident' = {main.layer} \/ Rows(resident', cache) <= Budget
      BY <3>1, <3>2 DEF Victims
    <3> QED
      BY <3>1, <3>3
  <2>2. ASSUME MainInstall PROVE Fits
    <3>1. c = [cache EXCEPT ![main.layer] = main.copy]
      BY <2>2 DEF MainInstall
    <3>2. \E V \in Victims(main.layer, resident \cup {main.layer}, c,
                           Touched(older, main.layer, resident)) :
            resident' = (resident \cup {main.layer}) \ V
      BY <2>2, <3>1 DEF MainInstall, Evict, Drop
    <3> HIDE DEF c
    <3>3. resident' = {main.layer} \/ Rows(resident', c) <= Budget
      BY <3>2 DEF Victims
    <3> QED
      BY <3>3
  <2>3. ASSUME MainStep, ~GetHit, ~MainInstall, main.op \in {"get", "woken", "install"}
        PROVE  main'.op \notin {"rest", "step"} \/ faults' # faults
    <3>1. CASE GetHitFails \/ MainInstallFails
      <4>1. faults \in Nat /\ faults' = faults + 1
        BY <1>1, <3>1, KVAssumption DEF SafeInv, TypeOK, GetHitFails, MainInstallFails
      <4> QED
        BY <4>1
    <3>2. CASE ~(GetHitFails \/ MainInstallFails)
      BY <1>1, <2>3, <3>2 DEF MainStep, SafeInv, TypeOK, Close, Step, Abort, GetAgain,
                              GetOwn, GetJoin, MainLoad, MainLoadFails, Closed
    <3> QED
      BY <3>1, <3>2
  <2>4. ASSUME WorkerStep PROVE main' = main \/ main.op = "wait"
    BY <2>4 DEF WorkerStep, WorkerTake, WorkerLoad, WorkerLoadFails, WorkerInstall,
                WorkerRelease, Woken
  <2>5. ASSUME MainStart PROVE main.op \notin {"get", "woken", "install"}
    BY <2>5 DEF MainStart, StartPass, StartProbe, Truncate, TruncateFails, Close
  <2>6. ASSUME Next PROVE Fits
    <3> HIDE DEF c
    <3> QED
      BY <2>1, <2>2, <2>3, <2>4, <2>5, <2>6 DEF Next
  <2> QED
    BY <1>1, <2>6
<1>2. [][Fits]_vars <=> BudgetEnforced
  BY PTL DEF BudgetEnforced
<1> QED
  BY <1>1, <1>2, InitSafe, NextSafe, PTL DEF Spec

------------------------------------------------------------------------------
(* The rows of the layers. *)

\* A reload under way holds rows of a layer that is not in memory.
LEMMA PendingFacts ==
  ASSUME IInv
  PROVE  /\ worker.layer \in Layer /\ main.layer \in Layer
         /\ \A i \in 1 .. Len(queue) : queue[i] \in Layer \cup {Stop}
         /\ worker.op \in {"load", "install"} =>
              /\ worker.layer \in offloaded /\ worker.layer \notin resident
              /\ inflight[worker.layer] = "worker"
         /\ ~(Over \/ InPass) =>
              /\ worker.op \notin {"load", "install"}
              /\ \A i \in 1 .. Len(queue) : queue[i] = Stop
<1>1. worker.layer \in Layer /\ main.layer \in Layer /\ queue \in Seq(Layer \cup {Stop})
  BY DEF IInv, SafeInv, TypeOK
<1>2. \A i \in 1 .. Len(queue) : queue[i] \in Layer \cup {Stop}
  BY <1>1
<1>3. \A i \in 1 .. Len(queue) : queue[i] \in Layer => Pending(queue[i])
  BY DEF Pending
<1>4. worker.op \in {"load", "install"} => Pending(worker.layer)
  BY DEF Pending
<1> QED
  BY <1>1, <1>2, <1>3, <1>4 DEF IInv, Reloads

\* A get() that returns leaves every other layer's rows alone and appends at most
\* the row of the pass to its own.
LEMMA HeldRows ==
  ASSUME IInv, main.op = "install" \/ main.layer \in resident
  PROVE  \A k \in Layer : RowsOf(k, resident \cup {main.layer}, Held,
                                offloaded \ {main.layer}, disk) = Contents[k]
<1>1. /\ main.layer \in Layer /\ resident \cap offloaded = {}
      /\ cache \in [Layer -> Seq(Row)]
  BY DEF IInv, SafeInv, TypeOK, OneHome
<1>2. CASE main.op = "install"
  <2>1. main.copy = Contents[main.layer]
    BY <1>2 DEF IInv, Copies
  <2> QED
    BY <1>1, <1>2, <2>1 DEF Contents, RowsOf, Held
<1>3. CASE main.op # "install"
  BY <1>1, <1>3 DEF Contents, RowsOf, Held
<1> QED
  BY <1>2, <1>3

LEMMA VisitRows ==
  ASSUME IInv, GetHit \/ MainInstall
  PROVE  /\ InPass
         /\ \A k \in Layer \ {main.layer} : Contents'[k] = Contents[k]
         /\ Contents'[main.layer] = IF Writes THEN Append(Contents[main.layer], written)
                                    ELSE Contents[main.layer]
         /\ resident' \subseteq resident \cup {main.layer}
         /\ offloaded \ {main.layer} \subseteq offloaded'
<1> DEFINE l == main.layer
<1>1. /\ TypeOK /\ RowToWrite /\ InPass /\ l \in Layer /\ SafeInv
      /\ main.op = "install" \/ l \in resident
  BY DEF IInv, SafeInv, TypeOK, GetHit, MainInstall, InPass
<1>2. /\ Evict(l, resident \cup {l}, Held, Touched(older, l, resident), offloaded \ {l})
      /\ cache' = WithRow(Held)
  <2>1. CASE GetHit
    <3>1. resident \cup {l} = resident /\ offloaded \ {l} = offloaded /\ Held = cache
      BY <1>1, <2>1 DEF GetHit, Held, SafeInv, OneHome
    <3> QED
      BY <2>1, <3>1 DEF GetHit
  <2>2. CASE MainInstall
    BY <2>2 DEF MainInstall, Held
  <2> QED
    BY <2>1, <2>2
<1>3. Evictable(l, resident \cup {l}, Held, Touched(older, l, resident), offloaded \ {l})
  BY <1>1, HeldEvictable
<1>4. \A k \in Layer : RowsOf(k, resident \cup {l}, Held, offloaded \ {l}, disk) = Contents[k]
  BY <1>1, HeldRows
<1> HIDE DEF l
<1>5. Spared(l, resident \cup {l}, Held, offloaded \ {l}) /\ Held \in [Layer -> Seq(Row)]
  BY <1>2, <1>3, EvictEffect DEF Evictable
<1>6. /\ resident' \subseteq resident \cup {l} /\ l \in resident'
      /\ offloaded \ {l} \subseteq offloaded' /\ resident' \cap offloaded' = {}
      /\ \A k \in Layer : RowsOf(k, resident', Held, offloaded', disk') = Contents[k]
  BY <1>4, <1>5 DEF Spared, Shrunk
<1>7. /\ \A k \in Layer \ {l} : cache'[k] = Held[k]
      /\ cache'[l] = IF Writes THEN Append(Held[l], written) ELSE Held[l]
  BY <1>1, <1>2, <1>5, WithRowType DEF l
<1>8. \A k \in Layer : Contents'[k] =
        IF k \in resident' THEN cache'[k] ELSE IF k \in offloaded' THEN disk'[k] ELSE <<>>
  BY DEF Contents
<1>9. Held[l] = Contents[l]
  BY <1>1, <1>6 DEF RowsOf
<1>10. \A k \in Layer \ {l} : Contents'[k] = Contents[k]
  BY <1>6, <1>7, <1>8 DEF RowsOf
<1>11. Contents'[l] = IF Writes THEN Append(Contents[l], written) ELSE Contents[l]
  BY <1>1, <1>6, <1>7, <1>8, <1>9 DEF RowsOf
<1> QED
  BY <1>1, <1>6, <1>10, <1>11 DEF l

\* A get() that raises moves no rows.
LEMMA FailRows ==
  ASSUME IInv, GetHitFails \/ MainInstallFails
  PROVE  /\ Contents' = Contents
         /\ resident' \subseteq resident \cup {main.layer}
         /\ offloaded \ {main.layer} \subseteq offloaded'
<1>1. /\ Spared(main.layer, resident \cup {main.layer}, Held, offloaded \ {main.layer})
      /\ cache' = Held
  BY SaveFails DEF IInv
<1>2. \A k \in Layer : RowsOf(k, resident \cup {main.layer}, Held,
                            offloaded \ {main.layer}, disk) = Contents[k]
  BY HeldRows DEF GetHitFails, MainInstallFails
<1>3. \A k \in Layer : RowsOf(k, resident', cache', offloaded', disk') = Contents[k]
  BY <1>1, <1>2 DEF Spared
<1>4. Contents' = [k \in Layer |-> RowsOf(k, resident', cache', offloaded', disk')]
  BY DEF Contents, RowsOf
<1>5. Contents' = Contents
  BY <1>3, <1>4 DEF Contents
<1> QED
  BY <1>1, <1>5 DEF Spared, Shrunk

LEMMA VisitInv == IInv /\ (GetHit \/ MainInstall) => IInv'
<1> SUFFICES ASSUME IInv, GetHit \/ MainInstall PROVE IInv'
  OBVIOUS
<1> DEFINE l == main.layer
<1>1. /\ main.op \in {"get", "woken", "install"} /\ TypeOK /\ RowToWrite /\ l \in Layer
      /\ main' = NextStop /\ UNCHANGED <<queue, worker, written>>
      /\ inflight \in [Layer -> {"none", "main", "worker"}]
      /\ \/ l \in resident /\ inflight' = inflight
         \/ main.op = "install" /\ inflight' = [inflight EXCEPT ![l] = "none"]
  <2>1. TypeOK /\ RowToWrite /\ l \in Layer /\ inflight \in [Layer -> {"none", "main", "worker"}]
    BY DEF IInv, SafeInv, TypeOK
  <2>2. CASE GetHit
    BY <2>1, <2>2 DEF GetHit
  <2>3. CASE MainInstall
    BY <2>1, <2>3 DEF MainInstall
  <2> QED
    BY <2>2, <2>3
<1>2. SafeInv'
  BY GetHitSafe, MainInstallSafe DEF IInv
<1>3. \A k \in Layer : Pending(k)' <=> Pending(k)
  BY <1>1 DEF Pending
<1>4. \A k \in Layer : Pending(k) => k # l
  BY <1>1 DEF IInv, Reloads, Claims
<1>5. main'.op \in {"rest", "step"}
  BY <1>1, NextStopType
<1>6. Reloads'
  <2> SUFFICES ASSUME NEW k \in Layer, Pending(k)
               PROVE  /\ k \in offloaded' /\ k \notin resident' /\ inflight'[k] = "worker"
                      /\ InPass' /\ main'.mode \in {"forward", "verify", "tree"} /\ main'.layer <= k
    BY <1>3 DEF Reloads
  <2>1. /\ k # l /\ k \in offloaded /\ k \notin resident /\ inflight[k] = "worker"
        /\ main.mode \in {"forward", "verify", "tree"} /\ l <= k
    BY <1>1, <1>4 DEF IInv, Reloads, Over
  <2>2. k \in offloaded' /\ k \notin resident'
    BY <2>1, VisitRows
  <2>3. inflight'[k] = "worker"
    BY <1>1, <2>1
  <2>4. l < k /\ k <= NumLayers - 1 /\ l \in Int /\ k \in Int
    BY <1>1, <2>1, LayersAre, KVAssumption
  <2>5. main'.op = "step"
    BY <1>1, <1>5, <2>1, <2>4, NextStopType, KVAssumption
  <2>6. main'.layer = l + 1 /\ main'.mode = main.mode
    BY <1>1, <2>5, NextStopType
  <2> QED
    BY <2>1, <2>2, <2>3, <2>4, <2>5, <2>6 DEF InPass
<1>7. QueuedOnce'
  BY <1>1 DEF IInv, QueuedOnce
<1>8. Claims'
  <2>1. worker.op \in {"load", "install", "release"} =>
          worker.layer \in Layer /\ inflight'[worker.layer] = "worker"
    BY <1>1, PendingFacts DEF IInv, Claims
  <2> QED
    BY <1>1, <1>5, <2>1 DEF Claims
<1>9. Copies'
  <2>1. ASSUME worker.op = "install" PROVE worker.copy = Contents'[worker.layer]
    <3>1. Pending(worker.layer) /\ worker.layer \in Layer
      BY <2>1, PendingFacts DEF Pending
    <3> QED
      BY <1>4, <2>1, <3>1, VisitRows DEF IInv, Copies
  <2> QED
    BY <1>1, <1>5, <2>1 DEF Copies
<1>10. Even'
  <2>1. ~Over /\ InPass
    BY <1>1 DEF Over, InPass
  <2>2. PICK s \in Seq(Row) : \A k \in Layer :
          Contents[k] = IF Due(k) THEN Append(s, written) ELSE s
    BY <2>1 DEF IInv, Even
  <2>3. ~Due(l) /\ Contents[l] = s
    BY <1>1, <2>2, LayersAre DEF Due
  <2>4. Contents'[l] = (IF Writes THEN Append(s, written) ELSE s)
        /\ \A k \in Layer \ {l} : Contents'[k] = Contents[k]
    BY <2>3, VisitRows
  <2>5. CASE main'.op = "step"
    <3>1. main'.layer = l + 1 /\ main'.mode = main.mode /\ InPass'
      BY <1>1, <2>5, NextStopType DEF InPass
    <3>2. \A k \in Layer : Due(k)' <=> Due(k) \/ (k = l /\ Writes)
      BY <1>1, <2>1, <3>1, LayersAre DEF Due, Writes
    <3>3. \A k \in Layer : Contents'[k] = IF Due(k)' THEN Append(s, written) ELSE s
      BY <1>1, <2>2, <2>3, <2>4, <3>2
    <3> QED
      BY <1>1, <3>3 DEF Even
  <2>6. CASE main'.op = "rest"
    <3>1. \A k \in Layer : ~Due(k)'
      BY <2>6 DEF Due, InPass
    <3>2. CASE Writes
      <4>1. l = NumLayers - 1
        BY <1>1, <2>6, <3>2, NextStopType DEF Writes
      <4>2. \A k \in Layer \ {l} : Due(k)
        BY <1>1, <2>1, <3>2, <4>1, LayersAre, KVAssumption DEF Due
      <4>3. Append(s, written) \in Seq(Row)
        BY <1>1, <2>1, <3>2, AppendProperties DEF RowToWrite
      <4>4. \A k \in Layer : Contents'[k] = Append(s, written)
        BY <2>2, <2>4, <3>2, <4>2
      <4> QED
        BY <3>1, <4>3, <4>4 DEF Even
    <3>3. CASE ~Writes
      <4>1. \A k \in Layer : Contents'[k] = s
        BY <2>2, <2>4, <3>3 DEF Due
      <4> QED
        BY <3>1, <4>1 DEF Even
    <3> QED
      BY <3>2, <3>3
  <2> QED
    BY <1>5, <2>5, <2>6
<1>11. Stepping'
  <2>1. main'.op = "step" => main'.mode = main.mode
    BY <1>1, NextStopType
  <2>2. main.mode = "probe" => main'.op = "rest"
    BY <1>1 DEF NextStop, Rest
  <2> QED
    BY <2>1, <2>2 DEF Stepping
<1> QED
  BY <1>2, <1>6, <1>7, <1>8, <1>9, <1>10, <1>11 DEF IInv

LEMMA GetFailsInv ==
  ASSUME NotResumed, IInv, GetHitFails \/ MainInstallFails PROVE IInv'
<1>1. /\ main.op \in {"get", "woken", "install"} /\ main.layer \in Layer
      /\ UNCHANGED <<queue, worker>> /\ main' = Raised /\ "main" \in Faults
      /\ inflight \in [Layer -> {"none", "main", "worker"}]
      /\ \/ main.layer \in resident /\ inflight' = inflight
         \/ main.op = "install" /\ inflight' = [inflight EXCEPT ![main.layer] = "none"]
  BY DEF IInv, SafeInv, TypeOK, GetHitFails, MainInstallFails, MainMayFail
<1>2. SafeInv'
  BY GetFailsSafe DEF IInv
<1>3. main'.op = "failed" /\ Over'
  BY <1>1 DEF NotResumed, Raised, Rest, Over
<1>4. \A k \in Layer : Pending(k)' <=> Pending(k)
  BY <1>1 DEF Pending
<1>5. \A k \in Layer : Pending(k) => k # main.layer
  BY <1>1 DEF IInv, Reloads, Claims
<1>6. Reloads'
  <2> SUFFICES ASSUME NEW k \in Layer, Pending(k)
               PROVE  k \in offloaded' /\ k \notin resident' /\ inflight'[k] = "worker"
    BY <1>3, <1>4 DEF Reloads
  <2>1. k # main.layer /\ k \in offloaded /\ k \notin resident /\ inflight[k] = "worker"
    BY <1>5 DEF IInv, Reloads
  <2> QED
    BY <1>1, <2>1, FailRows
<1>7. QueuedOnce'
  BY <1>1 DEF IInv, QueuedOnce
<1>8. Claims'
  <2>1. worker.op \in {"load", "install", "release"} =>
          worker.layer \in Layer /\ inflight'[worker.layer] = "worker"
    BY <1>1, PendingFacts DEF IInv, Claims
  <2> QED
    BY <1>1, <1>3, <2>1 DEF Claims
<1>9. Copies'
  BY <1>1, <1>3, FailRows DEF IInv, Copies
<1>10. Even' /\ Stepping'
  BY <1>3 DEF Even, Stepping
<1> QED
  BY <1>2, <1>6, <1>7, <1>8, <1>9, <1>10 DEF IInv

\* The other steps of the main thread outside Step, Truncate and Close: they go on
\* with the pass, give it up for good, or start one; no rows move.
LEMMA MainMoveInv ==
  ASSUME IInv, SafeInv', UNCHANGED <<store, queue, worker>>,
         \A k \in Layer : inflight[k] = "worker" => inflight'[k] = "worker",
         main'.op \in {"load", "install"} =>
           inflight'[main'.layer] = "main" /\ main'.layer \notin resident,
         main'.op = "install" => main'.copy = Contents[main'.layer],
         \/ Over'
         \/ /\ InPass /\ InPass' /\ written' = written
            /\ main'.layer = main.layer /\ main'.mode = main.mode
         \/ ~Over /\ ~InPass /\ InPass' /\ (main'.layer = 0 \/ ~Writes'),
         Stepping'
  PROVE  IInv'
<1>1. Contents' = Contents
  BY DEF Contents, store
<1>2. \A k \in Layer : Pending(k)' <=> Pending(k)
  BY DEF Pending
<1>3. Over' \/ InPass'
  OBVIOUS
<1>4. Over => ~InPass
  BY DEF Over, InPass
<1>5. Reloads'
  <2>1. \A k \in Layer : Pending(k) => inflight'[k] = "worker" /\ k \in offloaded'
                                       /\ k \notin resident'
    BY DEF IInv, Reloads, store
  <2>2. \A k \in Layer : Pending(k) =>
          Over' \/ (InPass' /\ main'.mode \in {"forward", "verify", "tree"} /\ main'.layer <= k)
    BY <1>4 DEF IInv, Reloads
  <2> QED
    BY <1>2, <2>1, <2>2 DEF Reloads
<1>6. QueuedOnce'
  BY DEF IInv, QueuedOnce
<1>7. Claims'
  BY PendingFacts DEF IInv, Claims, store
<1>8. Copies'
  BY <1>1 DEF IInv, Copies
<1>9. Even'
  <2>1. CASE Over'
    BY <2>1 DEF Even
  <2>2. CASE InPass /\ InPass' /\ written' = written
             /\ main'.layer = main.layer /\ main'.mode = main.mode
    <3>1. \A k \in Layer : Due(k)' <=> Due(k)
      BY <2>2 DEF Due, Writes
    <3> QED
      BY <1>1, <1>4, <2>2, <3>1 DEF IInv, Even
  <2>3. CASE ~Over /\ ~InPass /\ InPass' /\ (main'.layer = 0 \/ ~Writes')
    <3>1. \A k \in Layer : ~Due(k)' /\ ~Due(k)
      BY <2>3, LayersAre DEF Due
    <3> QED
      BY <1>1, <2>3, <3>1 DEF IInv, Even
  <2> QED
    BY <2>1, <2>2, <2>3
<1> QED
  BY <1>5, <1>6, <1>7, <1>8, <1>9 DEF IInv

LEMMA StartInv ==
  ASSUME IInv, NEW m \in Mode, NEW l \in Layer,
         (m # "probe" /\ StartPass(m)) \/ StartProbe(l)
  PROVE  IInv'
<1>1. SafeInv'
  BY StartPassSafe, StartProbeSafe DEF IInv
<1>2. /\ UNCHANGED <<store, inflight, queue, worker>>
      /\ main.op = "rest" /\ main'.op \in {"step", "get"}
      /\ main'.layer = 0 \/ main'.mode = "probe"
      /\ main'.op = "step" => main'.mode # "probe"
  BY DEF StartPass, StartProbe, At
<1> QED
  BY <1>1, <1>2, MainMoveInv DEF Over, InPass, Writes, Stepping

LEMMA MainMovesInv ==
  IInv /\ NotResumed
  /\ (GetAgain \/ GetOwn \/ GetJoin \/ MainLoad \/ MainLoadFails \/ Closed)
  => IInv'
<1> SUFFICES ASSUME IInv, NotResumed,
                    GetAgain \/ GetOwn \/ GetJoin \/ MainLoad
                    \/ MainLoadFails \/ Closed
             PROVE  IInv'
  OBVIOUS
<1>1. SafeInv'
  BY MainMovesSafe DEF IInv
<1>2. /\ main.layer \in Layer /\ inflight \in [Layer -> {"none", "main", "worker"}]
      /\ main \in [op : {"rest", "step", "get", "load", "install", "wait", "woken",
                         "failed", "closing", "closed"},
                   layer : Layer, mode : Mode, copy : Seq(Row)]
  BY DEF IInv, SafeInv, TypeOK
<1>3. "main" \in Faults => Raised.op = "failed"
  BY DEF NotResumed, Raised, Rest
<1>5. CASE GetAgain
  <2>1. /\ UNCHANGED <<store, inflight, queue, worker, written>>
        /\ main.op = "woken" /\ main' = [main EXCEPT !.op = "get"]
    BY <1>5 DEF GetAgain
  <2> QED
    BY <1>1, <1>2, <2>1, MainMoveInv DEF InPass, Stepping
<1>6. CASE GetOwn
  <2>1. /\ UNCHANGED <<store, queue, worker, written>>
        /\ main.op = "get" /\ main' = [main EXCEPT !.op = "load"]
        /\ inflight' = [inflight EXCEPT ![main.layer] = "main"]
        /\ inflight[main.layer] = "none" /\ main.layer \notin resident
    BY <1>6 DEF GetOwn
  <2>2. \A k \in Layer : inflight[k] = "worker" => inflight'[k] = "worker"
    BY <1>2, <2>1
  <2> QED
    BY <1>1, <1>2, <2>1, <2>2, MainMoveInv DEF InPass, Stepping
<1>7. CASE GetJoin
  <2>1. /\ UNCHANGED <<store, inflight, queue, worker, written>>
        /\ main.op = "get" /\ main' = [main EXCEPT !.op = "wait"]
    BY <1>7 DEF GetJoin
  <2> QED
    BY <1>1, <1>2, <2>1, MainMoveInv DEF InPass, Stepping
<1>8. CASE MainLoad
  <2>1. /\ UNCHANGED <<store, inflight, queue, worker, written>>
        /\ main.op = "load"
        /\ main' = [main EXCEPT !.op = "install", !.copy = Loaded(main.layer)]
    BY <1>8 DEF MainLoad
  <2>2. inflight[main.layer] = "main" /\ main.layer \notin resident
    BY <2>1 DEF IInv, Claims
  <2>3. Loaded(main.layer) = Contents[main.layer]
    BY <1>2, <2>2 DEF Loaded, Contents
  <2>4. main'.op = "install" /\ main'.copy = Contents[main.layer]
        /\ main'.layer = main.layer /\ main'.mode = main.mode
    BY <1>2, <2>1, <2>3
  <2> QED
    BY <1>1, <2>1, <2>2, <2>4, MainMoveInv DEF InPass, Stepping
<1>9. CASE MainLoadFails
  <2>1. /\ UNCHANGED <<store, queue, worker>>
        /\ main.op = "load" /\ main'.op = "failed"
        /\ inflight' = [inflight EXCEPT ![main.layer] = "none"]
    BY <1>3, <1>9 DEF MainLoadFails, MainMayFail
  <2>2. inflight[main.layer] = "main"
    BY <2>1 DEF IInv, Claims
  <2>3. \A k \in Layer : inflight[k] = "worker" => inflight'[k] = "worker"
    BY <1>2, <2>1, <2>2
  <2> QED
    BY <1>1, <2>1, <2>3, MainMoveInv DEF Over, Stepping
<1>10. CASE Closed
  <2>1. /\ UNCHANGED <<store, inflight, queue, worker>> /\ main'.op = "closed"
    BY <1>2, <1>10 DEF Closed
  <2> QED
    BY <1>1, <2>1, MainMoveInv DEF Over, Stepping
<1> QED
  BY <1>5, <1>6, <1>7, <1>8, <1>9, <1>10

LEMMA CloseInv == IInv /\ Close => IInv'
<1> SUFFICES ASSUME IInv, Close PROVE IInv'
  OBVIOUS
<1>1. /\ UNCHANGED <<store, inflight, worker, written>> /\ queue' = Append(queue, Stop)
      /\ main'.op = "closing" /\ queue \in Seq(Layer \cup {Stop}) /\ SafeInv'
  BY CloseSafe DEF Close, IInv, SafeInv, TypeOK
<1>2. \A i \in 1 .. Len(queue') : (i \in 1 .. Len(queue) /\ queue'[i] = queue[i])
                                  \/ queue'[i] = Stop
  BY <1>1, AppendProperties
<1>3. Stop \notin Layer /\ worker.layer \in Layer
  BY LayersAre, PendingFacts DEF Stop
<1>4. Contents' = Contents
  BY <1>1 DEF Contents, store
<1>5. Reloads'
  <2>1. \A k \in Layer : Pending(k)' => Pending(k)
    BY <1>1, <1>2, <1>3 DEF Pending
  <2> QED
    BY <1>1, <2>1 DEF IInv, Reloads, Over, store
<1>6. QueuedOnce'
  BY <1>1, <1>2, <1>3 DEF IInv, QueuedOnce
<1>7. Claims' /\ Copies' /\ Even' /\ Stepping'
  BY <1>1, <1>4 DEF IInv, Claims, Copies, Even, Stepping, Over
<1> QED
  BY <1>1, <1>5, <1>6, <1>7 DEF IInv

\* prefetch() queues layers, each once, that are on disk only and still to visit.
LEMMA PrefetchQueues ==
  ASSUME IInv, Prefetch
  PROVE  \E S \in SUBSET Layer, q \in Seq(Layer) :
           /\ \A k \in S : Reloadable(k) /\ main.layer <= k
           /\ S # {} => main.mode # "commit"
           /\ \A i \in 1 .. Len(q) : q[i] \in S
           /\ \A i, j \in 1 .. Len(q) : q[i] = q[j] => i = j
           /\ queue' = queue \o q
           /\ inflight' = [l \in Layer |-> IF l \in S THEN "worker" ELSE inflight[l]]
<1> DEFINE new == {l \in Ahead : Reloadable(l)}
<1>1. PICK q \in Ascending(new) : queue' = queue \o q
  BY DEF Prefetch
<1>2. inflight' = [l \in Layer |-> IF l \in new THEN "worker" ELSE inflight[l]]
  BY DEF Prefetch
<1>3. new \in SUBSET Layer /\ \A k \in new : Reloadable(k)
  BY DEF Reloadable, IInv, SafeInv, TypeOK
<1>4. \A k \in new : main.layer <= k
  <2>1. main.layer \in Int
    BY LayersAre, PendingFacts
  <2> QED
    BY <2>1 DEF Ahead
<1>5. new # {} => main.mode # "commit"
  BY DEF Ahead
<1> HIDE DEF new
<1>6. Cardinality(new) \in Nat
  <2>1. IsFiniteSet(0 .. NumLayers - 1)
    BY KVAssumption, FS_Interval
  <2> QED
    BY <1>3, <2>1, FS_Subset, FS_CardinalityType DEF Layer
<1>7. /\ q \in [1 .. Cardinality(new) -> new]
      /\ \A i, j \in DOMAIN q : i < j => q[i] < q[j]
  BY <1>1 DEF Ascending
<1>8. q \in Seq(Layer) /\ Len(q) = Cardinality(new) /\ DOMAIN q = 1 .. Len(q)
  BY <1>3, <1>6, <1>7
<1>9. \A i \in 1 .. Len(q) : q[i] \in new /\ q[i] \in Int
  BY <1>3, <1>7, <1>8, LayersAre
<1>10. \A i, j \in 1 .. Len(q) : q[i] = q[j] => i = j
  <2> SUFFICES ASSUME NEW i \in 1 .. Len(q), NEW j \in 1 .. Len(q), i < j
               PROVE  q[i] # q[j]
    BY <1>6, <1>8
  <2>1. q[i] < q[j]
    BY <1>7, <1>8
  <2> QED
    BY <1>9, <2>1
<1> QED
  BY <1>1, <1>2, <1>3, <1>4, <1>5, <1>8, <1>9, <1>10

\* After it the pass goes on with its get(), or is over.
LEMMA PrefetchInv ==
  ASSUME IInv, SafeInv', Prefetch, main.op = "step", UNCHANGED <<store, worker, written>>,
         main' = [main EXCEPT !.op = "get"] \/ main'.op = "failed"
  PROVE  IInv'
<1>1. PICK S \in SUBSET Layer, q \in Seq(Layer) :
        /\ \A k \in S : Reloadable(k) /\ main.layer <= k
        /\ S # {} => main.mode # "commit"
        /\ \A i \in 1 .. Len(q) : q[i] \in S
        /\ \A i, j \in 1 .. Len(q) : q[i] = q[j] => i = j
        /\ queue' = queue \o q
        /\ inflight' = [l \in Layer |-> IF l \in S THEN "worker" ELSE inflight[l]]
  BY PrefetchQueues
<1>2. /\ UNCHANGED <<store, worker, written>> /\ main.op = "step"
      /\ main' = [main EXCEPT !.op = "get"] \/ main'.op = "failed"
  OBVIOUS
<1>3. /\ main \in [op : {"rest", "step", "get", "load", "install", "wait", "woken",
                         "failed", "closing", "closed"},
                   layer : Layer, mode : Mode, copy : Seq(Row)]
      /\ queue \in Seq(Layer \cup {Stop}) /\ SafeInv'
      /\ inflight \in [Layer -> {"none", "main", "worker"}]
  BY DEF IInv, SafeInv, TypeOK
<1>4. \/ Over' /\ main'.op = "failed"
      \/ main'.op = "get" /\ main'.layer = main.layer /\ main'.mode = main.mode
  BY <1>2, <1>3 DEF Over
<1>5. main.mode # "probe" /\ main.layer \in Layer
  BY <1>2, <1>3 DEF IInv, Stepping
<1>6. \A k \in S : /\ k \in offloaded /\ k \notin resident /\ inflight[k] = "none"
                   /\ inflight'[k] = "worker" /\ main.layer <= k
                   /\ main.mode \in {"forward", "verify", "tree"}
  BY <1>1, <1>3, <1>5, LayersAre DEF Reloadable, Mode
<1>7. \A k \in Layer : inflight[k] = "worker" => inflight'[k] = "worker"
  BY <1>1
<1>8. q \in Seq(Layer \cup {Stop})
  BY <1>1, SeqMonotonic
<1>9. \A i \in 1 .. Len(queue') :
        \/ i \in 1 .. Len(queue) /\ queue'[i] = queue[i]
        \/ /\ i - Len(queue) \in 1 .. Len(q) /\ i \notin 1 .. Len(queue)
           /\ queue'[i] = q[i - Len(queue)] /\ queue'[i] \in S
  BY <1>1, <1>3, <1>8, ConcatProperties
<1>10. \A k \in Layer : Pending(k)' => Pending(k) \/ k \in S
  BY <1>2, <1>9 DEF Pending
<1>11. \A k \in Layer : Pending(k) => k \notin S
  BY <1>6 DEF IInv, Reloads
<1>12. Contents' = Contents
  BY <1>2 DEF Contents, store
<1>13. Reloads'
  <2> SUFFICES ASSUME NEW k \in Layer, Pending(k)'
               PROVE  /\ k \in offloaded' /\ k \notin resident' /\ inflight'[k] = "worker"
                      /\ \/ Over'
                         \/ InPass' /\ main'.mode \in {"forward", "verify", "tree"}
                                    /\ main'.layer <= k
    BY DEF Reloads
  <2>1. CASE Pending(k)
    BY <1>2, <1>4, <1>7, <2>1 DEF IInv, Reloads, InPass, Over, store
  <2>2. CASE k \in S
    BY <1>2, <1>4, <1>6, <2>2 DEF InPass, store
  <2> QED
    BY <1>10, <2>1, <2>2
<1>14. QueuedOnce'
  <2>1. \A i \in 1 .. Len(queue) : queue[i] \in Layer => queue[i] \notin S
    BY <1>11 DEF Pending
  <2>2. ASSUME NEW i \in 1 .. Len(queue'), NEW j \in 1 .. Len(queue'),
               queue'[i] = queue'[j], queue'[i] # Stop
        PROVE  i = j
    <3>1. CASE i \in 1 .. Len(queue) /\ j \in 1 .. Len(queue)
      BY <1>9, <2>2, <3>1 DEF IInv, QueuedOnce
    <3>2. CASE i \notin 1 .. Len(queue) /\ j \notin 1 .. Len(queue)
      <4>1. q[i - Len(queue)] = q[j - Len(queue)]
        BY <1>9, <2>2, <3>2
      <4>2. i - Len(queue) = j - Len(queue)
        BY <1>1, <1>9, <3>2, <4>1
      <4> QED
        BY <1>3, <4>2
    <3>3. CASE i \in 1 .. Len(queue) /\ j \notin 1 .. Len(queue)
      BY <1>1, <1>9, <2>1, <2>2, <3>3
    <3>4. CASE i \notin 1 .. Len(queue) /\ j \in 1 .. Len(queue)
      BY <1>1, <1>9, <2>1, <2>2, <3>4
    <3> QED
      BY <3>1, <3>2, <3>3, <3>4
  <2>3. ASSUME worker.op \in {"load", "install", "release"}, NEW i \in 1 .. Len(queue')
        PROVE  queue'[i] # worker.layer
    <3>1. worker.layer \in Layer /\ worker.layer \notin S
      BY <1>6, <2>3, PendingFacts DEF IInv, Claims
    <3> QED
      BY <1>9, <2>3, <3>1 DEF IInv, QueuedOnce
  <2> QED
    BY <1>2, <2>2, <2>3 DEF QueuedOnce
<1>15. Claims'
  BY <1>2, <1>4, <1>7, PendingFacts DEF IInv, Claims
<1>16. Copies'
  BY <1>2, <1>4, <1>12 DEF IInv, Copies
<1>17. Even'
  <2>1. CASE Over'
    BY <2>1 DEF Even
  <2>2. CASE ~Over'
    <3>1. \A k \in Layer : Due(k)' <=> Due(k)
      BY <1>2, <1>4, <2>2 DEF Due, InPass, Writes
    <3> QED
      BY <1>2, <1>4, <1>12, <2>2, <3>1 DEF IInv, Even, Over
  <2> QED
    BY <2>1, <2>2
<1>18. Stepping'
  BY <1>4 DEF Stepping
<1> QED
  BY <1>3, <1>13, <1>14, <1>15, <1>16, <1>17, <1>18 DEF IInv

LEMMA StepInv == IInv /\ Step => IInv'
<1> SUFFICES ASSUME IInv, Step PROVE IInv'
  OBVIOUS
<1>1. SafeInv'
  BY StepSafe DEF IInv
<1> QED
  BY <1>1, PrefetchInv DEF Step

LEMMA AbortInv == ASSUME NotResumed, IInv, Abort PROVE IInv'
<1>1. SafeInv'
  BY MainMovesSafe DEF IInv
<1>2. UNCHANGED <<store, worker, written>> /\ main.op = "step" /\ main'.op = "failed"
  BY DEF Abort, MainMayFail, NotResumed, Raised, Rest
<1>3. CASE Prefetch
  BY <1>1, <1>2, <1>3, PrefetchInv
<1>4. CASE UNCHANGED <<inflight, queue>>
  BY <1>1, <1>2, <1>4, MainMoveInv DEF Over, Stepping
<1> QED
  BY <1>3, <1>4 DEF Abort

\* truncate(n) drops the last n rows of every layer, wherever they are.
LEMMA TruncateRows ==
  ASSUME IInv, NEW n \in Row, Truncate(n)
  PROVE  /\ n \in Nat \ {0}
         /\ \A l \in Layer : Contents'[l] = SubSeq(Contents[l], 1, Len(Contents[l]) - n)
<1>1. /\ offloaded' = {} /\ resident' = resident \cup offloaded
      /\ resident \cap offloaded = {} /\ disk \in [Layer -> Seq(Row)]
      /\ cache \in [Layer -> Seq(Row)]
  BY DEF Truncate, ReadBack, IInv, SafeInv, TypeOK, OneHome
<1>2. n \in Nat \ {0}
  BY KVAssumption DEF Row
<1>3. ASSUME NEW l \in Layer
      PROVE  Contents'[l] = SubSeq(Contents[l], 1, Len(Contents[l]) - n)
  <2>1. CASE l \in resident'
    <3>1. Contents[l] = IF l \in offloaded THEN disk[l] ELSE cache[l]
      BY <1>1, <2>1 DEF Contents
    <3>2. Contents'[l] = cache'[l]
      BY <2>1 DEF Contents
    <3> QED
      BY <2>1, <3>1, <3>2 DEF Truncate
  <2>2. CASE l \notin resident'
    <3>1. Contents[l] = <<>> /\ Contents'[l] = <<>>
      BY <1>1, <2>2 DEF Contents
    <3>2. SubSeq(<<>>, 1, Len(<<>>) - n) = <<>>
      BY <1>2, SubSeqEmpty, EmptySeq
    <3> QED
      BY <3>1, <3>2
  <2> QED
    BY <2>1, <2>2
<1> QED
  BY <1>2, <1>3

LEMMA TruncateInv == ASSUME IInv, NEW n \in Row, Truncate(n) PROVE IInv'
<1>1. /\ UNCHANGED <<inflight, queue, main, worker, written>> /\ main.op = "rest"
      /\ SafeInv'
  BY TruncateSafe DEF Truncate, IInv
<1>2. ~Over /\ ~InPass /\ ~Over' /\ ~InPass'
  BY <1>1 DEF Over, InPass
<1>3. \A k \in Layer : ~Pending(k) /\ ~Pending(k)'
  BY <1>1, <1>2 DEF IInv, Reloads, Pending
<1>4. Reloads' /\ QueuedOnce' /\ Claims' /\ Stepping'
  BY <1>1, <1>3 DEF IInv, Reloads, QueuedOnce, Claims, Stepping
<1>5. Copies'
  BY <1>1, <1>2, PendingFacts DEF Copies
<1>6. Even'
  <2>1. PICK s \in Seq(Row) : \A k \in Layer : Contents[k] = s
    BY <1>2 DEF IInv, Even, Due
  <2> DEFINE t == SubSeq(s, 1, Len(s) - n)
  <2>2. t \in Seq(Row)
    <3>1. n \in Int /\ Len(s) \in Nat /\ \A i \in 1 .. Len(s) - n : s[i] \in Row
      BY TruncateRows
    <3> QED
      BY <3>1, SubSeqProperties
  <2>3. \A k \in Layer : Contents'[k] = t
    BY <2>1, TruncateRows
  <2> HIDE DEF t
  <2> QED
    BY <1>2, <2>2, <2>3 DEF Even, Due
<1> QED
  BY <1>1, <1>4, <1>5, <1>6 DEF IInv

\* A truncation that raises moves no rows.
LEMMA TruncateFailsRows ==
  ASSUME IInv, NEW l \in Layer, TruncateFails(l) PROVE Contents' = Contents
<1> DEFINE S == {k \in offloaded : k < l}
<1>1. /\ resident' = resident \cup S /\ offloaded' = offloaded \ S /\ disk' = disk
      /\ S \subseteq offloaded /\ resident \cap offloaded = {}
      /\ cache' = [k \in Layer |-> IF k \in S THEN disk[k] ELSE cache[k]]
  BY DEF TruncateFails, ReadBack, IInv, SafeInv, OneHome
<1> HIDE DEF S
<1> QED
  BY <1>1 DEF Contents

LEMMA TruncateFailsInv ==
  ASSUME NotResumed, IInv, NEW l \in Layer, TruncateFails(l) PROVE IInv'
<1>1. /\ UNCHANGED <<inflight, queue, worker>> /\ main.op = "rest" /\ main'.op = "failed"
  BY DEF TruncateFails, MainMayFail, NotResumed, Raised, Rest
<1>2. SafeInv' /\ Contents' = Contents
  BY TruncateFailsSafe, TruncateFailsRows DEF IInv
<1>3. ~Over /\ ~InPass /\ Over'
  BY <1>1 DEF Over, InPass
<1>4. \A k \in Layer : ~Pending(k) /\ ~Pending(k)'
  BY <1>1, <1>3 DEF IInv, Reloads, Pending
<1>5. Reloads' /\ QueuedOnce' /\ Claims' /\ Copies' /\ Stepping'
  BY <1>1, <1>2, <1>4 DEF IInv, Reloads, QueuedOnce, Claims, Copies, Stepping
<1>6. Even'
  BY <1>3 DEF Even
<1> QED
  BY <1>2, <1>5, <1>6 DEF IInv

\* A reload moves no rows: what it installs is what the disk holds.
LEMMA WorkerRows == ASSUME IInv, WorkerStep PROVE Contents' = Contents
<1>1. CASE WorkerInstall
  <2>1. /\ worker.op = "install" /\ resident' = resident \cup {worker.layer}
        /\ cache' = [cache EXCEPT ![worker.layer] = worker.copy]
        /\ offloaded' = offloaded \ {worker.layer} /\ disk' = disk
    BY <1>1 DEF WorkerInstall
  <2>2. /\ worker.layer \in Layer /\ worker.layer \in offloaded
        /\ worker.layer \notin resident /\ worker.copy = Contents[worker.layer]
        /\ cache \in [Layer -> Seq(Row)]
    BY <2>1, PendingFacts DEF IInv, Copies, SafeInv, TypeOK
  <2>3. \A k \in Layer : Contents'[k] = Contents[k]
    BY <2>1, <2>2 DEF Contents
  <2> QED
    BY <2>3 DEF Contents
<1>2. CASE ~WorkerInstall
  <2>1. UNCHANGED store
    BY <1>2 DEF WorkerStep, WorkerTake, WorkerLoad, WorkerLoadFails, WorkerRelease
  <2> QED
    BY <2>1 DEF Contents, store
<1> QED
  BY <1>1, <1>2

\* What the worker does as the main thread sees it: it may wake it, and leaves
\* the Events of others as they were.
LEMMA WorkerLeavesMain ==
  ASSUME IInv, NEW l \in Layer, main' = main \/ main' = Woken(l), written' = written,
         Contents' = Contents
  PROVE  /\ Over' <=> Over
         /\ InPass' <=> InPass
         /\ main'.layer = main.layer /\ main'.mode = main.mode
         /\ main'.op \in {"load", "install"} => main' = main
         /\ Stepping' /\ Even'
<1>1. /\ main'.op = "woken" => InPass
      /\ main'.layer = main.layer /\ main'.mode = main.mode
      /\ main'.op \in {"load", "install"} => main' = main
      /\ main'.op = "woken" \/ main' = main
  BY WokenType DEF IInv, SafeInv, InPass
<1>2. (Over' <=> Over) /\ (InPass' <=> InPass)
  BY <1>1 DEF Over, InPass
<1>3. \A k \in Layer : Due(k)' <=> Due(k)
  BY <1>1, <1>2 DEF Due, Writes
<1>4. Even'
  BY <1>2, <1>3 DEF IInv, Even
<1>5. Stepping'
  BY <1>1 DEF IInv, Stepping
<1> QED
  BY <1>1, <1>2, <1>4, <1>5

LEMMA WorkerTakeInv == IInv /\ WorkerTake => IInv'
<1> SUFFICES ASSUME IInv, WorkerTake PROVE IInv'
  OBVIOUS
<1> DEFINE l == Head(queue)
<1>1. /\ SafeInv' /\ Contents' = Contents
      /\ queue \in Seq(Layer \cup {Stop}) /\ queue # <<>> /\ worker.op = "idle"
      /\ UNCHANGED <<store, written>> /\ Stop \notin Layer
      /\ worker \in [op : {"idle", "load", "install", "release", "exited"},
                     layer : Layer, copy : Seq(Row)]
  <2>1. SafeInv' /\ Contents' = Contents
    BY WorkerSafe, WorkerRows DEF IInv, WorkerStep
  <2>2. Stop \notin Layer
    BY LayersAre DEF Stop
  <2>3. /\ queue \in Seq(Layer \cup {Stop})
        /\ worker \in [op : {"idle", "load", "install", "release", "exited"},
                       layer : Layer, copy : Seq(Row)]
    BY DEF IInv, SafeInv, TypeOK
  <2> QED
    BY <2>1, <2>2, <2>3 DEF WorkerTake
<1>2. /\ queue' = Tail(queue) /\ Len(queue) \in Nat \ {0} /\ Len(queue') = Len(queue) - 1
      /\ \A i \in 1 .. Len(queue') : queue'[i] = queue[i + 1] /\ i + 1 \in 1 .. Len(queue)
      /\ l = queue[1] /\ l \in Layer \cup {Stop}
  <2>1. queue' = Tail(queue)
    BY DEF WorkerTake
  <2> QED
    BY <1>1, <2>1, HeadTailProperties
<1>3. /\ UNCHANGED <<inflight, main>>
      /\ \/ l = Stop /\ worker'.op = "exited"
         \/ /\ l \in Layer /\ worker'.op = "load" /\ worker'.layer = l
            /\ Pending(l)
  <2>1. CASE l = Stop
    <3>1. worker' = [worker EXCEPT !.op = "exited"] /\ UNCHANGED <<inflight, main>>
      BY <2>1 DEF WorkerTake
    <3> QED
      BY <1>1, <2>1, <3>1
  <2>2. CASE l # Stop
    <3>1. Pending(l) /\ l \in Layer
      BY <1>1, <1>2, <2>2 DEF Pending
    <3>2. l \notin resident /\ inflight[l] = "worker"
      BY <3>1 DEF IInv, Reloads
    <3>3. worker' = [WIdle EXCEPT !.op = "load", !.layer = l] /\ UNCHANGED <<inflight, main>>
      BY <2>2, <3>2 DEF WorkerTake
    <3> QED
      BY <3>1, <3>3 DEF WIdle
  <2> QED
    BY <2>1, <2>2
<1> HIDE DEF l
<1>4. \A k \in Layer : Pending(k)' => Pending(k)
  BY <1>1, <1>2, <1>3 DEF Pending
<1>5. Reloads'
  BY <1>1, <1>3, <1>4 DEF IInv, Reloads, Over, InPass, store
<1>6. QueuedOnce'
  <2>1. ASSUME NEW i \in 1 .. Len(queue'), NEW j \in 1 .. Len(queue'),
               queue'[i] = queue'[j], queue'[i] # Stop
        PROVE  i = j
    <3>1. i + 1 = j + 1
      BY <1>2, <2>1 DEF IInv, QueuedOnce
    <3> QED
      BY <3>1
  <2>2. ASSUME NEW i \in 1 .. Len(queue'), l \in Layer PROVE queue'[i] # l
    <3>1. queue[i + 1] # queue[1]
      <4>1. queue[i + 1] = queue[1] => i + 1 = 1
        BY <1>1, <1>2, <2>2 DEF IInv, QueuedOnce
      <4> QED
        BY <1>2, <4>1
    <3> QED
      BY <1>2, <3>1
  <2> QED
    BY <1>3, <2>1, <2>2 DEF QueuedOnce
<1>7. Claims'
  BY <1>1, <1>3 DEF IInv, Claims, Reloads, store
<1>8. Copies'
  BY <1>1, <1>3 DEF IInv, Copies
<1>9. Even' /\ Stepping'
  BY <1>1, <1>3 DEF IInv, Even, Due, Over, InPass, Writes, Stepping
<1> QED
  BY <1>1, <1>5, <1>6, <1>7, <1>8, <1>9 DEF IInv

LEMMA WorkerInv ==
  IInv /\ (WorkerLoad \/ WorkerLoadFails \/ WorkerInstall \/ WorkerRelease) => IInv'
<1> SUFFICES ASSUME IInv, WorkerLoad \/ WorkerLoadFails \/ WorkerInstall \/ WorkerRelease
             PROVE  IInv'
  OBVIOUS
<1> DEFINE l == worker.layer
<1>1. /\ SafeInv' /\ Contents' = Contents /\ UNCHANGED <<queue, written>>
      /\ inflight \in [Layer -> {"none", "main", "worker"}] /\ l \in Layer
      /\ worker \in [op : {"idle", "load", "install", "release", "exited"},
                     layer : Layer, copy : Seq(Row)]
      /\ worker.op \in {"load", "install", "release"}
      /\ main' = main \/ main' = Woken(l)
  <2>1. WorkerStep
    BY DEF WorkerStep
  <2> QED
    BY <2>1, WorkerSafe, WorkerRows
       DEF IInv, SafeInv, TypeOK, WorkerLoad, WorkerLoadFails, WorkerInstall, WorkerRelease
<1>2. /\ Over' <=> Over
      /\ InPass' <=> InPass
      /\ main'.layer = main.layer /\ main'.mode = main.mode
      /\ main'.op \in {"load", "install"} => main' = main
      /\ Stepping' /\ Even'
  BY <1>1, WorkerLeavesMain
<1>3. inflight[l] = "worker" /\ \A i \in 1 .. Len(queue) : queue[i] # l
  BY <1>1 DEF IInv, Claims, QueuedOnce
<1>4. /\ worker'.op \in {"load", "install"} =>
           /\ worker.op \in {"load", "install"} /\ worker'.layer = l
           /\ UNCHANGED <<store, inflight>>
      /\ worker'.op = "install" => worker'.copy = Loaded(l)
      /\ worker'.op = "release" => worker'.layer = l /\ UNCHANGED inflight
      /\ \A k \in Layer \ {l} : inflight'[k] = inflight[k]
      /\ resident' \subseteq resident \cup {l}
      /\ offloaded \ {l} \subseteq offloaded'
      /\ worker'.op \in {"idle", "load", "install", "release"}
  <2>1. CASE WorkerLoad
    BY <1>1, <2>1 DEF WorkerLoad, store
  <2>2. CASE WorkerLoadFails
    BY <1>1, <2>2 DEF WorkerLoadFails, store
  <2>3. CASE WorkerInstall
    BY <1>1, <2>3 DEF WorkerInstall
  <2>4. CASE WorkerRelease
    BY <1>1, <2>4 DEF WorkerRelease, WIdle, store
  <2> QED
    BY <2>1, <2>2, <2>3, <2>4
<1>5. \A k \in Layer : Pending(k)' =>
        /\ Pending(k)
        /\ k = l => UNCHANGED <<store, inflight>>
  BY <1>1, <1>3, <1>4 DEF Pending
<1> HIDE DEF l
<1>6. Reloads'
  <2> SUFFICES ASSUME NEW k \in Layer, Pending(k)'
               PROVE  /\ k \in offloaded' /\ k \notin resident' /\ inflight'[k] = "worker"
                      /\ Over' \/ (InPass' /\ main'.mode \in {"forward", "verify", "tree"}
                                   /\ main'.layer <= k)
    BY DEF Reloads
  <2>1. /\ k \in offloaded /\ k \notin resident /\ inflight[k] = "worker"
        /\ Over \/ (InPass /\ main.mode \in {"forward", "verify", "tree"} /\ main.layer <= k)
    BY <1>5 DEF IInv, Reloads
  <2>2. k \in offloaded' /\ k \notin resident' /\ inflight'[k] = "worker"
    <3>1. CASE k = l
      BY <1>5, <2>1, <3>1 DEF store
    <3>2. CASE k # l
      BY <1>4, <2>1, <3>2
    <3> QED
      BY <3>1, <3>2
  <2> QED
    BY <1>2, <2>1, <2>2
<1>7. QueuedOnce'
  BY <1>1, <1>3, <1>4 DEF IInv, QueuedOnce
<1>8. Claims'
  <2>1. ASSUME main'.op \in {"load", "install"}
        PROVE  inflight'[main'.layer] = "main" /\ main'.layer \notin resident'
    <3>1. main' = main /\ inflight[main.layer] = "main" /\ main.layer \notin resident
          /\ main.layer \in Layer
      BY <1>2, <2>1, PendingFacts DEF IInv, Claims
    <3>2. main.layer # l
      BY <1>3, <3>1
    <3> QED
      BY <1>4, <3>1, <3>2
  <2>2. worker'.op \in {"load", "install", "release"} =>
          inflight'[worker'.layer] = "worker"
    BY <1>3, <1>4
  <2> QED
    BY <2>1, <2>2 DEF Claims
<1>9. Copies'
  <2>1. worker'.op = "install" => Loaded(l) = Contents[l]
    BY <1>1, <1>4, PendingFacts DEF Loaded, Contents, l
  <2> QED
    BY <1>1, <1>2, <1>4, <2>1 DEF IInv, Copies
<1> QED
  BY <1>1, <1>2, <1>6, <1>7, <1>8, <1>9 DEF IInv

LEMMA NextIInv == ASSUME NotResumed, IInv, [Next]_vars PROVE IInv'
<1>1. ASSUME NEW m \in Mode, m # "probe", StartPass(m) PROVE IInv'
  <2>1. 0 \in Layer
    BY KVAssumption DEF Layer
  <2> QED
    BY <1>1, <2>1, StartInv
<1>2. ASSUME NEW l \in Layer, StartProbe(l) PROVE IInv'
  BY <1>2, StartInv DEF Mode
<1>3. CASE MainStart
  BY <1>1, <1>2, <1>3, TruncateInv, TruncateFailsInv, CloseInv DEF MainStart
<1>4. CASE MainStep
  BY <1>4, StepInv, VisitInv, GetFailsInv, AbortInv, MainMovesInv, CloseInv DEF MainStep
<1>5. CASE WorkerStep
  BY <1>5, WorkerTakeInv, WorkerInv DEF WorkerStep
<1>6. CASE UNCHANGED vars
  <2>1. SafeInv'
    BY NextSafe DEF IInv
  <2>2. Contents' = Contents
    BY <1>6 DEF Contents, vars, store
  <2>3. Reloads' /\ QueuedOnce' /\ Stepping'
    BY <1>6 DEF IInv, vars, store, Reloads, Pending, QueuedOnce, Stepping, Over, InPass
  <2>4. Claims' /\ Copies'
    BY <1>6, <2>2 DEF IInv, vars, store, Claims, Copies
  <2>5. Even'
    BY <1>6, <2>2 DEF IInv, vars, store, Even, Due, Over, InPass, Writes
  <2> QED
    BY <2>1, <2>3, <2>4, <2>5 DEF IInv
<1> QED
  BY <1>3, <1>4, <1>5, <1>6 DEF Next

LEMMA InitIInv == Init => IInv
<1> SUFFICES ASSUME Init PROVE IInv
  OBVIOUS
<1>1. /\ main.op = "rest" /\ worker.op = "idle" /\ queue = <<>> /\ Len(queue) = 0
      /\ resident = {} /\ offloaded = {}
  BY EmptySeq DEF Init, Rest, WIdle
<1>2. SafeInv
  BY InitSafe
<1>3. Stepping /\ Reloads /\ QueuedOnce /\ Claims /\ Copies
  BY <1>1 DEF Stepping, Reloads, Pending, QueuedOnce, Claims, Copies
<1>4. Even
  <2>1. \A k \in Layer : Contents[k] = <<>> /\ ~Due(k)
    BY <1>1 DEF Contents, Due, InPass
  <2>2. <<>> \in Seq(Row)
    OBVIOUS
  <2> QED
    BY <2>1, <2>2 DEF Even
<1> QED
  BY <1>2, <1>3, <1>4 DEF IInv

------------------------------------------------------------------------------
(* The store implements the map of rows. *)

\* Every step appends a row to one layer, drops the last rows of all, or moves no
\* rows at all.
LEMMA RowsStep ==
  ASSUME IInv, [Next]_vars
  PROVE  \/ Contents' = Contents
         \/ \E l \in Layer : /\ written \in Row /\ written' = written
                             /\ Contents' = [Contents EXCEPT ![l] = Append(@, written)]
         \/ \E n \in Nat \ {0} : \E s \in Seq(Row) :
              \A l \in Layer : /\ Contents[l] = s
                               /\ Contents'[l] = SubSeq(s, 1, Len(s) - n)
<1>1. CASE GetHit \/ MainInstall
  <2>1. /\ InPass /\ main.layer \in Layer /\ RowToWrite /\ written' = written
    BY <1>1, VisitRows, PendingFacts DEF IInv, SafeInv, GetHit, MainInstall
  <2>2. DOMAIN Contents = Layer /\ DOMAIN Contents' = Layer
    BY DEF Contents
  <2>3. CASE Writes
    <3>1. Contents' = [Contents EXCEPT ![main.layer] = Append(@, written)]
      BY <1>1, <2>1, <2>2, <2>3, VisitRows DEF Contents
    <3> QED
      BY <2>1, <2>3, <3>1 DEF RowToWrite
  <2>4. CASE ~Writes
    <3>1. Contents' = Contents
      BY <1>1, <2>1, <2>2, <2>4, VisitRows DEF Contents
    <3> QED
      BY <3>1
  <2> QED
    BY <2>3, <2>4
<1>2. ASSUME NEW n \in Row, Truncate(n)
      PROVE  \E k \in Nat \ {0} : \E s \in Seq(Row) :
              \A l \in Layer : /\ Contents[l] = s
                               /\ Contents'[l] = SubSeq(s, 1, Len(s) - k)
  <2>1. ~Over /\ ~InPass
    BY <1>2 DEF Truncate, Over, InPass
  <2>2. PICK s \in Seq(Row) : \A l \in Layer : Contents[l] = s
    BY <2>1 DEF IInv, Even, Due
  <2> QED
    BY <1>2, <2>2, TruncateRows
<1>3. CASE WorkerStep
  BY <1>3, WorkerRows
<1>4. ASSUME UNCHANGED store PROVE Contents' = Contents
  BY <1>4 DEF Contents, store
<1>5. CASE MainStart
  BY <1>2, <1>4, <1>5, TruncateFailsRows DEF MainStart, StartPass, StartProbe, Close
<1>6. CASE MainStep
  BY <1>1, <1>4, <1>6, FailRows
     DEF MainStep, Close, Step, Abort, GetAgain, GetOwn, GetJoin, MainLoad, MainLoadFails, Closed
<1>7. CASE UNCHANGED vars
  BY <1>4, <1>7 DEF vars
<1> QED
  BY <1>3, <1>5, <1>6, <1>7 DEF Next

\* Offloading, reloading by either thread and eviction change no layer's rows, an
\* append reaches the current cache and a truncation every layer, resident or not
\* (kv_store.py:29-34, 113-122): the store implements the map of rows, unless a
\* pass is abandoned under a store that is used again.
THEOREM Implements == ASSUME NotResumed PROVE Spec => ImplementsMap
<1>1. Init => Map!Init
  BY DEF Init, Map!Init, Contents
<1>2. ASSUME IInv, [Next]_vars PROVE [Map!Next]_Contents
  <2>1. CASE Contents' = Contents
    BY <2>1
  <2>2. ASSUME NEW l \in Layer, written \in Row,
               Contents' = [Contents EXCEPT ![l] = Append(@, written)]
        PROVE  Map!Next
    BY <2>2 DEF Map!Next, Map!AppendRow
  <2>3. ASSUME NEW n \in Nat \ {0}, NEW s \in Seq(Row),
               \A l \in Layer : /\ Contents[l] = s
                                /\ Contents'[l] = SubSeq(s, 1, Len(s) - n)
        PROVE  Map!Next \/ Contents' = Contents
    <3>1. 0 \in Layer /\ Contents[0] = s /\ Len(s) \in Nat
      BY <2>3, KVAssumption DEF Layer
    <3>2. Contents = [l \in Layer |-> s]
      BY <2>3 DEF Contents
    <3>3. CASE s = <<>>
      <4>1. SubSeq(s, 1, Len(s) - n) = <<>>
        BY <3>1, <3>3, SubSeqEmpty, EmptySeq
      <4>2. Contents' = [l \in Layer |-> <<>>]
        BY <2>3, <4>1 DEF Contents
      <4> QED
        BY <3>2, <3>3, <4>2
    <3>4. CASE s # <<>>
      <4> DEFINE k == IF n <= Len(s) THEN n ELSE Len(s)
      <4>1. k \in 1 .. Len(s)
        BY <3>1, <3>4, EmptySeq
      <4>2. SubSeq(s, 1, Len(s) - n) = SubSeq(s, 1, Len(s) - k)
        <5>1. CASE n <= Len(s)
          BY <5>1
        <5>2. CASE n > Len(s)
          BY <3>1, <5>2, SubSeqEmpty
        <5> QED
          BY <3>1, <5>1, <5>2
      <4>3. Contents' = [l \in Layer |-> SubSeq(Contents[l], 1, Len(Contents[l]) - k)]
        BY <2>3, <4>2 DEF Contents
      <4>4. Map!Trim(k)
        BY <4>3 DEF Map!Trim, Map!Shorter
      <4> QED
        BY <3>1, <4>1, <4>4 DEF Map!Next
    <3> QED
      BY <3>3, <3>4
  <2> QED
    BY <1>2, <2>1, <2>2, <2>3, RowsStep
<1> QED
  BY <1>1, <1>2, InitIInv, NextIInv, PTL DEF Spec, ImplementsMap, Map!Spec

\* "Offloaded layers are reloaded so their on-disk (un-trimmed) state can't
\* resurrect dropped tokens" (kv_store.py:116-118): a layer only ever grows by the
\* row of the pass under way, whatever reload was in flight when a truncation
\* came.
THEOREM NothingResurrected == ASSUME NotResumed PROVE Spec => NoneResurrected
<1> DEFINE Grown == \A l \in Layer : Len(Contents'[l]) > Len(Contents[l]) =>
                      Contents'[l] = Append(Contents[l], written)
<1>1. ASSUME IInv, [Next]_vars PROVE [Grown]_vars
  <2>1. \A l \in Layer : Contents[l] \in Seq(Row)
    <3>1. <<>> \in Seq(Row)
      OBVIOUS
    <3> QED
      BY <1>1, <3>1 DEF IInv, SafeInv, TypeOK, Contents
  <2>2. CASE Contents' = Contents
    BY <2>1, <2>2
  <2>3. ASSUME NEW l \in Layer, written \in Row,
               Contents' = [Contents EXCEPT ![l] = Append(@, written)]
        PROVE  Grown
    <3>1. \A k \in Layer : Contents'[k] = IF k = l THEN Append(Contents[l], written)
                                          ELSE Contents[k]
      BY <2>3 DEF Contents
    <3>2. ASSUME NEW k \in Layer, Len(Contents'[k]) > Len(Contents[k])
          PROVE  Contents'[k] = Append(Contents[k], written)
      <4>1. Len(Contents[k]) \in Nat
        BY <2>1
      <4>2. k = l
        BY <3>1, <3>2, <4>1
      <4> QED
        BY <3>1, <4>2
    <3> QED
      BY <3>2
  <2>4. ASSUME NEW n \in Nat \ {0}, NEW s \in Seq(Row),
               \A l \in Layer : /\ Contents[l] = s
                                /\ Contents'[l] = SubSeq(s, 1, Len(s) - n)
        PROVE  Grown
    <3>1. Len(s) \in Nat /\ \A i \in 1 .. Len(s) - n : s[i] \in Row
      OBVIOUS
    <3>2. Len(SubSeq(s, 1, Len(s) - n)) <= Len(s)
      BY <3>1, SubSeqProperties
    <3> QED
      BY <2>4, <3>1, <3>2
  <2> QED
    BY <1>1, <2>2, <2>3, <2>4, RowsStep
<1>2. [][Grown]_vars <=> NoneResurrected
  BY PTL DEF NoneResurrected
<1> QED
  BY <1>1, <1>2, InitIInv, NextIInv, PTL DEF Spec
=============================================================================
