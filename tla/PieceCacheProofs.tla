-------------------------- MODULE PieceCacheProofs --------------------------
(***************************************************************************)
(* Theorems of PieceCache, for any set of pieces and sizes, any number of  *)
(* calling threads and any budget.                                         *)
(***************************************************************************)
EXTENDS PieceCache, FiniteSetTheorems, TLAPS

\* What makes EachLoadedOnce inductive: whoever serves a piece is named by its
\* reservation, a queued piece is reserved for the worker and not yet served, and
\* what is being loaded or queued is not held.
Reserved ==
  /\ \A t \in Thread : at[t].op \in {"load", "release"} =>
       at[t].pid \in Piece /\ at[t].by = t /\ inflight[at[t].pid] = t
  /\ \A t \in Thread : at[t].op = "load" => ~Held(at[t].pid)
  /\ \A t \in Thread : at[t].op = "wait" =>
       /\ at[t].pid \in Piece /\ at[t].by # None
       /\ inflight[at[t].pid] = at[t].by
  /\ \A t \in Thread : at[t].op \in {"woken", "retry"} => at[t].pid \in Piece
  /\ at[Worker].op \in {"idle", "load", "release", "exited"}

Queueing ==
  /\ \A e \in queue : inflight[e.pid] = Worker /\ ~Held(e.pid)
  /\ \A e \in queue : ~Serves(Worker, e.pid)
  /\ \A e, f \in queue : e.pid = f.pid => e = f
  /\ \A p \in Piece : inflight[p] # None =>
       Serves(inflight[p], p) \/ \E e \in queue : e.pid = p

Apart == experts \cap staging = {}

IInv == TypeOK /\ BytesAccounted /\ RegionCaps /\ Apart /\ Reserved /\ Queueing

------------------------------------------------------------------------------
(* Weighing sets of pieces. *)

\* Taking a part away takes its bytes away.
LEMMA BytesMinus ==
  ASSUME NEW S \in SUBSET Piece, NEW V \in SUBSET S
  PROVE  /\ Bytes[S \ V] = Bytes[S] - Bytes[V]
         /\ Bytes[S] \in Nat /\ Bytes[V] \in Nat /\ Bytes[S \ V] \in Nat
<1>1. S = (S \ V) \cup V /\ (S \ V) \cap V = {}
  OBVIOUS
<1>2. Bytes[S] = Bytes[S \ V] + Bytes[V]
  BY <1>1, PieceAssumption
<1> QED
  BY <1>2, PieceAssumption

\* A new piece adds its own.
LEMMA BytesPlus ==
  ASSUME NEW S \in SUBSET Piece, NEW p \in Piece, p \notin S
  PROVE  /\ Bytes[S \cup {p}] = Bytes[S] + Bytes[{p}]
         /\ Bytes[S] \in Nat /\ Bytes[{p}] \in Nat
<1>1. S \cap {p} = {} /\ {p} \in SUBSET Piece
  OBVIOUS
<1> QED
  BY <1>1, PieceAssumption

\* What _evict_locked leaves: a part of each table, weighed right, and under the
\* cap unless only protected pieces are left.
LEMMA EvictEffect ==
  ASSUME NEW p, NEW R \in SUBSET Piece, NEW X \in SUBSET Piece,
         NEW ord \in SUBSET (Piece \X Piece),
         EvictLocked(p, R, Bytes[R], X, Bytes[X], ord)
  PROVE  /\ resident' \subseteq R /\ experts' \subseteq X
         /\ mainBytes' = Bytes[resident'] /\ mainBytes' \in Nat
         /\ expertBytes' = Bytes[experts'] /\ expertBytes' \in Nat
         /\ Bytes[resident'] <= MainCap' \/ resident' \subseteq Protected(p)
         /\ Bytes[experts'] <= ExpertCap' \/ experts' \subseteq Protected(p)
         /\ older' \subseteq Piece \X Piece
<1>1. PICK VM \in Victims(R, Protected(p), Reverse(ord), Bytes[R], MainCap'),
           VX \in Victims(X, Protected(p), ord, Bytes[X], ExpertCap') :
        /\ resident' = R \ VM /\ mainBytes' = Bytes[R] - Bytes[VM]
        /\ experts' = X \ VX  /\ expertBytes' = Bytes[X] - Bytes[VX]
        /\ older' = Without(ord, VM \cup VX)
  BY DEF EvictLocked
<1>2. /\ VM \in SUBSET (R \ Protected(p))
      /\ Bytes[R] - Bytes[VM] <= MainCap' \/ VM = R \ Protected(p)
      /\ VX \in SUBSET (X \ Protected(p))
      /\ Bytes[X] - Bytes[VX] <= ExpertCap' \/ VX = X \ Protected(p)
  BY DEF Victims
<1>3. /\ Bytes[R \ VM] = Bytes[R] - Bytes[VM] /\ Bytes[R \ VM] \in Nat
      /\ Bytes[X \ VX] = Bytes[X] - Bytes[VX] /\ Bytes[X \ VX] \in Nat
  BY <1>2, BytesMinus
<1>4. older' \subseteq Piece \X Piece
  BY <1>1 DEF Without
<1> QED
  BY <1>1, <1>2, <1>3, <1>4

------------------------------------------------------------------------------
(* Each action preserves IInv. *)

USE DEF Thread, Party, Held, Region

\* Sections that touch no table keep what is said of the tables.
LEMMA TablesFrame ==
  ASSUME IInv, UNCHANGED <<tables, sizes>>
  PROVE  (TypeTables /\ TypeOrder /\ BytesAccounted /\ RegionCaps /\ Apart)'
  BY DEF IInv, TypeOK, TypeTables, TypeOrder, BytesAccounted, RegionCaps,
         Apart, MainCap, tables, sizes

\* Nor does a step of a thread that serves no piece, before or after, and starts
\* no wait, change who serves and waits for what.
LEMMA QuietStep ==
  ASSUME IInv, NEW t \in Thread,
         UNCHANGED <<inflight, queue>>,
         \A q \in Piece : Held(q)' => Held(q),
         \A u \in Thread \ {t} : at'[u] = at[u],
         at[t].op \notin {"load", "release"},
         at'[t].op \notin {"load", "release", "wait"},
         at'[t].op \in {"woken", "retry"} => at'[t].pid \in Piece,
         t = Worker => at'[t].op \in {"idle", "exited"}
  PROVE  (Reserved /\ Queueing)'
<1>1. \A u \in Thread : at'[u].op \in {"load", "release", "wait"} => at'[u] = at[u]
  OBVIOUS
<1>2. \A u \in Thread : at[u].op \in {"load", "release"} => at'[u] = at[u]
  OBVIOUS
<1>3. Reserved'
  BY <1>1 DEF IInv, Reserved
<1>4. \A u \in Thread, p \in Piece : Serves(u, p)' <=> Serves(u, p)
  BY <1>1, <1>2 DEF Serves
<1>5. \A p \in Piece : inflight[p] # None => inflight[p] \in Thread
  BY DEF IInv, TypeOK, TypeThreads
<1>6. \A e \in queue : e.pid \in Piece
  BY DEF IInv, TypeOK, TypeThreads
<1>7. Queueing'
  BY <1>4, <1>5, <1>6 DEF IInv, Queueing
<1> QED
  BY <1>3, <1>7

LEMMA InitIInv == Init => IInv
<1> SUFFICES ASSUME Init PROVE IInv
  OBVIOUS
<1>1. TypeOK
  <2>1. TypeTables
    BY PieceAssumption DEF Init, TypeTables
  <2>2. TypeOrder
    BY DEF Init, TypeOrder
  <2>3. TypeThreads
    BY ConstantAssumption DEF Init, TypeThreads, Idle, Op
  <2>4. TypeFlags
    BY ConstantAssumption, Zenon DEF Init, TypeFlags
  <2> QED
    BY <2>1, <2>2, <2>3, <2>4 DEF TypeOK
<1>2. BytesAccounted /\ Apart
  BY PieceAssumption DEF Init, BytesAccounted, Apart
<1>3. RegionCaps
  BY PieceAssumption, ConstantAssumption DEF Init, RegionCaps, MainCap
<1>4. Reserved /\ Queueing
  BY DEF Init, Reserved, Queueing, Idle, Serves
<1> QED
  BY <1>1, <1>2, <1>3, <1>4 DEF IInv

LEMMA HitStep ==
  ASSUME IInv, NEW c \in Client, NEW p \in Piece, Hit(c, p),
         at[c].op \in {"idle", "retry"}
  PROVE  IInv'
<1>1. TypeOK'
  <2>1. TypeTables'
    BY DEF IInv, TypeOK, TypeTables, Hit, sizes
  <2>2. TypeOrder'
    BY PieceAssumption DEF IInv, TypeOK, TypeOrder, TypeTables, Hit, Touched
  <2>3. TypeThreads'
    BY ConstantAssumption
    DEF IInv, TypeOK, TypeThreads, Hit, Idle, Op, spec
  <2>4. TypeFlags'
    BY DEF IInv, TypeOK, TypeFlags, Hit, sizes, shutting
  <2> QED
    BY <2>1, <2>2, <2>3, <2>4 DEF TypeOK
<1>2. (BytesAccounted /\ RegionCaps /\ Apart)'
  BY DEF IInv, BytesAccounted, RegionCaps, Apart, MainCap, Hit, sizes
<1>3. (Reserved /\ Queueing)'
  <2>1. /\ at[c].op \notin {"load", "release"} /\ at'[c].op = "idle"
        /\ \A u \in Thread \ {c} : at'[u] = at[u]
    BY DEF IInv, TypeOK, TypeThreads, Hit, Idle
  <2> QED
    BY <2>1, QuietStep, ConstantAssumption DEF Hit
<1> QED
  BY <1>1, <1>2, <1>3 DEF IInv

LEMMA OwnStep ==
  ASSUME IInv, NEW c \in Client, NEW p \in Piece, Own(c, p),
         at[c].op \in {"idle", "retry"}
  PROVE  IInv'
<1>1. TypeOK'
  <2>1. TypeThreads'
    BY ConstantAssumption DEF IInv, TypeOK, TypeThreads, Own, Doing, Op, spec
  <2>2. TypeFlags'
    BY DEF IInv, TypeOK, TypeFlags, Own, sizes, shutting
  <2> QED
    BY <2>1, <2>2, TablesFrame DEF TypeOK, Own
<1>2. (BytesAccounted /\ RegionCaps /\ Apart)'
  BY TablesFrame DEF Own
<1>3. /\ at'[c] = Doing("load", p, c) /\ inflight'[p] = c
      /\ \A u \in Thread \ {c} : at'[u] = at[u]
      /\ \A q \in Piece \ {p} : inflight'[q] = inflight[q]
      /\ UNCHANGED <<resident, experts, staging, queue>>
      /\ inflight[p] = None /\ ~Held(p)
  BY DEF IInv, TypeOK, TypeThreads, Own, tables
<1>4. Reserved'
  BY <1>3, ConstantAssumption DEF IInv, TypeOK, TypeThreads, Reserved, Doing
<1>5. \A q \in Piece : inflight[q] # None => inflight[q] \in Thread
  BY DEF IInv, TypeOK, TypeThreads
<1>6. \A e \in queue : e.pid \in Piece /\ e.pid # p
  BY <1>3, ConstantAssumption DEF IInv, TypeOK, TypeThreads, Queueing
<1>7. Queueing'
  BY <1>3, <1>5, <1>6, ConstantAssumption DEF IInv, Queueing, Serves, Doing
<1> QED
  BY <1>1, <1>2, <1>4, <1>7 DEF IInv

LEMMA JoinStep ==
  ASSUME IInv, NEW c \in Client, NEW p \in Piece, Join(c, p),
         at[c].op \in {"idle", "retry"}
  PROVE  IInv'
<1>1. TypeOK'
  <2>1. TypeThreads'
    BY ConstantAssumption DEF IInv, TypeOK, TypeThreads, Join, Doing, Op
  <2>2. TypeFlags'
    BY DEF IInv, TypeOK, TypeFlags, Join, sizes, shutting
  <2> QED
    BY <2>1, <2>2, TablesFrame DEF TypeOK, Join
<1>2. (BytesAccounted /\ RegionCaps /\ Apart)'
  BY TablesFrame DEF Join
<1>3. /\ at'[c] = Doing("wait", p, inflight[p]) /\ inflight[p] # None
      /\ \A u \in Thread \ {c} : at'[u] = at[u]
      /\ UNCHANGED <<resident, experts, staging, inflight, queue>>
  BY DEF IInv, TypeOK, TypeThreads, Join, tables
<1>4. Reserved'
  BY <1>3, ConstantAssumption DEF IInv, Reserved, Doing
<1>5. \A u \in Thread, q \in Piece : Serves(u, q)' <=> Serves(u, q)
  BY <1>3 DEF Serves, Doing
<1>6. \A q \in Piece : inflight[q] # None => inflight[q] \in Thread
  BY DEF IInv, TypeOK, TypeThreads
<1>7. \A e \in queue : e.pid \in Piece
  BY DEF IInv, TypeOK, TypeThreads
<1>8. Queueing'
  BY <1>3, <1>5, <1>6, <1>7 DEF IInv, Queueing
<1> QED
  BY <1>1, <1>2, <1>4, <1>8 DEF IInv

LEMMA WakeStep ==
  ASSUME IInv, NEW c \in Client, Wake(c)
  PROVE  IInv'
<1> DEFINE p == at[c].pid
<1>0. p \in Piece
  BY DEF IInv, Reserved, Wake
<1>1. TypeOK'
  <2>1. TypeTables'
    BY DEF IInv, TypeOK, TypeTables, Wake, sizes
  <2>2. TypeOrder'
    BY <1>0, PieceAssumption DEF IInv, TypeOK, TypeOrder, TypeTables, Wake, Touched
  <2>3. TypeThreads'
    BY <1>0, ConstantAssumption
    DEF IInv, TypeOK, TypeThreads, Wake, Idle, Doing, Op, spec
  <2>4. TypeFlags'
    BY DEF IInv, TypeOK, TypeFlags, Wake, sizes, shutting
  <2> QED
    BY <2>1, <2>2, <2>3, <2>4 DEF TypeOK
<1>2. (BytesAccounted /\ RegionCaps /\ Apart)'
  BY DEF IInv, BytesAccounted, RegionCaps, Apart, MainCap, Wake, sizes
<1>3. (Reserved /\ Queueing)'
  <2>1. /\ at[c].op = "woken"
        /\ at'[c] \in {Idle, Doing("retry", p, None)}
        /\ \A u \in Thread \ {c} : at'[u] = at[u]
    BY DEF IInv, TypeOK, TypeThreads, Wake
  <2>2. at'[c].op \in {"idle", "retry"} /\ (at'[c].op = "retry" => at'[c].pid = p)
    BY <2>1 DEF Idle, Doing
  <2> QED
    BY <1>0, <2>1, <2>2, QuietStep, ConstantAssumption DEF Wake
<1> QED
  BY <1>1, <1>2, <1>3 DEF IInv

\* The steps of close() and the worker's exit.
LEMMA ShutdownStep ==
  ASSUME IInv,
         WorkerStop \/ \E c \in Client : Close(c) \/ PutSentinel(c) \/ JoinWorker(c)
  PROVE  IInv'
<1>1. UNCHANGED <<tables, sizes, spec, inflight, queue, failures>>
  BY DEF Close, PutSentinel, JoinWorker, WorkerStop, shutting
<1>2. PICK t \in Thread, o \in {"drain", "stop", "join", "closed", "exited"} :
        /\ at[t].op \in {"idle", "stop", "drain", "join"}
        /\ at' = [at EXCEPT ![t] = Doing(o, None, None)]
        /\ t = Worker => o = "exited"
  <2>1. ASSUME NEW c \in Client, Close(c)
        PROVE  /\ at[c].op = "idle" /\ c # Worker
               /\ \E o \in {"drain", "stop"} : at' = [at EXCEPT ![c] = Doing(o, None, None)]
    BY <2>1, ConstantAssumption DEF Close
  <2>2. ASSUME NEW c \in Client, PutSentinel(c) \/ JoinWorker(c)
        PROVE  /\ at[c].op \in {"stop", "drain", "join"} /\ c # Worker
               /\ \E o \in {"join", "closed"} : at' = [at EXCEPT ![c] = Doing(o, None, None)]
    BY <2>2, ConstantAssumption DEF PutSentinel, JoinWorker
  <2>3. CASE WorkerStop
    BY <2>3 DEF WorkerStop
  <2> QED
    BY <2>1, <2>2, <2>3
<1>3. TypeOK'
  <2>1. TypeThreads'
    BY <1>1, <1>2, ConstantAssumption DEF IInv, TypeOK, TypeThreads, Doing, Op, spec
  <2>2. TypeFlags'
    BY Zenon DEF IInv, TypeOK, TypeFlags, Close, PutSentinel, JoinWorker, WorkerStop, sizes, shutting
  <2> QED
    BY <1>1, <2>1, <2>2, TablesFrame DEF TypeOK
<1>4. (BytesAccounted /\ RegionCaps /\ Apart)'
  BY <1>1, TablesFrame
<1>5. at'[t].op = o /\ \A u \in Thread \ {t} : at'[u] = at[u]
  BY <1>2 DEF Doing, IInv, TypeOK, TypeThreads
<1>6. (Reserved /\ Queueing)'
  BY <1>1, <1>2, <1>5, QuietStep DEF tables
<1> QED
  BY <1>3, <1>4, <1>6 DEF IInv

LEMMA FailStep ==
  ASSUME IInv, NEW t \in Thread, Fail(t)
  PROVE  IInv'
<1>1. TypeOK'
  <2>1. TypeThreads'
    BY ConstantAssumption DEF IInv, TypeOK, TypeThreads, Fail, Op, spec
  <2>2. TypeFlags'
    BY DEF IInv, TypeOK, TypeFlags, Fail, sizes, shutting
  <2> QED
    BY <2>1, <2>2, TablesFrame DEF TypeOK, Fail
<1>2. (BytesAccounted /\ RegionCaps /\ Apart)'
  BY TablesFrame DEF Fail
<1>3. /\ at[t].op = "load" /\ at'[t].op = "release"
      /\ at'[t].pid = at[t].pid /\ at'[t].by = at[t].by
      /\ \A u \in Thread \ {t} : at'[u] = at[u]
      /\ UNCHANGED <<resident, experts, staging, inflight, queue>>
  BY DEF IInv, TypeOK, TypeThreads, Fail, tables
<1>4. Reserved'
  BY <1>3 DEF IInv, Reserved
<1>5. \A u \in Thread, q \in Piece : Serves(u, q)' <=> Serves(u, q)
  BY <1>3 DEF Serves
<1>6. \A q \in Piece : inflight[q] # None => inflight[q] \in Thread
  BY DEF IInv, TypeOK, TypeThreads
<1>7. \A e \in queue : e.pid \in Piece
  BY DEF IInv, TypeOK, TypeThreads
<1>8. Queueing'
  BY <1>3, <1>5, <1>6, <1>7 DEF IInv, Queueing
<1> QED
  BY <1>1, <1>2, <1>4, <1>8 DEF IInv

LEMMA ReleaseStep ==
  ASSUME IInv, NEW t \in Thread, Release(t)
  PROVE  IInv'
<1> DEFINE p == at[t].pid
<1>0. p \in Piece /\ at[t].by = t /\ inflight[p] = t /\ Serves(t, p)
  BY DEF IInv, Reserved, Release, Serves
<1>1. at' = Signalled(t, p, t) /\ inflight' = [inflight EXCEPT ![p] = None]
  BY <1>0 DEF Release
<1>2. /\ at'[t] = Idle
      /\ \A u \in Thread \ {t} :
           at'[u] = at[u] \/ (at[u] = Doing("wait", p, t) /\ at'[u] = Doing("woken", p, None))
      /\ \A u \in Thread \ {t} : at[u] # Doing("wait", p, t) => at'[u] = at[u]
      /\ \A u \in Thread \ {t} : at[u] = Doing("wait", p, t) => at'[u] = Doing("woken", p, None)
  BY <1>1 DEF Signalled
<1>3. TypeOK'
  <2>1. inflight' \in [Piece -> Party]
    BY <1>1 DEF IInv, TypeOK, TypeThreads
  <2>2. at' \in [Thread -> [op : Op, pid : Piece \cup {None}, by : Party]]
    BY <1>0, <1>1 DEF IInv, TypeOK, TypeThreads, Signalled, Idle, Doing, Op
  <2>3. TypeThreads'
    BY <2>1, <2>2 DEF IInv, TypeOK, TypeThreads, Release, spec
  <2>4. TypeFlags'
    BY DEF IInv, TypeOK, TypeFlags, Release, sizes, shutting
  <2> QED
    BY <2>3, <2>4, TablesFrame DEF TypeOK, Release
<1>4. (BytesAccounted /\ RegionCaps /\ Apart)'
  BY TablesFrame DEF Release
<1>5. /\ UNCHANGED <<resident, experts, staging, queue>>
      /\ inflight'[p] = None /\ \A q \in Piece \ {p} : inflight'[q] = inflight[q]
  BY <1>0, <1>1 DEF IInv, TypeOK, TypeThreads, Release, tables
<1>6. \A u \in Thread : at'[u].op \in {"load", "release", "wait", "retry"} => at'[u] = at[u]
  BY <1>2 DEF Idle, Doing
<1>7. \A u \in Thread : at[u].op = "wait" /\ at[u].pid = p /\ at[u].by = t
                          => at[u] = Doing("wait", p, t)
  BY DEF IInv, TypeOK, TypeThreads, Doing
<1>8. \A u \in Thread : at'[u].op = "wait" => at[u].pid # p
  BY <1>0, <1>2, <1>6, <1>7 DEF IInv, Reserved, Idle, Doing
<1>9. \A u \in Thread \ {t} : at[u].op \in {"load", "release"} =>
        at[u].pid # p /\ at'[u] = at[u]
  BY <1>0, <1>2 DEF IInv, Reserved, Doing
<1>10. Reserved'
  <2>1. \A u \in Thread : at'[u].op \in {"load", "release"} =>
          at'[u] = at[u] /\ at[u].pid \in Piece \ {p}
    BY <1>0, <1>2, <1>6, <1>9 DEF IInv, Reserved, Idle
  <2>2. \A u \in Thread : at'[u].op \in {"woken", "retry"} => at'[u].pid \in Piece
    BY <1>0, <1>2 DEF IInv, Reserved, Idle, Doing
  <2>3. at'[Worker].op \in {"idle", "load", "release", "exited"}
    BY <1>2 DEF IInv, Reserved, Idle, Doing
  <2>4. \A u \in Thread : at'[u].op = "wait" =>
          /\ at'[u].pid \in Piece /\ at'[u].by # None
          /\ inflight'[at'[u].pid] = at'[u].by
    BY <1>5, <1>6, <1>8 DEF IInv, Reserved
  <2> QED
    BY <1>5, <2>1, <2>2, <2>3, <2>4 DEF IInv, Reserved
<1>11. \A u \in Thread, q \in Piece : Serves(u, q)' <=> Serves(u, q) /\ u # t
  BY <1>0, <1>2, <1>6, <1>9 DEF Serves, Idle
<1>12. \A q \in Piece : inflight[q] # None => inflight[q] \in Thread
  BY DEF IInv, TypeOK, TypeThreads
<1>13. \A e \in queue : e.pid \in Piece /\ e.pid # p
  BY <1>0, ConstantAssumption DEF IInv, TypeOK, TypeThreads, Queueing
<1>14. Queueing'
  BY <1>0, <1>5, <1>11, <1>12, <1>13 DEF IInv, Queueing, Serves
<1> QED
  BY <1>3, <1>4, <1>10, <1>14 DEF IInv

LEMMA WarmedStep ==
  ASSUME IInv, NEW p \in Piece, Warmed(p)
  PROVE  IInv'
<1> DEFINE e0 == [pid |-> p, tier |-> "warm"]
           e1 == [pid |-> p, tier |-> "demand"]
<1>1. e0 \in queue /\ queue' = (queue \ {e0}) \cup {e1}
  BY DEF Warmed
<1>2. TypeOK'
  <2>1. TypeThreads'
    <3>1. e1 \in [pid : Piece, tier : Tier]
      BY DEF Tier
    <3>2. queue' \subseteq [pid : Piece, tier : Tier]
      BY <1>1, <3>1 DEF IInv, TypeOK, TypeThreads
    <3> QED
      BY <3>2 DEF IInv, TypeOK, TypeThreads, Warmed, spec
  <2>2. TypeFlags'
    BY DEF IInv, TypeOK, TypeFlags, Warmed, sizes, shutting
  <2> QED
    BY <2>1, <2>2, TablesFrame DEF TypeOK, Warmed
<1>3. (BytesAccounted /\ RegionCaps /\ Apart)'
  BY TablesFrame DEF Warmed
<1>4. UNCHANGED <<resident, experts, staging, inflight, at>>
  BY DEF Warmed, tables
<1>5. Reserved'
  BY <1>4 DEF IInv, Reserved
<1>6. Queueing'
  <2>1. \A e \in queue' : \E f \in queue : f.pid = e.pid
    BY <1>1
  <2>2. \A e \in queue : \E f \in queue' : f.pid = e.pid
    <3>1. \A e \in queue : e = e0 \/ e \in queue'
      BY <1>1
    <3>2. e1 \in queue' /\ e1.pid = e0.pid
      BY <1>1
    <3> QED
      BY <3>1, <3>2
  <2>3. \A e, f \in queue' : e.pid = f.pid => e = f
    BY <1>1 DEF IInv, Queueing
  <2>4. \A q \in Piece : inflight[q] # None => inflight[q] \in Thread
    BY DEF IInv, TypeOK, TypeThreads
  <2> QED
    BY <1>4, <2>1, <2>2, <2>3, <2>4 DEF IInv, Queueing, Serves
<1> QED
  BY <1>2, <1>3, <1>5, <1>6 DEF IInv

LEMMA PrefetchStep ==
  ASSUME IInv, NEW c \in Client, NEW P \in SUBSET Piece,
         NEW speculative \in BOOLEAN, Prefetch(c, P, speculative)
  PROVE  IInv'
<1> DEFINE new  == {p \in P : Reservable(p)}
           tier == IF speculative THEN "spec" ELSE IF pool THEN "warm" ELSE "demand"
<1>1. /\ new \in SUBSET Piece /\ tier \in Tier
      /\ queue' = queue \cup {[pid |-> p, tier |-> tier] : p \in new}
      /\ inflight' = [p \in Piece |-> IF p \in new THEN Worker ELSE inflight[p]]
      /\ UNCHANGED <<resident, experts, staging, at>>
      /\ \A p \in new : ~Held(p) /\ inflight[p] = None
  BY DEF Prefetch, Reservable, Tier, tables
<1>2. TypeOK'
  <2>1. queue' \subseteq [pid : Piece, tier : Tier]
    BY <1>1 DEF IInv, TypeOK, TypeThreads
  <2>2. inflight' \in [Piece -> Party]
    BY <1>1 DEF IInv, TypeOK, TypeThreads
  <2>3. specPending' \subseteq Expert /\ unsettled' \in Int
    <3>1. CASE speculative
      <4>1. Cardinality(new) \in Nat
        <5>1. IsFiniteSet(new)
          BY <1>1, PieceAssumption, FS_Subset
        <5> QED
          BY <5>1, FS_CardinalityType
      <4>2. new \subseteq Expert
        BY <3>1 DEF Prefetch
      <4> QED
        BY <3>1, <4>1, <4>2 DEF IInv, TypeOK, TypeThreads, Prefetch
    <3>2. CASE ~speculative
      BY <3>2 DEF IInv, TypeOK, TypeThreads, Prefetch, spec
    <3> QED
      BY <3>1, <3>2
  <2>4. TypeThreads'
    BY <2>1, <2>2, <2>3 DEF IInv, TypeOK, TypeThreads, Prefetch
  <2>5. TypeFlags'
    BY DEF IInv, TypeOK, TypeFlags, Prefetch, sizes, shutting
  <2> QED
    BY <2>4, <2>5, TablesFrame DEF TypeOK, Prefetch
<1>3. (BytesAccounted /\ RegionCaps /\ Apart)'
  BY TablesFrame DEF Prefetch
<1>4. \A t \in Thread, p \in new : ~Serves(t, p)
  BY <1>1, ConstantAssumption DEF IInv, Reserved, Serves
<1>5. \A e \in queue : e.pid \in Piece \ new
  BY <1>1, ConstantAssumption DEF IInv, TypeOK, TypeThreads, Queueing
<1>6. Reserved'
  <2>1. \A t \in Thread : at[t].op \in {"load", "release", "wait"} => at[t].pid \in Piece \ new
    BY <1>1, ConstantAssumption DEF IInv, Reserved
  <2> QED
    BY <1>1, <2>1 DEF IInv, Reserved
<1>7. Queueing'
  <2>1. \A p \in Piece : inflight[p] # None => inflight[p] \in Thread
    BY DEF IInv, TypeOK, TypeThreads
  <2>2. \A e \in queue' : e \in queue \/ (e.pid \in new /\ e = [pid |-> e.pid, tier |-> tier])
    BY <1>1
  <2>3. \A e \in queue' : inflight'[e.pid] = Worker /\ ~Held(e.pid)'
    BY <1>1, <1>5, <2>2 DEF IInv, Queueing
  <2>4. \A e \in queue' : ~Serves(Worker, e.pid)'
    BY <1>1, <1>4, <2>2 DEF IInv, Queueing, Serves
  <2>5. \A e, f \in queue' : e.pid = f.pid => e = f
    BY <1>5, <2>2 DEF IInv, Queueing
  <2>6. \A p \in Piece : inflight'[p] # None =>
          Serves(inflight[p], p)' \/ \E e \in queue' : e.pid = p
    <3> SUFFICES ASSUME NEW p \in Piece, inflight'[p] # None
                 PROVE  Serves(inflight[p], p)' \/ \E e \in queue' : e.pid = p
      OBVIOUS
    <3>1. CASE p \in new
      <4>1. [pid |-> p, tier |-> tier] \in queue'
        BY <1>1, <3>1
      <4> QED
        BY <4>1
    <3>2. CASE p \notin new
      <4>1. inflight'[p] = inflight[p] /\ queue \subseteq queue' /\ at' = at
        BY <1>1, <3>2
      <4>2. Serves(inflight[p], p) \/ \E e \in queue : e.pid = p
        BY <3>2, <4>1 DEF IInv, Queueing
      <4> QED
        BY <4>1, <4>2 DEF Serves
    <3> QED
      BY <3>1, <3>2
  <2> QED
    BY <2>3, <2>4, <2>5, <2>6 DEF Queueing
<1> QED
  BY <1>2, <1>3, <1>6, <1>7 DEF IInv

LEMMA BeginPassStep ==
  ASSUME IInv, NEW c \in Client, BeginPass(c)
  PROVE  IInv'
<1>1. /\ Expired \in SUBSET staging /\ staging \in SUBSET Piece /\ experts \in SUBSET Piece
      /\ staging' = staging \ Expired
      /\ stagingBytes' = stagingBytes - Bytes[Expired]
      /\ UNCHANGED <<resident, experts, mainBytes, expertBytes, split, inflight, queue, at>>
  BY PieceAssumption DEF IInv, TypeOK, TypeTables, BeginPass, Expired
<1>2. stagingBytes' = Bytes[staging'] /\ Bytes[staging'] \in Nat
      /\ Bytes[staging'] <= Bytes[staging] /\ Bytes[Expired] \in Nat
  <2>1. /\ Bytes[staging \ Expired] = Bytes[staging] - Bytes[Expired]
        /\ Bytes[staging] \in Nat /\ Bytes[Expired] \in Nat
        /\ Bytes[staging \ Expired] \in Nat
    BY <1>1, BytesMinus
  <2>2. stagingBytes = Bytes[staging]
    BY DEF IInv, BytesAccounted
  <2> HIDE DEF Expired
  <2> QED
    BY <1>1, <2>1, <2>2
<1>3. TypeOK'
  <2>1. TypeTables'
    <3>1. age' \in [Piece -> {0, 1}]
      BY DEF IInv, TypeOK, TypeTables, BeginPass, Expired
    <3> QED
      BY <1>1, <1>2, <3>1 DEF IInv, TypeOK, TypeTables
  <2>2. TypeOrder'
    BY DEF IInv, TypeOK, TypeOrder, BeginPass, Without
  <2>3. TypeThreads'
    <3>1. IsFiniteSet(Expired)
      BY <1>1, PieceAssumption, FS_Subset
    <3>2. Cardinality(Expired) \in Nat
      BY <3>1, FS_CardinalityType
    <3> QED
      BY <3>2 DEF IInv, TypeOK, TypeThreads, BeginPass
  <2>4. TypeFlags'
    BY DEF IInv, TypeOK, TypeFlags, BeginPass, shutting
  <2> QED
    BY <2>1, <2>2, <2>3, <2>4 DEF TypeOK
<1>4. (BytesAccounted /\ Apart)'
  BY <1>1, <1>2 DEF IInv, BytesAccounted, Apart
<1>5. RegionCaps'
  <2>1. Bytes[experts] \in Nat /\ Bytes[staging] \in Nat
    BY <1>1, PieceAssumption
  <2> QED
    BY <1>1, <1>2, <2>1, ConstantAssumption DEF IInv, RegionCaps, MainCap
<1>6. (Reserved /\ Queueing)'
  BY <1>1 DEF IInv, Reserved, Queueing, Serves
<1> QED
  BY <1>3, <1>4, <1>5, <1>6 DEF IInv

\* The queue holds reservations nobody serves yet, so the worker always goes on
\* to load what it takes.
LEMMA WorkerTakeStep ==
  ASSUME IInv, NEW e \in queue, WorkerTake(e)
  PROVE  IInv'
<1> DEFINE p == e.pid
<1>1. /\ p \in Piece /\ inflight[p] = Worker /\ ~Held(p) /\ at[Worker].op = "idle"
      /\ queue' = queue \ {e}
      /\ \A f \in queue' : f.pid \in Piece \ {p}
  BY DEF IInv, TypeOK, TypeThreads, Queueing, WorkerTake
<1>2. /\ at' = [at EXCEPT ![Worker] = Doing("load", p, Worker)]
      /\ UNCHANGED <<tables, sizes, spec, shutting, inflight, failures>>
  BY <1>1, ConstantAssumption DEF WorkerTake, spec
<1>3. TypeOK'
  <2>1. TypeThreads'
    BY <1>1, <1>2 DEF IInv, TypeOK, TypeThreads, Doing, Op, spec
  <2>2. TypeFlags'
    BY <1>2 DEF IInv, TypeOK, TypeFlags, sizes, shutting
  <2> QED
    BY <1>2, <2>1, <2>2, TablesFrame DEF TypeOK
<1>4. (BytesAccounted /\ RegionCaps /\ Apart)'
  BY <1>2, TablesFrame
<1>5. /\ at'[Worker] = Doing("load", p, Worker)
      /\ \A u \in Thread \ {Worker} : at'[u] = at[u]
      /\ UNCHANGED <<resident, experts, staging, inflight>>
  BY <1>2 DEF IInv, TypeOK, TypeThreads, tables
<1>6. Reserved'
  BY <1>1, <1>5 DEF IInv, Reserved, Doing
<1>7. \A u \in Thread, q \in Piece :
        Serves(u, q)' <=> Serves(u, q) \/ (u = Worker /\ q = p)
  BY <1>1, <1>5 DEF Serves, Doing
<1>8. \A q \in Piece : inflight[q] # None => inflight[q] \in Thread
  BY DEF IInv, TypeOK, TypeThreads
<1>9. Queueing'
  <2>1. \A f \in queue' : inflight'[f.pid] = Worker /\ ~Held(f.pid)' /\ ~Serves(Worker, f.pid)'
    BY <1>1, <1>5, <1>7 DEF IInv, Queueing
  <2>2. \A f, g \in queue' : f.pid = g.pid => f = g
    BY <1>1 DEF IInv, Queueing
  <2>3. \A q \in Piece : inflight'[q] # None =>
          Serves(inflight[q], q)' \/ \E f \in queue' : f.pid = q
    <3> SUFFICES ASSUME NEW q \in Piece, inflight[q] # None
                 PROVE  Serves(inflight[q], q)' \/ \E f \in queue' : f.pid = q
      BY <1>5
    <3>1. CASE q = p
      BY <1>1, <1>5, <3>1 DEF Serves, Doing
    <3>2. CASE q # p
      <4>1. Serves(inflight[q], q) \/ \E f \in queue : f.pid = q
        BY DEF IInv, Queueing
      <4> QED
        BY <1>1, <1>5, <1>8, <3>2, <4>1 DEF Serves
    <3> QED
      BY <3>1, <3>2
  <2> QED
    BY <1>5, <2>1, <2>2, <2>3 DEF Queueing
<1> QED
  BY <1>3, <1>4, <1>6, <1>9 DEF IInv

LEMMA PromoteStep ==
  ASSUME IInv, NEW c \in Client, NEW p \in Piece, Promote(c, p),
         at[c].op \in {"idle", "retry"}
  PROVE  IInv'
<1> DEFINE X == experts \cup {p}
           ord == Touched(older, p, experts)
<1>1. /\ p \in staging /\ p \in Expert /\ p \notin experts
      /\ resident \in SUBSET Piece /\ X \in SUBSET Piece
      /\ staging \in SUBSET Piece /\ {p} \in SUBSET staging
      /\ staging' = staging \ {p} /\ stagingBytes' = stagingBytes - Bytes[{p}]
      /\ split' = TRUE
      /\ mainBytes = Bytes[resident] /\ expertBytes = Bytes[experts]
      /\ stagingBytes = Bytes[staging]
      /\ ord \subseteq Piece \X Piece
  <2>1. ord \subseteq Piece \X Piece
    BY PieceAssumption DEF IInv, TypeOK, TypeOrder, TypeTables, Touched
  <2> QED
    BY <2>1, PieceAssumption
    DEF IInv, TypeOK, TypeTables, BytesAccounted, Apart, Promote
<1>2. expertBytes + Bytes[{p}] = Bytes[X] /\ Bytes[{p}] \in Nat /\ Bytes[experts] \in Nat
  BY <1>1, BytesPlus
<1>3. EvictLocked(p, resident, Bytes[resident], X, Bytes[X], ord)
  BY <1>1, <1>2 DEF Promote
<1>4. /\ resident' \subseteq resident /\ experts' \subseteq X
      /\ mainBytes' = Bytes[resident'] /\ mainBytes' \in Nat
      /\ expertBytes' = Bytes[experts'] /\ expertBytes' \in Nat
      /\ Bytes[resident'] <= MainCap' \/ resident' \subseteq Protected(p)
      /\ Bytes[experts'] <= ExpertCap' \/ experts' \subseteq Protected(p)
      /\ older' \subseteq Piece \X Piece
  BY <1>1, <1>3, EvictEffect
<1>6. /\ stagingBytes' = Bytes[staging'] /\ stagingBytes' \in Nat
      /\ Bytes[staging'] <= Bytes[staging] /\ Bytes[staging] \in Nat
  <2>1. /\ Bytes[staging \ {p}] = Bytes[staging] - Bytes[{p}]
        /\ Bytes[staging] \in Nat /\ Bytes[staging \ {p}] \in Nat
    BY <1>1, BytesMinus
  <2> QED
    BY <1>1, <1>2, <2>1
<1>7. TypeOK'
  <2>1. TypeTables'
    BY <1>1, <1>4, <1>6 DEF IInv, TypeOK, TypeTables, Promote
  <2>2. TypeOrder'
    BY <1>4 DEF TypeOrder
  <2>3. TypeThreads'
    BY ConstantAssumption DEF IInv, TypeOK, TypeThreads, Promote, Idle, Op
  <2>4. TypeFlags'
    BY <1>1 DEF IInv, TypeOK, TypeFlags, Promote, shutting
  <2> QED
    BY <2>1, <2>2, <2>3, <2>4 DEF TypeOK
<1>8. BytesAccounted' /\ Apart'
  BY <1>1, <1>4, <1>6 DEF IInv, BytesAccounted, Apart
<1>9. RegionCaps'
  BY <1>1, <1>4, <1>6, ConstantAssumption
  DEF IInv, RegionCaps, MainCap, ExpertCap, Protected
<1>10. (Reserved /\ Queueing)'
  <2>1. /\ at[c].op \notin {"load", "release"} /\ at'[c].op = "idle"
        /\ \A u \in Thread \ {c} : at'[u] = at[u]
    BY DEF IInv, TypeOK, TypeThreads, Promote, Idle
  <2>2. \A q \in Piece : Held(q)' => Held(q)
    BY <1>1, <1>4
  <2> QED
    BY <2>1, <2>2, QuietStep, ConstantAssumption DEF Promote
<1> QED
  BY <1>7, <1>8, <1>9, <1>10 DEF IInv

\* Landing a piece keeps the reservations in order: only its server loads it and
\* it is not queued.
LEMMA LandFrame ==
  ASSUME IInv, NEW t \in Thread, at[t].op = "load",
         at' = [at EXCEPT ![t].op = "release"],
         UNCHANGED <<inflight, queue>>,
         \A q \in Piece : Held(q)' => Held(q) \/ q = at[t].pid
  PROVE  /\ (Reserved /\ Queueing)'
         /\ at' \in [Thread -> [op : Op, pid : Piece \cup {None}, by : Party]]
<1> DEFINE p == at[t].pid
<1>1. p \in Piece /\ inflight[p] = t /\ at[t].by = t
  BY DEF IInv, Reserved
<1>2. /\ at'[t].op = "release" /\ at'[t].pid = p /\ at'[t].by = t
      /\ \A u \in Thread \ {t} : at'[u] = at[u]
  BY <1>1 DEF IInv, TypeOK, TypeThreads
<1>3. Reserved'
  <2>1. \A u \in Thread \ {t} : at[u].op = "load" => at[u].pid # p
    BY <1>1 DEF IInv, Reserved
  <2> QED
    BY <1>1, <1>2, <2>1 DEF IInv, Reserved
<1>4. \A u \in Thread, q \in Piece : Serves(u, q)' <=> Serves(u, q)
  BY <1>2 DEF Serves
<1>5. \A q \in Piece : inflight[q] # None => inflight[q] \in Thread
  BY DEF IInv, TypeOK, TypeThreads
<1>6. \A e \in queue : e.pid \in Piece /\ e.pid # p
  BY <1>1 DEF IInv, TypeOK, TypeThreads, Queueing, Serves
<1>7. Queueing'
  BY <1>4, <1>5, <1>6 DEF IInv, Queueing
<1> QED
  BY <1>3, <1>7 DEF IInv, TypeOK, TypeThreads, Op

LEMMA LandDemandStep ==
  ASSUME IInv, NEW t \in Thread, LandDemand(t)
  PROVE  IInv'
<1> DEFINE p == at[t].pid
           R == IF p \in Expert THEN resident ELSE resident \cup {p}
           X == IF p \in Expert THEN experts \cup {p} ELSE experts
           ord == Touched(older, p, Region(p))
<1>1. /\ p \in Piece /\ ~Held(p) /\ at[t].op = "load"
      /\ resident \in SUBSET (Piece \ Expert) /\ experts \in SUBSET Expert
      /\ R \in SUBSET (Piece \ Expert) /\ X \in SUBSET Expert
      /\ R \in SUBSET Piece /\ X \in SUBSET Piece
      /\ mainBytes = Bytes[resident] /\ expertBytes = Bytes[experts]
      /\ UNCHANGED <<staging, stagingBytes, inflight, queue>>
  BY PieceAssumption
  DEF IInv, TypeOK, TypeTables, BytesAccounted, Reserved, LandDemand
<1>2. ord \in SUBSET (Piece \X Piece)
  BY <1>1, PieceAssumption DEF IInv, TypeOK, TypeOrder, Touched
<1>3. EvictLocked(p, R, Bytes[R], X, Bytes[X], ord)
  <2>1. CASE p \in Expert
    <3>1. expertBytes + Bytes[{p}] = Bytes[X] /\ mainBytes = Bytes[R]
      BY <1>1, <2>1, BytesPlus
    <3> QED
      BY <2>1, <3>1 DEF LandDemand
  <2>2. CASE p \notin Expert
    <3>1. mainBytes + Bytes[{p}] = Bytes[R] /\ expertBytes = Bytes[X]
      BY <1>1, <2>2, BytesPlus
    <3> QED
      BY <2>2, <3>1 DEF LandDemand
  <2> QED
    BY <2>1, <2>2
<1>4. /\ resident' \subseteq R /\ experts' \subseteq X
      /\ mainBytes' = Bytes[resident'] /\ mainBytes' \in Nat
      /\ expertBytes' = Bytes[experts'] /\ expertBytes' \in Nat
      /\ Bytes[resident'] <= MainCap' \/ resident' \subseteq Protected(p)
      /\ Bytes[experts'] <= ExpertCap' \/ experts' \subseteq Protected(p)
      /\ older' \subseteq Piece \X Piece
  <2> HIDE DEF p, R, X, ord
  <2> QED
    BY <1>1, <1>2, <1>3, EvictEffect
<1>5. /\ (Reserved /\ Queueing)'
      /\ at' \in [Thread -> [op : Op, pid : Piece \cup {None}, by : Party]]
  <2>1. \A q \in Piece : Held(q)' => Held(q) \/ q = p
    BY <1>1, <1>4
  <2>2. at' = [at EXCEPT ![t].op = "release"]
    BY DEF LandDemand
  <2> QED
    BY <1>1, <2>1, <2>2, LandFrame
<1>6. TypeOK'
  <2>1. TypeTables'
    BY <1>1, <1>4 DEF IInv, TypeOK, TypeTables, LandDemand
  <2>2. TypeOrder'
    BY <1>4 DEF TypeOrder
  <2>3. TypeThreads'
    BY <1>1, <1>5 DEF IInv, TypeOK, TypeThreads, LandDemand
  <2>4. TypeFlags'
    BY Zenon DEF IInv, TypeOK, TypeFlags, LandDemand, shutting
  <2> QED
    BY <2>1, <2>2, <2>3, <2>4 DEF TypeOK
<1>7. BytesAccounted' /\ Apart'
  BY <1>1, <1>4 DEF IInv, BytesAccounted, Apart
<1>8. RegionCaps'
  <2>1. Bytes[staging] = stagingBytes /\ stagingBytes \in Nat
    BY DEF IInv, TypeOK, TypeTables, BytesAccounted
  <2>2. Bytes[experts'] \in Nat /\ Bytes[resident'] \in Nat
    BY <1>4
  <2> QED
    BY <1>1, <1>4, <2>1, <2>2, ConstantAssumption
    DEF IInv, RegionCaps, MainCap, ExpertCap, Protected
<1> QED
  BY <1>5, <1>6, <1>7, <1>8 DEF IInv

\* A speculative expert makes room for itself in staging, or is not stored.
LEMMA LandSpeculativeStep ==
  ASSUME IInv, NEW t \in Thread, LandSpeculative(t)
  PROVE  IInv'
<1> DEFINE p == at[t].pid
<1>1. /\ p \in Piece /\ p \in Expert /\ ~Held(p) /\ at[t].op = "load"
      /\ resident \in SUBSET (Piece \ Expert) /\ experts \in SUBSET Expert
      /\ resident \in SUBSET Piece /\ experts \in SUBSET Piece
      /\ staging \in SUBSET Expert /\ staging \in SUBSET Piece
      /\ mainBytes = Bytes[resident] /\ expertBytes = Bytes[experts]
      /\ stagingBytes = Bytes[staging] /\ Bytes[staging] \in Nat
      /\ unsettled \in Int /\ older \in SUBSET (Piece \X Piece)
      /\ UNCHANGED <<inflight, queue>>
  BY PieceAssumption
  DEF IInv, TypeOK, TypeTables, TypeThreads, TypeOrder, BytesAccounted, Reserved,
      LandSpeculative
<1>2. PICK D \in SUBSET staging, ord \in SUBSET (Piece \X Piece) :
        /\ \/ D = {} /\ staging' = staging
           \/ staging' = (staging \ D) \cup {p}
        /\ stagingBytes' = Bytes[staging'] /\ Bytes[staging'] \in Nat
        /\ Bytes[staging'] <= StagingCap
        /\ age' \in [Piece -> {0, 1}] /\ unsettled' \in Int
        /\ EvictLocked(p, resident, Bytes[resident], experts, Bytes[experts], ord)
  <2>1. CASE Bytes[{p}] > StagingCap
    <3>1. Bytes[staging] <= StagingCap
      BY DEF IInv, RegionCaps
    <3>2. /\ EvictLocked(p, resident, Bytes[resident], experts, Bytes[experts], older)
          /\ UNCHANGED <<staging, stagingBytes, age>> /\ unsettled' = unsettled - 1
      BY <1>1, <2>1 DEF LandSpeculative, Stage
    <3>3. age' \in [Piece -> {0, 1}]
      BY <3>2 DEF IInv, TypeOK, TypeTables
    <3> older \in SUBSET (Piece \X Piece)
      BY <1>1
    <3> WITNESS {} \in SUBSET staging, older \in SUBSET (Piece \X Piece)
    <3> QED
      BY <1>1, <3>1, <3>2, <3>3
  <2>2. CASE ~(Bytes[{p}] > StagingCap)
    <3>1. PICK D \in Victims(staging, {}, older, stagingBytes, StagingCap - Bytes[{p}]) :
            /\ staging' = (staging \ D) \cup {p}
            /\ stagingBytes' = stagingBytes - Bytes[D] + Bytes[{p}]
            /\ age' = [q \in Piece |-> IF q \in D \cup {p} THEN 0 ELSE age[q]]
            /\ unsettled' = unsettled - Cardinality(D)
            /\ EvictLocked(p, resident, mainBytes, experts, expertBytes,
                           Touched(Without(older, D), p, staging \ D))
      BY <2>2 DEF LandSpeculative, Stage
    <3>2. /\ D \in SUBSET staging
          /\ Bytes[staging] - Bytes[D] <= StagingCap - Bytes[{p}] \/ D = staging
      BY <1>1 DEF Victims
    <3>3. /\ Bytes[staging \ D] = Bytes[staging] - Bytes[D]
          /\ Bytes[D] \in Nat /\ Bytes[staging \ D] \in Nat
      BY <1>1, <3>2, BytesMinus
    <3>4. /\ Bytes[(staging \ D) \cup {p}] = Bytes[staging \ D] + Bytes[{p}]
          /\ Bytes[{p}] \in Nat
      BY <1>1, <3>2, BytesPlus
    <3>5. D = staging => Bytes[staging \ D] = 0
      BY PieceAssumption
    <3>6. Cardinality(D) \in Nat
      <4>1. IsFiniteSet(D)
        BY <1>1, <3>2, PieceAssumption, FS_Subset
      <4> QED
        BY <4>1, FS_CardinalityType
    <3>7. Touched(Without(older, D), p, staging \ D) \in SUBSET (Piece \X Piece)
      BY <1>1 DEF Touched, Without
    <3>8. age' \in [Piece -> {0, 1}]
      BY <3>1 DEF IInv, TypeOK, TypeTables
    <3>9. stagingBytes' = Bytes[staging'] /\ Bytes[staging'] \in Nat
          /\ Bytes[staging'] <= StagingCap
      BY <1>1, <2>2, <3>1, <3>2, <3>3, <3>4, <3>5, ConstantAssumption
    <3>10. EvictLocked(p, resident, Bytes[resident], experts, Bytes[experts],
                       Touched(Without(older, D), p, staging \ D))
      BY <1>1, <3>1
    <3>11. unsettled' \in Int
      BY <1>1, <3>1, <3>6
    <3> QED
      BY <3>1, <3>2, <3>7, <3>8, <3>9, <3>10, <3>11
  <2> QED
    BY <2>1, <2>2
<1>3. /\ resident' \subseteq resident /\ experts' \subseteq experts
      /\ mainBytes' = Bytes[resident'] /\ mainBytes' \in Nat
      /\ expertBytes' = Bytes[experts'] /\ expertBytes' \in Nat
      /\ Bytes[resident'] <= MainCap' \/ resident' \subseteq Protected(p)
      /\ Bytes[experts'] <= ExpertCap' \/ experts' \subseteq Protected(p)
      /\ older' \subseteq Piece \X Piece
  BY <1>1, <1>2, EvictEffect
<1>4. /\ (Reserved /\ Queueing)'
      /\ at' \in [Thread -> [op : Op, pid : Piece \cup {None}, by : Party]]
  <2>1. \A q \in Piece : Held(q)' => Held(q) \/ q = p
    BY <1>1, <1>2, <1>3
  <2>2. at' = [at EXCEPT ![t].op = "release"]
    BY DEF LandSpeculative
  <2> QED
    BY <1>1, <2>1, <2>2, LandFrame
<1>5. TypeOK'
  <2>1. TypeTables'
    BY <1>1, <1>2, <1>3 DEF TypeTables
  <2>2. TypeOrder'
    BY <1>3 DEF TypeOrder
  <2>3. TypeThreads'
    BY <1>1, <1>2, <1>4 DEF IInv, TypeOK, TypeThreads, LandSpeculative
  <2>4. TypeFlags'
    BY DEF IInv, TypeOK, TypeFlags, LandSpeculative, shutting
  <2> QED
    BY <2>1, <2>2, <2>3, <2>4 DEF TypeOK
<1>6. BytesAccounted' /\ Apart'
  BY <1>1, <1>2, <1>3 DEF IInv, BytesAccounted, Apart
<1>7. RegionCaps'
  BY <1>1, <1>2, <1>3, ConstantAssumption DEF RegionCaps, MainCap, ExpertCap, Protected
<1> QED
  BY <1>4, <1>5, <1>6, <1>7 DEF IInv

------------------------------------------------------------------------------
(* The theorems. *)

LEMMA NextIInv == IInv /\ [Next]_vars => IInv'
<1> SUFFICES ASSUME IInv, [Next]_vars PROVE IInv'
  OBVIOUS
<1>1. ASSUME NEW c \in Client, NEW p \in Piece, GetSection(c, p),
             at[c].op \in {"idle", "retry"}
      PROVE  IInv'
  BY <1>1, HitStep, PromoteStep, OwnStep, JoinStep DEF GetSection
<1>2. ASSUME NEW t \in Thread, Materialize(t)
      PROVE  IInv'
  BY <1>2, LandSpeculativeStep, LandDemandStep, FailStep, ReleaseStep DEF Materialize
<1>3. ASSUME NEW c \in Client, Call(c)
      PROVE  IInv'
  <2>1. CASE \E p \in Piece : Get(c, p)
    BY <1>1, <2>1 DEF Get
  <2>2. CASE \E P \in SUBSET Piece, speculative \in BOOLEAN : Prefetch(c, P, speculative)
    BY <2>2, PrefetchStep
  <2>3. CASE BeginPass(c)
    BY <2>3, BeginPassStep
  <2>4. CASE Close(c)
    BY <2>4, ShutdownStep
  <2> QED
    BY <1>3, <2>1, <2>2, <2>3, <2>4 DEF Call
<1>4. ASSUME NEW c \in Client, ClientStep(c)
      PROVE  IInv'
  <2>1. CASE Retry(c)
    BY <1>1, <2>1 DEF Retry, IInv, Reserved
  <2>2. CASE Materialize(c)
    BY <1>2, <2>2
  <2>3. CASE Wake(c) \/ PutSentinel(c) \/ JoinWorker(c)
    BY <2>3, WakeStep, ShutdownStep
  <2> QED
    BY <1>4, <2>1, <2>2, <2>3 DEF ClientStep
<1>5. CASE WorkerStep
  <2>1. CASE WorkerStop
    BY <2>1, ShutdownStep
  <2> QED
    BY <1>2, <1>5, <2>1, WorkerTakeStep DEF WorkerStep
<1>6. CASE \E p \in Piece : Warmed(p)
  BY <1>6, WarmedStep
<1>7. CASE UNCHANGED vars
  BY <1>7
  DEF vars, tables, sizes, spec, shutting, IInv, TypeOK, TypeTables, TypeOrder,
      TypeThreads, TypeFlags, BytesAccounted, RegionCaps, MainCap, Apart, Reserved,
      Queueing, Serves
<1> QED
  BY <1>3, <1>4, <1>5, <1>6, <1>7 DEF Next

\* IInv holds in every state: it is what each of the three theorems below is read
\* off.
LEMMA Inductive == Spec => []IInv
  BY InitIInv, NextIInv, PTL DEF Spec

\* Every variable of the cache keeps its shape.
THEOREM TypeCorrect == Spec => []TypeOK
<1>1. IInv => TypeOK
  BY DEF IInv
<1> QED
  BY <1>1, Inductive, PTL

\* The byte counters never drift from the tables they count, for any sizes of
\* pieces and any interleaving of callers and worker.
THEOREM BytesNeverDrift == Spec => []BytesAccounted
<1>1. IInv => BytesAccounted
  BY DEF IInv
<1> QED
  BY <1>1, Inductive, PTL

\* No region ever exceeds its share but for pinned pieces and the piece at hand.
THEOREM RegionsWithinShare == Spec => []RegionCaps
<1>1. IInv => RegionCaps
  BY DEF IInv
<1> QED
  BY <1>1, Inductive, PTL

\* Loads are de-duplicated and no waiter is stranded on a lost Event, for any
\* number of threads and of failing loads.
THEOREM LoadsDeduplicated == Spec => []EachLoadedOnce
<1>1. ASSUME IInv PROVE EachLoadedOnce
  <2> SUFFICES ASSUME NEW p \in Piece
               PROVE
      /\ \A t, u \in Thread : Serves(t, p) /\ Serves(u, p) => t = u
      /\ (\E e \in queue : e.pid = p) => \A t \in Thread : ~Serves(t, p)
      /\ inflight[p] # None <=>
           ((\E t \in Thread : Serves(t, p)) \/ \E e \in queue : e.pid = p)
      /\ \A t \in Thread : at[t].op = "load" /\ at[t].pid = p => ~Held(p)
      /\ \A t \in Thread :
           at[t].op = "wait" /\ at[t].pid = p => inflight[p] = at[t].by
    BY DEF EachLoadedOnce
  <2>1. \A t \in Thread : Serves(t, p) => inflight[p] = t
    BY <1>1 DEF IInv, Reserved, Serves
  <2>2. \A e \in queue : e.pid = p => inflight[p] = Worker /\ ~Serves(Worker, p)
    BY <1>1 DEF IInv, Queueing
  <2>3. inflight[p] # None =>
          ((\E t \in Thread : Serves(t, p)) \/ \E e \in queue : e.pid = p)
    BY <1>1 DEF IInv, TypeOK, TypeThreads, Queueing
  <2>4. None \notin Thread
    BY ConstantAssumption
  <2>5. /\ \A t \in Thread : at[t].op = "load" /\ at[t].pid = p => ~Held(p)
        /\ \A t \in Thread :
             at[t].op = "wait" /\ at[t].pid = p => inflight[p] = at[t].by
    BY <1>1 DEF IInv, Reserved
  <2>6. (\E e \in queue : e.pid = p) => \A t \in Thread : ~Serves(t, p)
    BY <2>1, <2>2
  <2>7. (\E t \in Thread : Serves(t, p)) \/ (\E e \in queue : e.pid = p)
          => inflight[p] # None
    BY <2>1, <2>2, <2>4
  <2> QED
    BY <2>1, <2>3, <2>5, <2>6, <2>7
<1> QED
  BY <1>1, Inductive, PTL

\* Eviction drops no pinned piece, whatever tables it runs on.
LEMMA EvictKeepsPinned ==
  ASSUME NEW p, NEW R, NEW mb, NEW X, NEW eb, NEW ord,
         EvictLocked(p, R, mb, X, eb, ord)
  PROVE  Pinned \cap (R \cup X) \subseteq resident' \cup experts'
  BY DEF EvictLocked, Victims, Protected

\* No step drops a pinned piece from its table.
THEOREM PinnedNeverDropped == Spec => PinnedStay
<1> DEFINE Kept == Pinned \cap (resident \cup experts) \subseteq resident' \cup experts'
<1>1. ASSUME NEW c \in Client, NEW p \in Piece, GetSection(c, p) PROVE Kept
  <2>1. CASE Promote(c, p)
    <3>1. Pinned \cap (resident \cup (experts \cup {p})) \subseteq resident' \cup experts'
      BY <2>1, EvictKeepsPinned DEF Promote
    <3> QED
      BY <3>1
  <2> QED
    BY <1>1, <2>1 DEF GetSection, Hit, Own, Join, tables
<1>2. ASSUME NEW t \in Thread, Materialize(t) PROVE Kept
  <2> DEFINE p == at[t].pid
  <2>1. CASE LandSpeculative(t)
    BY <2>1, EvictKeepsPinned DEF LandSpeculative, Stage
  <2>2. CASE LandDemand(t)
    <3>1. \/ Pinned \cap (resident \cup (experts \cup {p})) \subseteq resident' \cup experts'
          \/ Pinned \cap ((resident \cup {p}) \cup experts) \subseteq resident' \cup experts'
      BY <2>2, EvictKeepsPinned DEF LandDemand
    <3> QED
      BY <3>1
  <2> QED
    BY <1>2, <2>1, <2>2 DEF Materialize, Fail, Release, tables
<1>3. ASSUME IInv, [Next]_vars PROVE Kept
  <2>1. ASSUME NEW c \in Client, Call(c) PROVE Kept
    BY <1>1, <2>1 DEF Call, Get, Prefetch, BeginPass, Close, tables
  <2>2. ASSUME NEW c \in Client, ClientStep(c) PROVE Kept
    BY <1>1, <1>2, <1>3, <2>2
    DEF ClientStep, Wake, Retry, PutSentinel, JoinWorker, tables, IInv, Reserved
  <2>3. CASE WorkerStep
    BY <1>2, <2>3 DEF WorkerStep, WorkerStop, WorkerTake, tables
  <2> QED
    BY <1>3, <2>1, <2>2, <2>3 DEF Next, Warmed, vars, tables
<1> QED
  BY <1>3, Inductive, PTL DEF Spec, PinnedStay

------------------------------------------------------------------------------
(* Guesses. *)

\* Counting sets of pieces.
LEMMA CountIs ==
  ASSUME NEW S \in SUBSET Piece
  PROVE  IsFiniteSet(S) /\ Cardinality(S) \in Nat
BY PieceAssumption, FS_Subset, FS_CardinalityType

LEMMA CountMinus ==
  ASSUME NEW S \in SUBSET Piece, NEW V \in SUBSET S
  PROVE  Cardinality(S \ V) = Cardinality(S) - Cardinality(V)
<1>1. S \cap V = V /\ IsFiniteSet(S)
  BY CountIs
<1> QED
  BY <1>1, FS_Difference

LEMMA CountPlus ==
  ASSUME NEW S \in SUBSET Piece, NEW V \in SUBSET Piece, S \cap V = {}
  PROVE  Cardinality(S \cup V) = Cardinality(S) + Cardinality(V)
<1>1. /\ IsFiniteSet(S) /\ IsFiniteSet(V)
      /\ Cardinality(S) \in Nat /\ Cardinality(V) \in Nat
  BY CountIs
<1>2. Cardinality(S \cup V) = Cardinality(S) + Cardinality(V) - Cardinality(S \cap V)
  BY <1>1, FS_Union
<1>3. Cardinality(S \cap V) = 0
  BY FS_EmptySet
<1> QED
  BY <1>1, <1>2, <1>3

LEMMA CountOne == ASSUME NEW p PROVE Cardinality({p}) = 1
BY FS_Singleton

LEMMA CountLess ==
  ASSUME NEW S \in SUBSET Piece, NEW p \in S
  PROVE  Cardinality(S \ {p}) = Cardinality(S) - 1
<1>1. {p} \in SUBSET S
  OBVIOUS
<1>2. Cardinality(S \ {p}) = Cardinality(S) - Cardinality({p})
  BY <1>1, CountMinus
<1> QED
  BY <1>2, CountOne

\* While no load has raised, each guess that is pending is the worker's to load and
\* not yet loaded; so the count is exact, and no caller's load is taken for a guess.
Guessing ==
  failures = 0 =>
    /\ unsettled = Cardinality(specPending) + Cardinality(staging)
    /\ \A p \in specPending : inflight[p] = Worker
    /\ \A t \in Thread : at[t].op = "release" => at[t].pid \notin specPending
    /\ \A c \in Client : at[c].op = "release" => at[c].pid \notin staging

\* A section that leaves the guesses alone.
LEMMA GuessFrame ==
  ASSUME IInv, Guessing, failures' = failures,
         UNCHANGED <<specPending, unsettled, staging>>,
         \A p \in specPending : inflight[p] = Worker => inflight'[p] = Worker,
         \A t \in Thread : at'[t].op = "release" => at[t].op = "release" /\ at'[t] = at[t]
  PROVE  Guessing'
BY DEF Guessing

LEMMA GuessSection ==
  ASSUME IInv, Guessing, NEW c \in Client, NEW p \in Piece, GetSection(c, p),
         at[c].op \in {"idle", "retry"}
  PROVE  Guessing'
<1>1. at \in [Thread -> [op : Op, pid : Piece \cup {None}, by : Party]]
  BY DEF IInv, TypeOK, TypeThreads
<1>2. /\ staging \in SUBSET Piece /\ specPending \in SUBSET Piece /\ unsettled \in Int
  BY PieceAssumption DEF IInv, TypeOK, TypeThreads, TypeTables
<1>3. CASE Hit(c, p)
  <2>1. /\ UNCHANGED <<specPending, unsettled, staging, inflight, failures>>
        /\ \A t \in Thread : at'[t].op = "release" => at'[t] = at[t]
    BY <1>1, <1>3 DEF Hit, spec, Idle
  <2> QED
    BY <2>1, GuessFrame
<1>4. CASE Own(c, p)
  <2>1. /\ UNCHANGED <<specPending, unsettled, staging, failures>>
        /\ \A t \in Thread : at'[t].op = "release" => at'[t] = at[t]
    BY <1>1, <1>4 DEF Own, spec, Doing, tables
  <2>2. \A q \in Piece : inflight[q] = Worker => inflight'[q] = Worker
    BY <1>4, ConstantAssumption DEF Own, IInv, TypeOK, TypeThreads
  <2> QED
    BY <1>2, <2>1, <2>2, GuessFrame
<1>5. CASE Join(c, p)
  <2>1. /\ UNCHANGED <<staging, inflight, failures>>
        /\ specPending' = specPending \ {p}
        /\ unsettled' = IF p \in specPending THEN unsettled - 1 ELSE unsettled
        /\ \A t \in Thread : at'[t].op = "release" => at'[t] = at[t]
    BY <1>1, <1>5 DEF Join, Doing, tables
  <2>2. Cardinality(specPending) \in Nat /\ Cardinality(staging) \in Nat
    BY <1>2, CountIs
  <2>3. CASE p \in specPending
    <3>1. Cardinality(specPending') = Cardinality(specPending) - 1
      BY <1>2, <2>1, <2>3, CountLess
    <3>2. unsettled' = unsettled - 1
      BY <2>1, <2>3
    <3> QED
      BY <1>2, <2>1, <2>2, <3>1, <3>2 DEF Guessing
  <2>4. CASE p \notin specPending
    <3>1. specPending' = specPending /\ unsettled' = unsettled
      BY <2>1, <2>4
    <3> QED
      BY <2>1, <3>1 DEF Guessing
  <2> QED
    BY <2>3, <2>4
<1>6. CASE Promote(c, p)
  <2>1. /\ UNCHANGED <<specPending, inflight, failures>>
        /\ p \in staging /\ staging' = staging \ {p} /\ unsettled' = unsettled - 1
        /\ \A t \in Thread : at'[t].op = "release" => at'[t] = at[t]
    BY <1>1, <1>6 DEF Promote, Idle
  <2>2. Cardinality(staging') = Cardinality(staging) - 1
    BY <1>2, <2>1, CountLess
  <2>3. Cardinality(specPending) \in Nat /\ Cardinality(staging) \in Nat
    BY <1>2, CountIs
  <2> QED
    BY <1>2, <2>1, <2>2, <2>3 DEF Guessing
<1> QED
  BY <1>3, <1>4, <1>5, <1>6 DEF GetSection

LEMMA GuessLands ==
  ASSUME IInv, Guessing, NEW t \in Thread, LandSpeculative(t)
  PROVE  Guessing'
<1> DEFINE p == at[t].pid
<1>1. /\ at \in [Thread -> [op : Op, pid : Piece \cup {None}, by : Party]]
      /\ at[t].op = "load" /\ p \in Piece /\ inflight[p] = t /\ p \notin staging
  BY DEF IInv, TypeOK, TypeThreads, Reserved, LandSpeculative
<1>2. /\ staging \in SUBSET Piece /\ specPending \in SUBSET Piece /\ unsettled \in Int
  BY PieceAssumption DEF IInv, TypeOK, TypeThreads, TypeTables
<1>3. /\ p \in specPending /\ specPending' = specPending \ {p} /\ Stage(p)
      /\ UNCHANGED <<inflight, failures>>
      /\ at' = [at EXCEPT ![t].op = "release"]
  BY DEF LandSpeculative
<1>4. /\ at'[t].op = "release" /\ at'[t].pid = p
      /\ \A u \in Thread \ {t} : at'[u] = at[u]
  BY <1>1, <1>3
<1> HIDE DEF p
<1> SUFFICES ASSUME failures = 0 PROVE Guessing'
  BY <1>3 DEF Guessing
<1>5. /\ unsettled = Cardinality(specPending) + Cardinality(staging)
      /\ \A q \in specPending : inflight[q] = Worker
      /\ \A u \in Thread : at[u].op = "release" => at[u].pid \notin specPending
      /\ \A c \in Client : at[c].op = "release" => at[c].pid \notin staging
  BY DEF Guessing
<1>6. t = Worker
  BY <1>1, <1>3, <1>5
<1>7. Cardinality(specPending') = Cardinality(specPending) - 1
  BY <1>2, <1>3, CountLess
<1>8. /\ Cardinality(specPending) \in Nat /\ Cardinality(staging) \in Nat
  BY <1>2, CountIs
<1>9. \A u \in Thread : at'[u].op = "release" => at'[u].pid \notin specPending'
  BY <1>3, <1>4, <1>5
<1>10. \A c \in Client : at'[c].op = "release" => at'[c] = at[c] /\ at[c].pid # p
  <2>1. ASSUME NEW c \in Client, at'[c].op = "release" PROVE at'[c] = at[c] /\ at[c].pid # p
    <3>1. c # Worker /\ c \in Thread \ {t}
      BY <1>6, ConstantAssumption
    <3>2. at'[c] = at[c] /\ at[c].op = "release"
      BY <1>4, <2>1, <3>1
    <3>3. inflight[at[c].pid] = c
      BY <3>1, <3>2 DEF IInv, Reserved
    <3> QED
      BY <1>1, <1>6, <3>1, <3>2, <3>3
  <2> QED
    BY <2>1
<1>11. CASE Bytes[{p}] > StagingCap
  <2>1. staging' = staging /\ unsettled' = unsettled - 1
    BY <1>3, <1>11 DEF Stage
  <2>2. unsettled' = Cardinality(specPending') + Cardinality(staging')
    BY <1>5, <1>7, <1>8, <2>1
  <2>3. \A c \in Client : at'[c].op = "release" => at'[c].pid \notin staging'
    BY <1>5, <1>10, <2>1
  <2> QED
    BY <1>3, <1>5, <1>9, <2>2, <2>3 DEF Guessing
<1>12. CASE ~(Bytes[{p}] > StagingCap)
  <2>1. PICK D \in SUBSET staging :
          /\ staging' = (staging \ D) \cup {p} /\ unsettled' = unsettled - Cardinality(D)
    BY <1>3, <1>12 DEF Stage, Victims
  <2>2. Cardinality(staging \ D) = Cardinality(staging) - Cardinality(D)
    BY <1>2, CountMinus
  <2>3. Cardinality(staging') = Cardinality(staging \ D) + 1
    <3>1. (staging \ D) \cap {p} = {} /\ {p} \in SUBSET Piece /\ staging \ D \in SUBSET Piece
      BY <1>1, <1>2
    <3> QED
      BY <2>1, <3>1, CountPlus, CountOne
  <2>4. Cardinality(D) \in Nat
    BY <1>2, CountIs
  <2>5. unsettled' = Cardinality(specPending') + Cardinality(staging')
    BY <1>5, <1>7, <1>8, <2>1, <2>2, <2>3, <2>4
  <2>6. \A c \in Client : at'[c].op = "release" => at'[c].pid \notin staging'
    BY <1>5, <1>10, <2>1
  <2> QED
    BY <1>3, <1>5, <1>9, <2>5, <2>6 DEF Guessing
<1> QED
  BY <1>11, <1>12

LEMMA GuessDemand ==
  ASSUME IInv, Guessing, NEW t \in Thread, LandDemand(t)
  PROVE  Guessing'
<1> DEFINE p == at[t].pid
<1>1. /\ at \in [Thread -> [op : Op, pid : Piece \cup {None}, by : Party]]
      /\ at[t].op = "load" /\ p \in Piece /\ p \notin staging /\ specPending \subseteq Expert
  BY DEF IInv, TypeOK, TypeThreads, Reserved, LandDemand
<1>2. p \notin specPending /\ specPending' = specPending
  BY <1>1 DEF LandDemand
<1>3. UNCHANGED <<unsettled, staging, inflight, failures>>
  BY DEF LandDemand
<1>4. /\ at'[t].pid = p
      /\ \A u \in Thread \ {t} : at'[u] = at[u]
  BY <1>1 DEF LandDemand
<1> HIDE DEF p
<1>5. \A u \in Thread : at'[u].op = "release" => u = t \/ at'[u] = at[u]
  BY <1>4
<1> QED
  BY <1>1, <1>2, <1>3, <1>4, <1>5 DEF Guessing

LEMMA GuessRelease ==
  ASSUME IInv, Guessing, NEW t \in Thread, Release(t)
  PROVE  Guessing'
<1> DEFINE p == at[t].pid
<1>1. /\ at \in [Thread -> [op : Op, pid : Piece \cup {None}, by : Party]]
      /\ inflight \in [Piece -> Party] /\ specPending \subseteq Piece
      /\ at[t].op = "release" /\ p \in Piece
  BY PieceAssumption DEF IInv, TypeOK, TypeThreads, Reserved, Release
<1>2. /\ inflight' = [inflight EXCEPT ![p] = None]
      /\ UNCHANGED <<specPending, unsettled, staging, failures>>
      /\ at' = Signalled(t, p, at[t].by)
  BY DEF Release, spec, tables
<1> HIDE DEF p
<1>3. \A u \in Thread : at'[u].op = "release" => at'[u] = at[u]
  BY <1>2 DEF Signalled, Idle, Doing
<1> SUFFICES ASSUME failures = 0 PROVE Guessing'
  BY <1>2 DEF Guessing
<1>4. p \notin specPending
  BY <1>1 DEF Guessing, p
<1>5. \A q \in specPending : inflight'[q] = Worker
  BY <1>1, <1>2, <1>4 DEF Guessing
<1> QED
  BY <1>2, <1>3, <1>5 DEF Guessing

LEMMA GuessPrefetch ==
  ASSUME IInv, Guessing, NEW c \in Client, NEW P \in SUBSET Piece,
         NEW speculative \in BOOLEAN, Prefetch(c, P, speculative)
  PROVE  Guessing'
<1> DEFINE new == {p \in P : Reservable(p)}
<1>1. /\ staging \in SUBSET Piece /\ specPending \in SUBSET Piece /\ unsettled \in Int
  BY PieceAssumption DEF IInv, TypeOK, TypeThreads, TypeTables
<1>2. /\ inflight' = [p \in Piece |-> IF p \in new THEN Worker ELSE inflight[p]]
      /\ UNCHANGED <<staging, at, failures>>
  BY DEF Prefetch, tables
<1>3. /\ new \in SUBSET Piece
      /\ \A p \in new : inflight[p] = None
      /\ \A t \in Thread : at[t].op = "release" => at[t].pid \notin new
  BY ConstantAssumption DEF Reservable, IInv, Reserved
<1>4. CASE speculative
  <2>1. specPending' = specPending \cup new /\ unsettled' = unsettled + Cardinality(new)
    BY <1>4 DEF Prefetch
  <2> HIDE DEF new
  <2> SUFFICES ASSUME failures = 0 PROVE Guessing'
    BY <1>2 DEF Guessing
  <2>2. \A p \in specPending : inflight[p] = Worker
    BY DEF Guessing
  <2>3. specPending \cap new = {}
    BY <1>3, <2>2, ConstantAssumption
  <2>4. Cardinality(specPending') = Cardinality(specPending) + Cardinality(new)
    BY <1>1, <1>3, <2>1, <2>3, CountPlus
  <2>5. /\ Cardinality(specPending) \in Nat /\ Cardinality(staging) \in Nat
        /\ Cardinality(new) \in Nat
    BY <1>1, <1>3, CountIs
  <2>6. unsettled' = Cardinality(specPending') + Cardinality(staging')
    BY <1>2, <2>1, <2>4, <2>5 DEF Guessing
  <2>7. \A p \in specPending' : inflight'[p] = Worker
    BY <1>1, <1>2, <1>3, <2>1, <2>2
  <2> QED
    BY <1>2, <1>3, <2>1, <2>6, <2>7 DEF Guessing
<1>5. CASE ~speculative
  <2>1. specPending' = specPending /\ unsettled' = unsettled
    BY <1>5 DEF Prefetch, spec
  <2>2. \A p \in specPending : inflight[p] = Worker => inflight'[p] = Worker
    BY <1>1, <1>2
  <2> HIDE DEF new
  <2> QED
    BY <1>2, <2>1, <2>2, GuessFrame
<1> QED
  BY <1>4, <1>5

LEMMA GuessPass ==
  ASSUME IInv, Guessing, NEW c \in Client, BeginPass(c)
  PROVE  Guessing'
<1>1. /\ staging \in SUBSET Piece /\ specPending \in SUBSET Piece /\ unsettled \in Int
      /\ Expired \in SUBSET staging
  BY PieceAssumption DEF IInv, TypeOK, TypeThreads, TypeTables, Expired
<1>2. /\ staging' = staging \ Expired /\ unsettled' = unsettled - Cardinality(Expired)
      /\ UNCHANGED <<specPending, inflight, at, failures>>
  BY DEF BeginPass
<1>3. Cardinality(staging') = Cardinality(staging) - Cardinality(Expired)
  BY <1>1, <1>2, CountMinus
<1>4. /\ Cardinality(specPending) \in Nat /\ Cardinality(staging) \in Nat
      /\ Cardinality(Expired) \in Nat
  BY <1>1, CountIs
<1> SUFFICES ASSUME failures = 0 PROVE Guessing'
  BY <1>2 DEF Guessing
<1>5. unsettled' = Cardinality(specPending') + Cardinality(staging')
  BY <1>1, <1>2, <1>3, <1>4 DEF Guessing
<1> QED
  BY <1>2, <1>5 DEF Guessing

LEMMA GuessTake ==
  ASSUME IInv, Guessing, NEW e \in queue, WorkerTake(e)
  PROVE  Guessing'
<1>1. /\ at \in [Thread -> [op : Op, pid : Piece \cup {None}, by : Party]]
      /\ inflight[e.pid] = Worker /\ ~Held(e.pid)
  BY DEF IInv, TypeOK, TypeThreads, Queueing
<1>2. inflight[e.pid] # None
  BY <1>1, ConstantAssumption
<1>3. /\ at' = [at EXCEPT ![Worker] = Doing("load", e.pid, inflight[e.pid])]
      /\ UNCHANGED <<inflight, specPending, unsettled, staging, failures>>
  BY <1>1, <1>2 DEF WorkerTake, tables
<1>4. \A t \in Thread : at'[t].op = "release" => at'[t] = at[t]
  BY <1>1, <1>3 DEF Doing
<1> QED
  BY <1>3, <1>4, GuessFrame

LEMMA GuessNext == ASSUME IInv, Guessing, [Next]_vars PROVE Guessing'
<1>1. at \in [Thread -> [op : Op, pid : Piece \cup {None}, by : Party]]
  BY DEF IInv, TypeOK, TypeThreads
<1>2. ASSUME NEW t \in Thread, Materialize(t) PROVE Guessing'
  <2>1. ASSUME Fail(t) PROVE Guessing'
    <3>1. failures' # 0
      BY <2>1 DEF Fail, IInv, TypeOK, TypeThreads
    <3> QED
      BY <3>1 DEF Guessing
  <2> QED
    BY <1>2, <2>1, GuessLands, GuessDemand, GuessRelease DEF Materialize
<1>3. ASSUME NEW c \in Client,
             Wake(c) \/ PutSentinel(c) \/ JoinWorker(c) \/ Close(c) \/ WorkerStop
      PROVE  Guessing'
  <2>1. UNCHANGED <<specPending, unsettled, staging, inflight, failures>>
    BY <1>3 DEF Wake, PutSentinel, JoinWorker, Close, WorkerStop, spec, tables
  <2>2. \A t \in Thread : at'[t].op = "release" => at'[t] = at[t]
    BY <1>1, <1>3 DEF Wake, PutSentinel, JoinWorker, Close, WorkerStop, Doing, Idle
  <2> QED
    BY <2>1, <2>2, GuessFrame
<1>4. ASSUME WorkerStop PROVE Guessing'
  <2>1. UNCHANGED <<specPending, unsettled, staging, inflight, failures>>
    BY <1>4 DEF WorkerStop, spec, tables
  <2>2. \A t \in Thread : at'[t].op = "release" => at'[t] = at[t]
    BY <1>1, <1>4 DEF WorkerStop, Doing
  <2> QED
    BY <2>1, <2>2, GuessFrame
<1>5. ASSUME NEW c \in Client, Call(c) PROVE Guessing'
  <2>1. ASSUME NEW p \in Piece, Get(c, p) PROVE Guessing'
    BY <2>1, GuessSection DEF Get
  <2>2. ASSUME NEW P \in SUBSET Piece, NEW speculative \in BOOLEAN,
               Prefetch(c, P, speculative)
        PROVE  Guessing'
    BY <2>2, GuessPrefetch
  <2> QED
    BY <1>3, <1>5, <2>1, <2>2, GuessPass DEF Call
<1>6. ASSUME NEW c \in Client, Retry(c) PROVE Guessing'
  <2>1. at[c].op = "retry" /\ at[c].pid \in Piece /\ GetSection(c, at[c].pid)
    BY <1>6 DEF Retry, IInv, Reserved
  <2> QED
    BY <2>1, GuessSection
<1>7. ASSUME NEW p \in Piece, Warmed(p) PROVE Guessing'
  <2>1. UNCHANGED <<specPending, unsettled, staging, inflight, failures, at>>
    BY <1>7 DEF Warmed, spec, tables
  <2> QED
    BY <2>1, GuessFrame
<1>8. ASSUME UNCHANGED vars PROVE Guessing'
  <2>1. UNCHANGED <<specPending, unsettled, staging, inflight, failures, at>>
    BY <1>8 DEF vars, spec, tables
  <2> QED
    BY <2>1, GuessFrame
<1>9. ASSUME NEW c \in Client, ClientStep(c) PROVE Guessing'
  BY <1>2, <1>3, <1>6, <1>9 DEF ClientStep
<1>10. ASSUME WorkerStep PROVE Guessing'
  BY <1>2, <1>4, <1>10, GuessTake DEF WorkerStep
<1> QED
  BY <1>5, <1>7, <1>8, <1>9, <1>10 DEF Next

LEMMA AlwaysGuessing == Spec => []Guessing
<1>1. Init => Guessing
  <2>1. ASSUME Init PROVE Cardinality(specPending) = 0 /\ Cardinality(staging) = 0
    BY <2>1, FS_EmptySet DEF Init
  <2>2. ASSUME Init PROVE \A t \in Thread : at[t].op # "release"
    BY <2>2 DEF Init, Idle
  <2>3. ASSUME Init PROVE unsettled = 0 /\ specPending = {}
    BY <2>3 DEF Init
  <2>4. ASSUME Init PROVE Guessing
    BY <2>1, <2>2, <2>3, <2>4 DEF Guessing
  <2> QED
    BY <2>4
<1>2. IInv /\ Guessing /\ [Next]_vars => Guessing'
  BY GuessNext
<1> QED
  BY <1>1, <1>2, Inductive, PTL DEF Spec

\* Each guess is counted once and only once, joined, promoted, evicted from staging,
\* expired or never stored, by however many threads (while no load has raised).
THEOREM GuessesNeverLost == Spec => []GuessesAccounted
<1>1. Guessing => GuessesAccounted
  BY DEF Guessing, GuessesAccounted
<1> QED
  BY <1>1, AlwaysGuessing, PTL

\* A caller's own load never ends in staging (while no load has raised).
THEOREM DemandAlwaysHot == Spec => []DemandLandsHot
<1>1. Guessing => DemandLandsHot
  BY DEF Guessing, DemandLandsHot
<1> QED
  BY <1>1, AlwaysGuessing, PTL

------------------------------------------------------------------------------
(* close(). *)

\* What close() relies on when one thread calls the cache: once the warm pool is gone
\* and drained no warm entry is left, the sentinel comes after that, and the worker
\* leaves an empty queue.
Closing ==
  \A c \in Client :
    /\ at[c].op \in {"drain", "stop", "join", "closed"} => ~pool
    /\ ~pool /\ at[c].op # "drain" => Queued("warm") = {}
    /\ sentinel => at[c].op = "join"
    /\ at[Worker].op = "exited" =>
         at[c].op \in {"join", "closed"} /\ queue = {} /\ ~sentinel
    /\ at[c].op = "closed" => at[Worker].op = "exited"

\* A section that is no part of close().
LEMMA ClosingFrame ==
  ASSUME Closing, UNCHANGED <<pool, sentinel, at>>, queue' \subseteq queue
  PROVE  Closing'
BY DEF Closing, Queued

LEMMA ClosingMoves ==
  ASSUME Closing, UNCHANGED <<pool, sentinel>>, queue' \subseteq queue,
         at'[Worker].op = "exited" <=> at[Worker].op = "exited",
         \A c \in Client :
           \/ at'[c].op = at[c].op
           \/ /\ at[c].op \notin {"drain", "stop", "join", "closed"}
              /\ at'[c].op \notin {"drain", "stop", "join", "closed"}
  PROVE  Closing'
<1>1. Queued("warm")' \subseteq Queued("warm")
  BY DEF Queued
<1> QED
  BY <1>1 DEF Closing

LEMMA ClosingSection ==
  ASSUME IInv, Closing, NEW c \in Client, NEW p \in Piece, GetSection(c, p),
         at[c].op \in {"idle", "retry"}
  PROVE  Closing'
<1>1. /\ at \in [Thread -> [op : Op, pid : Piece \cup {None}, by : Party]]
      /\ c # Worker
  BY ConstantAssumption DEF IInv, TypeOK, TypeThreads
<1>2. PICK r \in {Idle, Doing("load", p, c), Doing("wait", p, inflight[p])} :
        at' = [at EXCEPT ![c] = r]
  BY DEF GetSection, Hit, Promote, Own, Join
<1>3. UNCHANGED <<pool, sentinel, queue>>
  BY DEF GetSection, Hit, Promote, Own, Join, shutting
<1>4. r.op \in {"idle", "load", "wait"}
  BY DEF Idle, Doing
<1> QED
  BY <1>1, <1>2, <1>3, <1>4, ClosingMoves

LEMMA ClosingLoads ==
  ASSUME IInv, Closing, NEW t \in Thread, Materialize(t)
  PROVE  Closing'
<1>1. at \in [Thread -> [op : Op, pid : Piece \cup {None}, by : Party]]
  BY DEF IInv, TypeOK, TypeThreads
<1>2. UNCHANGED <<pool, sentinel, queue>>
  BY DEF Materialize, LandSpeculative, LandDemand, Fail, Release, shutting
<1>3. CASE LandSpeculative(t) \/ LandDemand(t) \/ Fail(t)
  <2>1. at[t].op = "load" /\ at' = [at EXCEPT ![t].op = "release"]
    BY <1>3 DEF LandSpeculative, LandDemand, Fail
  <2> QED
    BY <1>1, <1>2, <2>1, ClosingMoves
<1>4. CASE Release(t)
  <2>1. at[t].op = "release" /\ at' = Signalled(t, at[t].pid, at[t].by)
    BY <1>4 DEF Release
  <2>2. \A u \in Thread :
          at'[u] = at[u] \/ (at[u].op \in {"release", "wait"} /\ at'[u].op \in {"idle", "woken"})
    BY <1>1, <2>1 DEF Signalled, Idle, Doing
  <2> QED
    BY <1>2, <2>2, ClosingMoves
<1> QED
  BY <1>3, <1>4 DEF Materialize

LEMMA ClosingTake ==
  ASSUME IInv, Closing, NEW e \in queue, WorkerTake(e)
  PROVE  Closing'
<1>1. /\ at \in [Thread -> [op : Op, pid : Piece \cup {None}, by : Party]]
      /\ inflight[e.pid] = Worker /\ ~Held(e.pid) /\ Worker # None
  BY ConstantAssumption DEF IInv, TypeOK, TypeThreads, Queueing
<1>2. /\ at[Worker].op = "idle"
      /\ at' = [at EXCEPT ![Worker] = Doing("load", e.pid, inflight[e.pid])]
      /\ UNCHANGED <<pool, sentinel>> /\ queue' \subseteq queue
  BY <1>1 DEF WorkerTake, shutting
<1>3. /\ at'[Worker].op = "load"
      /\ \A c \in Client : at'[c] = at[c]
  BY <1>1, <1>2, ConstantAssumption DEF Doing
<1> QED
  BY <1>2, <1>3, ClosingMoves

\* One thread calls the cache, as the engine does.
OneClient == \E c : Client = {c}

LEMMA ClosingNext == ASSUME IInv, OneClient, Closing, [Next]_vars PROVE Closing'
<1>1. /\ at \in [Thread -> [op : Op, pid : Piece \cup {None}, by : Party]]
      /\ queue \subseteq [pid : Piece, tier : Tier]
  BY DEF IInv, TypeOK, TypeThreads
<1>2. ASSUME NEW c \in Client PROVE c # Worker /\ \A d \in Client : d = c
  BY ConstantAssumption DEF OneClient
<1>3. ASSUME NEW c \in Client, NEW P \in SUBSET Piece, NEW speculative \in BOOLEAN,
             Prefetch(c, P, speculative)
      PROVE  Closing'
  <2>1. /\ at[c].op = "idle" /\ UNCHANGED <<pool, sentinel, at>>
        /\ ~pool => Queued("warm")' = Queued("warm")
    BY <1>3 DEF Prefetch, Queued, shutting
  <2> QED
    BY <1>2, <2>1 DEF Closing
<1>4. ASSUME NEW c \in Client, BeginPass(c) PROVE Closing'
  BY <1>4, ClosingFrame DEF BeginPass, shutting
<1>5. ASSUME NEW c \in Client, Close(c) PROVE Closing'
  <2>1. /\ at[c].op = "idle" /\ ~pool' /\ UNCHANGED <<sentinel, queue>>
        /\ at'[c].op = (IF pool THEN "drain" ELSE "stop") /\ at'[Worker] = at[Worker]
    BY <1>1, <1>2, <1>5 DEF Close, Doing
  <2>2. Queued("warm")' = Queued("warm")
    BY <2>1 DEF Queued
  <2>3. /\ ~sentinel /\ at[Worker].op # "exited" /\ (~pool => Queued("warm") = {})
    BY <2>1 DEF Closing
  <2> QED
    BY <1>2, <2>1, <2>2, <2>3 DEF Closing
<1>6. ASSUME NEW c \in Client, PutSentinel(c) PROVE Closing'
  <2>1. /\ at[c].op = "stop" \/ (at[c].op = "drain" /\ Queued("warm") = {})
        /\ UNCHANGED <<pool, queue>>
        /\ at'[c].op = "join" /\ at'[Worker] = at[Worker]
    BY <1>1, <1>2, <1>6 DEF PutSentinel, Doing
  <2>2. Queued("warm")' = Queued("warm")
    BY <2>1 DEF Queued
  <2>3. /\ ~pool /\ at[Worker].op # "exited" /\ Queued("warm") = {}
    BY <2>1 DEF Closing
  <2> QED
    BY <1>2, <2>1, <2>2, <2>3 DEF Closing
<1>7. ASSUME NEW c \in Client, JoinWorker(c) PROVE Closing'
  <2>1. /\ at[c].op = "join" /\ at[Worker].op = "exited" /\ UNCHANGED <<pool, sentinel, queue>>
        /\ at'[c].op = "closed" /\ at'[Worker] = at[Worker]
    BY <1>1, <1>2, <1>7 DEF JoinWorker, Doing, shutting
  <2>2. Queued("warm")' = Queued("warm")
    BY <2>1 DEF Queued
  <2>3. ~pool /\ Queued("warm") = {} /\ queue = {}
    BY <2>1 DEF Closing
  <2>4. ~sentinel
    BY <2>1 DEF Closing
  <2> QED
    BY <1>2, <2>1, <2>2, <2>3, <2>4 DEF Closing

<1>8. ASSUME WorkerStop PROVE Closing'
  <2>1. /\ at[Worker].op = "idle" /\ sentinel /\ ~sentinel' /\ UNCHANGED <<pool, queue>>
        /\ Queued("demand") = {} /\ Queued("spec") = {}
        /\ \A c \in Client : at'[c] = at[c]
    BY <1>1, <1>2, <1>8 DEF WorkerStop, Doing
  <2>2. ASSUME NEW c \in Client
        PROVE  at[c].op = "join" /\ ~pool /\ Queued("warm") = {}
    BY <2>1 DEF Closing
  <2>3. ASSUME NEW c \in Client PROVE queue = {}
    <3>1. \A e \in queue : e.tier \in {"warm", "demand", "spec"}
      BY <1>1 DEF Tier
    <3> QED
      BY <2>1, <2>2, <3>1 DEF Queued
  <2>4. Queued("warm")' = Queued("warm")
    BY <2>1 DEF Queued
  <2>5. ASSUME NEW c \in Client
        PROVE  /\ at'[c].op = "join" /\ ~pool' /\ Queued("warm")' = {}
               /\ queue' = {} /\ ~sentinel'
    BY <2>1, <2>2, <2>3, <2>4
  <2> QED
    BY <2>5 DEF Closing
<1>9. ASSUME NEW p \in Piece, Warmed(p) PROVE Closing'
  <2>1. /\ UNCHANGED <<pool, sentinel, at>> /\ queue # {}
        /\ queue' = (queue \ {[pid |-> p, tier |-> "warm"]})
                      \cup {[[pid |-> p, tier |-> "warm"] EXCEPT !.tier = "demand"]}
    BY <1>9 DEF Warmed, shutting
  <2>2. Queued("warm")' \subseteq Queued("warm")
    BY <2>1 DEF Queued
  <2> QED
    BY <2>1, <2>2 DEF Closing
<1>10. ASSUME NEW c \in Client, Wake(c) PROVE Closing'
  <2>1. /\ at[c].op = "woken" /\ UNCHANGED <<pool, sentinel, queue>>
        /\ at'[c].op \in {"idle", "retry"}
        /\ \A u \in Thread \ {c} : at'[u] = at[u]
    BY <1>1, <1>10 DEF Wake, shutting, Idle, Doing
  <2> QED
    BY <1>2, <2>1, ClosingMoves
<1>11. ASSUME UNCHANGED vars PROVE Closing'
  BY <1>11, ClosingFrame DEF vars, shutting
<1>12. ASSUME NEW c \in Client, Call(c) PROVE Closing'
  <2>1. ASSUME NEW p \in Piece, Get(c, p) PROVE Closing'
    BY <2>1, ClosingSection DEF Get
  <2> QED
    BY <1>3, <1>4, <1>5, <1>12, <2>1 DEF Call
<1>13. ASSUME NEW c \in Client, ClientStep(c) PROVE Closing'
  <2>1. ASSUME Retry(c) PROVE Closing'
    <3>1. at[c].op = "retry" /\ at[c].pid \in Piece /\ GetSection(c, at[c].pid)
      BY <2>1 DEF Retry, IInv, Reserved
    <3> QED
      BY <3>1, ClosingSection
  <2> QED
    BY <1>6, <1>7, <1>10, <1>13, <2>1, ClosingLoads DEF ClientStep
<1>14. ASSUME WorkerStep PROVE Closing'
  BY <1>8, <1>14, ClosingLoads, ClosingTake DEF WorkerStep
<1> QED
  BY <1>9, <1>11, <1>12, <1>13, <1>14 DEF Next

\* close() leaves nothing reserved and nothing queued, however the warm pool, the
\* worker and failing loads interleave, when one thread calls the cache.  With two, the
\* second close() does not wait for the pool that the first is still draining.
THEOREM ClosesClean == ASSUME OneClient PROVE Spec => []ClosedClean
<1>1. Init => Closing
  BY DEF Init, Closing, Idle, Queued
<1>2. IInv /\ Closing /\ [Next]_vars => Closing'
  BY ClosingNext
<1>3. Spec => []Closing
  BY <1>1, <1>2, Inductive, PTL DEF Spec
<1>4. ASSUME IInv, Closing PROVE ClosedClean
  <2> PICK d : Client = {d}
    BY DEF OneClient
  <2>1. ASSUME \A c \in Client : at[c].op = "closed"
        PROVE  queue = {} /\ \A p \in Piece : inflight[p] = None
    <3>1. at[Worker].op = "exited" /\ queue = {}
      BY <1>4, <2>1 DEF Closing
    <3>2. \A t \in Thread, p \in Piece : ~Serves(t, p)
      BY <2>1, <3>1 DEF Serves
    <3>3. \A p \in Piece : inflight[p] # None => inflight[p] \in Thread
      BY <1>4 DEF IInv, TypeOK, TypeThreads
    <3> QED
      BY <1>4, <3>1, <3>2, <3>3 DEF IInv, Queueing
  <2> QED
    BY <2>1 DEF ClosedClean
<1> QED
  BY <1>3, <1>4, Inductive, PTL
=============================================================================
