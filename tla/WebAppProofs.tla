----------------------------- MODULE WebAppProofs -----------------------------
(***************************************************************************)
(* Theorems of WebApp: the web application keeps what the job queue        *)
(* promises, and its engines and event streams are sound.                  *)
(***************************************************************************)
EXTENDS WebApp, JobsProofs

------------------------------------------------------------------------------
(* The web application takes the steps of the job queue. *)

LEMMA WorkSteps == Work => WorkerStep
<1>1. RunJob => Run
  BY DEF RunJob
<1>2. AcquireForBatch => Acquire
  BY DEF AcquireForBatch
<1>3. Decodes => LastToken \/ Interrupted \/ Finished
  BY DEF Decodes
<1>4. Queues => \/ Loop \/ Resumed \/ Take \/ Peek \/ Grouped \/ Dispatch
                \/ Failed \/ Check \/ Filter \/ Start \/ Decode \/ FanOut
  BY DEF Queues
<1> QED
  BY <1>1, <1>2, <1>3, <1>4 DEF Work, WorkerStep

LEMMA WebSteps == [WebNext]_wvars => [Next]_vars
<1>1. (\E r \in Requests : SubmitBatch(r)) \/ PutJobs => Next
  BY DEF SubmitBatch, PutJobs, Next, Request
<1>2. Control => Next
  BY DEF Control, Next, Request
<1>3. ShutDown \/ PutSentinel => Next
  BY DEF ShutDown, PutSentinel, Next, Request
<1>4. ClosePool => UNCHANGED vars
  BY DEF ClosePool
<1>5. ASSUME NEW j, View(j) PROVE UNCHANGED vars
  BY <1>5 DEF View
<1>6. Work => Next
  BY WorkSteps DEF Next
<1>7. UNCHANGED wvars => UNCHANGED vars
  BY DEF wvars
<1> QED
  BY <1>1, <1>2, <1>3, <1>4, <1>5, <1>6, <1>7 DEF WebNext

\* The routes, the engine pool and the event bus add nothing that the job queue could
\* not do: the web application implements the job queue of Jobs (app.py, jobs.py).
THEOREM WebImplementsJobs == WebSpec => Spec
<1>1. WebInit => Init
  BY DEF WebInit
<1> QED
  BY <1>1, WebSteps, PTL DEF WebSpec, Spec

\* So the web application as a whole honours every cancel of a waiting job, and serves
\* the jobs of a request in its order, and all jobs as they were put on the queue.
COROLLARY WebSafe == WebSpec => []TypeOK /\ []CancelHonoured /\ FirstComeFirstServed
BY WebImplementsJobs, TypeCorrect, CancelAlwaysHonoured, ServedInOrder

LEMMA WebInv == WebSpec => []IInv
<1>1. WebInit => IInv
  BY InitIInv DEF WebInit
<1>2. IInv /\ [WebNext]_wvars => IInv'
  BY WebSteps, NextIInv
<1> QED
  BY <1>1, <1>2, PTL DEF WebSpec

------------------------------------------------------------------------------
(* The engines. *)

InHand == {"tokens", "last", "stage2", "batch", "decode"}

Open(h) == [c \in Config |-> IF c = h THEN 1 ELSE 0]

\* Exactly the pool's own engine is open; a call works with that one until the
\* shutdown gives up waiting for it; and the pool is closed for good when the worker
\* has ended.
PoolInv ==
  /\ handle \in Config \cup {None}
  /\ engines = Open(handle)
  /\ closing # "no" => stop /\ Stop \in ToSet(puts)
  /\ closing # "gave up" /\ worker.op \in InHand /\ using # None => handle = using
  /\ closing = "closed" => handle = None /\ worker.op \in {"exited", "dead"}

\* Closing the pool's engine leaves none open.
LEMMA ClosedEffect ==
  ASSUME handle \in Config \cup {None}, engines = Open(handle)
  PROVE  Closed(engines) = [d \in Config |-> 0]
<1>1. CASE handle = None
  BY <1>1, WebAppAssumption DEF Closed, Open
<1>2. CASE handle # None
  <2>1. Closed(engines) = [engines EXCEPT ![handle] = engines[handle] - 1]
    BY <1>2 DEF Closed
  <2>2. handle \in Config /\ engines \in [Config -> {0, 1}] /\ engines[handle] = 1
        /\ \A d \in Config : d # handle => engines[d] = 0
    BY <1>2 DEF Open
  <2>3. engines[handle] - 1 = 0
    BY <2>2
  <2>4. Closed(engines) = [engines EXCEPT ![handle] = 0]
    BY <2>1, <2>3
  <2>5. [engines EXCEPT ![handle] = 0] = [d \in Config |-> 0]
    BY <2>2
  <2> QED
    BY <2>4, <2>5
<1> QED
  BY <1>1, <1>2

LEMMA AcquiredEffect ==
  ASSUME handle \in Config \cup {None}, engines = Open(handle), NEW c \in Config,
         NEW f \in {"none", "manifest"}, Acquired(c, f)
  PROVE  /\ handle' \in Config \cup {None} /\ engines' = Open(handle')
         /\ using' # None => handle' = using'
<1>1. CASE handle = c
  BY <1>1 DEF Acquired
<1>2. CASE handle # c
  <2>1. /\ handle' = IF f = "none" THEN c ELSE None
        /\ using' = handle'
        /\ engines' = IF f = "manifest" THEN Closed(engines) ELSE Loaded(Closed(engines), c)
    BY <1>2 DEF Acquired
  <2>2. Closed(engines) = [d \in Config |-> 0]
    BY ClosedEffect
  <2>3. Loaded(Closed(engines), c) = Open(c)
    <3>1. Loaded(Closed(engines), c) = [Closed(engines) EXCEPT ![c] = 0 + 1]
      BY <2>2 DEF Loaded
    <3>2. 0 + 1 = 1
      OBVIOUS
    <3>3. Loaded(Closed(engines), c) = [[d \in Config |-> 0] EXCEPT ![c] = 1]
      BY <2>2, <3>1, <3>2
    <3> QED
      BY <3>3, Zenon DEF Open
  <2>4. [d \in Config |-> 0] = Open(None)
    BY WebAppAssumption DEF Open
  <2> QED
    BY <2>1, <2>2, <2>3, <2>4
<1> QED
  BY <1>1, <1>2

\* A worker that has ended takes no step any more, and none touches the stop flag or
\* the puts.
LEMMA Ended ==
  WorkerStep => worker.op \notin {"exited", "dead"} /\ UNCHANGED <<stop, puts>>
<1> SUFFICES ASSUME WorkerStep
             PROVE  worker.op \notin {"exited", "dead"} /\ UNCHANGED <<stop, puts>>
  OBVIOUS
<1>1. CASE Loop \/ Resumed \/ Take \/ Peek \/ Grouped \/ Dispatch
  BY <1>1 DEF Loop, Resumed, Take, Peek, Grouped, Dispatch, flags, intake
<1>2. CASE Run \/ LastToken \/ Interrupted \/ Finished \/ Failed
  BY <1>2 DEF Run, LastToken, Interrupted, Finished, Failed, Ends, flags, intake
<1>3. CASE Check \/ Acquire \/ Filter \/ Start \/ Decode \/ FanOut
  BY <1>3 DEF Check, Acquire, Filter, Start, Decode, FanOut, flags, intake
<1> QED
  BY <1>1, <1>2, <1>3 DEF WorkerStep

\* Steps that neither acquire nor close leave an engine in hand only where there was
\* one.
LEMMA HandKept ==
  ASSUME TypeOK, Decodes \/ Queues
  PROVE  /\ UNCHANGED <<handle, engines>>
         /\ worker'.op \in InHand /\ using' # None => worker.op \in InHand /\ using' = using
<1>1. UNCHANGED <<handle, engines>> /\ (using' = using \/ using' = None)
  BY DEF Decodes, Queues, Kept
<1>2. worker \in [op : Ops, todo : Seq(Job), kept : Seq(Job)]
  BY DEF TypeOK
<1>3. CASE Loop \/ Resumed \/ Grouped \/ LastToken \/ Peek
  <2>1. CASE Loop \/ Resumed
    <3>1. PICK o \in {"exited", "pause", "get"} : worker' = [worker EXCEPT !.op = o]
      BY <2>1 DEF Loop, Resumed
    <3>2. worker'.op = o
      BY <1>2, <3>1
    <3> QED
      BY <1>1, <3>2 DEF InHand
  <2>2. CASE Grouped \/ LastToken
    BY <1>1, <1>2, <2>2 DEF Grouped, LastToken, InHand
  <2>3. CASE Peek
    <3>1. worker'.op \in {"group", "dispatch"}
      BY <1>2, <2>3 DEF Peek
    <3> QED
      BY <1>1, <3>1 DEF InHand
  <2> QED
    BY <1>1, <1>3, <2>1, <2>2, <2>3
<1>4. CASE Take \/ Dispatch \/ Interrupted \/ Finished \/ Failed
  <2>1. worker'.op \notin InHand
    BY <1>4 DEF Take, Dispatch, Interrupted, Finished, Failed, Ends, Left, Doing, Top, Dead,
                InHand
  <2> QED
    BY <1>1, <2>1
<1>5. CASE Check \/ Filter \/ Start
  <2>1. worker'.op \in InHand => worker.op \in InHand
    <3>1. CASE Check
      <4>1. worker'.op = worker.op
        BY <1>2, <3>1 DEF Check
      <4> QED
        BY <4>1
    <3>2. CASE Filter \/ Start
      BY <3>2 DEF Filter, Start, InHand
    <3> QED
      BY <1>5, <3>1, <3>2
  <2> QED
    BY <1>1, <2>1
<1>6. CASE Decode \/ FanOut
  <2>1. CASE Decode
    BY <1>1, <2>1 DEF Decode, Doing, InHand
  <2>2. CASE FanOut
    <3>1. /\ worker.op = "fanout"
          /\ \/ worker' = Doing("run", worker.kept, <<>>) \/ worker' = Top
             \/ worker' = [worker EXCEPT !.todo = Tail(worker.todo)]
      BY <2>2 DEF FanOut
    <3>2. worker'.op \in {"run", "top", "fanout"}
      BY <1>2, <3>1 DEF Doing, Top
    <3> QED
      BY <1>1, <3>2 DEF InHand
  <2> QED
    BY <1>1, <1>6, <2>1, <2>2
<1> QED
  BY <1>3, <1>4, <1>5, <1>6 DEF Decodes, Queues

LEMMA PoolStep ==
  ASSUME "tokenizer" \notin LoadFaults
  PROVE  IInv /\ PoolInv /\ [WebNext]_wvars => PoolInv'
<1> SUFFICES ASSUME IInv, PoolInv, [WebNext]_wvars PROVE PoolInv'
  OBVIOUS
<1>1. CASE UNCHANGED wvars
  BY <1>1 DEF PoolInv, wvars, vars, flags, intake, pool
<1>2. CASE \/ (\E r \in Requests : SubmitBatch(r)) \/ PutJobs
           \/ Control \/ \E j \in Watched : View(j)
  <2>1. /\ UNCHANGED <<worker, stop, pool, closing>>
        /\ puts' = puts \/ \E j \in Job : puts' = Append(puts, j)
    BY <1>2 DEF SubmitBatch, Submit, PutJobs, Enqueue, Control, Pause, Cancel, View, vars,
                flags, intake
  <2>2. puts \in Seq(Job \cup {Stop})
    BY DEF IInv, TypeOK
  <2>3. Stop \in ToSet(puts) => Stop \in ToSet(puts')
    <3>1. \A j \in Job : ToSet(Append(puts, j)) = ToSet(puts) \cup {j}
      BY <2>2, AppendOne
    <3> QED
      BY <2>1, <3>1
  <2> QED
    BY <2>1, <2>3 DEF PoolInv, pool
<1>3. CASE ShutDown
  <2>1. UNCHANGED <<worker, pool, puts, closing>> /\ stop' = TRUE
    BY <1>3 DEF ShutDown, Shutdown, intake
  <2> QED
    BY <2>1 DEF PoolInv, pool
<1>7. CASE PutSentinel
  <2>1. /\ UNCHANGED <<worker, pool, stop>> /\ stop /\ Stop \notin ToSet(puts)
        /\ puts' = Append(puts, Stop) /\ closing' = "join"
    BY <1>7 DEF PutSentinel, PutStop, flags
  <2>2. puts \in Seq(Job \cup {Stop})
    BY DEF IInv, TypeOK
  <2>3. Stop \in ToSet(puts') /\ closing = "no"
    <3>1. ToSet(Append(puts, Stop)) = ToSet(puts) \cup {Stop}
      BY <2>2, AppendOne
    <3> QED
      BY <2>1, <3>1 DEF PoolInv
  <2> QED
    BY <2>1, <2>3 DEF PoolInv, pool
<1>4. CASE ClosePool
  <2>1. /\ UNCHANGED <<worker, stop, puts, using>> /\ closing = "join"
        /\ handle' = None /\ engines' = Closed(engines)
        /\ \/ closing' = "closed" /\ worker.op \in {"exited", "dead"}
           \/ closing' = "gave up"
    BY <1>4 DEF ClosePool, vars, flags, intake
  <2>2. engines' = Open(None)
    BY <2>1, ClosedEffect, WebAppAssumption DEF Open, PoolInv
  <2> QED
    BY <2>1, <2>2 DEF PoolInv, InHand
<1>5. CASE Work
  <2>1. /\ worker.op \notin {"exited", "dead"} /\ UNCHANGED <<stop, puts, closing>>
        /\ closing # "closed"
    BY <1>5, WorkSteps, Ended DEF Work, PoolInv
  <2>2. LoadFaults \subseteq {"manifest"}
    BY WebAppAssumption
  <2>3. worker \in [op : Ops, todo : Seq(Job), kept : Seq(Job)]
    BY DEF IInv, TypeOK
  <2>4. \A j \in Job : Engine[j] \in Config
    BY WebAppAssumption
  <2>5. CASE RunJob
    <3>1. Head(worker.todo) \in Job
      BY <2>5, Standing, HeadTail DEF RunJob, Run, IInv, Shape, Among
    <3>2. \/ \E f \in {"none", "manifest"} : Acquired(Engine[Head(worker.todo)], f)
          \/ using' = None /\ UNCHANGED <<handle, engines>>
      BY <2>2, <2>5 DEF RunJob
    <3>3. /\ handle' \in Config \cup {None} /\ engines' = Open(handle')
          /\ using' # None => handle' = using'
      BY <2>4, <3>1, <3>2, AcquiredEffect DEF PoolInv
    <3> QED
      BY <2>1, <3>3 DEF PoolInv
  <2>6. CASE AcquireForBatch
    <3>1. CASE Len(worker.kept) > 1
      <4>1. worker.kept[1] \in Job
        <5>1. worker.kept \in Seq(Job)
          BY <2>3
        <5>2. 1 \in 1 .. Len(worker.kept)
          BY <3>1, <5>1, LenProperties
        <5> QED
          BY <5>1, <5>2, ElementOfSeq
      <4>2. \E f \in {"none", "manifest"} : Acquired(Engine[worker.kept[1]], f)
        BY <2>2, <2>6, <3>1 DEF AcquireForBatch
      <4>3. /\ handle' \in Config \cup {None} /\ engines' = Open(handle')
            /\ using' # None => handle' = using'
        BY <2>4, <4>1, <4>2, AcquiredEffect DEF PoolInv
      <4> QED
        BY <2>1, <4>3 DEF PoolInv
    <3>2. CASE ~(Len(worker.kept) > 1)
      <4>1. UNCHANGED <<handle, engines>>
        BY <2>6, <3>2 DEF AcquireForBatch
      <4>2. worker' = Top \/ worker' = Doing("run", worker.kept, <<>>)
        <5>1. Len(worker.kept) \in Nat /\ worker.kept \in Seq(Job)
          BY Standing
        <5>2. worker.kept = <<>> \/ Len(worker.kept) = 1
          <6>1. \A n \in Nat : ~(n > 1) => n = 0 \/ n = 1
            OBVIOUS
          <6>2. Len(worker.kept) = 0 \/ Len(worker.kept) = 1
            BY <3>2, <5>1, <6>1
          <6> QED
            BY <5>1, <6>2, EmptySeq
        <5>3. \E next : worker' = Left(worker.kept, next)
          BY <2>6 DEF AcquireForBatch, Acquire
        <5> QED
          BY <5>2, <5>3 DEF Left
      <4>3. worker'.op \notin InHand
        BY <4>2 DEF Top, Doing, InHand
      <4> QED
        BY <2>1, <4>1, <4>3 DEF PoolInv
    <3> QED
      BY <3>1, <3>2
  <2>7. CASE Decodes \/ Queues
    <3>1. /\ UNCHANGED <<handle, engines>>
          /\ worker'.op \in InHand /\ using' # None => worker.op \in InHand /\ using' = using
      BY <2>7, HandKept DEF IInv
    <3> QED
      BY <2>1, <3>1 DEF PoolInv
  <2> QED
    BY <1>5, <2>5, <2>6, <2>7 DEF Work
<1> QED
  BY <1>1, <1>2, <1>3, <1>4, <1>5, <1>7 DEF WebNext

\* As long as loading a tokenizer does not raise, the pool has exactly its own engine
\* open, the worker's call works with that one, and after the shutdown none is left
\* (engine_pool.py:26-30; jobs.py:149-153).
THEOREM EngineAlwaysSound ==
  ASSUME "tokenizer" \notin LoadFaults PROVE WebSpec => []EngineSound
<1>1. WebInit => PoolInv
  BY WebAppAssumption DEF WebInit, PoolInv, Open, Init, Top, Doing, InHand
<1>2. PoolInv => EngineSound
  BY DEF PoolInv, EngineSound, Open, InHand
<1>3. IInv /\ PoolInv /\ [WebNext]_wvars => PoolInv'
  BY PoolStep
<1> QED
  BY <1>1, <1>2, <1>3, WebInv, PTL DEF WebSpec

------------------------------------------------------------------------------
(* The event streams. *)

Ev == {"started"} \cup Terminal

\* What a stream has sent of the events: a prefix, all of it as long as none is final,
\* with no final event before its last.
SentOf(sent, events) ==
  /\ Len(sent) <= Len(events) /\ \A i \in 1 .. Len(sent) : sent[i] = events[i]
  /\ \A i \in 1 .. Len(sent) - 1 : sent[i] \notin Terminal
  /\ \/ \E i \in 1 .. Len(sent) : sent[i] \in Terminal
     \/ sent = events

BusInv ==
  /\ log \in [Watched -> Seq(Ev)]
  /\ viewer \in [job : Watched \cup {None}, sent : Seq(Ev)]
  /\ viewer.job # None => SentOf(viewer.sent, log[viewer.job])

\* One step emits at most one event for a job.
LEMMA OneEvent ==
  ASSUME NEW j
  PROVE  Event(j) = <<>> \/ \E e \in Ev : Event(j) = <<e>>
BY DEF Event, Ev

\* A stream that is open takes the event.
LEMMA SendsOne ==
  ASSUME NEW s \in Seq(Ev), NEW l \in Seq(Ev), SentOf(s, l), NEW e \in Ev
  PROVE  /\ Sends(s, <<e>>) \in Seq(Ev) /\ l \o <<e>> \in Seq(Ev)
         /\ SentOf(Sends(s, <<e>>), l \o <<e>>)
<1>1. /\ Len(s) \in Nat /\ Len(l) \in Nat /\ DOMAIN s = 1 .. Len(s)
      /\ Len(s) <= Len(l)
  BY LenProperties DEF SentOf
<1>2. s \o <<e>> = Append(s, e) /\ l \o <<e>> = Append(l, e)
  BY AppendIsConcat
<1>3. /\ Append(l, e) \in Seq(Ev) /\ Len(Append(l, e)) = Len(l) + 1
      /\ \A i \in 1 .. Len(l) : Append(l, e)[i] = l[i]
      /\ Append(s, e) \in Seq(Ev) /\ Len(Append(s, e)) = Len(s) + 1
      /\ \A i \in 1 .. Len(s) : Append(s, e)[i] = s[i]
      /\ Append(s, e)[Len(s) + 1] = e /\ Append(l, e)[Len(l) + 1] = e
  BY AppendProperties
<1>4. CASE \E i \in 1 .. Len(s) : s[i] \in Terminal
  <2>1. Sends(s, <<e>>) = s
    BY <1>1, <1>4 DEF Sends
  <2>2. \A i \in 1 .. Len(s) : i \in 1 .. Len(l)
    BY <1>1
  <2>3. Len(s) <= Len(Append(l, e))
    BY <1>1, <1>3
  <2>4. \A i \in 1 .. Len(s) : s[i] = Append(l, e)[i]
    BY <1>3, <2>2 DEF SentOf
  <2>5. SentOf(s, Append(l, e))
    BY <1>4, <2>3, <2>4 DEF SentOf
  <2> QED
    BY <1>2, <1>3, <2>1, <2>5
<1>5. CASE ~ \E i \in 1 .. Len(s) : s[i] \in Terminal
  <2>1. Sends(s, <<e>>) = Append(s, e) /\ s = l
    BY <1>1, <1>2, <1>5 DEF Sends, SentOf
  <2>2. \A i \in 1 .. Len(Append(s, e)) - 1 : Append(s, e)[i] \notin Terminal
    BY <1>1, <1>3, <1>5
  <2>3. SentOf(Append(s, e), Append(s, e))
    BY <2>2, <1>1, <1>3 DEF SentOf
  <2> QED
    BY <1>2, <1>3, <2>1, <2>3
<1> QED
  BY <1>4, <1>5

\* A late subscriber's stream.
LEMMA SubscribedEffect ==
  ASSUME NEW j \in Watched, log \in [Watched -> Seq(Ev)], NEW v \in Subscribed(j)
  PROVE  /\ v \in [job : Watched \cup {None}, sent : Seq(Ev)] /\ v.job = j
         /\ SentOf(v.sent, log[j])
<1> DEFINE l == log[j]
<1>1. PICK n \in 0 .. Len(l) :
        /\ v = [job |-> j, sent |-> SubSeq(l, 1, n)]
        /\ \A i \in 1 .. n - 1 : l[i] \notin Terminal
        /\ n < Len(l) => n # 0 /\ l[n] \in Terminal
  BY DEF Subscribed
<1>2. l \in Seq(Ev) /\ Len(l) \in Nat /\ \A i \in 1 .. Len(l) : l[i] \in Ev
  BY LenProperties
<1> HIDE DEF l
<1>3. /\ SubSeq(l, 1, n) \in Seq(Ev)
      /\ Len(SubSeq(l, 1, n)) = IF 1 <= n THEN n - 1 + 1 ELSE 0
      /\ \A i \in 1 .. n - 1 + 1 : SubSeq(l, 1, n)[i] = l[1 + i - 1]
  <2>1. 1 \in Int /\ n \in Int /\ \A i \in 1 .. n : l[i] \in Ev
    BY <1>2
  <2> QED
    BY <2>1, SubSeqProperties
<1>4. Len(SubSeq(l, 1, n)) = n /\ \A i \in 1 .. n : SubSeq(l, 1, n)[i] = l[i]
  <2>1. Len(SubSeq(l, 1, n)) = n
    BY <1>2, <1>3
  <2>2. ASSUME NEW i \in 1 .. n PROVE SubSeq(l, 1, n)[i] = l[i]
    <3>1. i \in 1 .. n - 1 + 1 /\ 1 + i - 1 = i
      BY <1>2
    <3> QED
      BY <1>3, <3>1
  <2> QED
    BY <2>1, <2>2
<1> DEFINE s == SubSeq(l, 1, n)
<1> HIDE DEF s
<1>5. CASE n = Len(l)
  <2>1. s = l
    BY <1>2, <1>5, SubSeqFull DEF s
  <2> QED
    BY <1>1, <1>2, <1>5, <2>1 DEF SentOf, s, l
<1>6. CASE n < Len(l)
  <2>1. n \in 1 .. n /\ s[n] \in Terminal
    BY <1>1, <1>4, <1>6 DEF s
  <2>2. SentOf(s, l)
    BY <1>1, <1>2, <1>4, <1>6, <2>1 DEF SentOf, s
  <2> QED
    BY <1>1, <1>3, <2>2 DEF s, l
<1>7. n = Len(l) \/ n < Len(l)
  BY <1>2
<1> QED
  BY <1>5, <1>6, <1>7

LEMMA EmittedInv == ASSUME BusInv, Emitted PROVE BusInv'
<1>1. log' = [j \in Watched |-> log[j] \o Event(j)]
  BY DEF Emitted
<1>2. ASSUME NEW j \in Watched
      PROVE  /\ log'[j] \in Seq(Ev) /\ log'[j] = log[j] \o Event(j) /\ log[j] \in Seq(Ev)
             /\ \/ Event(j) = <<>> /\ log'[j] = log[j]
                \/ \E e \in Ev : Event(j) = <<e>>
  <2>1. log[j] \in Seq(Ev) /\ log'[j] = log[j] \o Event(j)
    BY <1>1 DEF BusInv
  <2>2. CASE Event(j) = <<>>
    BY <2>1, <2>2, ConcatEmptySeq
  <2>3. CASE Event(j) # <<>>
    <3>1. PICK e \in Ev : Event(j) = <<e>>
      BY <2>3, OneEvent
    <3>2. <<e>> \in Seq(Ev)
      BY SingleOne
    <3> QED
      BY <2>1, <3>1, <3>2, ConcatProperties
  <2> QED
    BY <2>2, <2>3
<1>3. log' \in [Watched -> Seq(Ev)]
  BY <1>1, <1>2
<1>4. CASE viewer.job = None
  BY <1>3, <1>4 DEF Emitted, BusInv
<1>5. CASE viewer.job # None
  <2> DEFINE j == viewer.job
             s == viewer.sent
  <2>1. j \in Watched /\ s \in Seq(Ev) /\ SentOf(s, log[j])
        /\ viewer \in [job : Watched \cup {None}, sent : Seq(Ev)]
    BY <1>5 DEF BusInv
  <2>2. viewer' = [viewer EXCEPT !.sent = Sends(s, Event(j))]
    BY <1>5 DEF Emitted
  <2>3. viewer' = [job |-> j, sent |-> Sends(s, Event(j))]
    BY <2>1, <2>2
  <2> HIDE DEF j, s
  <2>4. Sends(s, Event(j)) \in Seq(Ev) /\ SentOf(Sends(s, Event(j)), log'[j])
    <3>1. CASE Event(j) = <<>> /\ log'[j] = log[j]
      <4>1. Sends(s, <<>>) = s
        BY <2>1, ConcatEmptySeq DEF Sends
      <4> QED
        BY <2>1, <3>1, <4>1
    <3>2. CASE \E e \in Ev : Event(j) = <<e>>
      <4>1. PICK e \in Ev : Event(j) = <<e>>
        BY <3>2
      <4>2. log[j] \in Seq(Ev) /\ log'[j] = log[j] \o <<e>>
        BY <1>2, <2>1, <4>1
      <4> QED
        BY <2>1, <4>1, <4>2, SendsOne
    <3> QED
      BY <1>2, <2>1, <3>1, <3>2
  <2> QED
    BY <1>3, <2>1, <2>3, <2>4 DEF BusInv
<1> QED
  BY <1>4, <1>5

\* A stream sends the events of its job in order, each once, however late it was
\* opened, up to the final one (jobs.py:157-170; app.py:92-105).
THEOREM StreamAlwaysFaithful == WebSpec => []StreamFaithful
<1>1. WebInit => BusInv
  BY EmptyOne DEF WebInit, BusInv
<1>2. BusInv /\ [WebNext]_wvars => BusInv'
  <2> SUFFICES ASSUME BusInv, [WebNext]_wvars PROVE BusInv'
    OBVIOUS
  <2>1. CASE UNCHANGED bus
    BY <2>1 DEF BusInv, bus
  <2>2. CASE \E j \in Watched : View(j)
    <3>1. PICK j \in Watched : viewer' \in Subscribed(j) /\ log' = log
      BY <2>2 DEF View
    <3>2. /\ viewer' \in [job : Watched \cup {None}, sent : Seq(Ev)] /\ viewer'.job = j
          /\ SentOf(viewer'.sent, log[j])
      BY <3>1, SubscribedEffect DEF BusInv
    <3> QED
      BY <3>1, <3>2 DEF BusInv
  <2>3. CASE Work
    BY <2>3, EmittedInv DEF Work
  <2> QED
    BY <2>1, <2>2, <2>3 DEF WebNext, SubmitBatch, PutJobs, Control, ShutDown, PutSentinel,
                                ClosePool, wvars
<1>3. BusInv => StreamFaithful
  <2> SUFFICES ASSUME BusInv, viewer.job # None PROVE StreamFaithful
    BY DEF StreamFaithful
  <2> DEFINE s == viewer.sent
             l == log[viewer.job]
  <2>1. s \in Seq(Ev) /\ l \in Seq(Ev) /\ SentOf(s, l)
    BY DEF BusInv
  <2> HIDE DEF s, l
  <2>2. Len(s) \in Nat /\ Len(l) \in Nat /\ DOMAIN s = 1 .. Len(s) /\ DOMAIN l = 1 .. Len(l)
        /\ Len(s) <= Len(l)
    BY <2>1, LenProperties DEF SentOf
  <2>3. \A i \in 1 .. Len(s) : s[i] = l[i] /\ i \in 1 .. Len(l)
    BY <2>1, <2>2 DEF SentOf
  <2>4. IsPrefix(s, l)
    <3>1. SubSeq(s, 1, Len(s)) = s
      BY <2>1, SubSeqFull
    <3>2. /\ SubSeq(l, 1, Len(s)) \in Seq(Ev)
          /\ Len(SubSeq(l, 1, Len(s))) = IF 1 <= Len(s) THEN Len(s) - 1 + 1 ELSE 0
          /\ \A i \in 1 .. Len(s) - 1 + 1 : SubSeq(l, 1, Len(s))[i] = l[1 + i - 1]
      <4>1. 1 \in Int /\ Len(s) \in Int /\ \A i \in 1 .. Len(s) : l[i] \in Ev
        BY <2>1, <2>2, <2>3
      <4> QED
        BY <4>1, SubSeqProperties
    <3>3. Len(SubSeq(l, 1, Len(s))) = Len(s)
      BY <2>2, <3>2
    <3>4. \A i \in 1 .. Len(s) : SubSeq(l, 1, Len(s))[i] = s[i]
      <4> SUFFICES ASSUME NEW i \in 1 .. Len(s) PROVE SubSeq(l, 1, Len(s))[i] = s[i]
        OBVIOUS
      <4>1. i \in 1 .. Len(s) - 1 + 1 /\ 1 + i - 1 = i
        BY <2>2
      <4> QED
        BY <2>3, <3>2, <4>1
    <3>5. SubSeq(l, 1, Len(s)) = s
      BY <2>1, <3>2, <3>3, <3>4, SeqEqual
    <3> QED
      BY <2>2, <3>1, <3>5 DEF IsPrefix
  <2>5. ToSet(l) \cap Terminal = {} => s = l
    BY <2>1, <2>2, <2>3 DEF SentOf, ToSet
  <2>6. ToSet(l) \cap Terminal # {} => ToSet(s) \cap Terminal # {}
    BY <2>1, <2>2 DEF SentOf, ToSet
  <2> QED
    BY <2>1, <2>4, <2>5, <2>6 DEF StreamFaithful, SentOf, s, l
<1> QED
  BY <1>1, <1>2, <1>3, PTL DEF WebSpec
=============================================================================
