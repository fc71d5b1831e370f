------------------------------- MODULE WebApp -------------------------------
(***************************************************************************)
(* The web application around the job queue of Jobs: the one-slot engine   *)
(* pool of src/nunspark/webapp/engine_pool.py that the worker acquires     *)
(* from, the event bus of jobs.py with a stream of server-sent events on   *)
(* it, and the routes and the shutdown of app.py.                          *)
(*                                                                         *)
(* An engine is known by the pool's key: model, draft, budget and          *)
(* quantization.  Closing the pool is one step.  Token and metrics events  *)
(* are left out, as in Jobs.                                               *)
(***************************************************************************)
EXTENDS Jobs

CONSTANTS
  Config,     \* keys of the pool
  Engine,     \* the one of a job
  None,
  LoadFaults, \* where loading may raise: "manifest", before there is an engine, or
              \* "tokenizer", after
  Packed,     \* configurations whose model is packed
  TimesOut,   \* the shutdown's join() may time out
  Watched     \* bound: jobs whose events are followed

ASSUME WebAppAssumption ==
  /\ Engine \in [Job -> Config] /\ None \notin Config
  /\ \A i, j \in Job : Key[i] = Key[j] /\ Key[i] # Alone => Engine[i] = Engine[j]
  /\ LoadFaults \subseteq {"manifest", "tokenizer"}
  /\ Packed \subseteq Config /\ TimesOut \in BOOLEAN /\ Watched \subseteq Job

VARIABLES
  handle,    \* the key of the pool's handle, None if there is none
  engines,   \* per key, the engines that are not closed
  using,     \* the engine the worker's call has in hand
  closing,   \* the manager's shutdown: "no", "join", "closed" or "gave up"
  log,       \* _log
  viewer     \* an event stream: its job, and the events it sends

pool == <<handle, engines, using>>
bus  == <<log, viewer>>
wvars == <<vars, pool, closing, bus>>

WebInit ==
  /\ Init
  /\ handle = None /\ engines = [c \in Config |-> 0] /\ using = None
  /\ closing = "no"
  /\ log = [j \in Watched |-> <<>>]
  /\ viewer = [job |-> None, sent |-> <<>>]

------------------------------------------------------------------------------
(* EnginePool. *)

Closed(e) == IF handle = None THEN e ELSE [e EXCEPT ![handle] = @ - 1]

Loaded(e, c) == [e EXCEPT ![c] = @ + 1]

MutantAcquired(c, f) ==
  IF handle = c THEN UNCHANGED <<handle, engines>> /\ using' = c
  ELSE /\ handle' = IF f = "none" THEN c ELSE None
       /\ using' = handle'
       /\ engines' = IF f = "manifest" THEN engines ELSE Loaded(engines, c)

\* acquire(c), raising where f says: the handle if it is the one of c, else the old
\* engine is closed before the new one is made.
Acquired(c, f) ==
  IF handle = c THEN UNCHANGED <<handle, engines>> /\ using' = c
  ELSE /\ handle' = IF f = "none" THEN c ELSE None
       /\ using' = handle'
       /\ engines' = IF f = "manifest" THEN Closed(engines) ELSE Loaded(Closed(engines), c)

\* The end of shutdown(): the worker has ended, or the ten seconds are over.
ClosePool ==
  LET ended == worker.op \in {"exited", "dead"} IN
  /\ closing = "join" /\ (ended \/ TimesOut)
  /\ closing' = IF ended THEN "closed" ELSE "gave up"
  /\ handle' = None /\ engines' = Closed(engines)
  /\ UNCHANGED <<vars, using, bus>>

------------------------------------------------------------------------------
(* The event bus. *)

\* The events a step of the worker emits for job j: it starts, or it ends.
Event(j) ==
  IF status'[j] \in Terminal /\ status'[j] # status[j] THEN <<status'[j]>>
  ELSE IF worker.op = "run" /\ j = Head(worker.todo) THEN <<"started">>
  ELSE IF worker.op = "batch" /\ j \in ToSet(worker.kept) THEN <<"started">>
  ELSE <<>>

\* A stream takes the events x from its queue, and ends with the first final one.
Sends(sent, x) ==
  IF \E i \in DOMAIN sent : sent[i] \in Terminal THEN sent ELSE sent \o x

\* _emit: under the lock, into the log and to the subscribers there are.
Emitted ==
  /\ log' = [j \in Watched |-> log[j] \o Event(j)]
  /\ viewer' = IF viewer.job = None THEN viewer
               ELSE [viewer EXCEPT !.sent = Sends(@, Event(viewer.job))]

MutantSubscribed(j) == {[job |-> j, sent |-> <<>>]}

\* subscribe: under the lock, what the subscriber has missed is replayed; the stream
\* sends it up to the first final event.
Subscribed(j) ==
  {[job |-> j, sent |-> SubSeq(log[j], 1, n)] : n \in
     {k \in 0 .. Len(log[j]) :
        /\ \A i \in 1 .. k - 1 : log[j][i] \notin Terminal
        /\ k < Len(log[j]) => k # 0 /\ log[j][k] \in Terminal}}

View(j) ==
  /\ status[j] # "new" /\ viewer.job = None
  /\ viewer' \in Subscribed(j)
  /\ UNCHANGED <<vars, pool, closing, log>>

------------------------------------------------------------------------------
(* Routes. *)

\* A batch for a model that is not packed is refused.
SubmitBatch(r) ==
  /\ \A j \in ToSet(r) : Engine[j] \in Packed
  /\ Submit(r)
  /\ UNCHANGED <<pool, closing, bus>>

PutJobs == (\E j \in Job : Enqueue(j)) /\ UNCHANGED <<pool, closing, bus>>

ShutDown == Shutdown /\ UNCHANGED <<pool, closing, bus>>

\* With its sentinel on the queue, it waits for the worker.
PutSentinel ==
  /\ PutStop
  /\ closing' = "join"
  /\ UNCHANGED <<pool, bus>>

Control ==
  /\ Pause \/ \E j \in Job : Cancel(j)
  /\ UNCHANGED <<pool, closing, bus>>

------------------------------------------------------------------------------
(* The worker, and the engines it works with. *)

\* A call that ends has no engine in hand any more.
Kept == using' = IF worker'.op \in {"top", "run", "dead"} THEN None ELSE using

\* run_generation: the upload is read before an engine is acquired; what raises from
\* there on fails the job.
RunJob ==
  LET key == Engine[Head(worker.todo)] IN
  /\ Run
  /\ \/ Acquired(key, "none")
     \/ /\ "run" \in Faults /\ handle # key
        /\ \E f \in LoadFaults : Acquired(key, f)
     \/ /\ "run" \in Faults \/ worker'.op = "dead"
        /\ using' = None /\ UNCHANGED <<handle, engines>>

\* A batch acquires after its first stage, if at least two jobs are left.
AcquireForBatch ==
  /\ Acquire
  /\ IF Len(worker.kept) > 1
       THEN IF worker'.op = "dead"
              THEN \E f \in LoadFaults : Acquired(Engine[worker.kept[1]], f)
              ELSE Acquired(Engine[worker.kept[1]], "none")
       ELSE Kept /\ UNCHANGED <<handle, engines>>

\* Tokens come from the engine in hand.
Decodes ==
  /\ using # None
  /\ LastToken \/ Interrupted \/ Finished
  /\ Kept /\ UNCHANGED <<handle, engines>>

Queues ==
  /\ \/ Loop \/ Resumed \/ Take \/ Peek \/ Grouped \/ Dispatch
     \/ Failed \/ Check \/ Filter \/ Start \/ Decode \/ FanOut
  /\ Kept /\ UNCHANGED <<handle, engines>>

Work == (RunJob \/ AcquireForBatch \/ Decodes \/ Queues) /\ Emitted
        /\ UNCHANGED closing

WebNext ==
  \/ (\E r \in Requests : SubmitBatch(r)) \/ PutJobs
  \/ Control \/ ShutDown \/ PutSentinel \/ ClosePool
  \/ \E j \in Watched : View(j)
  \/ Work

WebSpec == WebInit /\ [][WebNext]_wvars

\* The worker runs whenever it can, a request under way puts its jobs, and a shutdown
\* its sentinel.
FairWebSpec == WebSpec /\ WF_wvars(Work) /\ WF_wvars(PutJobs) /\ WF_wvars(PutSentinel)

------------------------------------------------------------------------------
(* Properties. *)

\* The pool has at most one engine, the one a call works with is open until the call
\* ends, and after the shutdown none is left (engine_pool.py:26-30; jobs.py:149-153),
\* as long as the shutdown did not give up waiting for the worker.
EngineSound ==
  closing # "gave up" =>
    /\ engines = [c \in Config |-> IF c = handle THEN 1 ELSE 0]
    /\ worker.op \in {"tokens", "last", "stage2", "batch", "decode"} /\ using # None
         => handle = using
    /\ closing = "closed" => handle = None

\* An event stream sends the events of its job, in order, each once, however late it
\* was opened, up to the job's final one (jobs.py:52-53, 157-170; app.py:92-105).
StreamFaithful ==
  viewer.job # None =>
    LET events == log[viewer.job] IN
    /\ IsPrefix(viewer.sent, events)
    /\ \A i \in 1 .. Len(viewer.sent) - 1 : viewer.sent[i] \notin Terminal
    /\ ToSet(events) \cap Terminal = {} => viewer.sent = events
    /\ ToSet(events) \cap Terminal # {} => ToSet(viewer.sent) \cap Terminal # {}
=============================================================================
