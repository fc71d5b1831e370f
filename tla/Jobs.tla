-------------------------------- MODULE Jobs --------------------------------
(***************************************************************************)
(* The web application's job queue, src/nunspark/webapp/jobs.py, and what  *)
(* its worker runs, src/nunspark/webapp/runner.py: one job at a time, or a *)
(* group of compatible jobs in one batched call.                           *)
(*                                                                         *)
(* Request threads submit, cancel, pause and shut down while the worker    *)
(* thread goes through the steps at which it reads what they write: the    *)
(* stop and pause flags, the queue, and the set of cancelled jobs.         *)
(*                                                                         *)
(* _order, which is only ever listed, is left out: the order that counts   *)
(* is the one in which the jobs reach the queue.                           *)
(*                                                                         *)
(* A file's base name is <<name, i>>, "name.i" (or "name" for 0), all in   *)
(* one output directory.  Status and final event of a job are one step;    *)
(* token events, metrics and sidecars are left out.                        *)
(***************************************************************************)
EXTENDS Integers, SequencesExt

CONSTANTS
  Job,
  Requests,   \* what may be submitted: the jobs of a BatchRequest, one per file
  Key,        \* _compat_key of a job, Alone when it is never grouped
  Alone,
  Name,       \* file_name of a job
  MaxBatch,   \* MAX_BATCH
  Faults,     \* where an exception may be raised
  Stop,       \* the None sentinel in the queue
  Cancellable \* bound: jobs that may be cancelled

Fault == {"setup", "acquire", "upload", "cap", "run", "decode", "fanout"}

ASSUME JobsAssumption ==
  /\ IsFiniteSet(Job)
  \* A job belongs to one request.
  /\ Requests \subseteq Seq(Job) /\ \A r \in Requests : IsInjective(r)
  /\ \A r, s \in Requests : r # s => ToSet(r) \cap ToSet(s) = {}
  /\ MaxBatch \in Nat \ {0}
  /\ DOMAIN Key = Job /\ DOMAIN Name = Job
  /\ Faults \subseteq Fault
  /\ Stop \notin Job /\ Cancellable \subseteq Job

VARIABLES
  status,    \* job.status; "new" before it is submitted
  puts,      \* history: all that was put on _queue, in order
  queue,     \* _queue
  peeked,    \* _peeked
  cancels,   \* _cancels
  early,     \* history: jobs whose cancel came while they were queued
  paused,    \* _pause
  stop,      \* _stop
  out,       \* job.output_path: the base name, NoFile if not assigned
  files,     \* base names in the output directory
  worker     \* where the worker stands: the jobs still to do, and those kept

intake == <<puts, queue, peeked>>
flags  == <<cancels, early, paused, stop>>
disk   == <<out, files>>
vars   == <<status, intake, flags, disk, worker>>

NoFile   == <<>>
Terminal == {"done", "error", "cancelled"}

Doing(o, t, k) == [op |-> o, todo |-> t, kept |-> k]
Top == Doing("top", <<>>, <<>>)

Raises(f) == IF f \in Faults THEN BOOLEAN ELSE {FALSE}

Init ==
  /\ status = [j \in Job |-> "new"]
  /\ puts = <<>> /\ queue = <<>> /\ peeked = <<>>
  /\ cancels = {} /\ early = {} /\ paused \in BOOLEAN /\ stop = FALSE
  /\ out = [j \in Job |-> NoFile] /\ files = {}
  /\ worker = Top

------------------------------------------------------------------------------
(* Request threads. *)

\* submit_batch, in its lock: the request's jobs are created.
Submit(r) ==
  /\ \A j \in ToSet(r) : status[j] = "new"
  /\ status' = [j \in Job |-> IF j \in ToSet(r) THEN "queued" ELSE status[j]]
  /\ UNCHANGED <<intake, flags, disk, worker>>

\* j stands behind i in one request.
Behind(i, j) == \E r \in Requests : \E m, n \in DOMAIN r : m < n /\ r[m] = i /\ r[n] = j

\* Once the lock is released they are put on the queue, one by one; another request
\* may come in between.
Enqueue(j) ==
  /\ status[j] = "queued" /\ j \notin ToSet(puts)
  /\ \A i \in Job : Behind(i, j) => i \in ToSet(puts)
  /\ puts' = Append(puts, j)
  /\ queue' = Append(queue, j)
  /\ UNCHANGED <<status, peeked, flags, disk, worker>>

Cancel(j) ==
  /\ status[j] # "new" /\ j \in Cancellable \ cancels
  /\ cancels' = cancels \cup {j}
  /\ early' = IF status[j] = "queued" THEN early \cup {j} ELSE early
  /\ UNCHANGED <<status, intake, paused, stop, disk, worker>>

Pause ==
  /\ paused' = ~paused
  /\ UNCHANGED <<status, intake, cancels, early, stop, disk, worker>>

\* shutdown() sets its flag, and then puts the sentinel; requests may come between.
Shutdown ==
  /\ ~stop
  /\ stop' = TRUE
  /\ UNCHANGED <<status, intake, cancels, early, paused, disk, worker>>

PutStop ==
  /\ stop /\ Stop \notin ToSet(puts)
  /\ puts' = Append(puts, Stop)
  /\ queue' = Append(queue, Stop)
  /\ UNCHANGED <<status, peeked, flags, disk, worker>>

------------------------------------------------------------------------------
(* The worker's loop: take a job, group it with what waits behind it. *)

MutantLoop ==
  /\ worker.op = "top"
  /\ worker' = [worker EXCEPT !.op = "pause"]
  /\ UNCHANGED <<status, intake, flags, disk>>

Loop ==
  /\ worker.op = "top"
  /\ worker' = [worker EXCEPT !.op = IF stop THEN "exited" ELSE "pause"]
  /\ UNCHANGED <<status, intake, flags, disk>>

Resumed ==
  /\ worker.op = "pause" /\ (~paused \/ stop)
  /\ worker' = [worker EXCEPT !.op = "get"]
  /\ UNCHANGED <<status, intake, flags, disk>>

\* The peeked buffer drains before the queue.
Waiting == peeked \o queue
Popped ==
  IF peeked # <<>> THEN peeked' = Tail(peeked) /\ UNCHANGED queue
  ELSE queue' = Tail(queue) /\ UNCHANGED peeked

Dropped(S) == [j \in Job |-> IF j \in S THEN "cancelled" ELSE status[j]]

\* The blocking get(): the sentinel ends the loop, a cancelled job is passed over.
Take ==
  LET j == Head(Waiting) IN
  /\ worker.op = "get" /\ Waiting # <<>>
  /\ Popped
  /\ status' = Dropped({j} \cap cancels)
  /\ worker' = IF j = Stop THEN Doing("exited", <<>>, <<>>)
               ELSE IF j \in cancels THEN Top
               ELSE IF Key[j] = Alone THEN Doing("run", <<j>>, <<>>)
               ELSE Doing("group", <<>>, <<j>>)
  /\ UNCHANGED <<puts, flags, disk>>

Full == Len(worker.kept) = MaxBatch

MutantDeferred(j) ==
  IF peeked = <<>> THEN queue' = Append(Tail(queue), j) /\ UNCHANGED peeked
  ELSE queue' = Append(queue, j) /\ peeked' = Tail(peeked)

MutantDeferredTwice(j) == peeked' = <<j>> /\ UNCHANGED queue

\* _defer: a job that was looked at goes back to the front.
Deferred(j) ==
  IF peeked = <<>> THEN peeked' = <<j>> /\ queue' = Tail(queue)
  ELSE UNCHANGED <<peeked, queue>>

\* A look ahead.  The sentinel is taken for an empty queue, a cancelled job is
\* passed over, and a job of another key ends the group.
Peek ==
  LET j     == Head(Waiting)
      other == j # Stop /\ j \notin cancels /\ Key[j] # Key[worker.kept[1]] IN
  /\ worker.op = "group" /\ ~Full /\ Waiting # <<>>
  /\ IF other THEN Deferred(j) ELSE Popped
  /\ status' = Dropped({j} \cap cancels)
  /\ worker' = IF j = Stop \/ other THEN [worker EXCEPT !.op = "dispatch"]
               ELSE IF j \in cancels THEN worker
               ELSE [worker EXCEPT !.kept = Append(@, j)]
  /\ UNCHANGED <<puts, flags, disk>>

Grouped ==
  /\ worker.op = "group" /\ (Full \/ Waiting = <<>>)
  /\ worker' = [worker EXCEPT !.op = "dispatch"]
  /\ UNCHANGED <<status, intake, flags, disk>>

MutantLeft(K, next) == IF Len(K) <= 1 THEN Top ELSE next

\* What becomes of the jobs K that are left of a group: nothing, run_generation
\* for one of them, or the next step of the batch.
Left(K, next) ==
  IF K = <<>> THEN Top ELSE IF Len(K) = 1 THEN Doing("run", K, <<>>) ELSE next

Dead == Doing("dead", <<>>, <<>>)

\* A batch reads its budget first, outside any try.
Dispatch ==
  /\ worker.op = "dispatch"
  /\ \E raises \in Raises("setup") :
       worker' = Left(worker.kept,
                      IF raises THEN Dead ELSE Doing("stage1", worker.kept, <<>>))
  /\ UNCHANGED <<status, intake, flags, disk>>

------------------------------------------------------------------------------
(* run_generation, on the first job to do. *)

MutantFresh(n) == <<n, 0>>

\* _unique_base: the first base name that no file has.
Fresh(n) == CHOOSE b \in {n} \X (0 .. Cardinality(files)) :
  /\ b \notin files
  /\ \A i \in 0 .. b[2] - 1 : <<n, i>> \in files

Creates(j) ==
  /\ out' = [out EXCEPT ![j] = Fresh(Name[j])]
  /\ files' = files \cup {Fresh(Name[j])}

\* Up to the try: the budget, the options and the output directory may raise.
Run ==
  LET j == Head(worker.todo) IN
  /\ worker.op = "run"
  /\ status' = [status EXCEPT ![j] = "running"]
  /\ \E raises \in Raises("setup") :
       IF raises THEN worker' = Dead /\ UNCHANGED disk
       ELSE worker' = [worker EXCEPT !.op = "tokens"] /\ Creates(j)
  /\ UNCHANGED <<intake, flags>>

\* The job is not cancelled when its last token comes.
LastToken ==
  /\ worker.op = "tokens" /\ Head(worker.todo) \notin cancels
  /\ worker' = [worker EXCEPT !.op = "last"]
  /\ UNCHANGED <<status, intake, flags, disk>>

\* The job to do ends in state s; the next one of a fallback is run.
Ends(s) ==
  LET rest == Tail(worker.todo) IN
  /\ status' = [status EXCEPT ![Head(worker.todo)] = s]
  /\ worker' = IF rest = <<>> THEN Top ELSE Doing("run", rest, <<>>)
  /\ UNCHANGED <<intake, flags, disk>>

Interrupted ==
  worker.op = "tokens" /\ Head(worker.todo) \in cancels /\ Ends("cancelled")

Finished == worker.op = "last" /\ Ends("done")

Failed == worker.op \in {"tokens", "last"} /\ "run" \in Faults /\ Ends("error")

------------------------------------------------------------------------------
(* run_generation_batch. *)

MutantCheck ==
  LET j == Head(worker.todo) IN
  /\ worker.op \in {"stage1", "stage2"} /\ worker.todo # <<>>
  /\ \E raises \in Raises(IF worker.op = "stage1" THEN "upload" ELSE "cap") :
       /\ worker' = [worker EXCEPT !.todo = Tail(@), !.kept = Append(@, j)]
       /\ IF raises THEN status' = [status EXCEPT ![j] = "error"] /\ Creates(j)
          ELSE UNCHANGED <<status, disk>>
  /\ UNCHANGED <<intake, flags>>

\* One job of a validation stage: kept, or failed on its own (_fail_job).
Check ==
  LET j == Head(worker.todo) IN
  /\ worker.op \in {"stage1", "stage2"} /\ worker.todo # <<>>
  /\ \E raises \in Raises(IF worker.op = "stage1" THEN "upload" ELSE "cap") :
       IF raises
         THEN /\ status' = [status EXCEPT ![j] = "error"]
              /\ Creates(j)
              /\ worker' = [worker EXCEPT !.todo = Tail(@)]
         ELSE /\ worker' = [worker EXCEPT !.todo = Tail(@), !.kept = Append(@, j)]
              /\ UNCHANGED <<status, disk>>
  /\ UNCHANGED <<intake, flags>>

\* Between the stages the engine is acquired, outside any try.
Acquire ==
  /\ worker.op = "stage1" /\ worker.todo = <<>>
  /\ \E raises \in Raises("acquire") :
       worker' = Left(worker.kept,
                      IF raises THEN Dead ELSE Doing("stage2", worker.kept, <<>>))
  /\ UNCHANGED <<status, intake, flags, disk>>

\* The elements of S in the order of the sequence s.
InOrder(s, S) ==
  {t \in UNION {[1 .. n -> S] : n \in 0 .. Len(s)} :
     /\ ToSet(t) = S
     /\ \A i, j \in DOMAIN t : i < j =>
          \E p, q \in DOMAIN s : p < q /\ s[p] = t[i] /\ s[q] = t[j]}

\* After the second stage, cancelled jobs are dropped: the last time before the
\* decode that anyone looks.
Filter ==
  LET batch == ToSet(worker.kept) IN
  /\ worker.op = "stage2" /\ worker.todo = <<>>
  /\ IF Len(worker.kept) > 1
       THEN /\ status' = Dropped(batch \cap cancels)
            /\ \E live \in InOrder(worker.kept, batch \ cancels) :
                 worker' = Left(live, Doing("batch", <<>>, live))
       ELSE /\ worker' = Left(worker.kept, Top)
            /\ UNCHANGED status
  /\ UNCHANGED <<intake, flags, disk>>

Start ==
  /\ worker.op = "batch"
  /\ status' = [j \in Job |-> IF j \in ToSet(worker.kept) THEN "running" ELSE status[j]]
  /\ worker' = [worker EXCEPT !.op = "decode"]
  /\ UNCHANGED <<intake, flags, disk>>

\* _run_batched chooses every job's base name before it opens the first file; the
\* batched decode may raise, and then each job is run on its own.
Decode ==
  LET batch == ToSet(worker.kept) IN
  /\ worker.op = "decode"
  /\ out' = [j \in Job |-> IF j \in batch THEN Fresh(Name[j]) ELSE out[j]]
  /\ files' = files \cup {Fresh(Name[j]) : j \in batch}
  /\ \E raises \in Raises("decode") :
       worker' = IF raises THEN Doing("run", worker.kept, <<>>)
                 ELSE Doing("fanout", worker.kept, worker.kept)
  /\ UNCHANGED <<status, intake, flags>>

MutantOutcome(j) == "done"

Outcome(j) == IF j \in cancels THEN "cancelled" ELSE "done"

\* One row's result is handed to its job; when writing it raises, every job of the
\* batch is run on its own.
FanOut ==
  LET rest == Tail(worker.todo) IN
  /\ worker.op = "fanout"
  /\ \E raises \in Raises("fanout") :
       IF raises THEN /\ worker' = Doing("run", worker.kept, <<>>)
                      /\ UNCHANGED status
       ELSE /\ status' = [status EXCEPT ![Head(worker.todo)] = Outcome(Head(worker.todo))]
            /\ worker' = IF rest = <<>> THEN Top ELSE [worker EXCEPT !.todo = rest]
  /\ UNCHANGED <<intake, flags, disk>>

------------------------------------------------------------------------------
WorkerStep ==
  \/ Loop \/ Resumed \/ Take \/ Peek \/ Grouped \/ Dispatch
  \/ Run \/ LastToken \/ Interrupted \/ Finished \/ Failed
  \/ Check \/ Acquire \/ Filter \/ Start \/ Decode \/ FanOut

Request ==
  \/ \E r \in Requests : Submit(r)
  \/ \E j \in Job : Enqueue(j) \/ Cancel(j)
  \/ Pause \/ Shutdown \/ PutStop

Next == Request \/ WorkerStep

Spec == Init /\ [][Next]_vars

\* The worker runs whenever it can, a request under way puts its jobs, and a shutdown
\* its sentinel; nobody is obliged to ask for anything.
FairSpec ==
  Spec /\ WF_vars(WorkerStep) /\ WF_vars(\E j \in Job : Enqueue(j)) /\ WF_vars(PutStop)

------------------------------------------------------------------------------
(* Properties. *)

Ops == {"top", "pause", "get", "group", "dispatch", "run", "tokens", "last",
        "stage1", "stage2", "batch", "decode", "fanout", "exited", "dead"}

TypeOK ==
  /\ status \in [Job -> {"new", "queued", "running"} \cup Terminal]
  /\ puts \in Seq(Job \cup {Stop}) /\ IsInjective(puts)
  /\ queue \in Seq(Job \cup {Stop}) /\ peeked \in Seq(Job) /\ IsInjective(Waiting)
  /\ cancels \subseteq Job /\ early \subseteq cancels
  /\ paused \in BOOLEAN /\ stop \in BOOLEAN
  /\ out \in [Job -> files \cup {NoFile}]
  /\ worker \in [op : Ops, todo : Seq(Job), kept : Seq(Job)]
  /\ Len(worker.todo) <= MaxBatch /\ Len(worker.kept) <= MaxBatch

\* A job that was cancelled while it waited is never reported done, whether it
\* runs alone, in a batch that could not be interrupted any more, or in the
\* fallback (jobs.py:206-209, 221-224; runner.py:352, 544-554, 673-675).
CancelHonoured == \A j \in early : status[j] # "done"

\* A comes before b: it stands before it in one request, or it was on the queue
\* first.  Of two requests at once either may be first, whatever _order says.
Precedes(a, b) ==
  Behind(a, b) \/ \E m, n \in DOMAIN puts : m < n /\ puts[m] = a /\ puts[n] = b

\* FIFO order is preserved across peek and defer (jobs.py:77-79, 191-193): no job
\* starts while one still waits that precedes it in its request (jobs.py:124-125) or
\* was put on the queue before it.
FirstComeFirstServed ==
  [][\A a, b \in Job :
       Precedes(a, b) /\ status[b] = "queued" /\ status'[b] = "running"
         => status'[a] # "queued"]_vars

\* A job ends once: its event stream is closed at its first done, error or
\* cancelled event (app.py:97-102), so no later step may run it again.
TerminalIsFinal ==
  [][\A j \in Job : status[j] \in Terminal => status'[j] = status[j]]_vars

\* Two jobs that are done have written different files, of the same name or not
\* (_unique_base, runner.py:217-218: "Generate a unique output basename").
OutputsDistinct ==
  \A i, j \in Job :
    i # j /\ status[i] = "done" /\ status[j] = "done" => out[i] # out[j]

\* A job that is submitted ends, in a final state, whatever goes wrong with it or
\* with the jobs before it, unless the manager is paused or shut down before it
\* has begun (jobs.py:47-52; tests/webapp/test_runner.py:139-154).
EveryJobEnds ==
  \A j \in Job :
    status[j] \in {"queued", "running"} ~>
      status[j] \in Terminal \/ (status[j] = "queued" /\ (paused \/ stop))

\* After shutdown() the worker ends, also when its sentinel has been taken for an
\* empty queue by a look ahead (jobs.py:149-152, 180-189).
WorkerStops == stop ~> worker.op = "exited"
=============================================================================
