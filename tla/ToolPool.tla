------------------------------ MODULE ToolPool ------------------------------
(***************************************************************************)
(* The pool of tool workers: ToolWorkerPool and executeToolBatch of        *)
(* core/src/tool-runtime/index.ts, with tool-worker.ts on the other side.  *)
(*                                                                         *)
(* One agent turn calls a batch of tools and waits for all its results;    *)
(* the turns share the pool. Each callback of the main thread (a call, an  *)
(* abort, an answer, a timer, the shutdown) runs to its end, so it is one  *)
(* action. A discarded worker keeps its job, whose late answer or error    *)
(* finds the job settled and changes nothing: it is not modelled, and no   *)
(* more is a tool the worker asks the main thread to run, which is part of *)
(* its work. A batch of a single call runs in the main thread, not here.   *)
(***************************************************************************)
EXTENDS Integers, Sequences, FiniteSets

CONSTANTS
  MaxBatches,  \* bound: batches called, numbered in the order of the calls
  Size,        \* calls of a batch
  MaxWorkers,  \* workerPool.maxWorkers
  MaxDeaths,   \* bound: workers that die by themselves
  MaxDowns,    \* bound: calls of shutdownToolRuntime
  NoJob        \* stands for the job of an idle worker

ASSUME PoolBounds ==
  /\ Size \in Nat /\ Size > 1
  /\ MaxWorkers \in Nat \ {0}
  /\ {MaxBatches, MaxDeaths, MaxDowns} \subseteq Nat

Batches == 1..MaxBatches
Jobs == Batches \X (1..Size)
JobsOf(b) == {j \in Jobs : j[1] = b}
ASSUME NoJobIsNone == NoJob \notin Jobs

Settled == {"answered", "failed", "timeout", "aborted"}

VARIABLES
  call,     \* the promise of each call: new, queued, running or how it settled
  queue,    \* ToolWorkerPool.queue
  workers,  \* ToolWorkerPool.workers, in the order of the array
  signal,   \* batches whose AbortSignal has fired
  deaths, downs

vars == <<call, queue, workers, signal, deaths, downs>>

\* at: what the thread behind the slot does.
Slots == [job : Jobs \union {NoJob}, at : {"idle", "tool", "dead"}]
IdleSlot == [job |-> NoJob, at |-> "idle"]

Init ==
  /\ call = [j \in Jobs |-> "new"]
  /\ queue = <<>>
  /\ workers = <<>>
  /\ signal = {}
  /\ deaths = 0 /\ downs = 0

-----------------------------------------------------------------------------
(* getIdleSlot, startJob and drain.                                            *)

Busy(slot) == slot.job # NoJob
RunningIn(slots) == {slots[i].job : i \in DOMAIN slots} \ {NoJob}

\* A job given to a thread that has died waits for its timer: postMessage is taken
\* to return, as it does for a worker that ended unnoticed.
Given(slot, j) == [slot EXCEPT !.job = j, !.at = IF @ = "dead" THEN "dead" ELSE "tool"]

\* The calls that find a worker: the idle slots and those still to be created
\* (RoomForLess misses maxWorkers by one).
IdleIn(slots) == {i \in DOMAIN slots : ~Busy(slots[i])}
RoomForLess(slots) ==
  Cardinality(IdleIn(slots))
    + (IF Len(slots) < MaxWorkers THEN MaxWorkers - Len(slots) - 1 ELSE 0)
Room(slots) == Cardinality(IdleIn(slots)) + MaxWorkers - Len(slots)

\* The place of position i among those of T.
Rank(T, i) == Cardinality(T \intersect 1..i)

\* drain: the head of the queue to the first idle slot, until there is none, then
\* to new workers at the end of the array. What it takes from the queue:
Taken(slots, waiting) ==
  IF Len(waiting) < Room(slots) THEN Len(waiting) ELSE Room(slots)
Created(slots, waiting) ==
  LET more == Taken(slots, waiting) - Cardinality(IdleIn(slots))
  IN IF more > 0 THEN more ELSE 0
Drained(slots, waiting) ==
  LET idle == IdleIn(slots)
      gets(i) == i \in idle /\ Rank(idle, i) <= Taken(slots, waiting)
  IN [i \in 1..(Len(slots) + Created(slots, waiting)) |->
        IF i > Len(slots)
        THEN Given(IdleSlot, waiting[Cardinality(idle) + i - Len(slots)])
        ELSE IF gets(i) THEN Given(slots[i], waiting[Rank(idle, i)]) ELSE slots[i]]
LeftOver(slots, waiting) == SubSeq(waiting, Taken(slots, waiting) + 1, Len(waiting))

\* splice and filter: the elements at the positions of T, closed up. SelectSeq and
\* RemoveAt would do, but are defined by recursion or by pieces to join.
Keep(seq, T) == [n \in 1..Cardinality(T) |-> seq[CHOOSE i \in T : Rank(T, i) = n]]

\* finishJob: a worker that answered goes back to the pool, any other is dropped.
Freed(slots, i) == [slots EXCEPT ![i] = IdleSlot]
Discarded(slots, i) == Keep(slots, DOMAIN slots \ {i})

\* How the callback leaves the promises and the pool.
Finish(slots, waiting, outcome) ==
  /\ workers' = Drained(slots, waiting)
  /\ queue' = LeftOver(slots, waiting)
  /\ call' = [j \in Jobs |-> IF outcome[j] = "queued" /\ j \in RunningIn(workers')
                             THEN "running" ELSE outcome[j]]

-----------------------------------------------------------------------------
(* executeToolBatch.                                                        *)

IsNextBatch(b) == \A j \in Jobs : call[j] = "new" <=> j[1] >= b

\* Promise.all of pool.execute over the calls, in order.
ExecuteBatch(b) ==
  /\ IsNextBatch(b)
  /\ Finish(workers, queue \o [n \in 1..Size |-> <<b, n>>],
            [j \in Jobs |-> IF j[1] = b THEN "queued" ELSE call[j]])
  /\ UNCHANGED <<signal, deaths, downs>>

\* The signal had fired before: no call reaches the pool.
RefuseBatch(b) ==
  /\ IsNextBatch(b)
  /\ signal' = signal \union {b}
  /\ call' = [j \in Jobs |-> IF j[1] = b THEN "aborted" ELSE call[j]]
  /\ UNCHANGED <<queue, workers, deaths, downs>>

-----------------------------------------------------------------------------
(* abortBatch, while the batch still waits for a result: its listener is    *)
(* there until then.                                                        *)

\* The queue without the batch. AbortClearsQueue is a mistake.
AbortClearsQueue(b, waiting) == <<>>
NotOf(b, waiting) == Keep(waiting, {i \in DOMAIN waiting : waiting[i][1] # b})

\* The walk over the array finishes a worker of the batch; the splice in
\* finishJob moves the next worker to its place, and the walk goes past it: of
\* adjacent workers of the batch the first, the third and so on are reached. The
\* workers drain creates are appended and run other batches.
\* AbortAnyone forgets to compare the batch.
AbortAnyone(b, slots) == {i \in DOMAIN slots : Busy(slots[i])}
Reached(b, slots) ==
  LET of(i) == Busy(slots[i]) /\ slots[i].job[1] = b
      from(f, i) == (\A k \in f..i : of(k)) /\ (f = 1 \/ ~of(f - 1))
  IN {i \in DOMAIN slots : \E f \in 1..i : from(f, i) /\ (i - f) % 2 = 0}

AbortBatch(b) ==
  /\ b \notin signal
  /\ \E j \in JobsOf(b) : call[j] \in {"queued", "running"}
  /\ signal' = signal \union {b}
  /\ LET hit == Reached(b, workers)
         ended == {j \in JobsOf(b) : call[j] = "queued"} \union {workers[i].job : i \in hit}
     IN Finish(Keep(workers, DOMAIN workers \ hit),
               NotOf(b, queue),
               [j \in Jobs |-> IF j \in ended THEN "aborted" ELSE call[j]])
  /\ UNCHANGED <<deaths, downs>>

-----------------------------------------------------------------------------
(* What the worker threads do, and the timers.                              *)

Ends(i, how) == [call EXCEPT ![workers[i].job] = how]

\* onmessage: the result of the job.
Answers(i) ==
  /\ workers[i].at = "tool"
  /\ Finish(Freed(workers, i), queue, Ends(i, "answered"))
  /\ UNCHANGED <<signal, deaths, downs>>

\* onerror while the worker has a job.
Fails(i) ==
  /\ workers[i].at = "tool" /\ deaths < MaxDeaths
  /\ deaths' = deaths + 1
  /\ Finish(Discarded(workers, i), queue, Ends(i, "failed"))
  /\ UNCHANGED <<signal, downs>>

\* The thread ends without an error event, or with one while it is idle: onerror
\* returns at once and the slot stays.
Dies(i) ==
  /\ workers[i].at # "dead" /\ deaths < MaxDeaths
  /\ deaths' = deaths + 1
  /\ workers' = [workers EXCEPT ![i].at = "dead"]
  /\ UNCHANGED <<call, queue, signal, downs>>

\* startJob sets a timer for each job. TimedIfAlive leaves it to the worker.
TimedIfAlive(slot) == Busy(slot) /\ slot.at # "dead"
Timed(slot) == Busy(slot)

TimesOut(i) ==
  /\ Timed(workers[i])
  /\ Finish(Discarded(workers, i), queue, Ends(i, "timeout"))
  /\ UNCHANGED <<signal, deaths, downs>>

\* shutdownToolRuntime: dispose; the next batch makes a new pool.
Shutdown ==
  /\ downs < MaxDowns
  /\ downs' = downs + 1
  /\ workers' = <<>> /\ queue' = <<>>
  /\ call' = [j \in Jobs |-> IF call[j] \in {"queued", "running"} THEN "aborted" ELSE call[j]]
  /\ UNCHANGED <<signal, deaths>>

Next ==
  \/ \E b \in Batches : ExecuteBatch(b) \/ RefuseBatch(b) \/ AbortBatch(b)
  \/ \E i \in DOMAIN workers :
       Answers(i) \/ Fails(i) \/ Dies(i) \/ TimesOut(i)
  \/ Shutdown

\* Timers fire. Nothing is asked of tools and workers.
TimerOf(j) == \E i \in DOMAIN workers : workers[i].job = j /\ TimesOut(i)
Fairness == \A j \in Jobs : WF_vars(TimerOf(j))

Spec == Init /\ [][Next]_vars /\ Fairness

-----------------------------------------------------------------------------
TypeOK ==
  /\ call \in [Jobs -> {"new", "queued", "running"} \union Settled]
  /\ queue \in Seq(Jobs)
  /\ workers \in Seq(Slots) /\ Len(workers) <= MaxWorkers
  /\ signal \subseteq Batches
  /\ deaths \in 0..MaxDeaths /\ downs \in 0..MaxDowns

\* No call is lost or done twice, whatever answers, aborts, deaths and timers do:
\* a promise that is not settled has its call once in the queue or in one worker,
\* and a settled one has left both.
NoCallLost ==
  \A j \in Jobs :
    /\ Cardinality({n \in DOMAIN queue : queue[n] = j}) = IF call[j] = "queued" THEN 1 ELSE 0
    /\ Cardinality({i \in DOMAIN workers : workers[i].job = j}) =
         IF call[j] = "running" THEN 1 ELSE 0

\* A call waits only while every worker the pool may have is busy: finishJob
\* replaces the workers it drops.
WaitsForWorkers ==
  queue # <<>> => Len(workers) = MaxWorkers /\ \A i \in DOMAIN workers : Busy(workers[i])

\* An abort ends calls of the batch whose signal fired and of no other.
AbortIsOwn ==
  [][downs' = downs =>
       \A j \in Jobs : call[j] # "aborted" /\ call'[j] = "aborted" => j[1] \in signal' \ signal]_vars

\* Every tool call gets a result, though a tool may never return, its worker may
\* be gone and other batches may be aborted.
EveryCallEnds == \A j \in Jobs : call[j] = "queued" ~> call[j] \in Settled

\* tests/tool-runtime.test.ts "marks queued and running work as aborted": the
\* abort ends every call of the batch that has no result yet.
AbortReachesAll ==
  [][\A b \in signal' \ signal : \A j \in JobsOf(b) : call'[j] \in Settled]_vars
=============================================================================
