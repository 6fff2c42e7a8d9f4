---------------------------- MODULE DurableQueue ----------------------------
(***************************************************************************)
(* The durable work queue of the gateway: gateway/job-store.ts (the        *)
(* persisted documents and their guarded transitions),                     *)
(* gateway/durable-queue.ts (dispatch, execution, leases, cancellation) and *)
(* the part of storage/reconcile.ts that repairs the queue at boot.        *)
(*                                                                         *)
(* The process is one JavaScript event loop: code between two awaits runs  *)
(* without interruption, and every await is a point where another          *)
(* activation may run. An action here is the code from one such point to   *)
(* the next. Each function of job-store.ts re-reads its document until a   *)
(* conditional put succeeds, so its effect is one atomic guarded step.     *)
(*                                                                         *)
(* Data left out: payloads, results, error texts, clock values. A job's    *)
(* not_before is the flag due, its lease one of "null", "live", "lapsed".  *)
(* No caller in the repository sets priority or a future not_before, so    *)
(* jobs of a lane are ordered by id alone and are born due.                *)
(***************************************************************************)
EXTENDS Integers, FiniteSets, Sequences

CONSTANTS
  NJobs,            \* bound: jobs created over a behaviour (ids 1..NJobs)
  Lanes,            \* lane names
  NoLane,           \* lane of a document that does not exist yet
  Kinds,            \* job types enqueued: "chat_turn", "worker_task", "goal_run"
  Dispatchers,      \* bound: concurrent activations of dispatchLane
  MaxGlobal,        \* maxGlobalConcurrency
  MaxAttempts,      \* max_attempts of every job (createJob's default is 2)
  MaxRetries,       \* jobRetryPolicy.maxRetries
  MaxBoots,         \* bound: process starts, the first included
  MaxFaults,        \* bound: final writes that give up after MAX_RETRIES
  LeaseMayLapse,    \* may a lease lapse although its renewal timer is alive
  CancelsAllowed    \* may users cancel jobs and lanes

ASSUME BoundsAssumption ==
  /\ {NJobs, MaxGlobal, MaxAttempts, MaxBoots} \subseteq Nat \ {0}
  /\ {MaxRetries, MaxFaults} \subseteq Nat
  /\ {LeaseMayLapse, CancelsAllowed} \subseteq BOOLEAN
  /\ IsFiniteSet(Dispatchers)

ASSUME NamesAssumption ==
  /\ NoLane \notin Lanes
  /\ Kinds \subseteq {"chat_turn", "worker_task", "goal_run"}

Jobs == 1..NJobs
NoJob == 0
MaxStarts == MaxAttempts + MaxRetries
Starts == 1..MaxStarts

VARIABLES
  \* persisted
  job,         \* the jobQueue collection
  seq,         \* the counter "jobQueue" of the counters collection
  \* memory of the process
  phase,       \* "down", "reconciling" (reconcileOnBoot) or "serving"
  boot,        \* boot id of the process, the number of process starts
  armed,       \* lanes with a timer in dispatchTimers
  disp,        \* activations of dispatchLane
  exec,        \* activations of executeJob, by job and attempt claimed
  running,     \* runningCount
  aborts,      \* runningAborts: the attempt whose controller is registered
  cancelling,  \* jobs with a cancelJob call in flight
  stopping,    \* lanes with a cancelLane call in flight
  noticing,    \* jobs interrupted by the tick, their hook not yet called
  creating,    \* createJob calls between nextId and put: the document to come
  \* environment and history
  faults,      \* final writes that gave up so far
  hooks,       \* terminal hook calls of each job, in order: TRUE for ok
  lost,        \* executions of each job lost to a crash or a lapsed lease
  older        \* jobs of smaller id whose document existed when a job's was put

memory == <<armed, disp, exec, running, aborts, cancelling, stopping, noticing>>
births == <<seq, creating, older>>
vars == <<job, phase, boot, memory, faults, hooks, lost, births>>

-----------------------------------------------------------------------------
(* Documents and activations *)

Final == {"completed", "failed", "cancelled"}
Statuses == {"absent", "pending", "running", "interrupted"} \union Final

Doc == [status   : Statuses,
        lane     : Lanes \union {NoLane},
        kind     : Kinds \union {"none"},
        attempts : 0..MaxStarts,
        retries  : 0..MaxRetries,
        due      : BOOLEAN,
        owner    : 0..MaxBoots,
        lease    : {"null", "live", "lapsed"}]

Absent == [status |-> "absent", lane |-> NoLane, kind |-> "none", attempts |-> 0,
           retries |-> 0, due |-> TRUE, owner |-> 0, lease |-> "null"]

Idle == [pc |-> "idle", lane |-> NoLane, job |-> NoJob, start |-> 0]
NoExec == [pc |-> "none", aborted |-> FALSE]

Dispatch == [pc    : {"idle", "read", "claim", "claimed"},
             lane  : Lanes \union {NoLane},
             job   : Jobs \union {NoJob},
             start : 0..MaxStarts]

Execution == [pc : {"none", "working", "hook_ok", "hook_fail", "closing"},
              aborted : BOOLEAN]

Status(j) == job[j].status
Pending(l) == {j \in Jobs : /\ Status(j) = "pending"
                            /\ job[j].due
                            /\ job[j].lane = l}
Working(j, n) == exec[<<j, n>>].pc = "working"
Active == {e \in Jobs \X Starts : exec[e].pc # "none"}

\* The job that findPendingJobsByLane puts first.
LastOf(l, j) == j \in Pending(l) /\ \A k \in Pending(l) : k <= j
HeadOf(l, j) == j \in Pending(l) /\ \A k \in Pending(l) : j <= k

\* Fields every transition out of "running" resets.
LeaseKept(doc, s) == [doc EXCEPT !.status = s, !.owner = 0]
Released(doc, s) == [doc EXCEPT !.status = s, !.owner = 0, !.lease = "null"]

-----------------------------------------------------------------------------
(* job-store.ts: what one guarded write makes of a document.              *)
(* LastOf, LeaseKept, ClaimUnread, RetriedOnceMore, ReclaimedOnceMore,    *)
(* CancelAny, CapOffByOne, NoticeAlways, OwnSlotOnly, NoLanes and         *)
(* LapsedOrphan are faulty variants of the definition that follows each   *)
(* of them; the specification does not use them.                          *)

CreatedDoc(l, k) == [Absent EXCEPT !.status = "pending", !.lane = l, !.kind = k]

ClaimUnread(doc) == doc.status # "absent"
CanClaim(doc) == doc.status = "pending" /\ doc.due
ClaimedDoc(doc) == [doc EXCEPT !.status = "running", !.attempts = @ + 1,
                               !.owner = boot, !.lease = "live"]

\* renewLease, completeJob, failJob and failJobOrRetry refuse any other doc.
Owned(doc) == doc.status = "running" /\ doc.owner = boot

RetriedOnceMore(doc) ==
  IF doc.retries > MaxRetries
  THEN Released(doc, "failed")
  ELSE [Released(doc, "pending") EXCEPT !.retries = @ + 1, !.due = FALSE]
RetriedDoc(doc) ==
  IF doc.retries >= MaxRetries
  THEN Released(doc, "failed")
  ELSE [Released(doc, "pending") EXCEPT !.retries = @ + 1, !.due = FALSE]

ReclaimedOnceMore(doc) ==
  Released(doc, IF doc.attempts > MaxAttempts THEN "interrupted" ELSE "pending")
ReclaimedDoc(doc) ==
  Released(doc, IF doc.attempts >= MaxAttempts THEN "interrupted" ELSE "pending")

CancelAny(doc) == doc.status # "absent"
CanCancel(doc) == doc.status \in {"pending", "running", "interrupted"}

-----------------------------------------------------------------------------
Init == /\ job = [j \in Jobs |-> Absent]
        /\ phase = "serving" /\ boot = 1
        /\ armed = {}
        /\ disp = [d \in Dispatchers |-> Idle]
        /\ exec = [e \in Jobs \X Starts |-> NoExec]
        /\ running = 0
        /\ aborts = [j \in Jobs |-> 0]
        /\ cancelling = {} /\ stopping = {} /\ noticing = {}
        /\ faults = 0
        /\ hooks = [j \in Jobs |-> <<>>]
        /\ lost = [j \in Jobs |-> 0]
        /\ seq = 0
        /\ creating = [j \in Jobs |-> Absent]
        /\ older = [j \in Jobs |-> {}]

Serving == phase = "serving"

-----------------------------------------------------------------------------
(* Enqueue and dispatch *)

\* nextId bumps the persistent counter: ids are given in order, once.
NextId(j) == /\ j = seq + 1
             /\ seq' = j

\* enqueue: createJob awaits its id. The document it is going to put under that
\* id is still in memory only, and other calls may overtake it.
Enqueue(l, k) ==
  /\ Serving
  /\ \E j \in Jobs : NextId(j) /\ creating' = [creating EXCEPT ![j] = CreatedDoc(l, k)]
  /\ UNCHANGED <<job, phase, boot, memory, faults, hooks, lost, older>>

\* createJob puts the document (expectedVersion 0), then scheduleDispatch arms
\* the lane.
StoreJob(j) ==
  /\ creating[j] # Absent
  /\ Status(j) = "absent"
  /\ job' = [job EXCEPT ![j] = creating[j]]
  /\ creating' = [creating EXCEPT ![j] = Absent]
  /\ older' = [older EXCEPT ![j] = {i \in Jobs : i < j /\ Status(i) # "absent"}]
  /\ armed' = armed \union {creating[j].lane}
  /\ UNCHANGED <<phase, boot, disp, exec, running, aborts, cancelling, stopping,
                 noticing, faults, hooks, lost, seq>>

\* The debounce timer of a lane fires: dispatchLane starts its first read.
FireTimer(d, l) ==
  /\ disp[d].pc = "idle"
  /\ l \in armed
  /\ armed' = armed \ {l}
  /\ disp' = [disp EXCEPT ![d] = [Idle EXCEPT !.pc = "read", !.lane = l]]
  /\ UNCHANGED <<job, phase, boot, exec, running, aborts, cancelling,
                 stopping, noticing, faults, hooks, lost, births>>

\* The read of the lane returns: take its head, give up if the lane has nothing
\* due or if the cap is reached (chat turns ignore the cap).
CapOffByOne(k) == k # "chat_turn" /\ running > MaxGlobal
CapBlocks(k) == k # "chat_turn" /\ running >= MaxGlobal
ReadLane(d) ==
  LET l == disp[d].lane
  IN /\ disp[d].pc = "read"
     /\ \/ /\ Pending(l) = {}
           /\ disp' = [disp EXCEPT ![d] = Idle]
        \/ \E j \in Jobs :
             /\ HeadOf(l, j)
             /\ disp' = [disp EXCEPT ![d] =
                  IF CapBlocks(job[j].kind) THEN Idle
                  ELSE [@ EXCEPT !.pc = "claim", !.job = j]]
     /\ UNCHANGED <<job, phase, boot, armed, exec, running, aborts, cancelling,
                    stopping, noticing, faults, hooks, lost, births>>

\* claimJob returns: the claimed document, or null and the lane is read again.
ClaimJob(d) ==
  LET j == disp[d].job
  IN /\ disp[d].pc = "claim"
     /\ IF CanClaim(job[j])
        THEN /\ job' = [job EXCEPT ![j] = ClaimedDoc(@)]
             /\ disp' = [disp EXCEPT ![d].pc = "claimed",
                                     ![d].start = job[j].attempts + 1]
        ELSE /\ disp' = [disp EXCEPT ![d] = [Idle EXCEPT !.pc = "read", !.lane = disp[d].lane]]
             /\ UNCHANGED job
     /\ UNCHANGED <<phase, boot, armed, exec, running, aborts, cancelling,
                    stopping, noticing, faults, hooks, lost, births>>

\* dispatchLane resumes with the claimed document and starts executeJob.
Launch(d) ==
  LET j == disp[d].job
      n == disp[d].start
  IN /\ disp[d].pc = "claimed"
     /\ running' = running + 1
     /\ exec' = [exec EXCEPT ![<<j, n>>] = [pc |-> "working", aborted |-> FALSE]]
     /\ aborts' = [aborts EXCEPT ![j] = n]
     /\ disp' = [disp EXCEPT ![d] = Idle]
     /\ UNCHANGED <<job, phase, boot, armed, cancelling, stopping, noticing,
                    faults, hooks, lost, births>>

-----------------------------------------------------------------------------
(* executeJob: the executor answers, its result is stored, the hook is called, *)
(* the slot is given back. hookPc names the step that follows the store.       *)

Store(j, n, doc, hookPc) ==
  /\ job' = [job EXCEPT ![j] = doc]
  /\ exec' = [exec EXCEPT ![<<j, n>>].pc = hookPc]
  /\ UNCHANGED <<phase, boot, armed, disp, running, aborts, cancelling,
                 stopping, noticing, faults, hooks, lost, births>>

\* {ok: true}: completeJob, then the hook whatever completeJob found.
SucceedJob(j, n) ==
  /\ Working(j, n)
  /\ Store(j, n, IF Owned(job[j]) THEN Released(job[j], "completed") ELSE job[j],
           "hook_ok")

\* A final failure: retryable is false, or any failure of a chat turn. failJob,
\* then the hook whatever failJob found.
FailJob(j, n) ==
  /\ Working(j, n)
  /\ Store(j, n, IF Owned(job[j]) THEN Released(job[j], "failed") ELSE job[j],
           "hook_fail")

\* A retryable failure or an exception of the executor. failJobOrRetry, then the
\* hook only if it made the job fail.
NoticeAlways(doc) == "hook_fail"
AfterRetry(doc) == IF doc.status = "failed" THEN "hook_fail" ELSE "closing"
FailOrRetryJob(j, n) ==
  /\ Working(j, n)
  /\ job[j].kind # "chat_turn"
  /\ IF Owned(job[j])
     THEN Store(j, n, RetriedDoc(job[j]), AfterRetry(RetriedDoc(job[j])))
     ELSE Store(j, n, job[j], "closing")

\* The executor throws an AbortError, its own or that of a call it made: cancelJob,
\* which ignores who owns the job.
AbortJob(j, n) ==
  /\ Working(j, n)
  /\ Store(j, n, IF CanCancel(job[j]) THEN Released(job[j], "cancelled") ELSE job[j],
           "closing")

\* The store refuses MAX_RETRIES puts in a row: completeJob and failJob return
\* as if they had written, failJobOrRetry returns null, cancelJob false.
GiveUpStore(j, n) ==
  /\ Working(j, n)
  /\ Owned(job[j])
  /\ faults < MaxFaults
  /\ faults' = faults + 1
  /\ \E pc \in {"hook_ok", "hook_fail", "closing"} :
       exec' = [exec EXCEPT ![<<j, n>>].pc = pc]
  /\ UNCHANGED <<job, phase, boot, armed, disp, running, aborts, cancelling,
                 stopping, noticing, hooks, lost, births>>

CallHook(j, n) ==
  /\ exec[<<j, n>>].pc \in {"hook_ok", "hook_fail"}
  /\ hooks' = [hooks EXCEPT ![j] = Append(@, exec[<<j, n>>].pc = "hook_ok")]
  /\ exec' = [exec EXCEPT ![<<j, n>>].pc = "closing"]
  /\ UNCHANGED <<job, phase, boot, armed, disp, running, aborts, cancelling,
                 stopping, noticing, faults, lost, births>>

\* finally: whichever controller is registered for the job id is forgotten.
OwnSlotOnly(j, n) == IF aborts[j] = n THEN running - 1 ELSE running
SlotsAfter(j, n) == running - 1
CloseExec(j, n) ==
  /\ exec[<<j, n>>].pc = "closing"
  /\ exec' = [exec EXCEPT ![<<j, n>>] = NoExec]
  /\ aborts' = [aborts EXCEPT ![j] = 0]
  /\ running' = SlotsAfter(j, n)
  /\ armed' = armed \union {job[j].lane}
  /\ UNCHANGED <<job, phase, boot, disp, cancelling, stopping, noticing,
                 faults, hooks, lost, births>>

\* taskTimeoutMs elapses while the executor works.
TimeOut(j, n) ==
  /\ Working(j, n)
  /\ ~exec[<<j, n>>].aborted
  /\ exec' = [exec EXCEPT ![<<j, n>>].aborted = TRUE]
  /\ UNCHANGED <<job, phase, boot, armed, disp, running, aborts, cancelling,
                 stopping, noticing, faults, hooks, lost, births>>

-----------------------------------------------------------------------------
(* Time: backoff, leases and the maintenance tick *)

BackoffElapses(j) ==
  /\ Status(j) = "pending" /\ ~job[j].due
  /\ job' = [job EXCEPT ![j].due = TRUE]
  /\ UNCHANGED <<phase, boot, memory, faults, hooks, lost, births>>

\* The renewal timer of executeJob lives until its finally, for any attempt.
Renewing(j) == \/ \E n \in Starts : exec[<<j, n>>].pc # "none"
               \/ \E d \in Dispatchers : disp[d].pc = "claimed" /\ disp[d].job = j

LeaseLapses(j) ==
  /\ job[j].lease = "live"
  /\ LeaseMayLapse \/ ~Renewing(j)
  /\ job' = [job EXCEPT ![j].lease = "lapsed"]
  /\ UNCHANGED <<phase, boot, memory, faults, hooks, lost, births>>

RenewLease(j) ==
  /\ \E n \in Starts : exec[<<j, n>>].pc # "none"
  /\ Owned(job[j])
  /\ job[j].lease = "lapsed"
  /\ job' = [job EXCEPT ![j].lease = "live"]
  /\ UNCHANGED <<phase, boot, memory, faults, hooks, lost, births>>

\* runMaintenanceTick, first half: reclaimOrInterrupt of a lapsed lease.
Lapsed(doc) == doc.status = "running" /\ doc.lease = "lapsed"
TickReclaim(j) ==
  /\ Serving
  /\ Lapsed(job[j])
  /\ job' = [job EXCEPT ![j] = ReclaimedDoc(@)]
  /\ lost' = [lost EXCEPT ![j] = @ + 1]
  /\ IF job'[j].status = "pending"
     THEN armed' = armed \union {job[j].lane} /\ UNCHANGED noticing
     ELSE noticing' = noticing \union {j} /\ UNCHANGED armed
  /\ UNCHANGED <<phase, boot, disp, exec, running, aborts, cancelling, stopping,
                 faults, hooks, births>>

\* reclaimOrInterrupt calls the hook after its import of durable-queue resolves.
TickNotice(j) ==
  /\ j \in noticing
  /\ noticing' = noticing \ {j}
  /\ hooks' = [hooks EXCEPT ![j] = Append(@, FALSE)]
  /\ UNCHANGED <<job, phase, boot, armed, disp, exec, running, aborts,
                 cancelling, stopping, faults, lost, births>>

\* runMaintenanceTick, second half: dispatchPendingLanes.
NoLanes == {}
DueLanes == {l \in Lanes : Pending(l) # {}}
TickDispatch ==
  /\ Serving
  /\ armed' = armed \union DueLanes
  /\ UNCHANGED <<job, phase, boot, disp, exec, running, aborts, cancelling,
                 stopping, noticing, faults, hooks, lost, births>>

-----------------------------------------------------------------------------
(* Cancellation: the abort signals first, the cancelJob writes later *)

\* The executions whose registered controller is that of a job in S.
Aborted(S) == [e \in Jobs \X Starts |->
                 IF e[1] \in S /\ aborts[e[1]] = e[2]
                 THEN [exec[e] EXCEPT !.aborted = TRUE] ELSE exec[e]]

\* cancel: abort the registered controller, then call cancelJob.
Cancel(j) ==
  /\ Serving /\ CancelsAllowed
  /\ Status(j) # "absent"
  /\ exec' = Aborted({j})
  /\ cancelling' = cancelling \union {j}
  /\ UNCHANGED <<job, phase, boot, armed, disp, running, aborts, stopping,
                 noticing, faults, hooks, lost, births>>

WriteCancel(j) ==
  /\ j \in cancelling
  /\ cancelling' = cancelling \ {j}
  /\ job' = [job EXCEPT ![j] = IF CanCancel(@) THEN Released(@, "cancelled") ELSE @]
  /\ UNCHANGED <<phase, boot, armed, disp, exec, running, aborts, stopping,
                 noticing, faults, hooks, lost, births>>

CancelLane(l) ==
  /\ Serving /\ CancelsAllowed
  /\ l \notin stopping
  /\ stopping' = stopping \union {l}
  /\ UNCHANGED <<job, phase, boot, armed, disp, exec, running, aborts, cancelling,
                 noticing, faults, hooks, lost, births>>

\* cancelLane, first loop: abort a registered execution of the lane, then await
\* its cancelJob before the next. A visited one is final and aborted.
Registered(l) == {j \in Jobs : /\ aborts[j] # 0 /\ job[j].lane = l
                               /\ Status(j) \in Final => ~exec[<<j, aborts[j]>>].aborted}
CancelRunning(l) ==
  /\ l \in stopping
  /\ \A j \in cancelling : job[j].lane # l
  /\ \E j \in Registered(l) : /\ exec' = Aborted({j})
                              /\ cancelling' = cancelling \union {j}
  /\ UNCHANGED <<job, phase, boot, armed, disp, running, aborts, stopping,
                 noticing, faults, hooks, lost, births>>

\* cancelLane, second loop: cancelJob for the jobs findPendingJobsByLane returns.
CancelWaiting(l) ==
  /\ l \in stopping
  /\ Registered(l) = {}
  /\ \A j \in cancelling : job[j].lane # l
  /\ cancelling' = cancelling \union Pending(l)
  /\ stopping' = stopping \ {l}
  /\ UNCHANGED <<job, phase, boot, armed, disp, exec, running, aborts, noticing,
                 faults, hooks, lost, births>>

-----------------------------------------------------------------------------
(* Crash and boot *)

\* The process dies: only the documents survive.
Crash ==
  /\ phase # "down" /\ boot < MaxBoots
  /\ phase' = "down"
  /\ armed' = {} /\ running' = 0
  /\ disp' = [d \in Dispatchers |-> Idle]
  /\ exec' = [e \in Jobs \X Starts |-> NoExec]
  /\ aborts' = [j \in Jobs |-> 0]
  /\ cancelling' = {} /\ stopping' = {} /\ noticing' = {}
  /\ creating' = [j \in Jobs |-> Absent]
  /\ UNCHANGED <<job, boot, faults, hooks, lost, seq, older>>

Restart ==
  /\ phase = "down"
  /\ phase' = "reconciling"
  /\ boot' = boot + 1
  /\ UNCHANGED <<job, memory, faults, hooks, lost, births>>

\* reconcileOnBoot: forced reclaimOrInterrupt. No terminal hook is registered
\* yet, so runTerminalHook returns at once.
LapsedOrphan(j) == Status(j) = "running" /\ job[j].lease = "lapsed"
Orphan(j) == Status(j) = "running"
Reconcile(j) ==
  /\ phase = "reconciling"
  /\ Orphan(j)
  /\ job' = [job EXCEPT ![j] = ReclaimedDoc(@)]
  /\ lost' = [lost EXCEPT ![j] = @ + 1]
  /\ UNCHANGED <<phase, boot, memory, faults, hooks, births>>

\* initDurableQueue: start dispatches the lanes with due jobs.
StartQueue ==
  /\ phase = "reconciling"
  /\ \A j \in Jobs : ~Orphan(j)
  /\ phase' = "serving"
  /\ armed' = DueLanes
  /\ UNCHANGED <<job, boot, disp, exec, running, aborts, cancelling, stopping,
                 noticing, faults, hooks, lost, births>>

-----------------------------------------------------------------------------
DispatchNext == \E d \in Dispatchers :
  ReadLane(d) \/ ClaimJob(d) \/ Launch(d) \/ \E l \in Lanes : FireTimer(d, l)

Answer(j, n) == \/ SucceedJob(j, n) \/ FailJob(j, n) \/ FailOrRetryJob(j, n)
                \/ AbortJob(j, n) \/ GiveUpStore(j, n)

ExecNext == \E j \in Jobs, n \in Starts :
  Answer(j, n) \/ CallHook(j, n) \/ CloseExec(j, n) \/ TimeOut(j, n)

TimeNext == \/ \E j \in Jobs : \/ BackoffElapses(j) \/ LeaseLapses(j) \/ RenewLease(j)
                               \/ TickReclaim(j) \/ TickNotice(j)
            \/ TickDispatch

UserNext == \/ \E l \in Lanes : \/ \E k \in Kinds : Enqueue(l, k)
                                \/ CancelLane(l) \/ CancelRunning(l) \/ CancelWaiting(l)
            \/ \E j \in Jobs : StoreJob(j) \/ Cancel(j) \/ WriteCancel(j)

BootNext == Crash \/ Restart \/ StartQueue \/ \E j \in Jobs : Reconcile(j)

Next == DispatchNext \/ ExecNext \/ TimeNext \/ UserNext \/ BootNext

Spec == Init /\ [][Next]_vars

\* Timers fire, awaits resolve, executors answer (the timeout aborts them) and a
\* supervisor restarts a dead process. Users, crashes, lapses, timeouts and
\* store faults are never forced.
Fairness ==
  /\ \A d \in Dispatchers :
       /\ WF_vars(ReadLane(d)) /\ WF_vars(ClaimJob(d)) /\ WF_vars(Launch(d))
  /\ \A l \in Lanes : WF_vars(\E d \in Dispatchers : FireTimer(d, l))
  /\ \A j \in Jobs, n \in Starts :
       /\ WF_vars(Answer(j, n)) /\ WF_vars(CallHook(j, n)) /\ WF_vars(CloseExec(j, n))
  /\ \A j \in Jobs :
       /\ WF_vars(BackoffElapses(j)) /\ WF_vars(TickReclaim(j)) /\ WF_vars(TickNotice(j))
       /\ WF_vars(WriteCancel(j)) /\ WF_vars(Reconcile(j))
       /\ WF_vars(LeaseLapses(j) /\ ~Renewing(j))
  /\ \A l \in Lanes : WF_vars(CancelRunning(l)) /\ WF_vars(CancelWaiting(l))
  /\ WF_vars(TickDispatch) /\ WF_vars(Restart) /\ WF_vars(StartQueue)

FairSpec == Spec /\ Fairness

-----------------------------------------------------------------------------
(* Properties that hold *)

\* Every variable has its type.
TypeOK ==
  /\ job \in [Jobs -> Doc]
  /\ phase \in {"down", "reconciling", "serving"} /\ boot \in 1..MaxBoots
  /\ armed \subseteq Lanes
  /\ disp \in [Dispatchers -> Dispatch]
  /\ exec \in [Jobs \X Starts -> Execution]
  /\ running \in Int
  /\ aborts \in [Jobs -> 0..MaxStarts]
  /\ cancelling \subseteq Jobs /\ stopping \subseteq Lanes /\ noticing \subseteq Jobs
  /\ faults \in 0..MaxFaults
  /\ hooks \in [Jobs -> Seq(BOOLEAN)]
  /\ lost \in [Jobs -> Nat]
  /\ seq \in 0..NJobs /\ creating \in [Jobs -> Doc] /\ older \in [Jobs -> SUBSET Jobs]

\* Crash recovery and logical retries together never start a job more than
\* max_attempts + maxRetries times, and a job sent back to "pending" always has a
\* start left, although claimJob counts both kinds of start in one counter.
StartBudget ==
  \A j \in Jobs :
    /\ job[j].attempts <= MaxAttempts + job[j].retries
    /\ Status(j) = "pending" => job[j].attempts < MaxAttempts + job[j].retries

\* owner and lease are set exactly while a job runs, and once reconcileOnBoot is
\* over no running document belongs to an earlier process.
RunningIsOwned ==
  \A j \in Jobs :
    /\ (Status(j) = "running") <=> (job[j].owner # 0)
    /\ (Status(j) = "running") <=> (job[j].lease # "null")
    /\ Serving /\ Status(j) = "running" => job[j].owner = boot

\* No orphan: while the queue serves, a running document is held by an executor
\* or by the dispatcher that is about to start it (the store never giving up).
Held(j) == \/ Working(j, job[j].attempts)
           \/ \E d \in Dispatchers : /\ disp[d].pc = "claimed"
                                     /\ disp[d].job = j
                                     /\ disp[d].start = job[j].attempts
RunningIsHeld ==
  faults = 0 => \A j \in Jobs : Serving /\ Status(j) = "running" => Held(j)

\* Two executors never work on the same job at once, however dispatchers,
\* retries, cancels, crashes and store faults interleave, as long as renewal
\* keeps the leases of live executions.
OneExecutorPerJob ==
  ~LeaseMayLapse =>
    \A j \in Jobs, m, n \in Starts : Working(j, m) /\ Working(j, n) => m = n

\* Without store faults or lapsed leases, the terminal hook of a job is called at
\* most once, and a job whose hook was called is not requeued and never runs again.
NotifiedOnce ==
  ~LeaseMayLapse /\ faults = 0 =>
    \A j \in Jobs : /\ Len(hooks[j]) <= 1
                   /\ hooks[j] # <<>> => Status(j) \in Final

\* The slots in use are the executions in progress: no path of executeJob leaks
\* one or returns one twice, which would shrink or lift the cap for good.
SlotsMatchExecutions == running = Cardinality(Active)

\* The cap can be overrun only by dispatchers that passed the check together:
\* fewer than the activations of dispatchLane.
Unchatty == {e \in Active : job[e[1]].kind # "chat_turn"}
OverrunBounded == Cardinality(Unchatty) < MaxGlobal + Cardinality(Dispatchers)

\* Of two jobs of a lane, the one with the smaller id whose document was there when
\* the other's was put starts first, whatever is retried, reclaimed or lost. (The id
\* alone does not order them: createJob awaits between its id and its document.)
FifoStarts ==
  \A j \in Jobs : \A i \in older[j] :
    job[i].lane = job[j].lane /\ job[j].attempts > 0
      => job[i].attempts > 0 \/ Status(i) = "cancelled"

\* A completed, failed or cancelled document never changes again: late answers
\* of executors, reclaims and cancels all bounce off it.
FinalStays ==
  [][\A j \in Jobs : Status(j) \in Final => job'[j] = job[j]]_vars

\* Every stored job ends: whether the process dies while it waits, runs or is
\* answered, the cap refuses it for a job of another lane, or the write of its end
\* gives up, some timer or the next boot brings it on.
EveryJobEnds ==
  \A j \in Jobs : (Status(j) = "pending") ~> (Status(j) \in Final \union {"interrupted"})

\* The queue implements the life cycle a job promises.
Lifecycle == INSTANCE JobLifecycle WITH
  status <- [j \in Jobs |-> job[j].status],
  starts <- [j \in Jobs |-> job[j].attempts]
ImplementsLifecycle == Lifecycle!Spec

-----------------------------------------------------------------------------
(* What the comments of the code say and the code does not do. No run checks *)
(* these: README.md tells of each by which steps the code breaks it.         *)

\* durable-queue.ts:7 "1 concurrent running job per lane".
OneRunningPerLane ==
  \A i, j \in Jobs :
    Status(i) = "running" /\ Status(j) = "running" /\ job[i].lane = job[j].lane => i = j

\* durable-queue.ts:8 "maxGlobalConcurrency across all lanes (default 4)", of the
\* types the cap applies to.
CapRespected == Cardinality(Unchatty) <= MaxGlobal

\* job-store.ts:340 "Terminal via lease-expiry [...] that path already fires the
\* hook, this one didn't before": every interruption is notified.
InterruptedIsNotified ==
  \A j \in Jobs : Status(j) = "interrupted" => hooks[j] # <<>> \/ j \in noticing

\* storage/collections.ts:442, of retry_count: "Separate from `attempts`
\* (crash/lease-expiry only)": a job is interrupted only after max_attempts
\* executions were really lost.
InterruptedAfterLosses ==
  \A j \in Jobs : Status(j) = "interrupted" => lost[j] >= MaxAttempts

=============================================================================
