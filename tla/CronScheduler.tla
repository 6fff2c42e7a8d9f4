---------------------------- MODULE CronScheduler ----------------------------
(***************************************************************************)
(* The scheduler of scheduler/CronScheduler.ts: documents of the           *)
(* collections cronJobs and taskRuns, the table of live Croner instances   *)
(* (`handle'), executions of a task, the calls of users, and the boot that *)
(* follows a crash (repair of taskRuns in storage/reconcile.ts, misfires). *)
(*                                                                         *)
(* An action is the code between two awaits. updateJob and updateTaskRun   *)
(* re-read their document until a conditional put succeeds: one atomic     *)
(* step, without effect when the document is gone.                         *)
(*                                                                         *)
(* Data left out: names, patterns (always valid), payloads, answers, the   *)
(* dates: past[t] says that the next fire time of t has gone by. A Croner  *)
(* instance refuses a name that another running instance holds, fires only *)
(* while not paused, and, protected, only while its flag `busy' is down.   *)
(* Tasks are protected and keep their type, as every task of the agents'   *)
(* tools does; the HTTP routes can create or make it otherwise.            *)
(***************************************************************************)
EXTENDS Integers, FiniteSets

CONSTANTS
  Tasks,        \* ids of tasks
  Execs,        \* bound: activations of execute, each used once
  Clients,      \* bound: calls of users in progress at once
  MaxErrors,    \* MAX_ERRORS
  MaxOps,       \* bound: calls of users over a behaviour, create apart
  MaxCrashes,   \* bound: deaths of the process
  MaxFaults,    \* bound: store or channel errors that make execute throw
  Patches,      \* statuses a call of update may set
  NoTask        \* stands for no task

ASSUME SchedulerBounds ==
  /\ MaxErrors \in Nat \ {0}
  /\ {MaxOps, MaxCrashes, MaxFaults} \subseteq Nat
  /\ NoTask \notin Tasks /\ "boot" \notin Clients
  /\ Patches \subseteq {"active", "paused", "completed", "failed", "cancelled"}

Statuses == {"active", "paused", "completed", "failed", "cancelled"}
RunStatuses == {"none", "running", "success", "failed", "timeout"}
Callers == Clients \union {"boot"}

VARIABLES
  \* persisted
  doc,         \* cronJobs
  run,         \* taskRuns: the status of the record of each execution
  past,        \* tasks whose next_run_at (recurring) or fire_at (one-shot) is past
  \* memory of the process
  mode,        \* "down", "reconciling", "booting" or "up"
  handle,      \* the Croner instance of a task in the map `jobs'
  exec,        \* activations of execute
  call,        \* calls of users, and boot, with what they read
  todo,        \* tasks boot has yet to look at
  cleaning,    \* completed one-shots the cleanup scanned and will cancel
  \* counters of the bounds
  ops, crashes, faults,
  \* history
  wins,        \* counter updates after a success, by task
  losses,      \* counter updates after a failure, by task
  streak,      \* failures since the last success, by task
  overlapped   \* tasks two of whose executions were under way at once

vars == <<doc, run, past, mode, handle, exec, call, todo, cleaning,
          ops, crashes, faults, wins, losses, streak, overlapped>>
history == <<wins, losses, streak, overlapped>>

Doc == [status : Statuses \union {"none", "deleted"}, kind : {"recurring", "one_shot"},
        policy : {"skip", "fire_once"}, runs : Nat, errs : Nat]
NoHandle == [on |-> FALSE, paused |-> FALSE, busy |-> FALSE, ticks |-> FALSE, errs |-> 0]
Idle == [pc |-> "idle", task |-> NoTask, by |-> "timer", own |-> FALSE,
         runs |-> 0, errs |-> 0, armed |-> 0]
NoCall == [pc |-> "idle", kind |-> "none", task |-> NoTask, status |-> "none", errs |-> 0]

Exists(t) == doc[t].status \in Statuses
Alive == mode \in {"booting", "up"}
Of(t) == {e \in Execs : exec[e].task = t /\ exec[e].pc \notin {"idle", "done"}}
Init ==
  /\ doc \in [Tasks -> [status : {"none"}, kind : {"recurring", "one_shot"},
                        policy : {"skip", "fire_once"}, runs : {0}, errs : {0}]]
  /\ run = [e \in Execs |-> "none"]
  /\ past = {}
  /\ mode = "up"
  /\ handle = [t \in Tasks |-> NoHandle]
  /\ exec = [e \in Execs |-> Idle]
  /\ call = [c \in Callers |-> NoCall]
  /\ todo = {}
  /\ cleaning = {}
  /\ ops = 0 /\ crashes = 0 /\ faults = 0
  /\ wins = [t \in Tasks |-> 0]
  /\ losses = [t \in Tasks |-> 0]
  /\ streak = [t \in Tasks |-> 0]
  /\ overlapped = {}

-----------------------------------------------------------------------------
(* Helpers.                                                                 *)

\* updateJob(t, {status}): nothing when the document is gone.
SetStatus(t, s) ==
  doc' = IF Exists(t) THEN [doc EXCEPT ![t].status = s] ELSE doc

Goto(e, pc) == exec' = [exec EXCEPT ![e].pc = pc]

\* The instance of e stops being busy when its function returns; an instance that
\* activate or deactivate replaced is nobody's concern.
Leave(e) ==
  /\ Goto(e, "done")
  /\ handle' = IF exec[e].own
               THEN [handle EXCEPT ![exec[e].task].busy = FALSE] ELSE handle

\* stop() and removal from the map: executions under way go on.
Stopped(t) ==
  /\ handle' = [handle EXCEPT ![t] = NoHandle]
  /\ exec' = [e \in Execs |-> IF exec[e].task = t THEN [exec[e] EXCEPT !.own = FALSE]
                              ELSE exec[e]]

\* An activation of execute begins: called by Croner (its timer or trigger) or by boot.
Start(t, by) ==
  \E e \in Execs :
    /\ exec[e].pc = "idle"
    /\ exec' = [exec EXCEPT ![e] = [Idle EXCEPT !.pc = "read", !.task = t, !.by = by,
                                               !.own = (by # "boot"),
                                               !.armed = handle[t].errs]]

CountOp == ops < MaxOps /\ ops' = ops + 1

-----------------------------------------------------------------------------
(* Croner.                                                                  *)

\* The fire time comes. A paused instance, or a protected one that is busy, lets it
\* go by; a one-shot has no other.
FireTimer(t) ==
  /\ Alive /\ handle[t].on /\ handle[t].ticks
  /\ past' = past \union {t}
  /\ \/ /\ ~handle[t].paused /\ ~handle[t].busy
        /\ Start(t, "timer")
        /\ handle' = [handle EXCEPT ![t].busy = TRUE, ![t].ticks = (doc[t].kind = "recurring")]
     \/ /\ handle[t].paused \/ handle[t].busy
        /\ handle' = [handle EXCEPT ![t].ticks = (doc[t].kind = "recurring")]
        /\ UNCHANGED exec
  /\ UNCHANGED <<doc, run, mode, call, todo, cleaning, ops, crashes, faults, history>>

\* trigger(taskId): asks neither for `paused' nor for `busy'.
Trigger(t) ==
  /\ mode = "up" /\ CountOp /\ handle[t].on
  /\ Start(t, "manual")
  /\ handle' = [handle EXCEPT ![t].busy = TRUE]
  /\ UNCHANGED <<doc, run, past, mode, call, todo, cleaning, crashes, faults, history>>

-----------------------------------------------------------------------------
(* execute, await by await.                                                 *)

\* The task is read afresh; what is read is used for all the updates below. The
\* record of the run is created.
ReadTask(e) ==
  /\ exec[e].pc = "read"
  /\ LET t == exec[e].task IN
     IF Exists(t)
     THEN /\ exec' = [exec EXCEPT ![e].pc = "handler", ![e].runs = doc[t].runs,
                                  ![e].errs = doc[t].errs]
          /\ run' = [run EXCEPT ![e] = "running"]
          /\ overlapped' = IF Of(t) # {e} THEN overlapped \union {t} ELSE overlapped
          /\ UNCHANGED handle
     ELSE Leave(e) /\ UNCHANGED <<run, overlapped>>
  /\ UNCHANGED <<doc, past, mode, call, todo, cleaning, ops, crashes, faults,
                 wins, losses, streak>>

\* The handler (the agent pipeline) answers; a throw counts as a failure.
Handle(e) ==
  /\ exec[e].pc = "handler"
  /\ \E pc \in {"winRun", "loseRun"} : Goto(e, pc)
  /\ UNCHANGED <<doc, run, past, mode, handle, call, todo, cleaning, ops, crashes, faults, history>>

WinRun(e) ==
  /\ exec[e].pc = "winRun"
  /\ run' = [run EXCEPT ![e] = "success"]
  /\ Goto(e, "winJob")
  /\ UNCHANGED <<doc, past, mode, handle, call, todo, cleaning, ops, crashes, faults, history>>

WinJob(e) ==
  /\ exec[e].pc = "winJob"
  /\ LET t == exec[e].task IN
     /\ doc' = IF Exists(t) THEN [doc EXCEPT ![t].runs = exec[e].runs + 1] ELSE doc
     /\ wins' = [wins EXCEPT ![t] = @ + 1]
     /\ streak' = [streak EXCEPT ![t] = 0]
  /\ Goto(e, "nextRun")
  /\ UNCHANGED <<run, past, mode, handle, call, todo, cleaning, ops, crashes, faults,
                 losses, overlapped>>

\* next_run_at is written when the instance of the task has a next date.
WriteNext(e) ==
  /\ exec[e].pc = "nextRun"
  /\ past' = IF handle[exec[e].task].on /\ handle[exec[e].task].ticks
             THEN past \ {exec[e].task} ELSE past
  /\ Goto(e, "notifyWin")
  /\ UNCHANGED <<doc, run, mode, handle, call, todo, cleaning, ops, crashes, faults, history>>

NotifyWin(e) ==
  /\ exec[e].pc = "notifyWin"
  /\ IF doc[exec[e].task].kind = "one_shot"
     THEN Goto(e, "complete") /\ UNCHANGED handle
     ELSE Leave(e)
  /\ UNCHANGED <<doc, run, past, mode, call, todo, cleaning, ops, crashes, faults, history>>

\* The notification throws: the catch records a failure of a run that succeeded.
NotifyThrows(e) ==
  /\ exec[e].pc = "notifyWin" /\ faults < MaxFaults
  /\ faults' = faults + 1
  /\ Goto(e, "loseRun")
  /\ UNCHANGED <<doc, run, past, mode, handle, call, todo, cleaning, ops, crashes, history>>

\* Variant: the instance of a completed one-shot is kept.
KeepInstance(e) == "done"

AfterComplete(e) == "deactivate"

CompleteOneShot(e) ==
  /\ exec[e].pc = "complete"
  /\ SetStatus(exec[e].task, "completed")
  /\ Goto(e, AfterComplete(e))
  /\ UNCHANGED <<run, past, mode, handle, call, todo, cleaning, ops, crashes, faults, history>>

LoseRun(e) ==
  /\ exec[e].pc = "loseRun"
  /\ run' = [run EXCEPT ![e] = "failed"]
  /\ Goto(e, "loseJob")
  /\ UNCHANGED <<doc, past, mode, handle, call, todo, cleaning, ops, crashes, faults, history>>

\* Variant: the count the instance was armed with, as before "Fix 1".
CountFromInstance(e) == exec[e].armed + 1

ErrorCount(e) == exec[e].errs + 1

\* error_count goes up; at the threshold the task is paused.
LoseJob(e) ==
  /\ exec[e].pc = "loseJob"
  /\ LET t == exec[e].task IN
     /\ doc' = IF Exists(t) THEN [doc EXCEPT ![t].errs = ErrorCount(e)] ELSE doc
     /\ losses' = [losses EXCEPT ![t] = @ + 1]
     /\ streak' = [streak EXCEPT ![t] = @ + 1]
     /\ Goto(e, IF Exists(t) /\ ErrorCount(e) >= MaxErrors THEN "pause" ELSE "notifyLoss")
  /\ UNCHANGED <<run, past, mode, handle, call, todo, cleaning, ops, crashes, faults,
                 wins, overlapped>>

AutoPause(e) ==
  /\ exec[e].pc = "pause"
  /\ SetStatus(exec[e].task, "paused")
  /\ Goto(e, "pauseDeactivate")
  /\ UNCHANGED <<run, past, mode, handle, call, todo, cleaning, ops, crashes, faults, history>>

\* deactivate, after a completed one-shot (the end) and after an automatic pause.
Deactivate(e) ==
  /\ exec[e].pc \in {"deactivate", "pauseDeactivate"}
  /\ LET t == exec[e].task IN
     /\ handle' = [handle EXCEPT ![t] = NoHandle]
     /\ exec' = [f \in Execs |->
          IF f = e THEN [exec[e] EXCEPT !.own = FALSE,
                          !.pc = IF @ = "deactivate" THEN "done" ELSE "notifyLoss"]
          ELSE IF exec[f].task = t THEN [exec[f] EXCEPT !.own = FALSE] ELSE exec[f]]
  /\ UNCHANGED <<doc, run, past, mode, call, todo, cleaning, ops, crashes, faults, history>>

NotifyLoss(e) ==
  /\ exec[e].pc = "notifyLoss"
  /\ Leave(e)
  /\ UNCHANGED <<doc, run, past, mode, call, todo, cleaning, ops, crashes, faults, history>>

\* execute rejects: the first read, the notification in the catch. Croner hands the
\* error to handleError, boot only logs it.
ExecuteThrows(e) ==
  /\ exec[e].pc \in {"read", "notifyLoss"} /\ faults < MaxFaults
  /\ faults' = faults + 1
  /\ IF exec[e].by = "boot"
     THEN Leave(e)
     ELSE /\ exec' = [exec EXCEPT ![e].pc = "croner", ![e].own = FALSE]
          /\ handle' = IF exec[e].own
                       THEN [handle EXCEPT ![exec[e].task].busy = FALSE] ELSE handle
  /\ UNCHANGED <<doc, run, past, mode, call, todo, cleaning, ops, crashes, history>>

\* handleError: one more error, counted from what the instance was armed with.
HandleError(e) ==
  /\ exec[e].pc = "croner"
  /\ LET t == exec[e].task IN
     /\ doc' = IF Exists(t) THEN [doc EXCEPT ![t].errs = exec[e].armed + 1] ELSE doc
     /\ losses' = [losses EXCEPT ![t] = @ + 1]
     /\ overlapped' = overlapped \union {t}
  /\ Goto(e, "done")
  /\ UNCHANGED <<run, past, mode, handle, call, todo, cleaning, ops, crashes, faults,
                 wins, streak>>

ExecuteStep(e) ==
  \/ ReadTask(e) \/ Handle(e)
  \/ WinRun(e) \/ WinJob(e) \/ WriteNext(e) \/ NotifyWin(e) \/ CompleteOneShot(e)
  \/ LoseRun(e) \/ LoseJob(e) \/ AutoPause(e) \/ Deactivate(e) \/ NotifyLoss(e)
  \/ HandleError(e)

-----------------------------------------------------------------------------
(* activate(task), shared by create, resume, update and boot. call[c] holds  *)
(* the task as the caller read it.                                          *)

AfterActivate(c) ==
  call' = [call EXCEPT ![c] = IF @.kind = "catchup" THEN [@ EXCEPT !.pc = "catchup"] ELSE NoCall]

\* The present instance is stopped at once; a task that is over or paused gets no other.
\* A failed task does.
StopInstance(c) ==
  /\ call[c].pc = "stop"
  /\ IF handle[call[c].task].on THEN Stopped(call[c].task) ELSE UNCHANGED <<handle, exec>>
  /\ IF call[c].status \in {"paused", "completed", "cancelled"}
     THEN AfterActivate(c)
     ELSE call' = [call EXCEPT ![c].pc = "build"]
  /\ UNCHANGED <<doc, run, past, mode, todo, cleaning, ops, crashes, faults, history>>

\* Variant: the threshold is not looked at.
NeverTooMany(c) == FALSE

TooManyErrors(c) == call[c].errs >= MaxErrors

\* Too many errors: the task will be paused. Else a new instance, unless another
\* activation got there first and holds the name.
BuildInstance(c) ==
  /\ call[c].pc = "build"
  /\ LET t == call[c].task
         hasNext == doc[t].kind = "recurring" \/ t \notin past
     IN IF TooManyErrors(c)
        THEN call' = [call EXCEPT ![c].pc = "autopause"] /\ UNCHANGED handle
        ELSE IF handle[t].on
        THEN AfterActivate(c) /\ UNCHANGED handle
        ELSE /\ handle' = [handle EXCEPT ![t] = [NoHandle EXCEPT !.on = TRUE,
                                                  !.ticks = hasNext, !.errs = call[c].errs]]
             /\ IF hasNext THEN call' = [call EXCEPT ![c].pc = "next"] ELSE AfterActivate(c)
  /\ UNCHANGED <<doc, run, past, mode, exec, todo, cleaning, ops, crashes, faults, history>>

\* next_run_at; the date may have come while it was being written.
WriteNextRun(c) ==
  /\ call[c].pc = "next"
  /\ past' \in {past, past \ {call[c].task}}
  /\ AfterActivate(c)
  /\ UNCHANGED <<doc, run, mode, handle, exec, todo, cleaning, ops, crashes, faults, history>>

PauseAtActivation(c) ==
  /\ call[c].pc = "autopause"
  /\ SetStatus(call[c].task, "paused")
  /\ AfterActivate(c)
  /\ UNCHANGED <<run, past, mode, handle, exec, todo, cleaning, ops, crashes, faults, history>>

ActivateStep(c) ==
  StopInstance(c) \/ BuildInstance(c) \/ WriteNextRun(c) \/ PauseAtActivation(c)

-----------------------------------------------------------------------------
(* Calls of users, through tools/cron and routes/cron-api.                  *)

Begin(c, kind, t, pc) ==
  /\ mode = "up" /\ call[c].pc = "idle"
  /\ call' = [call EXCEPT ![c] = [NoCall EXCEPT !.kind = kind, !.task = t, !.pc = pc,
                                     !.status = "active"]]

\* create: fire_at lies in the future, next_run_at is null.
Create(c, t) ==
  /\ doc[t].status = "none" /\ UNCHANGED ops
  /\ doc' = [doc EXCEPT ![t].status = "active"]
  /\ Begin(c, "create", t, "stop")
  /\ UNCHANGED <<run, past, mode, handle, exec, todo, cleaning, crashes, faults, history>>

Pause(c, t) ==
  /\ CountOp /\ Begin(c, "pause", t, "pauseWrite")
  /\ handle' = [handle EXCEPT ![t].paused = handle[t].on]
  /\ UNCHANGED <<doc, run, past, mode, exec, todo, cleaning, crashes, faults, history>>

PauseWrite(c) ==
  /\ call[c].pc = "pauseWrite"
  /\ SetStatus(call[c].task, "paused")
  /\ call' = [call EXCEPT ![c] = NoCall]
  /\ UNCHANGED <<run, past, mode, handle, exec, todo, cleaning, ops, crashes, faults, history>>

\* resume and update read the task first; update patches any field, the status too.
Resume(c, t) ==
  /\ Exists(t)
  /\ CountOp /\ Begin(c, "resume", t, "patch")
  /\ UNCHANGED <<doc, run, past, mode, handle, exec, todo, cleaning, crashes, faults, history>>

Update(c, t) ==
  /\ Exists(t)
  /\ CountOp /\ Begin(c, "update", t, "patch")
  /\ UNCHANGED <<doc, run, past, mode, handle, exec, todo, cleaning, crashes, faults, history>>

\* updateJob, then activate with the document it returns. Deleted meanwhile, it
\* returns null and the call throws. A new fire_at lies in the future.
PatchWrite(c) ==
  /\ call[c].pc = "patch"
  /\ LET t == call[c].task IN
     IF ~Exists(t)
     THEN call' = [call EXCEPT ![c] = NoCall] /\ UNCHANGED <<doc, past>>
     ELSE \E s \in IF call[c].kind = "resume" THEN {"active"}
                   ELSE Patches \union {doc[t].status} :
            /\ doc' = [doc EXCEPT ![t].status = s]
            /\ call' = [call EXCEPT ![c].pc = "stop", ![c].status = s, ![c].errs = doc[t].errs]
            /\ \/ UNCHANGED past
               \/ /\ call[c].kind = "update" /\ doc[t].kind = "one_shot"
                  /\ past' = past \ {t}
  /\ UNCHANGED <<run, mode, handle, exec, todo, cleaning, ops, crashes, faults, history>>

Delete(c, t) ==
  /\ CountOp /\ Begin(c, "delete", t, "remove")
  /\ Stopped(t)
  /\ UNCHANGED <<doc, run, past, mode, todo, cleaning, crashes, faults, history>>

Remove(c) ==
  /\ call[c].pc = "remove"
  /\ doc' = IF Exists(call[c].task) THEN [doc EXCEPT ![call[c].task].status = "deleted"] ELSE doc
  /\ call' = [call EXCEPT ![c] = NoCall]
  /\ UNCHANGED <<run, past, mode, handle, exec, todo, cleaning, ops, crashes, faults, history>>

\* runCleanup: completed one-shots are scanned, then cancelled one by one.
CleanupScan(t) ==
  /\ mode = "up" /\ CountOp
  /\ doc[t].kind = "one_shot" /\ doc[t].status = "completed" /\ t \notin cleaning
  /\ cleaning' = cleaning \union {t}
  /\ UNCHANGED <<doc, run, past, mode, handle, exec, call, todo, crashes, faults, history>>

CleanupCancel(t) ==
  /\ t \in cleaning
  /\ SetStatus(t, "cancelled")
  /\ cleaning' = cleaning \ {t}
  /\ UNCHANGED <<run, past, mode, handle, exec, call, todo, ops, crashes, faults, history>>

UserStep(c) ==
  \/ \E t \in Tasks : Create(c, t) \/ Pause(c, t) \/ Resume(c, t) \/ Update(c, t) \/ Delete(c, t)
  \/ PauseWrite(c) \/ PatchWrite(c) \/ Remove(c)

-----------------------------------------------------------------------------
(* Death and boot.                                                          *)

Crash ==
  /\ mode # "down" /\ crashes < MaxCrashes
  /\ crashes' = crashes + 1
  /\ mode' = "down"
  /\ handle' = [t \in Tasks |-> NoHandle]
  /\ exec' = [e \in Execs |-> IF exec[e].pc = "idle" THEN Idle ELSE [Idle EXCEPT !.pc = "done"]]
  /\ call' = [c \in Callers |-> NoCall]
  /\ todo' = {} /\ cleaning' = {}
  /\ UNCHANGED <<doc, run, past, ops, faults, history>>

TimePasses(t) ==
  /\ mode = "down" /\ t \notin past
  /\ past' = past \union {t}
  /\ UNCHANGED <<doc, run, mode, handle, exec, call, todo, cleaning, ops, crashes, faults, history>>

Restart ==
  /\ mode = "down"
  /\ mode' = "reconciling"
  /\ UNCHANGED <<doc, run, past, handle, exec, call, todo, cleaning, ops, crashes, faults, history>>

\* Variants: every run without success; none.
Unsuccessful(e) == run[e] \in {"running", "failed"}
NoOrphan(e) == FALSE

Orphaned(e) == run[e] = "running"

\* reconcileOnBoot: a run that is still running belongs to the dead process.
RepairRun(e) ==
  /\ mode = "reconciling" /\ Orphaned(e)
  /\ run' = [run EXCEPT ![e] = "timeout"]
  /\ UNCHANGED <<doc, past, mode, handle, exec, call, todo, cleaning, ops, crashes, faults, history>>

\* boot: the active tasks. No call of a user reaches them before boot is over.
BootScan ==
  /\ mode = "reconciling" /\ \A e \in Execs : ~Orphaned(e)
  /\ mode' = "booting"
  /\ todo' = {t \in Tasks : doc[t].status = "active"}
  /\ UNCHANGED <<doc, run, past, handle, exec, call, cleaning, ops, crashes, faults, history>>

BootActivate(t, kind) ==
  call' = [call EXCEPT !["boot"] = [pc |-> "stop", kind |-> kind, task |-> t,
                                     status |-> doc[t].status, errs |-> doc[t].errs]]

\* A misfire within its grace is caught up when the policy is fire_once; otherwise a
\* one-shot has failed and a recurring task waits for its next date.
BootTask(t) ==
  /\ mode = "booting" /\ call["boot"].pc = "idle" /\ t \in todo
  /\ todo' = todo \ {t}
  /\ \/ t \notin past /\ BootActivate(t, "boot") /\ UNCHANGED doc
     \/ t \in past /\ doc[t].policy = "fire_once" /\ BootActivate(t, "catchup") /\ UNCHANGED doc
     \/ /\ t \in past /\ doc[t].kind = "one_shot"
        /\ SetStatus(t, "failed") /\ UNCHANGED call
     \/ /\ t \in past /\ doc[t].kind = "recurring"
        /\ BootActivate(t, "boot") /\ UNCHANGED doc
  /\ UNCHANGED <<run, past, mode, handle, exec, cleaning, ops, crashes, faults, history>>

\* The catch-up runs beside the rest of boot.
CatchUp ==
  /\ call["boot"].pc = "catchup"
  /\ Start(call["boot"].task, "boot")
  /\ call' = [call EXCEPT !["boot"] = NoCall]
  /\ UNCHANGED <<doc, run, past, mode, handle, todo, cleaning, ops, crashes, faults, history>>

BootDone ==
  /\ mode = "booting" /\ todo = {} /\ call["boot"].pc = "idle"
  /\ mode' = "up"
  /\ UNCHANGED <<doc, run, past, handle, exec, call, todo, cleaning, ops, crashes, faults, history>>

BootStep ==
  \/ Restart \/ BootScan \/ CatchUp \/ BootDone
  \/ \E e \in Execs : RepairRun(e)
  \/ \E t \in Tasks : BootTask(t)

Next ==
  \/ \E t \in Tasks : FireTimer(t) \/ Trigger(t) \/ CleanupScan(t) \/ CleanupCancel(t)
                      \/ TimePasses(t)
  \/ \E e \in Execs : ExecuteStep(e) \/ NotifyThrows(e) \/ ExecuteThrows(e)
  \/ \E c \in Callers : ActivateStep(c)
  \/ \E c \in Clients : UserStep(c)
  \/ BootStep \/ Crash

Spec == Init /\ [][Next]_vars

-----------------------------------------------------------------------------
(* Properties.                                                              *)

\* Every variable keeps its type.
Instance == [on : BOOLEAN, paused : BOOLEAN, busy : BOOLEAN, ticks : BOOLEAN, errs : Nat]
Exec == [pc : {"idle", "read", "handler", "winRun", "winJob", "nextRun", "notifyWin",
               "complete", "deactivate", "loseRun", "loseJob", "pause", "pauseDeactivate",
               "notifyLoss", "croner", "done"},
         task : Tasks \union {NoTask}, by : {"timer", "manual", "boot"}, own : BOOLEAN,
         runs : Nat, errs : Nat, armed : Nat]
Call == [pc : {"idle", "stop", "build", "next", "autopause", "catchup", "patch",
               "pauseWrite", "remove"},
         kind : {"none", "create", "pause", "resume", "update", "delete", "boot", "catchup"},
         task : Tasks \union {NoTask}, status : Statuses \union {"none", "deleted"}, errs : Nat]
TypeOK ==
  /\ doc \in [Tasks -> Doc]
  /\ run \in [Execs -> RunStatuses]
  /\ past \subseteq Tasks /\ todo \subseteq Tasks /\ cleaning \subseteq Tasks
  /\ mode \in {"down", "reconciling", "booting", "up"}
  /\ handle \in [Tasks -> Instance]
  /\ exec \in [Execs -> Exec]
  /\ \A e \in Execs : exec[e].pc \notin {"idle", "done"} => exec[e].task \in Tasks
  /\ call \in [Callers -> Call]
  /\ \A c \in Callers : call[c].pc # "idle" => call[c].task \in Tasks
  /\ ops \in Nat /\ crashes \in Nat /\ faults \in Nat
  /\ wins \in [Tasks -> Nat] /\ losses \in [Tasks -> Nat] /\ streak \in [Tasks -> Nat]
  /\ overlapped \subseteq Tasks

\* A taskRuns record says "running" only while its execution is under way: every
\* path of execute settles it, and reconcileOnBoot settles those of a dead process.
RunsSettle ==
  Alive => \A e \in Execs : run[e] = "running" => exec[e].pc \in {"handler", "winRun", "loseRun"}

\* A settled record stays as it is; only a notification that throws after a success
\* turns it into a failure.
SettledStays ==
  [][\A e \in Execs :
       run[e] \in {"success", "failed", "timeout"} =>
         \/ run'[e] = run[e]
         \/ run[e] = "success" /\ run'[e] = "failed" /\ faults > 0]_vars

\* run_count and error_count never exceed the outcomes recorded, and agree with them
\* as long as no two executions of the task were under way together (a trigger, a
\* catch-up or a re-activation beside a running one) and Croner caught no error.
CountsHonest ==
  \A t \in Tasks : Exists(t) =>
    /\ doc[t].runs <= wins[t] /\ doc[t].errs <= losses[t]
    /\ t \notin overlapped => doc[t].runs = wins[t] /\ doc[t].errs = losses[t]

\* A task that reached the error threshold does not stay active: whoever brought it
\* there, or re-activates it, is about to pause it.
FailingIsPaused ==
  \A t \in Tasks :
    mode = "up" /\ faults = 0 /\ doc[t].status = "active" /\ doc[t].errs >= MaxErrors =>
      \/ \E e \in Of(t) : exec[e].pc = "pause"
      \/ \E c \in Clients : /\ call[c].task = t
                            /\ call[c].pc \in {"stop", "build", "autopause"}
                            /\ call[c].errs >= MaxErrors

\* Boot brings no paused, finished or deleted task back to life.
BootQuiet ==
  \A t \in Tasks :
    mode = "booting" /\ handle[t].on =>
      \/ doc[t].status = "active"
      \/ \E e \in Of(t) : exec[e].pc \in {"deactivate", "pauseDeactivate"}

\* CronScheduler.ts:144 "Auto-paused after 5 consecutive errors": the errors need not
\* be consecutive, so no run checks it.
PauseIsForConsecutiveErrors ==
  \A e \in Execs : exec[e].pc = "pause" => streak[exec[e].task] >= MaxErrors
=============================================================================
