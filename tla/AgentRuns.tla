----------------------------- MODULE AgentRuns ------------------------------
(***************************************************************************)
(* An agent run beside its job: run-store.ts, the durable part of runAgent *)
(* in agent/agent-loop.ts (reclaim, resume, checkpoints, the end of the    *)
(* run), the worker_task and goal_run executors of                         *)
(* gateway/job-executors.ts, and the steps of reconcileOnBoot for runs and *)
(* tasks.                                                                  *)
(*                                                                         *)
(* One run, its job and, for a worker, its task document. The job is what  *)
(* DurableQueue makes of it; here it is claimed, lapses, is cancelled and  *)
(* settled in one step each. An action goes from one await to the next; a  *)
(* document update is atomic (updateDoc). What the language model answers, *)
(* whether a tool or the verifier throws and what the acceptance checks    *)
(* say is arbitrary. A turn of a goal is one action: it is not durable.    *)
(***************************************************************************)
EXTENDS Naturals, FiniteSets

CONSTANTS
  Kinds,         \* kinds of run: "worker", "chat", "goal"
  Execs,         \* executions of the job, each once
  MaxIterations, \* max_iterations of a durable run
  MaxTurns,      \* budget.maxTurns of a goal (tokens bound it the same way)
  MaxAttempts,   \* maxAttempts of a goal
  MaxClaims,     \* max_attempts of the job
  MaxRetries,    \* maxRetries of the job
  MaxTroubles,   \* bound: deaths of the process, leases that lapse while an
                 \* execution lives, writes of the run or the task that fail
  NoExec         \* stands for no execution

ASSUME RunBounds ==
  /\ Kinds \subseteq {"worker", "chat", "goal"}
  /\ {MaxIterations, MaxTurns, MaxAttempts, MaxClaims, MaxRetries, MaxTroubles}
       \subseteq Nat

VARIABLES
  kind,
  run,      \* the AgentRun document
  job,      \* the job document: status, attempts, retries
  task,     \* the task document: status, attempts
  exec,     \* executions and what they hold in memory
  latest,   \* the execution the queue can abort
  listed,   \* SIGTERM found the run running and is about to interrupt it
  begun,    \* history: an execution took the run over and none was refused since
  ran,      \* history: tool calls that ran, numbered in the order they were asked
  calls,    \* history: tool calls the model asked for
  rounds,   \* history: calls of callLLM by runAgent since the checkpoint was
            \* last thrown away, or turns of a goal
  erased,   \* history: calls that had run when the checkpoint was thrown away
  crashes, lapses, faults

history == <<begun, ran, calls, rounds, erased>>
bounds == <<crashes, lapses, faults>>
vars == <<kind, run, job, task, exec, latest, listed, history, bounds>>

\* The checkpoint: the iteration, the calls whose outcome the messages tell, and
\* pending_tool_calls (0 when null).
NoState == [saved |-> FALSE, iterations |-> 0, known |-> {}, pending |-> 0]
NewRun == [status |-> "running", state |-> NoState, turns |-> 0, attempts |-> 0]
Idle == [pc |-> "none", aborted |-> FALSE, result |-> "none", iterations |-> 0,
         known |-> {}, call |-> 0, turns |-> 0, attempts |-> 0]

Ends == {"completed", "failed", "interrupted"}
Live == {e \in Execs : exec[e].pc # "none"}
JobLive == job.status \in {"pending", "running"}

\* createRun and enqueue have returned.
Init ==
  /\ kind \in Kinds
  /\ run = NewRun
  /\ job = [status |-> "pending", attempts |-> 0, retries |-> 0]
  /\ task = [status |-> "pending", attempts |-> 0]
  /\ exec = [e \in Execs |-> Idle]
  /\ latest = NoExec /\ listed = FALSE
  /\ begun = FALSE /\ ran = {} /\ calls = 0 /\ rounds = 0 /\ erased = {}
  /\ crashes = 0 /\ lapses = 0 /\ faults = 0

At(e, pc) == exec[e].pc = pc
Goto(e, pc) == exec' = [exec EXCEPT ![e].pc = pc]
Ending(e, result) ==
  exec' = [exec EXCEPT ![e] = [Idle EXCEPT !.pc = "settle", !.result = result]]

\* A step of execution e leaves these alone, and may leave these too.
Others == UNCHANGED <<kind, job, latest, listed, begun, ran, calls, crashes, lapses>>
Writes == UNCHANGED <<run, rounds, erased, faults>>

\* A write of the run, or one whose failure the code ignores.
Trouble == crashes + lapses + faults < MaxTroubles
Fault == Trouble /\ faults' = faults + 1
Put(doc) == run' = doc /\ UNCHANGED <<rounds, erased, faults>>
Lost == Fault /\ UNCHANGED <<run, rounds, erased>>

\* completeRun and failRun throw the checkpoint away, interruptRun keeps it.
Closed(s) == [run EXCEPT !.status = s, !.state = NoState]
Interrupted == [run EXCEPT !.status = "interrupted"]
Close(s) ==
  /\ run' = Closed(s)
  /\ erased' = ran
  /\ rounds' = IF kind = "goal" THEN rounds ELSE 0
  /\ UNCHANGED faults

-----------------------------------------------------------------------------
(* The job: claim, lapse, cancel, timeout, settle.                          *)

Claim(e) ==
  /\ job.status = "pending" /\ At(e, "none")
  /\ job' = [job EXCEPT !.status = "running", !.attempts = @ + 1]
  /\ Goto(e, "start")
  /\ latest' = e
  /\ UNCHANGED <<kind, run, task, listed, history, bounds>>

Reclaimed ==
  [job EXCEPT !.status = IF @ # "running" THEN @
                         ELSE IF job.attempts >= MaxClaims THEN "interrupted"
                         ELSE "pending"]

Lapse ==
  /\ job.status = "running" /\ Live # {} /\ Trouble
  /\ lapses' = lapses + 1
  /\ job' = Reclaimed
  /\ UNCHANGED <<kind, run, task, exec, latest, listed, history, crashes, faults>>

Cancel ==
  /\ job.status \in {"pending", "running", "interrupted"}
  /\ job' = [job EXCEPT !.status = "cancelled"]
  /\ exec' = IF latest \in Live THEN [exec EXCEPT ![latest].aborted = TRUE] ELSE exec
  /\ UNCHANGED <<kind, run, task, latest, listed, history, bounds>>

TimeOut(e) ==
  /\ e \in Live /\ ~exec[e].aborted
  /\ exec' = [exec EXCEPT ![e].aborted = TRUE]
  /\ UNCHANGED <<kind, run, job, task, latest, listed, history, bounds>>

\* The queue records the result only while the job is running.
Retried(e) == exec[e].result = "retry" /\ job.retries < MaxRetries
Settled(e) ==
  IF job.status # "running" THEN job
  ELSE IF exec[e].result = "ok" THEN [job EXCEPT !.status = "completed"]
  ELSE IF Retried(e) THEN [job EXCEPT !.status = "pending", !.retries = @ + 1]
  ELSE [job EXCEPT !.status = "failed"]

Settle(e) ==
  /\ At(e, "settle")
  /\ job' = Settled(e)
  /\ exec' = [exec EXCEPT ![e] = Idle]
  /\ latest' = NoExec
  /\ UNCHANGED <<kind, run, task, listed, history, bounds>>

-----------------------------------------------------------------------------
(* workerTaskExecutor and runWebchatTurn before the loop.                   *)

Durable == kind # "goal"
TaskBecomes(s) ==
  \/ /\ task' = IF kind = "worker" THEN [task EXCEPT !.status = s] ELSE task
     /\ UNCHANGED faults
  \/ kind = "worker" /\ Fault /\ UNCHANGED task

\* The worker is gone or disabled: nothing is touched.
Refuse(e) ==
  /\ At(e, "start") /\ kind = "worker"
  /\ Ending(e, "fail")
  /\ begun' = FALSE
  /\ Writes
  /\ UNCHANGED <<kind, job, task, latest, listed, ran, calls, crashes, lapses>>

Start(e) ==
  /\ At(e, "start") /\ Durable
  /\ Goto(e, "peek")
  /\ TaskBecomes("in_progress")
  /\ UNCHANGED <<run, rounds, erased>> /\ Others

\* prepareDelegation, or the attachments of a chat turn, may throw; then the run
\* is asked whether there is a checkpoint to resume from.
Peek(e) ==
  /\ At(e, "peek")
  /\ \/ Goto(e, IF run.state.saved THEN "load" ELSE "reclaim")
     \/ exec' = [exec EXCEPT ![e].pc = "outcome", ![e].result = "threw"]
  /\ UNCHANGED task /\ Writes /\ Others

\* The messages are restored. A pending call enters them as interrupted; it does
\* not run again. Reexecutes, ForgetsPending and ForgetsIterations are mistakes.
Reexecutes(e, state) ==
  exec' = [exec EXCEPT ![e].pc = IF state.pending # 0 THEN "tool" ELSE "reclaim",
                       ![e].iterations = state.iterations, ![e].known = state.known,
                       ![e].call = state.pending]
ForgetsPending(e, state) ==
  exec' = [exec EXCEPT ![e].pc = "reclaim", ![e].iterations = state.iterations,
                       ![e].known = state.known]
ForgetsIterations(e, state) ==
  exec' = [exec EXCEPT ![e].pc = "reclaim", ![e].known = state.known \union ({state.pending} \ {0})]
Resume(e, state) ==
  exec' = [exec EXCEPT ![e].pc = "reclaim", ![e].iterations = state.iterations,
                       ![e].known = state.known \union ({state.pending} \ {0})]

Load(e) ==
  /\ At(e, "load")
  /\ Resume(e, run.state)
  /\ UNCHANGED task /\ Writes /\ Others

\* reclaimRun, in both executors; its failure is logged or ignored.
Reclaim(e) ==
  /\ At(e, "reclaim")
  /\ Put([run EXCEPT !.status = "running"]) \/ Lost
  /\ Goto(e, IF Durable THEN "ask" ELSE "top")
  /\ begun' = TRUE
  /\ UNCHANGED <<kind, job, task, latest, listed, ran, calls, crashes, lapses>>

-----------------------------------------------------------------------------
(* The durable loop of runAgent.                                            *)

\* Where the loop goes when it ends with words to say, or without any. The words
\* of a chat turn are stored, which may throw; with delegations pending it says
\* nothing. Else silence is filled by a synthesis.
Said == IF kind = "chat" THEN {"last", "throw"} ELSE {"last"}
Silent == IF kind = "chat" THEN {"summary", "last", "throw"} ELSE {"summary"}

\* One model call: a tool call, a text, an empty answer, or a throw.
Ask(e) ==
  /\ At(e, "ask") /\ ~exec[e].aborted /\ exec[e].iterations < MaxIterations
  /\ rounds' = rounds + 1
  /\ \/ /\ exec' = [exec EXCEPT ![e].pc = "checkpoint", ![e].call = calls + 1,
                                ![e].iterations = @ + 1]
        /\ calls' = calls + 1
     \/ \E pc \in {"last", "summary", "throw"} :
          /\ exec' = [exec EXCEPT ![e].pc = pc, ![e].iterations = @ + 1]
          /\ UNCHANGED calls
  /\ UNCHANGED <<kind, run, job, task, latest, listed, begun, ran, erased, bounds>>

\* The iterations are asked before the signal.
LeaveLoop(e) ==
  /\ At(e, "ask")
  /\ \/ exec[e].iterations >= MaxIterations /\ \E pc \in Silent : Goto(e, pc)
     \/ /\ exec[e].aborted /\ exec[e].iterations < MaxIterations
        /\ \E pc \in Said : Goto(e, pc)
  /\ UNCHANGED task /\ Writes /\ Others

\* The checkpoint before the tools, with the calls pending.
Saved(e, pending) ==
  [saved |-> TRUE, iterations |-> exec[e].iterations, known |-> exec[e].known,
   pending |-> pending]
Checkpoint(e, pending) ==
  Put([run EXCEPT !.state = Saved(e, pending)]) \/ Lost

PreCheckpoint(e) ==
  /\ At(e, "checkpoint")
  /\ Checkpoint(e, exec[e].call)
  /\ Goto(e, "tool")
  /\ UNCHANGED task /\ Others

\* executeToolBatch. It may throw after the tool's effect.
RunTool(e) ==
  /\ At(e, "tool")
  /\ ran' = ran \union {exec[e].call}
  /\ \/ exec' = [exec EXCEPT ![e].pc = "ran", ![e].call = 0,
                                ![e].known = @ \union {exec[e].call}]
     \/ Goto(e, "throw")
  /\ UNCHANGED <<kind, run, job, task, latest, listed, begun, calls, rounds, erased, bounds>>

\* The checkpoint after the tools, and the token budget; a detected loop or stall
\* leaves without it.
PostCheckpoint(e) ==
  /\ At(e, "ran")
  /\ \/ Checkpoint(e, 0) /\ \E pc \in {"ask"} \union Silent : Goto(e, pc)
     \/ Writes /\ \E pc \in Said : Goto(e, pc)
  /\ UNCHANGED task /\ Others

\* synthesizeFinalResponse: one model call, and another when the first gave
\* nothing; the second throws then.
Synthesise(e) ==
  /\ At(e, "summary") \/ At(e, "again")
  /\ rounds' = rounds + 1
  /\ \E pc \in {IF At(e, "summary") THEN "again" ELSE "throw"} \union Said : Goto(e, pc)
  /\ UNCHANGED <<kind, run, job, task, latest, listed, begun, ran, calls, erased, bounds>>

FinalCheckpoint(e) ==
  /\ At(e, "last")
  /\ Checkpoint(e, 0)
  /\ Goto(e, "end")
  /\ UNCHANGED task /\ Others

\* interruptRun if the signal fired, else completeRun, or failRun after a throw;
\* failures are ignored.
CloseAs(e, s) ==
  \/ IF exec[e].aborted THEN Put(Interrupted) ELSE Close(s)
  \/ Lost

LoopLeft(e, result) ==
  exec' = [exec EXCEPT ![e] = [Idle EXCEPT !.pc = "finally", !.result = result,
                                           !.aborted = exec[e].aborted]]

EndRun(e) ==
  /\ At(e, "end")
  /\ CloseAs(e, "completed")
  /\ LoopLeft(e, "returned")
  /\ UNCHANGED task /\ Others

CatchLoop(e) ==
  /\ At(e, "throw")
  /\ CloseAs(e, "failed")
  /\ LoopLeft(e, "threw")
  /\ UNCHANGED task /\ Others

\* The finally block reads the run and interrupts it if it is still running.
\* AlwaysLoose is a mistake.
AlwaysLoose(doc) == TRUE
Loose(doc) == doc.status = "running"
Finally(e) ==
  /\ At(e, "finally")
  /\ Goto(e, IF Loose(run) THEN "release" ELSE "outcome")
  /\ UNCHANGED task /\ Writes /\ Others

ReleaseRun(e) ==
  /\ At(e, "release")
  /\ Put(Interrupted) \/ Lost
  /\ Goto(e, "outcome")
  /\ UNCHANGED task /\ Others

-----------------------------------------------------------------------------
(* workerTaskExecutor and chatTurnExecutor after the loop.                  *)

Outcome(e, s, results) ==
  /\ At(e, "outcome")
  /\ TaskBecomes(s)
  /\ \E r \in results : Ending(e, r)
  /\ UNCHANGED <<run, rounds, erased>> /\ Others

Returned(e) == exec[e].result = "returned"

\* An aborted worker gives its task back; else the acceptance checks pass, fail,
\* or something on the way throws.
WorkerOutcome(e) ==
  /\ kind = "worker"
  /\ \/ Returned(e) /\ exec[e].aborted /\ Outcome(e, "pending", {"fail"})
     \/ Returned(e) /\ ~exec[e].aborted /\ Outcome(e, "blocked", {"fail"})
     \/ Returned(e) /\ ~exec[e].aborted /\ Outcome(e, "completed", {"ok"})
     \/ Outcome(e, "failed", {"retry", "fail"})

\* A chat turn is not retried; its delivery may throw.
ChatOutcome(e) ==
  /\ kind = "chat"
  /\ Outcome(e, task.status, IF Returned(e) THEN {"ok", "fail"} ELSE {"fail"})

-----------------------------------------------------------------------------
(* goalRunExecutor.                                                         *)

StartGoal(e) ==
  /\ At(e, "start") /\ kind = "goal"
  /\ exec' = [exec EXCEPT ![e].pc = "reclaim", ![e].attempts = run.attempts]
  /\ UNCHANGED task /\ Writes /\ Others

\* The budget is asked of the row and of the attempts in memory.
\* AttemptsOnly is a mistake.
AttemptsOnly(e) == exec[e].attempts >= MaxAttempts
Exhausted(e) == exec[e].attempts >= MaxAttempts \/ run.turns >= MaxTurns

AbortGoal(e) ==
  /\ At(e, "top") /\ exec[e].aborted
  /\ Put(Interrupted) \/ Lost
  /\ Ending(e, "fail")
  /\ UNCHANGED task /\ Others

\* This failRun is not caught on the spot.
ExhaustGoal(e) ==
  /\ At(e, "top") /\ ~exec[e].aborted /\ Exhausted(e)
  /\ \/ Close("failed") /\ Ending(e, "fail")
     \/ Lost /\ Goto(e, "caught")
  /\ UNCHANGED task /\ Others

\* One turn. A turn that throws is not counted.
Turn(e) ==
  /\ At(e, "top") /\ ~exec[e].aborted /\ ~Exhausted(e)
  /\ rounds' = rounds + 1
  /\ \/ exec' = [exec EXCEPT ![e].pc = "bump", ![e].attempts = @ + 1]
     \/ Goto(e, "caught")
  /\ UNCHANGED <<run, task, erased, faults>> /\ Others

\* bumpTurn reads the row, then writes what it computed; errors are ignored.
BumpRead(e) ==
  /\ At(e, "bump")
  /\ exec' = [exec EXCEPT ![e].pc = "bumping", ![e].turns = run.turns]
  /\ UNCHANGED task /\ Writes /\ Others

Bump(e) ==
  /\ At(e, "bumping")
  /\ Put([run EXCEPT !.turns = exec[e].turns + 1]) \/ Lost
  /\ Goto(e, "note")
  /\ UNCHANGED task /\ Others

Note(e) ==
  /\ At(e, "note")
  /\ Put([run EXCEPT !.attempts = exec[e].attempts]) \/ Lost
  /\ Goto(e, "verify")
  /\ UNCHANGED task /\ Others

\* verifyGoal: not met, met, or it throws.
Verify(e) ==
  /\ At(e, "verify")
  /\ \/ Writes /\ \E pc \in {"top", "caught"} : Goto(e, pc)
     \/ Close("completed") /\ Goto(e, "packet")
     \/ Lost /\ Goto(e, "caught")
  /\ UNCHANGED task /\ Others

\* The proof packet of a met goal, after the user was told. Building it throws when
\* the goal has no checks or there is no evidence, storing it when the write fails:
\* the catch follows, with the run completed.
Packet(e) ==
  /\ At(e, "packet")
  /\ \/ Ending(e, "ok") /\ Writes
     \/ Goto(e, "caught") /\ (Writes \/ Lost)
  /\ UNCHANGED task /\ Others

CatchGoal(e) ==
  /\ At(e, "caught")
  /\ Close("failed") \/ Lost
  /\ \E r \in {"retry", "fail"} : Ending(e, r)
  /\ UNCHANGED task /\ Others

-----------------------------------------------------------------------------
(* The process: SIGTERM, and death followed by reconcileOnBoot.             *)

ListRuns ==
  /\ run.status = "running" /\ ~listed /\ Trouble
  /\ listed' = TRUE
  /\ UNCHANGED <<kind, run, job, task, exec, latest, history, bounds>>

StopRuns ==
  /\ listed /\ listed' = FALSE
  /\ run' = Interrupted
  /\ UNCHANGED <<kind, job, task, exec, latest, history, bounds>>

\* A task in progress without a live job is given back once, then failed.
\* LeavesTask is a mistake.
LeavesTask(live) == task
Requeued(live) ==
  IF task.status # "in_progress" \/ live THEN task
  ELSE [task EXCEPT !.attempts = @ + 1,
                    !.status = IF task.attempts + 1 >= 2 THEN "failed" ELSE "pending"]

Restart ==
  /\ Trouble
  /\ crashes' = crashes + 1
  /\ run' = IF run.status = "running" THEN Interrupted ELSE run
  /\ job' = Reclaimed
  /\ task' = Requeued(Reclaimed.status \in {"pending", "running"})
  /\ exec' = [e \in Execs |-> Idle]
  /\ latest' = NoExec /\ listed' = FALSE
  /\ UNCHANGED <<kind, history, lapses, faults>>

LoopStep(e) ==
  \/ Ask(e) \/ LeaveLoop(e) \/ PreCheckpoint(e) \/ RunTool(e) \/ PostCheckpoint(e)
  \/ Synthesise(e) \/ FinalCheckpoint(e) \/ EndRun(e) \/ CatchLoop(e) \/ Finally(e) \/ ReleaseRun(e)
GoalStep(e) ==
  \/ StartGoal(e) \/ AbortGoal(e) \/ ExhaustGoal(e) \/ Turn(e) \/ BumpRead(e) \/ Bump(e)
  \/ Note(e) \/ Verify(e) \/ Packet(e) \/ CatchGoal(e)
Next ==
  \/ \E e \in Execs :
       \/ Claim(e) \/ TimeOut(e) \/ Settle(e)
       \/ Refuse(e) \/ Start(e) \/ Peek(e) \/ Load(e) \/ Reclaim(e)
       \/ LoopStep(e) \/ WorkerOutcome(e) \/ ChatOutcome(e) \/ GoalStep(e)
  \/ Lapse \/ Cancel \/ ListRuns \/ StopRuns \/ Restart

Spec == Init /\ [][Next]_vars

-----------------------------------------------------------------------------
(* Properties.                                                              *)

\* Every variable keeps its type.
State == [saved : BOOLEAN, iterations : Nat, known : SUBSET Nat, pending : Nat]
Run == [status : {"running"} \union Ends, state : State, turns : Nat, attempts : Nat]
Job == [status : {"pending", "running", "completed", "failed", "cancelled", "interrupted"},
        attempts : Nat, retries : Nat]
Task == [status : {"pending", "in_progress", "blocked", "completed", "failed"},
         attempts : Nat]
Exec == [pc : {"none", "start", "peek", "load", "reclaim", "ask", "checkpoint", "tool", "ran",
               "summary", "again", "last", "throw", "end", "finally", "release", "outcome",
               "settle", "top", "bump", "bumping", "note", "verify", "packet", "caught"},
         aborted : BOOLEAN, result : {"none", "ok", "fail", "retry", "returned", "threw"},
         iterations : Nat, known : SUBSET Nat, call : Nat, turns : Nat, attempts : Nat]
TypeOK ==
  /\ kind \in Kinds
  /\ run \in Run /\ job \in Job /\ task \in Task
  /\ exec \in [Execs -> Exec]
  /\ latest \in Execs \union {NoExec} /\ listed \in BOOLEAN
  /\ begun \in BOOLEAN /\ ran \subseteq Nat /\ calls \in Nat
  /\ rounds \in Nat /\ erased \subseteq Nat
  /\ crashes \in Nat /\ lapses \in Nat /\ faults \in Nat

\* While no lease lapses and no write fails, the model is never asked to go on
\* without being told of a tool that already ran for this checkpoint, however the
\* process died: a call is recorded as pending before it runs, and a resumed run
\* tells the model that its outcome is unknown.
EffectsKnown ==
  lapses = 0 /\ faults = 0 =>
    \A e \in Execs : At(e, "ask") => ran \ erased \subseteq exec[e].known

\* A tool call the model asked for once runs at most once, whatever dies, lapses or
\* fails: resuming never re-executes the pending calls of the checkpoint.
OncePerCall ==
  [][\A e \in Execs : RunTool(e) => exec[e].call \notin ran]_vars

\* Once a run was taken over, the job over and no execution left, nothing says that
\* work goes on: the run is not "running" and, unless the job was cancelled, the task
\* is not "in_progress". It speaks of runs that no execution refused to take over
\* since (begun) and of writes that did not fail.
RunIsSettled ==
  begun /\ ~JobLive /\ Live = {} /\ faults = 0 =>
    /\ run.status # "running"
    /\ job.status # "cancelled" => task.status # "in_progress"

\* A run that completed is not turned into something else by the execution that ends
\* or by the boot: a new claim reopens it, a SIGTERM that listed it before interrupts
\* it, and one execution takes its own success back: that of a met goal whose proof
\* packet could not be built fails the run it completed.
CompletedStays ==
  [][run.status = "completed" /\ lapses = 0 /\ faults = 0 /\ ~listed =>
       \/ run'.status \in {"completed", "running"}
       \/ \E e \in Execs : CatchGoal(e)]_vars

\* A goal never takes more turns than its budget, beyond one for each death of the
\* process and one for each retry of the job, though the counts are written after the
\* turn and in two writes.
GoalBudget ==
  kind = "goal" /\ lapses = 0 /\ faults = 0 =>
    /\ rounds <= MaxTurns + crashes + job.retries
    /\ rounds <= MaxAttempts + crashes + job.retries

\* The iterations of a durable run are counted across deaths of the process: until
\* the checkpoint is thrown away the loop of runAgent calls the model at most
\* max_iterations times, and its synthesis twice. Each death and each retry may cost
\* one iteration that was not saved and another synthesis, which is never counted.
\* (Compaction of the history and retries inside callLLM are no rounds.)
Synthesis == 2
RoundsBounded ==
  Durable /\ lapses = 0 /\ faults = 0 =>
    rounds <= MaxIterations + Synthesis + (Synthesis + 1) * (crashes + job.retries)
=============================================================================
