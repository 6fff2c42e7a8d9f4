-------------------------- MODULE DelegationGroups --------------------------
(***************************************************************************)
(* The fan-in of asynchronous delegation: gateway/delegation-groups.ts, its *)
(* callers task_delegate and task_revise (tools/agents/index.ts), the turn *)
(* that seals the group (gateway/webchat-turn.ts) and the terminal hook of *)
(* worker tasks (gateway/delegation-notify.ts).                            *)
(*                                                                         *)
(* One turn and its group: groups of different turns share no document. An *)
(* action is the code between two awaits; mutate re-reads the group until  *)
(* its conditional put succeeds, so it is one atomic guarded write. Left   *)
(* out: narration, prompts, results (an outcome is the job that reported). *)
(* A worker job is here "live" until the durable queue writes its end and  *)
(* calls its hook; DurableQueue models how it gets there.                  *)
(***************************************************************************)
EXTENDS Naturals

CONSTANTS
  Tasks,        \* tasks the turn may delegate
  NoTask,       \* stands for the turn among the callers of finalizeIfReady
  Rounds,       \* jobs of a task: its delegation and MAX_TASK_REVISIONS more
  MaxTurnRuns,  \* executions of the turn's own chat_turn job (max_attempts)
  MaxCrashes,   \* bound: crashes of the process
  MaxFaults     \* bound: enqueue calls that throw

ASSUME GroupBounds ==
  /\ {Rounds, MaxTurnRuns} \subseteq Nat \ {0}
  /\ {MaxCrashes, MaxFaults} \subseteq Nat

ASSUME TurnIsNoTask == NoTask \notin Tasks

Jobs == Tasks \X (1..Rounds)
Turn == <<NoTask, 0>>
Callers == Jobs \union {Turn}

VARIABLES
  \* persisted
  group,      \* the document of the turn in delegationGroups
  worker,     \* the worker_task job of each task and round
  delivered,  \* tasks whose document says completed or blocked
  summaries,  \* chat_turn jobs created for the summary of the group
  \* the turn
  turn,       \* "generating", "sealing", "over", "failed" or, after a crash, "lost"
  runs,       \* executions of the turn so far
  launching,  \* jobs whose task is registered and that are not enqueued yet
  \* activations of recordDelegationOutcome and sealDelegationGroup
  pc,
  \* environment
  crashes, faults

vars == <<group, worker, delivered, summaries, turn, runs, launching, pc, crashes, faults>>

-----------------------------------------------------------------------------
(* The document and its writes. IncompleteOnce, ClaimTaken, SealAndForget   *)
(* and FindAlways are faulty variants of the definition that follows each;   *)
(* the specification does not use them.                                      *)

NoGroup == [status |-> "none", tasks |-> {}, outcomes |-> [t \in Tasks |-> 0],
            summary |-> "null"]

Group == [status   : {"none", "open", "sealed", "ready", "notified"},
          tasks    : SUBSET Tasks,
          outcomes : [Tasks -> 0..Rounds],
          summary  : {"null", "claim", "job"}]

\* registerDelegatedTask creates the group, extends an open one, refuses others.
CanRegister == group.status \in {"none", "open"}
Registered(t) == [group EXCEPT !.status = "open", !.tasks = @ \union {t}]

IncompleteOnce == \E t \in group.tasks : group.outcomes[t] # 0
IsComplete == group.tasks # {} /\ \A t \in group.tasks : group.outcomes[t] # 0

\* The first outcome of a task is kept, later ones are ignored.
Recorded(j) == IF group.outcomes[j[1]] = 0
               THEN [group EXCEPT !.outcomes[j[1]] = j[2]] ELSE group

ClaimTaken == group.status = "ready"
CanClaim == group.status = "ready" /\ group.summary = "null"

-----------------------------------------------------------------------------
Init == /\ group = NoGroup
        /\ worker = [j \in Jobs |-> "none"]
        /\ delivered = {}
        /\ summaries = 0
        /\ turn = "generating" /\ runs = 1
        /\ launching = {}
        /\ pc = [c \in Callers |-> "idle"]
        /\ crashes = 0 /\ faults = 0

-----------------------------------------------------------------------------
(* The turn *)

\* task_delegate, until registerDelegatedTask returns. When the group is no
\* longer open it throws and the tool answers {ok: false}.
Delegate(t) ==
  /\ turn = "generating"
  /\ t \notin group.tasks
  /\ CanRegister
  /\ group' = Registered(t)
  /\ launching' = launching \union {<<t, 1>>}
  /\ UNCHANGED <<worker, delivered, summaries, turn, runs, pc, crashes, faults>>

\* task_revise of a task of the same turn that was delivered, with the next
\* unused job of the task.
Revise(j) ==
  /\ turn = "generating"
  /\ j[1] \in delivered /\ j[2] > 1
  /\ worker[j] = "none" /\ j \notin launching
  /\ \A k \in 1..(j[2] - 1) : worker[<<j[1], k>>] # "none" \/ <<j[1], k>> \in launching
  /\ CanRegister
  /\ group' = Registered(j[1])
  /\ launching' = launching \union {j}
  /\ UNCHANGED <<worker, delivered, summaries, turn, runs, pc, crashes, faults>>

\* The tool goes on: createRun, enqueue of the worker_task, the task document.
EnqueueWorker(j) ==
  /\ j \in launching
  /\ launching' = launching \ {j}
  /\ worker' = [worker EXCEPT ![j] = "live"]
  /\ delivered' = delivered \ {j[1]}
  /\ UNCHANGED <<group, summaries, turn, runs, pc, crashes, faults>>

\* createRun or enqueue throws: the tool answers {ok: false} and the task stays
\* registered.
EnqueueThrows(j) ==
  /\ j \in launching
  /\ faults < MaxFaults
  /\ faults' = faults + 1
  /\ launching' = launching \ {j}
  /\ UNCHANGED <<group, worker, delivered, summaries, turn, runs, pc, crashes>>

\* runner.generate returns: sealDelegationGroup is called.
FinishTurn ==
  /\ turn = "generating" /\ launching = {}
  /\ turn' = "sealing"
  /\ pc' = [pc EXCEPT ![Turn] = "sealing"]
  /\ UNCHANGED <<group, worker, delivered, summaries, runs, launching, crashes, faults>>

\* runner.generate throws: the turn fails without sealing its group.
FailTurn ==
  /\ turn = "generating" /\ launching = {}
  /\ turn' = "failed"
  /\ UNCHANGED <<group, worker, delivered, summaries, runs, launching, pc, crashes, faults>>

EndTurn ==
  /\ turn = "sealing" /\ pc[Turn] = "idle"
  /\ turn' = "over"
  /\ UNCHANGED <<group, worker, delivered, summaries, runs, launching, pc, crashes, faults>>

\* The queue reclaimed the turn's chat_turn job at boot and runs it again.
RerunTurn ==
  /\ turn = "lost" /\ runs < MaxTurnRuns
  /\ turn' = "generating"
  /\ runs' = runs + 1
  /\ UNCHANGED <<group, worker, delivered, summaries, launching, pc, crashes, faults>>

-----------------------------------------------------------------------------
(* Worker ends and the group's join *)

Goto(c, l) == pc' = [pc EXCEPT ![c] = l]

\* The executor of the job completes or blocks the task before it answers.
DeliverTask(j) ==
  /\ worker[j] = "live"
  /\ delivered' = delivered \union {j[1]}
  /\ UNCHANGED <<group, worker, summaries, turn, runs, launching, pc, crashes, faults>>

\* The queue wrote the end of the job and calls its terminal hook.
EndWorker(j) ==
  /\ worker[j] = "live"
  /\ worker' = [worker EXCEPT ![j] = "ended"]
  /\ Goto(j, "recording")
  /\ UNCHANGED <<group, delivered, summaries, turn, runs, launching, crashes, faults>>

\* A lease lapsed under the executor: its late answer calls the hook again.
RepeatHook(j) ==
  /\ worker[j] = "ended" /\ pc[j] = "idle"
  /\ faults < MaxFaults
  /\ faults' = faults + 1
  /\ Goto(j, "recording")
  /\ UNCHANGED <<group, worker, delivered, summaries, turn, runs, launching, crashes>>

RecordOutcome(j) ==
  /\ pc[j] = "recording"
  /\ group' = Recorded(j)
  /\ Goto(j, "reading")
  /\ UNCHANGED <<worker, delivered, summaries, turn, runs, launching, crashes, faults>>

\* sealDelegationGroup seals and goes on to finalizeIfReady.
SealAndForget == "idle"
AfterSeal == "reading"
Seal ==
  /\ pc[Turn] = "sealing"
  /\ \/ /\ group.status = "none"
        /\ Goto(Turn, "idle")
        /\ UNCHANGED group
     \/ /\ group.status # "none"
        /\ group' = [group EXCEPT !.status = IF @ = "open" THEN "sealed" ELSE @]
        /\ Goto(Turn, AfterSeal)
  /\ UNCHANGED <<worker, delivered, summaries, turn, runs, launching, crashes, faults>>

\* finalizeIfReady: look at the group.
ReadGroup(c) ==
  /\ pc[c] = "reading"
  /\ Goto(c, IF ~IsComplete THEN "idle"
             ELSE CASE group.status = "sealed" -> "readying"
                    [] group.status = "ready"  -> "claiming"
                    [] OTHER                   -> "idle")
  /\ UNCHANGED <<group, worker, delivered, summaries, turn, runs, launching, crashes, faults>>

\* finalizeIfReady: sealed becomes ready, unless another caller was faster.
MakeReady(c) ==
  /\ pc[c] = "readying"
  /\ group' = [group EXCEPT !.status = IF @ = "sealed" /\ IsComplete THEN "ready" ELSE @]
  /\ Goto(c, IF group'.status = "ready" THEN "claiming" ELSE "idle")
  /\ UNCHANGED <<worker, delivered, summaries, turn, runs, launching, crashes, faults>>

\* finalizeIfReady: one caller puts the claim and will enqueue the summary.
ClaimSummary(c) ==
  /\ pc[c] = "claiming"
  /\ IF CanClaim
     THEN group' = [group EXCEPT !.summary = "claim"] /\ Goto(c, "finding")
     ELSE Goto(c, "idle") /\ UNCHANGED group
  /\ UNCHANGED <<worker, delivered, summaries, turn, runs, launching, crashes, faults>>

\* summaryEnqueuer, createJob: look for a job with the group's key...
FindAlways(c) ==
  /\ pc[c] = "finding"
  /\ Goto(c, "notifying")
  /\ UNCHANGED <<group, worker, delivered, summaries, turn, runs, launching, crashes, faults>>
FindSummary(c) ==
  /\ pc[c] = "finding"
  /\ Goto(c, IF summaries > 0 THEN "notifying" ELSE "creating")
  /\ UNCHANGED <<group, worker, delivered, summaries, turn, runs, launching, crashes, faults>>

\* ... and create it when there was none.
CreateSummary(c) ==
  /\ pc[c] = "creating"
  /\ summaries' = summaries + 1
  /\ Goto(c, "notifying")
  /\ UNCHANGED <<group, worker, delivered, turn, runs, launching, crashes, faults>>

\* summaryEnqueuer throws before the job exists.
SummaryThrows(c) ==
  /\ pc[c] \in {"finding", "creating"}
  /\ faults < MaxFaults
  /\ faults' = faults + 1
  /\ Goto(c, "resetting")
  /\ UNCHANGED <<group, worker, delivered, summaries, turn, runs, launching, crashes>>

ResetClaim(c) ==
  /\ pc[c] = "resetting"
  /\ group' = [group EXCEPT !.summary = IF @ = "claim" THEN "null" ELSE @]
  /\ Goto(c, "idle")
  /\ UNCHANGED <<worker, delivered, summaries, turn, runs, launching, crashes, faults>>

NotifyGroup(c) ==
  /\ pc[c] = "notifying"
  /\ group' = IF group.status = "notified" THEN group
              ELSE [group EXCEPT !.status = "notified", !.summary = "job"]
  /\ Goto(c, "idle")
  /\ UNCHANGED <<worker, delivered, summaries, turn, runs, launching, crashes, faults>>

-----------------------------------------------------------------------------
(* The process dies and is started again. Activations and tool calls are    *)
(* lost; a job whose starts are used up is interrupted by reconcileOnBoot,  *)
(* which runs before the worker_task hook is registered.                    *)
Crash ==
  /\ crashes < MaxCrashes
  /\ crashes' = crashes + 1
  /\ turn' = IF turn \in {"generating", "sealing"} THEN "lost" ELSE turn
  /\ launching' = {}
  /\ pc' = [c \in Callers |-> "idle"]
  /\ \E S \in SUBSET {j \in Jobs : worker[j] = "live"} :
       worker' = [j \in Jobs |-> IF j \in S THEN "interrupted" ELSE worker[j]]
  /\ UNCHANGED <<group, delivered, summaries, runs, faults>>

-----------------------------------------------------------------------------
TurnNext == \/ FinishTurn \/ FailTurn \/ EndTurn \/ RerunTurn \/ Seal
            \/ (\E t \in Tasks : Delegate(t)) \/ (\E j \in Jobs : Revise(j))

WorkerNext == \E j \in Jobs :
  EnqueueWorker(j) \/ EnqueueThrows(j) \/ DeliverTask(j) \/ EndWorker(j)
  \/ RepeatHook(j) \/ RecordOutcome(j)

FinalizeStep(c) == \/ ReadGroup(c) \/ MakeReady(c) \/ ClaimSummary(c) \/ FindSummary(c)
                   \/ CreateSummary(c) \/ ResetClaim(c) \/ NotifyGroup(c)

Next == \/ TurnNext \/ WorkerNext \/ Crash
        \/ \E c \in Callers : FinalizeStep(c) \/ SummaryThrows(c)

Spec == Init /\ [][Next]_vars

\* Awaits resolve, turns return or throw, the queue brings every worker to its
\* end and runs a reclaimed turn. Delegations, crashes and faults are not forced.
Fairness ==
  /\ WF_vars(FinishTurn \/ FailTurn) /\ WF_vars(EndTurn) /\ WF_vars(RerunTurn)
  /\ WF_vars(Seal)
  /\ \A j \in Jobs :
       /\ WF_vars(EnqueueWorker(j)) /\ WF_vars(EndWorker(j)) /\ WF_vars(RecordOutcome(j))
  /\ \A c \in Callers : WF_vars(FinalizeStep(c))

FairSpec == Spec /\ Fairness

-----------------------------------------------------------------------------
(* Properties that hold *)

\* Every variable has its type.
TypeOK ==
  /\ group \in Group
  /\ worker \in [Jobs -> {"none", "live", "ended", "interrupted"}]
  /\ delivered \subseteq Tasks
  /\ summaries \in Nat
  /\ turn \in {"generating", "sealing", "over", "failed", "lost"}
  /\ runs \in 1..MaxTurnRuns
  /\ launching \subseteq Jobs
  /\ pc \in [Callers -> {"idle", "sealing", "recording", "reading", "readying", "claiming",
                         "finding", "creating", "resetting", "notifying"}]
  /\ crashes \in 0..MaxCrashes /\ faults \in 0..MaxFaults

\* At most one caller is past the claim, and while one is, the group carries its
\* claim: hooks of several workers, the seal of the turn, failed enqueues and
\* crashes never let two callers enqueue the summary.
Claiming == {"finding", "creating", "resetting", "notifying"}
ClaimIsExclusive ==
  \A c \in Callers : pc[c] \in Claiming =>
    /\ group.status = "ready" /\ group.summary = "claim"
    /\ \A d \in Callers \ {c} : pc[d] \notin Claiming

\* The group document and the queue agree: a notified group has a summary job,
\* and a summary job whose group is not notified is about to be written there or
\* was cut off by a crash.
SummaryIsKnown ==
  /\ group.status = "notified" => summaries = 1
  /\ summaries = 1 /\ group.status # "notified" =>
       crashes > 0 \/ \E c \in Callers : pc[c] = "notifying"

\* The group implements the join it promises: every registered task reports
\* before the coordinator is told, none joins later, and it is told once.
Join == INSTANCE FanIn WITH
  Members  <- Tasks,
  members  <- group.tasks,
  reported <- {t \in Tasks : group.outcomes[t] # 0},
  closed   <- group.status \notin {"none", "open"},
  told     <- summaries
ImplementsFanIn == Join!Spec

\* A sealed group is eventually answered by a summary.
FanInArrives == (group.status = "sealed") ~> (summaries > 0)

-----------------------------------------------------------------------------
(* What a comment of the code says and the code does not do. No run checks   *)
(* it, since nothing makes a last caller come: the README tells how it fails. *)

\* delegation-notify.ts:6, of the hook: "on completion or final failure, enqueues a
\* synthetic chat turn in the ORIGINATING conversation's lane".
OutcomeIsRelayed == \A j \in Jobs : (worker[j] = "ended") ~> (summaries > 0)

=============================================================================
