--------------------------- MODULE AgentRunsProofs ---------------------------
(***************************************************************************)
(* Proofs about AgentRuns. A first invariant types it and tells the tool   *)
(* calls apart, so that none runs twice. A second one holds documents      *)
(* against what executions remember of them: effects are known to whoever  *)
(* goes on, runs settle, and turns and rounds stay within their budgets.   *)
(***************************************************************************)
EXTENDS AgentRuns, TLAPS

\* A call that is still to run was numbered when the model asked for it, did not run
\* yet, and belongs to one execution.
Pending(x) == x.pc \in {"checkpoint", "tool"}

CallInv ==
  /\ \A n \in ran : n <= calls
  /\ \A e \in Execs : Pending(exec[e]) => exec[e].call <= calls /\ exec[e].call \notin ran
  /\ \A e, f \in Execs : e # f /\ Pending(exec[e]) /\ Pending(exec[f]) =>
                           exec[e].call # exec[f].call

IInv == TypeOK /\ CallInv

\* The type invariant, by the parts of the state that a step touches together.
RunPart == run \in Run /\ rounds \in Nat /\ erased \subseteq Nat /\ faults \in Nat
OtherPart ==
  /\ kind \in Kinds /\ job \in Job
  /\ latest \in Execs \union {NoExec} /\ listed \in BOOLEAN
  /\ begun \in BOOLEAN /\ ran \subseteq Nat /\ calls \in Nat
  /\ crashes \in Nat /\ lapses \in Nat
ExecPart == exec \in [Execs -> Exec]

LEMMA Parts == TypeOK <=> RunPart /\ OtherPart /\ ExecPart /\ task \in Task
  BY DEF TypeOK, RunPart, OtherPart, ExecPart

LEMMA PartsNext ==
  ASSUME RunPart', OtherPart', ExecPart', task' \in Task, CallInv'
  PROVE  IInv'
  BY DEF IInv, TypeOK, RunPart, OtherPart, ExecPart

-----------------------------------------------------------------------------
(* Documents.                                                               *)

\* What the code writes in place of a document is one.
LEMMA Documents ==
  ASSUME TypeOK
  PROVE  /\ Closed("completed") \in Run /\ Closed("failed") \in Run
         /\ Interrupted \in Run
         /\ [run EXCEPT !.status = "running"] \in Run
         /\ Reclaimed \in Job
         /\ NoState \in State /\ Idle \in Exec
  BY DEF TypeOK, Closed, Interrupted, Reclaimed, Run, Ends, State, NoState, Job, Idle, Exec

\* A write of the run, and one that is lost.
LEMMA RunPut ==
  ASSUME TypeOK, NEW doc \in Run, Put(doc) \/ Lost
  PROVE  RunPart'
<1>1. CASE Put(doc)
  BY <1>1 DEF TypeOK, Put, RunPart
<1>2. CASE Lost
  BY <1>2 DEF TypeOK, Lost, Fault, RunPart
<1> QED BY <1>1, <1>2

LEMMA RunClosed ==
  ASSUME TypeOK, Close("completed") \/ Close("failed")
  PROVE  RunPart'
  BY Documents DEF TypeOK, Close, RunPart

LEMMA RunKept ==
  ASSUME TypeOK, Writes
  PROVE  RunPart'
  BY DEF TypeOK, Writes, RunPart

LEMMA TaskKept ==
  ASSUME TypeOK, UNCHANGED task
  PROVE  task' \in Task
  BY DEF TypeOK

LEMMA TaskSet ==
  ASSUME TypeOK, NEW s \in {"pending", "in_progress", "blocked", "completed", "failed"},
         TaskBecomes(s), UNCHANGED <<run, rounds, erased>>
  PROVE  RunPart' /\ task' \in Task
  BY DEF TypeOK, TaskBecomes, Fault, RunPart, Task

LEMMA OthersKept ==
  ASSUME TypeOK, Others
  PROVE  OtherPart' /\ UNCHANGED <<calls, ran>>
  BY DEF TypeOK, Others, OtherPart

-----------------------------------------------------------------------------
(* Executions.                                                              *)

\* An execution that is given another record keeps the invariant when the record has
\* no call still to run, or has the one it had.
LEMMA OneExec ==
  ASSUME IInv, NEW e \in Execs, NEW x \in Exec, exec' = [exec EXCEPT ![e] = x],
         Pending(x) => Pending(exec[e]) /\ x.call = exec[e].call,
         UNCHANGED <<calls, ran>>
  PROVE  ExecPart' /\ CallInv'
<1>1. ExecPart
  BY Parts DEF IInv
<1>2. ExecPart'
  BY <1>1 DEF ExecPart
<1>3. \A f \in Execs : Pending(exec'[f]) => Pending(exec[f]) /\ exec'[f].call = exec[f].call
  BY <1>1 DEF ExecPart
<1>4. CallInv'
  BY <1>3 DEF IInv, CallInv
<1> QED BY <1>2, <1>4

LEMMA Moved ==
  ASSUME IInv, NEW e \in Execs, UNCHANGED <<calls, ran>>,
         NEW pc \in {"start", "peek", "load", "reclaim", "ask", "ran", "summary",
                     "again", "last", "throw", "end", "release", "outcome", "top", "note",
                     "verify", "packet", "caught"},
         Goto(e, pc)
  PROVE  ExecPart' /\ CallInv'
<1>1. exec \in [Execs -> Exec]
  BY DEF IInv, TypeOK
<1> DEFINE x == [exec[e] EXCEPT !.pc = pc]
<1>2. x \in Exec /\ x.pc = pc
  BY <1>1 DEF Exec
<1>3. exec' = [exec EXCEPT ![e] = x]
  BY <1>1 DEF Goto
<1>4. ~Pending(x)
  BY <1>2 DEF Pending
<1> HIDE DEF x
<1> QED BY <1>2, <1>3, <1>4, OneExec

LEMMA Ended ==
  ASSUME IInv, NEW e \in Execs, UNCHANGED <<calls, ran>>,
         NEW r \in {"ok", "fail", "retry"}, Ending(e, r)
  PROVE  ExecPart' /\ CallInv'
<1> DEFINE x == [Idle EXCEPT !.pc = "settle", !.result = r]
<1>1. x \in Exec /\ x.pc = "settle"
  BY DEF Exec, Idle
<1>2. exec' = [exec EXCEPT ![e] = x]
  BY DEF Ending
<1>3. ~Pending(x)
  BY <1>1 DEF Pending
<1> HIDE DEF x
<1> QED BY <1>1, <1>2, <1>3, OneExec

\* A step that leaves the executions alone.
LEMMA ExecsKept ==
  ASSUME IInv, UNCHANGED <<exec, calls, ran>>
  PROVE  ExecPart' /\ CallInv'
  BY DEF IInv, TypeOK, ExecPart, CallInv, Pending

-----------------------------------------------------------------------------
(* The job and the process.                                                 *)

LEMMA InitIInv == Init => IInv
<1> SUFFICES ASSUME Init PROVE IInv
  OBVIOUS
<1>1. Idle \in Exec /\ Idle.pc = "none"
  BY DEF Idle, Exec
<1>2. exec \in [Execs -> Exec] /\ \A e \in Execs : exec[e].pc = "none"
  BY <1>1 DEF Init
<1>3. NewRun \in Run
  BY DEF NewRun, Run, NoState, State
<1>4. TypeOK
  BY <1>2, <1>3 DEF Init, TypeOK, Job, Task
<1>5. CallInv
  BY <1>2 DEF CallInv, Pending, Init
<1> QED BY <1>4, <1>5 DEF IInv

LEMMA JobSteps ==
  ASSUME IInv, NEW e \in Execs,
         Claim(e) \/ TimeOut(e) \/ Settle(e)
  PROVE  IInv'
<1>1. CASE Claim(e)
  <2> DEFINE taken == [job EXCEPT !.status = "running", !.attempts = @ + 1]
  <2>3. taken \in Job
    <3>1. job \in Job /\ job.attempts + 1 \in Nat
      BY DEF IInv, TypeOK, Job
    <3> QED BY <3>1 DEF Job
  <2>4. job' = taken /\ latest' = e /\ UNCHANGED <<kind, run, task, listed, history, bounds>>
    BY <1>1 DEF Claim
  <2>1. RunPart' /\ OtherPart' /\ task' \in Task
    <3> HIDE DEF taken
    <3> QED BY <2>3, <2>4 DEF IInv, TypeOK, RunPart, OtherPart, history, bounds
  <2>2. ExecPart' /\ CallInv'
    BY <1>1, Moved DEF Claim, history
  <2> QED BY <2>1, <2>2, PartsNext
<1>2. CASE TimeOut(e)
  <2> DEFINE x == [exec[e] EXCEPT !.aborted = TRUE]
  <2>1. RunPart' /\ OtherPart' /\ task' \in Task
    BY <1>2 DEF IInv, TypeOK, TimeOut, RunPart, OtherPart, history, bounds
  <2>2. exec \in [Execs -> Exec]
    BY DEF IInv, TypeOK
  <2>3. x \in Exec /\ x.pc = exec[e].pc /\ x.call = exec[e].call
    BY <2>2 DEF Exec
  <2>4. exec' = [exec EXCEPT ![e] = x] /\ UNCHANGED <<calls, ran>>
    BY <1>2, <2>2 DEF TimeOut, history
  <2>5. ExecPart' /\ CallInv'
    <3> HIDE DEF x
    <3> QED BY <2>3, <2>4, OneExec DEF Pending
  <2> QED BY <2>1, <2>5, PartsNext
<1>3. CASE Settle(e)
  <2>1. Settled(e) \in Job
    <3>1. /\ job \in Job
          /\ [job EXCEPT !.status = "completed"] \in Job
          /\ [job EXCEPT !.status = "failed"] \in Job
          /\ job.retries + 1 \in Nat
      BY DEF IInv, TypeOK, Job
    <3>2. [job EXCEPT !.status = "pending", !.retries = @ + 1] \in Job
      BY <3>1 DEF Job
    <3> QED BY <3>1, <3>2 DEF Settled
  <2>2. RunPart' /\ OtherPart' /\ task' \in Task
    BY <1>3, <2>1 DEF IInv, TypeOK, Settle, RunPart, OtherPart, history, bounds
  <2>3. Idle \in Exec /\ ~Pending(Idle)
    BY DEF Idle, Exec, Pending
  <2>4. ExecPart' /\ CallInv'
    BY <1>3, <2>3, OneExec DEF Settle, history
  <2> QED BY <2>2, <2>4, PartsNext
<1> QED BY <1>1, <1>2, <1>3

LEMMA ProcessSteps ==
  ASSUME IInv, Lapse \/ Cancel \/ ListRuns \/ StopRuns
  PROVE  IInv'
<1>1. CASE Lapse
  <2>1. RunPart' /\ OtherPart' /\ task' \in Task
    BY <1>1, Documents DEF IInv, TypeOK, Lapse, RunPart, OtherPart, history
  <2>2. ExecPart' /\ CallInv'
    BY <1>1, ExecsKept DEF Lapse, history
  <2> QED BY <2>1, <2>2, PartsNext
<1>2. CASE Cancel
  <2>1. RunPart' /\ OtherPart' /\ task' \in Task
    BY <1>2 DEF IInv, TypeOK, Cancel, RunPart, OtherPart, Job, history, bounds
  <2>2. UNCHANGED <<calls, ran>>
    BY <1>2 DEF Cancel, history
  <2>3. CASE latest \in Live
    <3> DEFINE x == [exec[latest] EXCEPT !.aborted = TRUE]
    <3>1. exec \in [Execs -> Exec] /\ latest \in Execs
      BY <2>3 DEF IInv, TypeOK, Live
    <3>2. x \in Exec /\ x.pc = exec[latest].pc /\ x.call = exec[latest].call
      BY <3>1 DEF Exec
    <3>3. exec' = [exec EXCEPT ![latest] = x]
      BY <1>2, <2>3, <3>1 DEF Cancel
    <3>4. ExecPart' /\ CallInv'
      <4> HIDE DEF x
      <4> QED BY <2>2, <3>1, <3>2, <3>3, OneExec DEF Pending
    <3> QED BY <2>1, <3>4, PartsNext
  <2>4. CASE latest \notin Live
    BY <1>2, <2>1, <2>2, <2>4, ExecsKept, PartsNext DEF Cancel
  <2> QED BY <2>3, <2>4
<1>3. CASE ListRuns
  <2>1. RunPart' /\ OtherPart' /\ task' \in Task
    BY <1>3 DEF IInv, TypeOK, ListRuns, RunPart, OtherPart, history, bounds
  <2>2. ExecPart' /\ CallInv'
    BY <1>3, ExecsKept DEF ListRuns, history
  <2> QED BY <2>1, <2>2, PartsNext
<1>4. CASE StopRuns
  <2>1. RunPart' /\ OtherPart' /\ task' \in Task
    BY <1>4, Documents DEF IInv, TypeOK, StopRuns, RunPart, OtherPart, history, bounds
  <2>2. ExecPart' /\ CallInv'
    BY <1>4, ExecsKept DEF StopRuns, history
  <2> QED BY <2>1, <2>2, PartsNext
<1> QED BY <1>1, <1>2, <1>3, <1>4

LEMMA RestartStep == ASSUME IInv, Restart PROVE IInv'
<1>1. ASSUME NEW live \in BOOLEAN PROVE Requeued(live) \in Task
  <2> DEFINE s == IF task.attempts + 1 >= 2 THEN "failed" ELSE "pending"
  <2>1. task \in Task /\ s \in {"failed", "pending"}
    BY DEF IInv, TypeOK
  <2>2. [task EXCEPT !.attempts = @ + 1, !.status = s] \in Task
    <3>1. task.attempts + 1 \in Nat
      BY <2>1 DEF Task
    <3> HIDE DEF s
    <3> QED BY <2>1, <3>1 DEF Task
  <2> QED BY <2>1, <2>2 DEF Requeued
<1>2. RunPart' /\ OtherPart' /\ task' \in Task
  <2>1. /\ run' \in {Interrupted, run}
        /\ job' = Reclaimed /\ crashes' = crashes + 1
        /\ latest' = NoExec /\ listed' = FALSE
        /\ UNCHANGED <<kind, begun, ran, calls, rounds, erased, lapses, faults>>
    BY DEF Restart, history
  <2>2. task' \in Task
    <3>1. (Reclaimed.status \in {"pending", "running"}) \in BOOLEAN
      OBVIOUS
    <3> QED BY <1>1, <3>1 DEF Restart
  <2>3. RunPart'
    BY <2>1, Documents DEF IInv, TypeOK, RunPart
  <2>4. OtherPart'
    <3>1. job' \in Job /\ crashes' \in Nat
      BY <2>1, Documents DEF IInv, TypeOK
    <3> QED BY <2>1, <3>1 DEF IInv, TypeOK, OtherPart
  <2> QED BY <2>2, <2>3, <2>4
<1>3. Idle \in Exec /\ ~Pending(Idle)
  BY DEF Idle, Exec, Pending
<1>4. ExecPart' /\ CallInv'
  BY <1>3 DEF IInv, Restart, ExecPart, CallInv, history
<1> QED BY <1>2, <1>4, PartsNext

-----------------------------------------------------------------------------
(* The executors.                                                           *)

\* Executions without a call that is still to run.
Calm == {x \in Exec : ~Pending(x)}

\* The record of an execution stays one when its fields are given values of their
\* types.
LEMMA Fields ==
  ASSUME NEW x \in Exec
  PROVE  /\ [x EXCEPT !.pc = "outcome", !.result = "threw"] \in Calm
         /\ \A n \in Nat : /\ [x EXCEPT !.pc = "reclaim", !.attempts = n] \in Calm
                           /\ [x EXCEPT !.pc = "bump", !.attempts = n] \in Calm
                           /\ [x EXCEPT !.pc = "bumping", !.turns = n] \in Calm
         /\ \A n \in Nat, k \in SUBSET Nat :
              [x EXCEPT !.pc = "reclaim", !.iterations = n, !.known = k] \in Calm
         /\ \A n \in Nat, pc \in {"last", "summary", "throw"} :
              [x EXCEPT !.pc = pc, !.iterations = n] \in Calm
         /\ \A k \in SUBSET Nat : [x EXCEPT !.pc = "ran", !.call = 0, !.known = k] \in Calm
         /\ \A r \in {"returned", "threw"}, a \in BOOLEAN :
              [Idle EXCEPT !.pc = "finally", !.result = r, !.aborted = a] \in Calm
<1>1. [x EXCEPT !.pc = "outcome", !.result = "threw"] \in Calm
  BY DEF Exec, Calm, Pending
<1>2. ASSUME NEW n \in Nat
      PROVE  /\ [x EXCEPT !.pc = "reclaim", !.attempts = n] \in Calm
             /\ [x EXCEPT !.pc = "bump", !.attempts = n] \in Calm
             /\ [x EXCEPT !.pc = "bumping", !.turns = n] \in Calm
  BY DEF Exec, Calm, Pending
<1>3. ASSUME NEW n \in Nat, NEW k \in SUBSET Nat
      PROVE  [x EXCEPT !.pc = "reclaim", !.iterations = n, !.known = k] \in Calm
  BY DEF Exec, Calm, Pending
<1>4. ASSUME NEW n \in Nat, NEW pc \in {"last", "summary", "throw"}
      PROVE  [x EXCEPT !.pc = pc, !.iterations = n] \in Calm
  BY DEF Exec, Calm, Pending
<1>5. ASSUME NEW k \in SUBSET Nat
      PROVE  [x EXCEPT !.pc = "ran", !.call = 0, !.known = k] \in Calm
  BY DEF Exec, Calm, Pending
<1>6. ASSUME NEW r \in {"returned", "threw"}, NEW a \in BOOLEAN
      PROVE  [Idle EXCEPT !.pc = "finally", !.result = r, !.aborted = a] \in Calm
  BY DEF Exec, Idle, Calm, Pending
<1> QED BY <1>1, <1>2, <1>3, <1>4, <1>5, <1>6

LEMMA Calmed ==
  ASSUME IInv, NEW e \in Execs, NEW x \in Calm, exec' = [exec EXCEPT ![e] = x],
         UNCHANGED <<calls, ran>>
  PROVE  ExecPart' /\ CallInv'
  BY OneExec DEF Calm

\* A step of an execution that leaves the job and the history of calls alone.
LEMMA Quiet ==
  ASSUME IInv, Others, RunPart', task' \in Task, ExecPart', CallInv'
  PROVE  IInv'
  BY OthersKept, PartsNext DEF IInv

\* Before the loop.
LEMMA StartSteps ==
  ASSUME IInv, NEW e \in Execs, Refuse(e) \/ Start(e) \/ Peek(e) \/ Load(e) \/ Reclaim(e)
  PROVE  IInv'
<1>0. TypeOK /\ exec \in [Execs -> Exec] /\ exec[e] \in Exec
  BY DEF IInv, TypeOK
<1>1. CASE Refuse(e)
  <2>1. RunPart' /\ task' \in Task
    BY <1>0, <1>1, RunKept, TaskKept DEF Refuse
  <2>2. OtherPart' /\ UNCHANGED <<calls, ran>>
    BY <1>0, <1>1 DEF Refuse, TypeOK, OtherPart
  <2>3. ExecPart' /\ CallInv'
    BY <1>1, <2>2, Ended DEF Refuse
  <2> QED BY <2>1, <2>2, <2>3, PartsNext
<1>2. CASE Start(e)
  <2>1. RunPart' /\ task' \in Task
    BY <1>0, <1>2, TaskSet DEF Start
  <2>2. ExecPart' /\ CallInv'
    BY <1>0, <1>2, Moved, OthersKept DEF Start
  <2> QED BY <1>2, <2>1, <2>2, Quiet DEF Start
<1>3. CASE Peek(e)
  <2>1. RunPart' /\ task' \in Task /\ UNCHANGED <<calls, ran>>
    BY <1>0, <1>3, RunKept, TaskKept, OthersKept DEF Peek
  <2>2. CASE Goto(e, IF run.state.saved THEN "load" ELSE "reclaim")
    <3>1. (IF run.state.saved THEN "load" ELSE "reclaim") \in {"load", "reclaim"}
      OBVIOUS
    <3>2. ExecPart' /\ CallInv'
      BY <2>1, <2>2, <3>1, Moved
    <3> QED BY <1>3, <2>1, <3>2, Quiet DEF Peek
  <2>3. CASE exec' = [exec EXCEPT ![e].pc = "outcome", ![e].result = "threw"]
    <3> DEFINE x == [exec[e] EXCEPT !.pc = "outcome", !.result = "threw"]
    <3>1. x \in Calm
      BY <1>0, Fields
    <3>2. exec' = [exec EXCEPT ![e] = x]
      BY <1>0, <2>3
    <3>3. ExecPart' /\ CallInv'
      <4> HIDE DEF x
      <4> QED BY <2>1, <3>1, <3>2, Calmed
    <3> QED BY <1>3, <2>1, <3>3, Quiet DEF Peek
  <2> QED BY <1>3, <2>2, <2>3 DEF Peek
<1>4. CASE Load(e)
  <2> DEFINE n == run.state.iterations
             k == run.state.known \union ({run.state.pending} \ {0})
             x == [exec[e] EXCEPT !.pc = "reclaim", !.iterations = n, !.known = k]
  <2>1. RunPart' /\ task' \in Task /\ UNCHANGED <<calls, ran>>
    BY <1>0, <1>4, RunKept, TaskKept, OthersKept DEF Load
  <2>2. n \in Nat /\ k \in SUBSET Nat
    BY <1>0 DEF TypeOK, Run, State
  <2>3. x \in Calm
    BY <1>0, <2>2, Fields
  <2>4. exec' = [exec EXCEPT ![e] = x]
    BY <1>0, <1>4 DEF Load, Resume
  <2>5. ExecPart' /\ CallInv'
    <3> HIDE DEF x
    <3> QED BY <2>1, <2>3, <2>4, Calmed
  <2> QED BY <1>4, <2>1, <2>5, Quiet DEF Load
<1>5. CASE Reclaim(e)
  <2>1. RunPart' /\ task' \in Task
    <3>1. [run EXCEPT !.status = "running"] \in Run
      BY <1>0, Documents
    <3> QED BY <1>0, <1>5, <3>1, RunPut, TaskKept DEF Reclaim
  <2>2. OtherPart' /\ UNCHANGED <<calls, ran>>
    BY <1>0, <1>5 DEF Reclaim, TypeOK, OtherPart
  <2>3. (IF Durable THEN "ask" ELSE "top") \in {"ask", "top"}
    OBVIOUS
  <2>4. ExecPart' /\ CallInv'
    BY <1>5, <2>2, <2>3, Moved DEF Reclaim
  <2> QED BY <2>1, <2>2, <2>4, PartsNext
<1> QED BY <1>1, <1>2, <1>3, <1>4, <1>5

\* The loop, but for the model call and the tools.
LEMMA LoopSteps ==
  ASSUME IInv, NEW e \in Execs,
         \/ LeaveLoop(e) \/ PreCheckpoint(e) \/ PostCheckpoint(e) \/ Synthesise(e)
         \/ FinalCheckpoint(e) \/ EndRun(e) \/ CatchLoop(e) \/ Finally(e) \/ ReleaseRun(e)
  PROVE  IInv'
<1>0. TypeOK /\ exec \in [Execs -> Exec] /\ exec[e] \in Exec
  BY DEF IInv, TypeOK
<1>1. ASSUME NEW n \in Nat, Checkpoint(e, n) PROVE RunPart'
  <2>1. exec[e].iterations \in Nat /\ exec[e].known \in SUBSET Nat
    BY <1>0 DEF Exec
  <2>2. Saved(e, n) \in State
    BY <2>1 DEF Saved, State
  <2>3. [run EXCEPT !.state = Saved(e, n)] \in Run
    BY <1>0, <2>2 DEF TypeOK, Run
  <2> QED BY <1>0, <1>1, <2>3, RunPut DEF Checkpoint
<1>2. ASSUME NEW s \in {"completed", "failed"}, CloseAs(e, s) PROVE RunPart'
  <2>1. CASE Lost
    BY <1>0, <2>1, Documents, RunPut
  <2>2. CASE Put(Interrupted)
    BY <1>0, <2>2, Documents, RunPut
  <2>3. CASE Close(s)
    BY <1>0, <2>3, RunClosed
  <2> QED BY <1>2, <2>1, <2>2, <2>3 DEF CloseAs
<1>3. ASSUME NEW r \in {"returned", "threw"}, LoopLeft(e, r), UNCHANGED <<calls, ran>>
      PROVE  ExecPart' /\ CallInv'
  <2> DEFINE a == exec[e].aborted
             x == [Idle EXCEPT !.pc = "finally", !.result = r, !.aborted = a]
  <2>1. a \in BOOLEAN
    BY <1>0 DEF Exec
  <2>2. x \in Calm
    BY <1>0, <2>1, Fields
  <2>3. exec' = [exec EXCEPT ![e] = x]
    BY <1>3 DEF LoopLeft
  <2> HIDE DEF x
  <2> QED BY <1>3, <2>2, <2>3, Calmed
<1>4. CASE LeaveLoop(e)
  <2>1. RunPart' /\ task' \in Task /\ UNCHANGED <<calls, ran>>
    BY <1>0, <1>4, RunKept, TaskKept, OthersKept DEF LeaveLoop
  <2>2. ExecPart' /\ CallInv'
    BY <1>4, <2>1, Moved DEF LeaveLoop, Said, Silent
  <2> QED BY <1>4, <2>1, <2>2, Quiet DEF LeaveLoop
<1>5. CASE PreCheckpoint(e)
  <2> DEFINE x == [exec[e] EXCEPT !.pc = "tool"]
  <2>1. exec[e].call \in Nat
    BY <1>0 DEF Exec
  <2>2. RunPart' /\ task' \in Task /\ UNCHANGED <<calls, ran>>
    BY <1>0, <1>1, <1>5, <2>1, TaskKept, OthersKept DEF PreCheckpoint
  <2>3. x \in Exec /\ x.call = exec[e].call
    BY <1>0 DEF Exec
  <2>4. exec' = [exec EXCEPT ![e] = x] /\ Pending(exec[e])
    BY <1>0, <1>5 DEF PreCheckpoint, Goto, At, Pending
  <2>5. ExecPart' /\ CallInv'
    <3> HIDE DEF x
    <3> QED BY <2>2, <2>3, <2>4, OneExec
  <2> QED BY <1>5, <2>2, <2>5, Quiet DEF PreCheckpoint
<1>6. CASE PostCheckpoint(e)
  <2>1. RunPart' /\ task' \in Task /\ UNCHANGED <<calls, ran>>
    BY <1>0, <1>1, <1>6, RunKept, TaskKept, OthersKept DEF PostCheckpoint
  <2>2. ExecPart' /\ CallInv'
    BY <1>6, <2>1, Moved DEF PostCheckpoint, Said, Silent
  <2> QED BY <1>6, <2>1, <2>2, Quiet DEF PostCheckpoint
<1>7. CASE FinalCheckpoint(e)
  <2>1. RunPart' /\ task' \in Task /\ UNCHANGED <<calls, ran>>
    BY <1>0, <1>1, <1>7, TaskKept, OthersKept DEF FinalCheckpoint
  <2>2. ExecPart' /\ CallInv'
    BY <1>7, <2>1, Moved DEF FinalCheckpoint
  <2> QED BY <1>7, <2>1, <2>2, Quiet DEF FinalCheckpoint
<1>8. CASE EndRun(e)
  <2>1. RunPart' /\ task' \in Task /\ UNCHANGED <<calls, ran>>
    BY <1>0, <1>2, <1>8, TaskKept, OthersKept DEF EndRun
  <2> QED BY <1>3, <1>8, <2>1, Quiet DEF EndRun
<1>9. CASE CatchLoop(e)
  <2>1. RunPart' /\ task' \in Task /\ UNCHANGED <<calls, ran>>
    BY <1>0, <1>2, <1>9, TaskKept, OthersKept DEF CatchLoop
  <2> QED BY <1>3, <1>9, <2>1, Quiet DEF CatchLoop
<1>10. CASE Finally(e)
  <2>1. RunPart' /\ task' \in Task /\ UNCHANGED <<calls, ran>>
    BY <1>0, <1>10, RunKept, TaskKept, OthersKept DEF Finally
  <2>2. (IF Loose(run) THEN "release" ELSE "outcome") \in {"release", "outcome"}
    OBVIOUS
  <2>3. ExecPart' /\ CallInv'
    BY <1>10, <2>1, <2>2, Moved DEF Finally
  <2> QED BY <1>10, <2>1, <2>3, Quiet DEF Finally
<1>11. CASE ReleaseRun(e)
  <2>1. RunPart' /\ task' \in Task /\ UNCHANGED <<calls, ran>>
    BY <1>0, <1>11, Documents, RunPut, TaskKept, OthersKept DEF ReleaseRun
  <2>2. ExecPart' /\ CallInv'
    BY <1>11, <2>1, Moved DEF ReleaseRun
  <2> QED BY <1>11, <2>1, <2>2, Quiet DEF ReleaseRun
<1>12. CASE Synthesise(e)
  <2>1. RunPart' /\ task' \in Task /\ OtherPart' /\ UNCHANGED <<calls, ran>>
    BY <1>0, <1>12 DEF TypeOK, Synthesise, RunPart, OtherPart, bounds
  <2>2. ExecPart' /\ CallInv'
    BY <1>12, <2>1, Moved DEF Synthesise, Said
  <2> QED BY <2>1, <2>2, PartsNext
<1> QED BY <1>4, <1>5, <1>6, <1>7, <1>8, <1>9, <1>10, <1>11, <1>12

\* The model asks for a call, which gets the next number.
LEMMA AskStep ==
  ASSUME IInv, NEW e \in Execs, Ask(e)
  PROVE  IInv'
<1>0. TypeOK /\ exec \in [Execs -> Exec] /\ exec[e] \in Exec /\ calls \in Nat
  BY DEF IInv, TypeOK
<1>1. RunPart' /\ task' \in Task
  BY <1>0 DEF TypeOK, Ask, RunPart, bounds
<1>2. calls' \in Nat /\ OtherPart'
  BY <1>0 DEF TypeOK, Ask, OtherPart, bounds
<1>3. exec[e].iterations + 1 \in Nat
  BY <1>0 DEF Exec
<1>4. CASE exec' = [exec EXCEPT ![e].pc = "checkpoint", ![e].call = calls + 1,
                                ![e].iterations = @ + 1] /\ calls' = calls + 1
  <2> DEFINE c == calls + 1
             m == exec[e].iterations + 1
             x == [exec[e] EXCEPT !.pc = "checkpoint", !.call = c, !.iterations = m]
  <2>0. c \in Nat /\ m \in Nat /\ c > calls /\ calls' = c
    BY <1>0, <1>3, <1>4
  <2>1. x \in Exec /\ x.call = c
    <3> HIDE DEF c, m
    <3> QED BY <1>0, <2>0 DEF Exec
  <2>2. exec' = [exec EXCEPT ![e] = x]
    BY <1>0, <1>4
  <2> HIDE DEF c
  <2> HIDE DEF x
  <2>3. ExecPart'
    BY <1>0, <2>1, <2>2 DEF ExecPart
  <2>4. exec'[e] = x /\ \A f \in Execs : f # e => exec'[f] = exec[f]
    BY <1>0, <2>2
  <2>5. ran' = ran /\ \A n \in ran : n \in Nat /\ n <= calls
    BY <1>0 DEF Ask, IInv, CallInv, TypeOK
  <2>6. \A f \in Execs : Pending(exec[f]) => exec[f].call \in Nat /\ exec[f].call <= calls
    BY <1>0 DEF IInv, CallInv, Exec
  <2>7. CallInv'
    <3>1. \A n \in ran' : n <= calls'
      BY <1>0, <2>0, <2>5
    <3>2. ASSUME NEW f \in Execs, Pending(exec'[f])
          PROVE  exec'[f].call <= calls' /\ exec'[f].call \notin ran'
      BY <1>0, <2>0, <2>1, <2>4, <2>5, <2>6, <3>2 DEF IInv, CallInv
    <3>3. ASSUME NEW f \in Execs, NEW g \in Execs, f # g,
                 Pending(exec'[f]), Pending(exec'[g])
          PROVE  exec'[f].call # exec'[g].call
      BY <1>0, <2>0, <2>1, <2>4, <2>6, <3>3 DEF IInv, CallInv
    <3> QED BY <3>1, <3>2, <3>3 DEF CallInv
  <2> QED BY <1>1, <1>2, <2>3, <2>7, PartsNext
<1>5. CASE \E pc \in {"last", "summary", "throw"} :
             exec' = [exec EXCEPT ![e].pc = pc, ![e].iterations = @ + 1] /\ UNCHANGED calls
  <2>1. PICK pc \in {"last", "summary", "throw"} :
          exec' = [exec EXCEPT ![e].pc = pc, ![e].iterations = @ + 1] /\ UNCHANGED calls
    BY <1>5
  <2> DEFINE n == exec[e].iterations + 1
             x == [exec[e] EXCEPT !.pc = pc, !.iterations = n]
  <2>2. x \in Calm
    <3> HIDE DEF n
    <3> QED BY <1>0, <1>3, Fields DEF n
  <2>3. exec' = [exec EXCEPT ![e] = x] /\ UNCHANGED <<calls, ran>>
    BY <1>0, <2>1 DEF Ask
  <2>4. ExecPart' /\ CallInv'
    <3> HIDE DEF x
    <3> QED BY <2>2, <2>3, Calmed
  <2> QED BY <1>1, <1>2, <2>4, PartsNext
<1> QED BY <1>4, <1>5 DEF Ask

\* The call runs, and is never again one that is still to run.
LEMMA RunToolStep ==
  ASSUME IInv, NEW e \in Execs, RunTool(e)
  PROVE  IInv' /\ exec[e].call \notin ran
<1>0. TypeOK /\ exec \in [Execs -> Exec] /\ exec[e] \in Exec /\ calls \in Nat
  BY DEF IInv, TypeOK
<1>1. Pending(exec[e]) /\ exec[e].call \in Nat /\ exec[e].call \notin ran /\ exec[e].call <= calls
  BY <1>0 DEF RunTool, At, Pending, IInv, CallInv, Exec
<1>2. ran' = ran \union {exec[e].call} /\ calls' = calls
  BY DEF RunTool
<1>3. RunPart' /\ task' \in Task /\ OtherPart'
  BY <1>0, <1>1, <1>2 DEF TypeOK, RunTool, RunPart, OtherPart, bounds
<1>4. PICK x \in Calm : exec' = [exec EXCEPT ![e] = x]
  <2>1. CASE Goto(e, "throw")
    <3>1. [exec[e] EXCEPT !.pc = "throw"] \in Calm
      BY <1>0 DEF Exec, Calm, Pending
    <3>2. exec' = [exec EXCEPT ![e] = [exec[e] EXCEPT !.pc = "throw"]]
      BY <1>0, <2>1 DEF Goto
    <3> QED BY <3>1, <3>2
  <2>2. CASE exec' = [exec EXCEPT ![e].pc = "ran", ![e].call = 0,
                                  ![e].known = @ \union {exec[e].call}]
    <3> DEFINE k == exec[e].known \union {exec[e].call}
               y == [exec[e] EXCEPT !.pc = "ran", !.call = 0, !.known = k]
    <3>1. k \in SUBSET Nat
      BY <1>0, <1>1 DEF Exec
    <3>2. y \in Calm
      <4> HIDE DEF k
      <4> QED BY <1>0, <3>1, Fields
    <3>3. exec' = [exec EXCEPT ![e] = y]
      BY <1>0, <2>2
    <3> HIDE DEF y
    <3> QED BY <3>2, <3>3
  <2> QED BY <2>1, <2>2 DEF RunTool
<1>5. x \in Exec /\ ~Pending(x)
  BY <1>4 DEF Calm
<1>6. exec'[e] = x /\ \A f \in Execs : f # e => exec'[f] = exec[f]
  BY <1>0, <1>4
<1>7. ExecPart'
  BY <1>0, <1>4, <1>5 DEF ExecPart
<1>8. CallInv'
  BY <1>1, <1>2, <1>5, <1>6 DEF IInv, CallInv
<1> QED BY <1>1, <1>3, <1>7, <1>8, PartsNext
-----------------------------------------------------------------------------
(* After the loop, and the goal.                                            *)

LEMMA OutcomeStep ==
  ASSUME IInv, NEW e \in Execs,
         NEW s \in {"pending", "in_progress", "blocked", "completed", "failed"},
         NEW results \in SUBSET {"ok", "fail", "retry"}, Outcome(e, s, results)
  PROVE  IInv'
<1>0. TypeOK
  BY DEF IInv
<1>1. RunPart' /\ task' \in Task /\ UNCHANGED <<calls, ran>>
  BY <1>0, TaskSet, OthersKept DEF Outcome
<1>2. ExecPart' /\ CallInv'
  BY <1>1, Ended DEF Outcome
<1> QED BY <1>1, <1>2, Quiet DEF Outcome

LEMMA OutcomeSteps ==
  ASSUME IInv, NEW e \in Execs, WorkerOutcome(e) \/ ChatOutcome(e)
  PROVE  IInv'
<1>1. CASE WorkerOutcome(e)
  BY <1>1, OutcomeStep DEF WorkerOutcome
<1>2. CASE ChatOutcome(e)
  <2>1. task.status \in {"pending", "in_progress", "blocked", "completed", "failed"}
    BY DEF IInv, TypeOK, Task
  <2>2. (IF Returned(e) THEN {"ok", "fail"} ELSE {"fail"}) \in SUBSET {"ok", "fail", "retry"}
    OBVIOUS
  <2> QED BY <1>2, <2>1, <2>2, OutcomeStep DEF ChatOutcome
<1> QED BY <1>1, <1>2

\* A goal up to and with its turn.
LEMMA TurnSteps ==
  ASSUME IInv, NEW e \in Execs,
         StartGoal(e) \/ AbortGoal(e) \/ ExhaustGoal(e) \/ Turn(e)
  PROVE  IInv'
<1>0. TypeOK /\ exec \in [Execs -> Exec] /\ exec[e] \in Exec
  BY DEF IInv, TypeOK
<1>1. CASE StartGoal(e)
  <2> DEFINE n == run.attempts
             x == [exec[e] EXCEPT !.pc = "reclaim", !.attempts = n]
  <2>1. RunPart' /\ task' \in Task /\ UNCHANGED <<calls, ran>>
    BY <1>0, <1>1, RunKept, TaskKept, OthersKept DEF StartGoal
  <2>2. n \in Nat
    BY <1>0 DEF TypeOK, Run
  <2>3. x \in Calm
    <3> HIDE DEF n
    <3> QED BY <1>0, <2>2, Fields
  <2>4. exec' = [exec EXCEPT ![e] = x]
    BY <1>0, <1>1 DEF StartGoal
  <2>5. ExecPart' /\ CallInv'
    <3> HIDE DEF x
    <3> QED BY <2>1, <2>3, <2>4, Calmed
  <2> QED BY <1>1, <2>1, <2>5, Quiet DEF StartGoal
<1>2. CASE AbortGoal(e)
  <2>1. RunPart' /\ task' \in Task /\ UNCHANGED <<calls, ran>>
    BY <1>0, <1>2, Documents, RunPut, TaskKept, OthersKept DEF AbortGoal
  <2>2. ExecPart' /\ CallInv'
    BY <1>2, <2>1, Ended DEF AbortGoal
  <2> QED BY <1>2, <2>1, <2>2, Quiet DEF AbortGoal
<1>3. CASE ExhaustGoal(e)
  <2>1. task' \in Task /\ UNCHANGED <<calls, ran>>
    BY <1>0, <1>3, TaskKept, OthersKept DEF ExhaustGoal
  <2>2. RunPart'
    BY <1>0, <1>3, Documents, RunClosed, RunPut DEF ExhaustGoal
  <2>3. ExecPart' /\ CallInv'
    BY <1>3, <2>1, Ended, Moved DEF ExhaustGoal
  <2> QED BY <1>3, <2>1, <2>2, <2>3, Quiet DEF ExhaustGoal
<1>4. CASE Turn(e)
  <2>1. RunPart' /\ task' \in Task /\ UNCHANGED <<calls, ran>>
    BY <1>0, <1>4, OthersKept DEF Turn, TypeOK, RunPart
  <2>2. CASE Goto(e, "caught")
    <3>1. ExecPart' /\ CallInv'
      BY <2>1, <2>2, Moved
    <3> QED BY <1>4, <2>1, <3>1, Quiet DEF Turn
  <2>3. CASE exec' = [exec EXCEPT ![e].pc = "bump", ![e].attempts = @ + 1]
    <3> DEFINE n == exec[e].attempts + 1
               x == [exec[e] EXCEPT !.pc = "bump", !.attempts = n]
    <3>1. n \in Nat
      BY <1>0 DEF Exec
    <3>2. x \in Calm
      <4> HIDE DEF n
      <4> QED BY <1>0, <3>1, Fields
    <3>3. exec' = [exec EXCEPT ![e] = x]
      BY <1>0, <2>3
    <3>4. ExecPart' /\ CallInv'
      <4> HIDE DEF x
      <4> QED BY <2>1, <3>2, <3>3, Calmed
    <3> QED BY <1>4, <2>1, <3>4, Quiet DEF Turn
  <2> QED BY <1>4, <2>2, <2>3 DEF Turn
<1> QED BY <1>1, <1>2, <1>3, <1>4

\* A goal after its turn.
LEMMA CountSteps ==
  ASSUME IInv, NEW e \in Execs, BumpRead(e) \/ Bump(e) \/ Note(e)
  PROVE  IInv'
<1>0. TypeOK /\ exec \in [Execs -> Exec] /\ exec[e] \in Exec /\ run \in Run
  BY DEF IInv, TypeOK
<1>1. CASE BumpRead(e)
  <2> DEFINE n == run.turns
             x == [exec[e] EXCEPT !.pc = "bumping", !.turns = n]
  <2>1. RunPart' /\ task' \in Task /\ UNCHANGED <<calls, ran>>
    BY <1>0, <1>1, RunKept, TaskKept, OthersKept DEF BumpRead
  <2>2. n \in Nat
    BY <1>0 DEF Run
  <2>3. x \in Calm
    <3> HIDE DEF n
    <3> QED BY <1>0, <2>2, Fields
  <2>4. exec' = [exec EXCEPT ![e] = x]
    BY <1>0, <1>1 DEF BumpRead
  <2>5. ExecPart' /\ CallInv'
    <3> HIDE DEF x
    <3> QED BY <2>1, <2>3, <2>4, Calmed
  <2> QED BY <1>1, <2>1, <2>5, Quiet DEF BumpRead
<1>2. CASE Bump(e)
  <2> DEFINE n == exec[e].turns + 1
  <2>1. n \in Nat
    BY <1>0 DEF Exec
  <2>2. [run EXCEPT !.turns = n] \in Run
    <3> HIDE DEF n
    <3> QED BY <1>0, <2>1 DEF Run
  <2>3. RunPart' /\ task' \in Task /\ UNCHANGED <<calls, ran>>
    BY <1>0, <1>2, <2>2, RunPut, TaskKept, OthersKept DEF Bump
  <2>4. ExecPart' /\ CallInv'
    BY <1>2, <2>3, Moved DEF Bump
  <2> QED BY <1>2, <2>3, <2>4, Quiet DEF Bump
<1>3. CASE Note(e)
  <2>1. exec[e].attempts \in Nat
    BY <1>0 DEF Exec
  <2>2. [run EXCEPT !.attempts = exec[e].attempts] \in Run
    BY <1>0, <2>1 DEF Run
  <2>3. RunPart' /\ task' \in Task /\ UNCHANGED <<calls, ran>>
    BY <1>0, <1>3, <2>2, RunPut, TaskKept, OthersKept DEF Note
  <2>4. ExecPart' /\ CallInv'
    BY <1>3, <2>3, Moved DEF Note
  <2> QED BY <1>3, <2>3, <2>4, Quiet DEF Note
<1> QED BY <1>1, <1>2, <1>3

LEMMA VerdictSteps ==
  ASSUME IInv, NEW e \in Execs, Verify(e) \/ Packet(e) \/ CatchGoal(e)
  PROVE  IInv'
<1>0. TypeOK /\ run \in Run
  BY DEF IInv, TypeOK
<1>1. task' \in Task /\ UNCHANGED <<calls, ran>> /\ Others
  BY <1>0, TaskKept, OthersKept DEF Verify, Packet, CatchGoal
<1>2. RunPart'
  BY <1>0, RunKept, RunClosed, RunPut DEF Verify, Packet, CatchGoal
<1>3. ExecPart' /\ CallInv'
  <2>1. CASE Verify(e)
    BY <1>1, <2>1, Moved DEF Verify
  <2>2. CASE Packet(e)
    BY <1>1, <2>2, Moved, Ended DEF Packet
  <2>3. CASE CatchGoal(e)
    BY <1>1, <2>3, Ended DEF CatchGoal
  <2> QED BY <2>1, <2>2, <2>3
<1> QED BY <1>1, <1>2, <1>3, Quiet

-----------------------------------------------------------------------------
(* The theorems.                                                            *)

LEMMA NextIInv == IInv /\ [Next]_vars => IInv'
<1> SUFFICES ASSUME IInv, [Next]_vars PROVE IInv'
  OBVIOUS
<1>1. CASE UNCHANGED vars
  BY <1>1 DEF vars, history, bounds, IInv, TypeOK, CallInv, Pending
<1>2. ASSUME NEW e \in Execs, LoopStep(e) PROVE IInv'
  BY <1>2, LoopSteps, AskStep, RunToolStep DEF LoopStep
<1>3. ASSUME NEW e \in Execs, GoalStep(e) PROVE IInv'
  BY <1>3, TurnSteps, CountSteps, VerdictSteps DEF GoalStep
<1>4. CASE Lapse \/ Cancel \/ ListRuns \/ StopRuns \/ Restart
  BY <1>4, ProcessSteps, RestartStep
<1>5. ASSUME NEW e \in Execs,
             \/ Claim(e) \/ TimeOut(e) \/ Settle(e)
             \/ Refuse(e) \/ Start(e) \/ Peek(e) \/ Load(e) \/ Reclaim(e)
             \/ WorkerOutcome(e) \/ ChatOutcome(e)
      PROVE  IInv'
  BY <1>5, JobSteps, StartSteps, OutcomeSteps
<1>6. CASE Next
  BY <1>2, <1>3, <1>4, <1>5, <1>6 DEF Next
<1> QED BY <1>1, <1>6

\* The inductive invariant: types, and every call that is still to run has a number
\* of its own that was given out and did not run.
THEOREM RunsInvariant == Spec => []IInv
  BY InitIInv, NextIInv, PTL DEF Spec

\* Every document and every execution keeps its type, whatever dies, lapses, is
\* cancelled or fails to be written.
THEOREM RunTypes == Spec => []TypeOK
<1>1. IInv => TypeOK
  BY DEF IInv
<1> QED BY <1>1, RunsInvariant, PTL

\* A tool call the model asked for once runs at most once, for every number of
\* executions, deaths, lapses and failed writes: a resumed execution tells the model
\* of the pending call of its checkpoint and never runs it.
THEOREM CallsRunOnce == Spec => OncePerCall
<1> DEFINE Once == \A e \in Execs : RunTool(e) => exec[e].call \notin ran
<1>1. IInv /\ [Next]_vars => [Once]_vars
  BY RunToolStep
<1>2. Spec => [][Once]_vars
  <2> HIDE DEF Once
  <2> QED BY <1>1, RunsInvariant, PTL DEF Spec
<1> QED BY <1>2 DEF OncePerCall

-----------------------------------------------------------------------------
(***************************************************************************)
(* Executions beside their documents: what the other properties rest on.   *)
(***************************************************************************)

\* The steps of the loop of runAgent, and those of goalRunExecutor.
LoopPcs == {"peek", "load", "ask", "checkpoint", "tool", "ran", "summary", "again", "last",
            "throw", "end", "finally", "release", "outcome"}
GoalPcs == {"top", "bump", "bumping", "note", "verify", "packet", "caught"}

\* An execution has taken the steps of its kind of run.
Roles ==
  \A e \in Execs : /\ exec[e].pc \in GoalPcs => kind = "goal"
                   /\ exec[e].pc \in LoopPcs => kind # "goal"

\* Unless a lease lapses, one execution lives, and the job is not waiting for another.
Solo ==
  lapses = 0 => \A e \in Live : job.status # "pending" /\ \A f \in Live : e = f

\* A row without a checkpoint says nothing.
Blank ==
  ~run.state.saved =>
    run.state.iterations = 0 /\ run.state.known = {} /\ run.state.pending = 0

\* Where an execution took the run over and did not close it yet.
Holding == {"ask", "checkpoint", "tool", "ran", "summary", "again", "last", "throw", "end",
            "release", "top", "bump", "bumping", "note", "verify", "caught"}

\* A run that was taken over and is running has an execution that will close it.
RunHeld ==
  faults = 0 /\ begun /\ run.status = "running" =>
    \E e \in Execs : exec[e].pc \in Holding \union {"finally"}

\* A task in progress has a job that waits or an execution that will settle it.
TaskHeld ==
  /\ kind # "worker" => task.status = "pending"
  /\ faults = 0 /\ begun /\ task.status = "in_progress" =>
       \/ job.status \in {"pending", "cancelled"}
       \/ \E e \in Live : exec[e].pc # "settle"

\* A completed run is in nobody's hands, but for the catch of a goal that was met.
StillOpen ==
  lapses = 0 /\ faults = 0 =>
    \A e \in Execs : exec[e].pc \in Holding \ {"caught"} => run.status # "completed"

\* What ran since the checkpoint was thrown away is in the checkpoint, the pending
\* call included; and an execution in the loop knows it.
Told(x) ==
  /\ Durable /\ x.pc \in {"reclaim", "ask", "checkpoint", "tool", "ran", "summary", "again",
                          "last"} =>
       ran \ erased \subseteq x.known
  /\ Pending(x) => x.call # 0
  /\ x.pc = "tool" => run.state.pending = x.call
KnownInv ==
  lapses = 0 /\ faults = 0 =>
    /\ ran \ erased \subseteq run.state.known \union ({run.state.pending} \ {0})
    /\ \A e \in Execs : Told(exec[e])

\* A death or a retry loses the count of three model calls at most: the iteration of
\* the execution that ends, if it was not in the row yet, and the two calls of its
\* synthesis, which enter no row.
Uncounted == 3 * (crashes + job.retries)
InLoop == {"start", "peek", "load", "reclaim", "ask", "checkpoint", "tool", "ran", "summary"}
Paced(x) ==
  /\ x.pc \in InLoop => rounds <= MaxIterations + Uncounted
  /\ x.pc \in InLoop \ {"checkpoint", "summary"} =>
       rounds <= run.state.iterations + Uncounted
  /\ x.pc \in InLoop \ {"start", "peek", "load"} => rounds <= x.iterations + Uncounted
  /\ x.pc = "summary" => rounds <= run.state.iterations + 1 + Uncounted
  /\ x.pc = "again" => /\ rounds <= MaxIterations + 1 + Uncounted
                       /\ rounds <= run.state.iterations + 2 + Uncounted
                       /\ rounds <= x.iterations + 1 + Uncounted
  /\ x.pc = "last" => rounds <= x.iterations + 2 + Uncounted
RoundsInv ==
  Durable /\ lapses = 0 /\ faults = 0 =>
    /\ rounds <= MaxIterations + 2 + Uncounted
    /\ job.status = "pending" =>
         rounds <= MaxIterations + Uncounted /\ rounds <= run.state.iterations + Uncounted
    /\ job.status = "running" => rounds <= run.state.iterations + 3 + Uncounted
    /\ \A e \in Execs : Paced(exec[e])

\* Turns of a goal, and its attempts, are written apart: a death or a retry loses one.
Extra == crashes + job.retries
Counted(x) ==
  /\ x.pc \in {"start", "reclaim", "top", "note", "verify"} => rounds <= run.turns + Extra
  /\ x.pc \in {"bump", "bumping"} => rounds <= run.turns + 1 + Extra
  /\ x.pc = "bumping" => x.turns = run.turns
  /\ x.pc \in {"start", "reclaim", "top", "verify"} => rounds <= run.attempts + Extra
  /\ x.pc \in {"reclaim", "top", "bump", "bumping", "note", "verify"} =>
       rounds <= x.attempts + Extra
GoalInv ==
  ~Durable /\ lapses = 0 /\ faults = 0 =>
    /\ rounds <= MaxTurns + Extra /\ rounds <= MaxAttempts + Extra
    /\ job.status = "pending" =>
         rounds <= run.turns + Extra /\ rounds <= run.attempts + Extra
    /\ job.status = "running" =>
         rounds <= run.turns + 1 + Extra /\ rounds <= run.attempts + 1 + Extra
    /\ \A e \in Execs : Counted(exec[e])

DocInv ==
  /\ Roles /\ Solo /\ Blank /\ RunHeld /\ TaskHeld
  /\ StillOpen /\ KnownInv /\ RoundsInv /\ GoalInv

-----------------------------------------------------------------------------
(* What the shared parts of actions do, field by field.                     *)

Went(e, pc) == exec'[e].pc = pc /\ \A f \in Execs : f # e => exec'[f] = exec[f]

LEMMA Numbers ==
  ASSUME IInv
  PROVE  /\ rounds \in Nat /\ crashes \in Nat /\ lapses \in Nat /\ faults \in Nat
         /\ job.retries \in Nat /\ run.turns \in Nat /\ run.attempts \in Nat
         /\ run.state.iterations \in Nat
         /\ MaxIterations \in Nat /\ MaxTurns \in Nat /\ MaxAttempts \in Nat
         /\ \A e \in Execs : /\ exec[e].turns \in Nat /\ exec[e].attempts \in Nat
                             /\ exec[e].iterations \in Nat /\ exec[e].call \in Nat
  BY RunBounds DEF IInv, TypeOK, Run, State, Job, Exec

LEMMA LeaveLoopEffect ==
  ASSUME IInv, NEW e \in Execs, LeaveLoop(e)
  PROVE  /\ exec[e].pc = "ask" /\ exec'[e].pc \in {"summary", "last", "throw"}
         /\ Went(e, exec'[e].pc)
         /\ exec'[e].known = exec[e].known /\ exec'[e].call = exec[e].call
         /\ exec'[e].iterations = exec[e].iterations
         /\ UNCHANGED task /\ Writes /\ Others
<1>1. PICK pc \in {"summary", "last", "throw"} : Goto(e, pc)
  BY DEF LeaveLoop, Said, Silent
<1> QED BY <1>1 DEF LeaveLoop, At, IInv, TypeOK, Goto, Exec, Went

LEMMA PostCheckpointEffect ==
  ASSUME IInv, NEW e \in Execs, PostCheckpoint(e)
  PROVE  /\ exec[e].pc = "ran" /\ exec'[e].pc \in {"ask", "summary", "last", "throw"}
         /\ Went(e, exec'[e].pc)
         /\ exec'[e].known = exec[e].known /\ exec'[e].call = exec[e].call
         /\ exec'[e].iterations = exec[e].iterations
         /\ UNCHANGED task /\ Others /\ (Checkpoint(e, 0) \/ Writes)
<1>1. PICK pc \in {"ask", "summary", "last", "throw"} : Goto(e, pc)
  BY DEF PostCheckpoint, Said, Silent
<1> QED BY <1>1 DEF PostCheckpoint, At, IInv, TypeOK, Goto, Exec, Went

LEMMA SynthesiseEffect ==
  ASSUME IInv, NEW e \in Execs, Synthesise(e)
  PROVE  /\ \/ exec[e].pc = "summary" /\ exec'[e].pc \in {"again", "last", "throw"}
            \/ exec[e].pc = "again" /\ exec'[e].pc \in {"last", "throw"}
         /\ Went(e, exec'[e].pc)
         /\ exec'[e].known = exec[e].known /\ exec'[e].call = exec[e].call
         /\ exec'[e].iterations = exec[e].iterations
         /\ rounds' = rounds + 1
         /\ UNCHANGED <<kind, run, job, task, latest, listed, begun, ran, calls, erased>>
         /\ UNCHANGED <<crashes, lapses, faults>>
<1>1. PICK pc \in {IF At(e, "summary") THEN "again" ELSE "throw"} \union {"last", "throw"} :
        Goto(e, pc)
  BY DEF Synthesise, Said
<1> QED BY <1>1 DEF Synthesise, At, IInv, TypeOK, Goto, Exec, Went, bounds

LEMMA EndingEffect ==
  ASSUME IInv, NEW e \in Execs, NEW r, Ending(e, r)
  PROVE  Went(e, "settle")
  BY DEF IInv, TypeOK, Ending, Idle, Exec, Went

LEMMA LeftEffect ==
  ASSUME IInv, NEW e \in Execs, NEW r, LoopLeft(e, r)
  PROVE  Went(e, "finally")
  BY DEF IInv, TypeOK, LoopLeft, Idle, Exec, Went

LEMMA GotoEffect ==
  ASSUME IInv, NEW e \in Execs, NEW pc, Goto(e, pc)
  PROVE  /\ Went(e, pc)
         /\ exec'[e].known = exec[e].known /\ exec'[e].call = exec[e].call
         /\ exec'[e].iterations = exec[e].iterations
         /\ exec'[e].turns = exec[e].turns /\ exec'[e].attempts = exec[e].attempts
  BY DEF IInv, TypeOK, Goto, Exec, Went

LEMMA CloseEffect ==
  ASSUME IInv, NEW s, Close(s)
  PROVE  /\ run'.status = s /\ run'.state = NoState
         /\ run'.turns = run.turns /\ run'.attempts = run.attempts
         /\ erased' = ran /\ faults' = faults
         /\ rounds' = IF Durable THEN 0 ELSE rounds
  BY DEF IInv, TypeOK, Run, Close, Closed, Durable

LEMMA CheckpointEffect ==
  ASSUME IInv, NEW e \in Execs, NEW n \in Nat, Checkpoint(e, n)
  PROVE  /\ rounds' = rounds /\ erased' = erased
         /\ \/ /\ faults' = faults /\ run'.status = run.status
               /\ run'.turns = run.turns /\ run'.attempts = run.attempts
               /\ run'.state.saved /\ run'.state.iterations = exec[e].iterations
               /\ run'.state.known = exec[e].known /\ run'.state.pending = n
            \/ faults' = faults + 1 /\ run' = run
  BY DEF IInv, TypeOK, Run, State, Checkpoint, Saved, Put, Lost, Fault

LEMMA SettleEffect ==
  ASSUME IInv, NEW e \in Execs, Settle(e)
  PROVE  /\ exec[e].pc = "settle" /\ Went(e, "none")
         /\ \/ job'.status = job.status /\ job.status # "running" /\ job'.retries = job.retries
            \/ job'.status \in {"completed", "failed"} /\ job'.retries = job.retries
            \/ /\ job.status = "running" /\ job'.status = "pending"
               /\ job'.retries = job.retries + 1
         /\ UNCHANGED <<kind, run, task, listed, history, bounds>>
  BY DEF IInv, TypeOK, Job, Exec, Settle, Settled, Retried, At, Went, Idle

LEMMA RestartEffect ==
  ASSUME IInv, Restart
  PROVE  /\ run'.status # "running" /\ run'.status \in {run.status, "interrupted"}
         /\ run'.state = run.state /\ run'.turns = run.turns /\ run'.attempts = run.attempts
         /\ job'.status = "pending" => job.status \in {"running", "pending"}
         /\ job'.status # "running" /\ job'.retries = job.retries
         /\ \A e \in Execs : exec'[e].pc = "none"
         /\ crashes' = crashes + 1 /\ UNCHANGED <<kind, history, lapses, faults>>
  BY DEF IInv, TypeOK, Run, Job, Restart, Interrupted, Reclaimed, Idle

-----------------------------------------------------------------------------
(* What a step of one execution has to show.                                *)

LEMMA Alone ==
  ASSUME Solo, lapses = 0, NEW e \in Execs, exec[e].pc # "none"
  PROVE  job.status # "pending" /\ \A f \in Execs : f # e => exec[f].pc = "none"
  BY DEF Solo, Live

LEMMA StillHeld ==
  ASSUME RunHeld, NEW e \in Execs, \A f \in Execs : f # e => exec'[f] = exec[f],
         exec[e].pc \notin Holding \union {"finally"}, begun' => begun,
         faults' = 0 => faults = 0 /\ (run'.status = "running" => run.status = "running")
  PROVE  RunHeld'
  BY DEF RunHeld

LEMMA KnownStep ==
  ASSUME Solo, NEW e \in Execs, exec[e].pc # "none",
         \A f \in Execs : f # e => exec'[f] = exec[f],
         lapses' = 0 /\ faults' = 0 =>
           /\ lapses = 0 /\ Told(exec[e])'
           /\ (ran \ erased \subseteq run.state.known \union ({run.state.pending} \ {0}))'
  PROVE  KnownInv'
<1>1. ASSUME lapses' = 0, faults' = 0, NEW f \in Execs, f # e PROVE Told(exec[f])'
  BY <1>1, Alone DEF Told, Pending
<1> QED BY <1>1 DEF KnownInv

LEMMA RoundsStep ==
  ASSUME Solo, NEW e \in Execs, exec[e].pc # "none",
         \A f \in Execs : f # e => exec'[f] = exec[f], UNCHANGED <<kind, job, lapses>>,
         Durable /\ lapses = 0 /\ faults' = 0 =>
           /\ (rounds <= MaxIterations + 2 + Uncounted)'
           /\ (job.status = "running" => rounds <= run.state.iterations + 3 + Uncounted)'
           /\ Paced(exec[e])'
  PROVE  RoundsInv'
<1>1. ASSUME Durable', lapses' = 0, NEW f \in Execs, f # e PROVE Paced(exec[f])'
  BY <1>1, Alone DEF Paced, InLoop
<1>2. lapses' = 0 => job'.status # "pending"
  BY Alone
<1> QED BY <1>1, <1>2 DEF RoundsInv, Durable

LEMMA GoalKept ==
  ASSUME Solo, NEW e \in Execs, exec[e].pc # "none",
         \A f \in Execs : f # e => exec'[f] = exec[f], UNCHANGED <<kind, job, lapses>>,
         ~Durable /\ lapses = 0 /\ faults' = 0 =>
           /\ (rounds <= MaxTurns + Extra /\ rounds <= MaxAttempts + Extra)'
           /\ (job.status = "running" =>
                 rounds <= run.turns + 1 + Extra /\ rounds <= run.attempts + 1 + Extra)'
           /\ Counted(exec[e])'
  PROVE  GoalInv'
<1>1. ASSUME ~Durable', lapses' = 0, NEW f \in Execs, f # e PROVE Counted(exec[f])'
  BY <1>1, Alone DEF Counted
<1>2. lapses' = 0 => job'.status # "pending"
  BY Alone
<1> QED BY <1>1, <1>2 DEF GoalInv, Durable

-----------------------------------------------------------------------------
(***************************************************************************)
(* Each of them is kept by every step.                                     *)
(***************************************************************************)

\* The loop of runAgent and that of goalRunExecutor never mix.
LEMMA RolesNext ==
  ASSUME IInv, Roles, Next
  PROVE  Roles'
<1>1. ASSUME NEW e \in Execs, Claim(e) PROVE Roles'
  BY <1>1 DEF Claim, Goto, Roles, GoalPcs, LoopPcs
<1>2. ASSUME NEW e \in Execs, TimeOut(e) PROVE Roles'
  BY <1>2 DEF TimeOut, Roles
<1>3. ASSUME NEW e \in Execs, Settle(e) PROVE Roles'
  BY <1>3, SettleEffect, Numbers DEF Roles, GoalPcs, LoopPcs, Went
<1>4. ASSUME NEW e \in Execs, Refuse(e) PROVE Roles'
  BY <1>4, EndingEffect DEF Refuse, Roles, GoalPcs, Went
<1>5. ASSUME NEW e \in Execs, Start(e) PROVE Roles'
  BY <1>5 DEF Start, Goto, Durable, Others, Roles, GoalPcs
<1>6. ASSUME NEW e \in Execs, Peek(e) PROVE Roles'
  BY <1>6 DEF IInv, TypeOK, Exec, Peek, At, Goto, Others, Roles, GoalPcs, LoopPcs
<1>7. ASSUME NEW e \in Execs, Load(e) PROVE Roles'
  BY <1>7 DEF IInv, TypeOK, Load, Resume, Others, Roles, GoalPcs, LoopPcs
<1>8. ASSUME NEW e \in Execs, Reclaim(e) PROVE Roles'
  BY <1>8 DEF Reclaim, Goto, Durable, Roles, GoalPcs, LoopPcs
<1>9. ASSUME NEW e \in Execs, Ask(e) PROVE Roles'
  BY <1>9 DEF IInv, TypeOK, Exec, Ask
<1>10. ASSUME NEW e \in Execs, LeaveLoop(e) PROVE Roles'
  BY <1>10, LeaveLoopEffect DEF Roles, GoalPcs, LoopPcs, Went, Others
<1>11. ASSUME NEW e \in Execs, PreCheckpoint(e) PROVE Roles'
  BY <1>11, GotoEffect, CheckpointEffect DEF PreCheckpoint, At, Others, Roles, GoalPcs, LoopPcs,
     Went
<1>12. ASSUME NEW e \in Execs, RunTool(e) PROVE Roles'
  BY <1>12 DEF IInv, TypeOK, Exec, RunTool, At, Goto, Roles, GoalPcs, LoopPcs
<1>13. ASSUME NEW e \in Execs, PostCheckpoint(e) PROVE Roles'
  BY <1>13, PostCheckpointEffect, CheckpointEffect, Numbers DEF Roles, GoalPcs, LoopPcs, Went,
     Others
<1>14. ASSUME NEW e \in Execs, FinalCheckpoint(e) PROVE Roles'
  BY <1>14, GotoEffect, CheckpointEffect DEF FinalCheckpoint, At, Others, Roles, GoalPcs,
     LoopPcs, Went
<1>15. ASSUME NEW e \in Execs, EndRun(e) PROVE Roles'
  BY <1>15, LeftEffect, CloseEffect DEF EndRun, At, Others, Roles, GoalPcs, LoopPcs, Went
<1>16. ASSUME NEW e \in Execs, CatchLoop(e) PROVE Roles'
  BY <1>16, LeftEffect, CloseEffect DEF CatchLoop, At, Others, Roles, GoalPcs, LoopPcs, Went
<1>17. ASSUME NEW e \in Execs, Finally(e) PROVE Roles'
  BY <1>17 DEF Finally, At, Goto, Others, Roles, GoalPcs, LoopPcs
<1>18. ASSUME NEW e \in Execs, ReleaseRun(e) PROVE Roles'
  BY <1>18 DEF ReleaseRun, At, Goto, Others, Roles, GoalPcs, LoopPcs
<1>19. ASSUME NEW e \in Execs, WorkerOutcome(e) PROVE Roles'
  BY <1>19, EndingEffect DEF WorkerOutcome, Outcome, Others, Roles, GoalPcs, Went
<1>20. ASSUME NEW e \in Execs, ChatOutcome(e) PROVE Roles'
  BY <1>20, EndingEffect DEF ChatOutcome, Outcome, Others, Roles, GoalPcs, Went
<1>21. ASSUME NEW e \in Execs, StartGoal(e) PROVE Roles'
  BY <1>21 DEF IInv, TypeOK, StartGoal, Others, Roles, LoopPcs
<1>22. ASSUME NEW e \in Execs, AbortGoal(e) PROVE Roles'
  BY <1>22, EndingEffect DEF AbortGoal, Others, Roles, GoalPcs, LoopPcs, Went
<1>23. ASSUME NEW e \in Execs, ExhaustGoal(e) PROVE Roles'
  BY <1>23, EndingEffect, GotoEffect, CloseEffect DEF ExhaustGoal, At, Others, Roles, GoalPcs,
     LoopPcs, Went
<1>24. ASSUME NEW e \in Execs, Turn(e) PROVE Roles'
  BY <1>24 DEF IInv, TypeOK, Exec, Turn, At, Goto, Others, Roles, GoalPcs, LoopPcs
<1>25. ASSUME NEW e \in Execs, BumpRead(e) PROVE Roles'
  BY <1>25 DEF IInv, TypeOK, BumpRead, At, Others, Roles, GoalPcs, LoopPcs
<1>26. ASSUME NEW e \in Execs, Bump(e) PROVE Roles'
  BY <1>26 DEF Bump, At, Goto, Others, Roles, GoalPcs, LoopPcs
<1>27. ASSUME NEW e \in Execs, Note(e) PROVE Roles'
  BY <1>27 DEF Note, At, Goto, Others, Roles, GoalPcs, LoopPcs
<1>28. ASSUME NEW e \in Execs, Verify(e) PROVE Roles'
  BY <1>28, GotoEffect, CloseEffect DEF Verify, At, Others, Roles, GoalPcs, LoopPcs, Went
<1>29. ASSUME NEW e \in Execs, Packet(e) PROVE Roles'
  BY <1>29, EndingEffect, GotoEffect DEF Packet, At, Others, Roles, GoalPcs, LoopPcs, Went
<1>30. ASSUME NEW e \in Execs, CatchGoal(e) PROVE Roles'
  BY <1>30, EndingEffect, CloseEffect DEF CatchGoal, Others, Roles, GoalPcs, LoopPcs, Went
<1>31. CASE Lapse
  BY <1>31 DEF Lapse, Roles
<1>32. CASE Cancel
  BY <1>32 DEF Cancel, Roles
<1>33. CASE ListRuns
  BY <1>33 DEF ListRuns, Roles
<1>34. CASE StopRuns
  BY <1>34 DEF StopRuns, Roles
<1>35. CASE Restart
  BY <1>35, RestartEffect, Numbers DEF Roles, GoalPcs, LoopPcs
<1>36. ASSUME NEW e \in Execs, Synthesise(e) PROVE Roles'
  BY <1>36, SynthesiseEffect DEF Roles, GoalPcs, LoopPcs, Went
<1> QED
  BY <1>1, <1>2, <1>3, <1>4, <1>5, <1>6, <1>7, <1>8, <1>9, <1>10, <1>11, <1>12, <1>13, <1>14,
     <1>15, <1>16, <1>17, <1>18, <1>19, <1>20, <1>21, <1>22, <1>23, <1>24, <1>25, <1>26, <1>27,
     <1>28, <1>29, <1>30, <1>31, <1>32, <1>33, <1>34, <1>35, <1>36
  DEF Next, LoopStep, GoalStep

\* Only a lapse lets a second execution in.
LEMMA SoloNext ==
  ASSUME IInv, Solo, Next
  PROVE  Solo'
<1>1. ASSUME NEW e \in Execs, Claim(e) PROVE Solo'
  BY <1>1 DEF Claim, Goto, bounds, Solo, Live
<1>2. ASSUME NEW e \in Execs, TimeOut(e) PROVE Solo'
  BY <1>2 DEF TimeOut, Live, bounds, Solo
<1>3. ASSUME NEW e \in Execs, Settle(e) PROVE Solo'
  BY <1>3, SettleEffect, Numbers DEF bounds, Solo, Live, Went
<1>4. ASSUME NEW e \in Execs, Refuse(e) PROVE Solo'
  BY <1>4, EndingEffect DEF Refuse, At, Solo, Live, Went
<1>5. ASSUME NEW e \in Execs, Start(e) PROVE Solo'
  BY <1>5 DEF Start, At, Goto, Others, Solo, Live
<1>6. ASSUME NEW e \in Execs, Peek(e) PROVE Solo'
  BY <1>6 DEF IInv, TypeOK, Peek, At, Goto, Others, Solo, Live
<1>7. ASSUME NEW e \in Execs, Load(e) PROVE Solo'
  BY <1>7 DEF IInv, TypeOK, Load, At, Resume, Others, Solo, Live
<1>8. ASSUME NEW e \in Execs, Reclaim(e) PROVE Solo'
  BY <1>8 DEF Reclaim, At, Goto, Solo, Live
<1>9. ASSUME NEW e \in Execs, Ask(e) PROVE Solo'
  BY <1>9 DEF IInv, TypeOK, Exec, Ask
<1>10. ASSUME NEW e \in Execs, LeaveLoop(e) PROVE Solo'
  BY <1>10, LeaveLoopEffect DEF Solo, Live, Went, Others
<1>11. ASSUME NEW e \in Execs, PreCheckpoint(e) PROVE Solo'
  BY <1>11, GotoEffect, CheckpointEffect DEF PreCheckpoint, At, Others, Solo, Live, Went
<1>12. ASSUME NEW e \in Execs, RunTool(e) PROVE Solo'
  BY <1>12 DEF IInv, TypeOK, RunTool, At, Goto, bounds, Solo, Live
<1>13. ASSUME NEW e \in Execs, PostCheckpoint(e) PROVE Solo'
  BY <1>13, PostCheckpointEffect, CheckpointEffect, Numbers DEF Solo, Live, Went, Others
<1>14. ASSUME NEW e \in Execs, FinalCheckpoint(e) PROVE Solo'
  BY <1>14, GotoEffect, CheckpointEffect DEF FinalCheckpoint, At, Others, Solo, Live, Went
<1>15. ASSUME NEW e \in Execs, EndRun(e) PROVE Solo'
  BY <1>15, LeftEffect, CloseEffect DEF EndRun, At, Others, Solo, Live, Went
<1>16. ASSUME NEW e \in Execs, CatchLoop(e) PROVE Solo'
  BY <1>16, LeftEffect, CloseEffect DEF CatchLoop, At, Others, Solo, Live, Went
<1>17. ASSUME NEW e \in Execs, Finally(e) PROVE Solo'
  BY <1>17 DEF Finally, At, Goto, Others, Solo, Live
<1>18. ASSUME NEW e \in Execs, ReleaseRun(e) PROVE Solo'
  BY <1>18 DEF ReleaseRun, At, Goto, Others, Solo, Live
<1>19. ASSUME NEW e \in Execs, WorkerOutcome(e) PROVE Solo'
  BY <1>19, EndingEffect DEF WorkerOutcome, Outcome, At, Others, Solo, Live, Went
<1>20. ASSUME NEW e \in Execs, ChatOutcome(e) PROVE Solo'
  BY <1>20, EndingEffect DEF ChatOutcome, Outcome, At, Others, Solo, Live, Went
<1>21. ASSUME NEW e \in Execs, StartGoal(e) PROVE Solo'
  BY <1>21 DEF IInv, TypeOK, StartGoal, At, Others, Solo, Live
<1>22. ASSUME NEW e \in Execs, AbortGoal(e) PROVE Solo'
  BY <1>22, EndingEffect DEF AbortGoal, At, Others, Solo, Live, Went
<1>23. ASSUME NEW e \in Execs, ExhaustGoal(e) PROVE Solo'
  BY <1>23, EndingEffect, GotoEffect, CloseEffect DEF ExhaustGoal, At, Others, Solo, Live, Went
<1>24. ASSUME NEW e \in Execs, Turn(e) PROVE Solo'
  BY <1>24 DEF IInv, TypeOK, Turn, At, Goto, Others, Solo, Live
<1>25. ASSUME NEW e \in Execs, BumpRead(e) PROVE Solo'
  BY <1>25 DEF IInv, TypeOK, BumpRead, At, Others, Solo, Live
<1>26. ASSUME NEW e \in Execs, Bump(e) PROVE Solo'
  BY <1>26 DEF Bump, At, Goto, Others, Solo, Live
<1>27. ASSUME NEW e \in Execs, Note(e) PROVE Solo'
  BY <1>27 DEF Note, At, Goto, Others, Solo, Live
<1>28. ASSUME NEW e \in Execs, Verify(e) PROVE Solo'
  BY <1>28, GotoEffect, CloseEffect DEF Verify, At, Others, Solo, Live, Went
<1>29. ASSUME NEW e \in Execs, Packet(e) PROVE Solo'
  BY <1>29, EndingEffect, GotoEffect DEF Packet, At, Others, Solo, Live, Went
<1>30. ASSUME NEW e \in Execs, CatchGoal(e) PROVE Solo'
  BY <1>30, EndingEffect, CloseEffect DEF CatchGoal, At, Others, Solo, Live, Went
<1>31. CASE Lapse
  BY <1>31 DEF IInv, TypeOK, Lapse, Solo
<1>32. CASE Cancel
  BY <1>32 DEF Cancel, Live, bounds, Solo
<1>33. CASE ListRuns
  BY <1>33 DEF ListRuns, bounds, Solo, Live
<1>34. CASE StopRuns
  BY <1>34 DEF StopRuns, bounds, Solo, Live
<1>35. CASE Restart
  BY <1>35, RestartEffect, Numbers DEF Solo, Live
<1>36. ASSUME NEW e \in Execs, Synthesise(e) PROVE Solo'
  BY <1>36, SynthesiseEffect DEF Solo, Live, Went
<1> QED
  BY <1>1, <1>2, <1>3, <1>4, <1>5, <1>6, <1>7, <1>8, <1>9, <1>10, <1>11, <1>12, <1>13, <1>14,
     <1>15, <1>16, <1>17, <1>18, <1>19, <1>20, <1>21, <1>22, <1>23, <1>24, <1>25, <1>26, <1>27,
     <1>28, <1>29, <1>30, <1>31, <1>32, <1>33, <1>34, <1>35, <1>36
  DEF Next, LoopStep, GoalStep

\* Every write of the checkpoint stores a whole one.
LEMMA BlankNext ==
  ASSUME IInv, Blank, Next
  PROVE  Blank'
<1>1. ASSUME NEW e \in Execs, Claim(e) PROVE Blank'
  BY <1>1 DEF Claim, Blank
<1>2. ASSUME NEW e \in Execs, TimeOut(e) PROVE Blank'
  BY <1>2 DEF TimeOut, Blank
<1>3. ASSUME NEW e \in Execs, Settle(e) PROVE Blank'
  BY <1>3, SettleEffect, Numbers DEF Blank
<1>4. ASSUME NEW e \in Execs, Refuse(e) PROVE Blank'
  BY <1>4, EndingEffect DEF Refuse, Writes, Blank
<1>5. ASSUME NEW e \in Execs, Start(e) PROVE Blank'
  BY <1>5 DEF Start, Blank
<1>6. ASSUME NEW e \in Execs, Peek(e) PROVE Blank'
  BY <1>6 DEF Peek, Writes, Blank
<1>7. ASSUME NEW e \in Execs, Load(e) PROVE Blank'
  BY <1>7 DEF Load, Writes, Blank
<1>8. ASSUME NEW e \in Execs, Reclaim(e) PROVE Blank'
  BY <1>8 DEF IInv, TypeOK, Run, Reclaim, Put, Lost, Blank
<1>9. ASSUME NEW e \in Execs, Ask(e) PROVE Blank'
  BY <1>9 DEF IInv, TypeOK, Exec, Ask
<1>10. ASSUME NEW e \in Execs, LeaveLoop(e) PROVE Blank'
  BY <1>10, LeaveLoopEffect DEF Blank, Writes
<1>11. ASSUME NEW e \in Execs, PreCheckpoint(e) PROVE Blank'
  BY <1>11, GotoEffect, CheckpointEffect DEF IInv, TypeOK, Exec, PreCheckpoint, Blank
<1>12. ASSUME NEW e \in Execs, RunTool(e) PROVE Blank'
  BY <1>12 DEF RunTool, Blank
<1>13. ASSUME NEW e \in Execs, PostCheckpoint(e) PROVE Blank'
  BY <1>13, PostCheckpointEffect, CheckpointEffect, Numbers DEF Blank, Writes
<1>14. ASSUME NEW e \in Execs, FinalCheckpoint(e) PROVE Blank'
  BY <1>14, GotoEffect, CheckpointEffect DEF FinalCheckpoint, Blank
<1>15. ASSUME NEW e \in Execs, EndRun(e) PROVE Blank'
  BY <1>15, LeftEffect, CloseEffect DEF IInv, TypeOK, Run, EndRun, CloseAs, Interrupted, Put,
     Lost, Blank, NoState
<1>16. ASSUME NEW e \in Execs, CatchLoop(e) PROVE Blank'
  BY <1>16, LeftEffect, CloseEffect DEF IInv, TypeOK, Run, CatchLoop, CloseAs, Interrupted, Put,
     Lost, Blank, NoState
<1>17. ASSUME NEW e \in Execs, Finally(e) PROVE Blank'
  BY <1>17 DEF Finally, Writes, Blank
<1>18. ASSUME NEW e \in Execs, ReleaseRun(e) PROVE Blank'
  BY <1>18 DEF IInv, TypeOK, Run, ReleaseRun, Interrupted, Put, Lost, Blank
<1>19. ASSUME NEW e \in Execs, WorkerOutcome(e) PROVE Blank'
  BY <1>19, EndingEffect DEF WorkerOutcome, Outcome, Blank
<1>20. ASSUME NEW e \in Execs, ChatOutcome(e) PROVE Blank'
  BY <1>20, EndingEffect DEF ChatOutcome, Outcome, Blank
<1>21. ASSUME NEW e \in Execs, StartGoal(e) PROVE Blank'
  BY <1>21 DEF StartGoal, Writes, Blank
<1>22. ASSUME NEW e \in Execs, AbortGoal(e) PROVE Blank'
  BY <1>22, EndingEffect DEF IInv, TypeOK, Run, AbortGoal, Interrupted, Put, Lost, Blank
<1>23. ASSUME NEW e \in Execs, ExhaustGoal(e) PROVE Blank'
  BY <1>23, EndingEffect, GotoEffect, CloseEffect DEF ExhaustGoal, Lost, Blank, NoState
<1>24. ASSUME NEW e \in Execs, Turn(e) PROVE Blank'
  BY <1>24 DEF Turn, Blank
<1>25. ASSUME NEW e \in Execs, BumpRead(e) PROVE Blank'
  BY <1>25 DEF BumpRead, Writes, Blank
<1>26. ASSUME NEW e \in Execs, Bump(e) PROVE Blank'
  BY <1>26 DEF IInv, TypeOK, Run, Bump, Put, Lost, Blank
<1>27. ASSUME NEW e \in Execs, Note(e) PROVE Blank'
  BY <1>27 DEF IInv, TypeOK, Run, Note, Put, Lost, Blank
<1>28. ASSUME NEW e \in Execs, Verify(e) PROVE Blank'
  BY <1>28, GotoEffect, CloseEffect DEF Verify, Writes, Lost, Blank, NoState
<1>29. ASSUME NEW e \in Execs, Packet(e) PROVE Blank'
  BY <1>29, EndingEffect, GotoEffect DEF Packet, Writes, Lost, Blank
<1>30. ASSUME NEW e \in Execs, CatchGoal(e) PROVE Blank'
  BY <1>30, EndingEffect, CloseEffect DEF CatchGoal, Lost, Blank, NoState
<1>31. CASE Lapse
  BY <1>31 DEF Lapse, Blank
<1>32. CASE Cancel
  BY <1>32 DEF Cancel, Blank
<1>33. CASE ListRuns
  BY <1>33 DEF ListRuns, Blank
<1>34. CASE StopRuns
  BY <1>34 DEF StopRuns, Interrupted, Blank
<1>35. CASE Restart
  BY <1>35, RestartEffect, Numbers DEF Blank
<1>36. ASSUME NEW e \in Execs, Synthesise(e) PROVE Blank'
  BY <1>36, SynthesiseEffect DEF Blank
<1> QED
  BY <1>1, <1>2, <1>3, <1>4, <1>5, <1>6, <1>7, <1>8, <1>9, <1>10, <1>11, <1>12, <1>13, <1>14,
     <1>15, <1>16, <1>17, <1>18, <1>19, <1>20, <1>21, <1>22, <1>23, <1>24, <1>25, <1>26, <1>27,
     <1>28, <1>29, <1>30, <1>31, <1>32, <1>33, <1>34, <1>35, <1>36
  DEF Next, LoopStep, GoalStep

LEMMA SettleRunHeld ==
  ASSUME IInv, Roles, RunHeld, NEW e \in Execs, Settle(e)
  PROVE  RunHeld'
<1>1. exec[e].pc \notin Holding \union {"finally"}
  BY SettleEffect DEF Holding
<1> QED BY <1>1, SettleEffect, StillHeld DEF Went, history, bounds

LEMMA WorkerOutcomeRunHeld ==
  ASSUME IInv, Roles, RunHeld, NEW e \in Execs, WorkerOutcome(e)
  PROVE  RunHeld'
<1>1. exec[e].pc \notin Holding \union {"finally"}
  BY DEF WorkerOutcome, Outcome, At, Holding
<1>2. PICK r : Ending(e, r)
  BY DEF WorkerOutcome, Outcome
<1>3. faults' \in {faults, faults + 1} /\ UNCHANGED <<run, begun>>
  BY DEF WorkerOutcome, Outcome, TaskBecomes, Fault, Others
<1> QED BY <1>1, <1>2, <1>3, EndingEffect, Numbers, StillHeld DEF Went

\* Whoever closes the run or lets it go writes its status first.
LEMMA RunHeldNext ==
  ASSUME IInv, Roles, RunHeld, Next
  PROVE  RunHeld'
<1>1. ASSUME NEW e \in Execs, Claim(e) PROVE RunHeld'
  BY <1>1 DEF Claim, At, Goto, history, bounds, RunHeld, Holding
<1>2. ASSUME NEW e \in Execs, TimeOut(e) PROVE RunHeld'
  BY <1>2 DEF TimeOut, history, bounds, RunHeld
<1>3. ASSUME NEW e \in Execs, Settle(e) PROVE RunHeld'
  BY <1>3, SettleRunHeld
<1>4. ASSUME NEW e \in Execs, Refuse(e) PROVE RunHeld'
  BY <1>4, EndingEffect DEF Refuse, RunHeld
<1>5. ASSUME NEW e \in Execs, Start(e) PROVE RunHeld'
  BY <1>5 DEF IInv, TypeOK, Start, At, Goto, TaskBecomes, Fault, Others, RunHeld, Holding
<1>6. ASSUME NEW e \in Execs, Peek(e) PROVE RunHeld'
  BY <1>6 DEF IInv, TypeOK, Peek, At, Goto, Writes, Others, RunHeld, Holding
<1>7. ASSUME NEW e \in Execs, Load(e) PROVE RunHeld'
  BY <1>7 DEF IInv, TypeOK, Load, At, Resume, Writes, Others, RunHeld, Holding
<1>8. ASSUME NEW e \in Execs, Reclaim(e) PROVE RunHeld'
  BY <1>8 DEF IInv, TypeOK, Reclaim, Goto, RunHeld, Holding
<1>9. ASSUME NEW e \in Execs, Ask(e) PROVE RunHeld'
  BY <1>9 DEF IInv, TypeOK, Exec, Ask
<1>10. ASSUME NEW e \in Execs, LeaveLoop(e) PROVE RunHeld'
  BY <1>10, LeaveLoopEffect DEF RunHeld, Holding, Went, Writes, Others
<1>11. ASSUME NEW e \in Execs, PreCheckpoint(e) PROVE RunHeld'
  BY <1>11, GotoEffect, CheckpointEffect DEF PreCheckpoint, RunHeld, Holding, Went
<1>12. ASSUME NEW e \in Execs, RunTool(e) PROVE RunHeld'
  BY <1>12 DEF IInv, TypeOK, Exec, RunTool, Goto, RunHeld, Holding
<1>13. ASSUME NEW e \in Execs, PostCheckpoint(e) PROVE RunHeld'
  BY <1>13, PostCheckpointEffect, CheckpointEffect, Numbers DEF RunHeld, Holding, Went, Writes,
     Others
<1>14. ASSUME NEW e \in Execs, FinalCheckpoint(e) PROVE RunHeld'
  BY <1>14, GotoEffect, CheckpointEffect DEF FinalCheckpoint, RunHeld, Holding, Went
<1>15. ASSUME NEW e \in Execs, EndRun(e) PROVE RunHeld'
  BY <1>15, LeftEffect, CloseEffect DEF IInv, TypeOK, Run, EndRun, CloseAs, Interrupted, Put,
     Lost, Fault, RunHeld
<1>16. ASSUME NEW e \in Execs, CatchLoop(e) PROVE RunHeld'
  BY <1>16, LeftEffect, CloseEffect DEF IInv, TypeOK, Run, CatchLoop, CloseAs, Interrupted, Put,
     Lost, Fault, RunHeld
<1>17. ASSUME NEW e \in Execs, Finally(e) PROVE RunHeld'
  BY <1>17 DEF IInv, TypeOK, Finally, Goto, Loose, Writes, RunHeld, Holding
<1>18. ASSUME NEW e \in Execs, ReleaseRun(e) PROVE RunHeld'
  BY <1>18 DEF IInv, TypeOK, Run, ReleaseRun, Interrupted, Put, Lost, Fault, RunHeld
<1>19. ASSUME NEW e \in Execs, WorkerOutcome(e) PROVE RunHeld'
  BY <1>19, WorkerOutcomeRunHeld
<1>20. ASSUME NEW e \in Execs, ChatOutcome(e) PROVE RunHeld'
  BY <1>20, EndingEffect DEF ChatOutcome, Outcome, At, TaskBecomes, Others, RunHeld, Holding,
     Went
<1>21. ASSUME NEW e \in Execs, StartGoal(e) PROVE RunHeld'
  BY <1>21 DEF IInv, TypeOK, StartGoal, At, Writes, Others, RunHeld, Holding
<1>22. ASSUME NEW e \in Execs, AbortGoal(e) PROVE RunHeld'
  BY <1>22, EndingEffect DEF IInv, TypeOK, Run, AbortGoal, Interrupted, Put, Lost, Fault,
     RunHeld
<1>23. ASSUME NEW e \in Execs, ExhaustGoal(e) PROVE RunHeld'
  BY <1>23, EndingEffect, GotoEffect, CloseEffect DEF IInv, TypeOK, ExhaustGoal, Lost, Fault,
     RunHeld
<1>24. ASSUME NEW e \in Execs, Turn(e) PROVE RunHeld'
  BY <1>24 DEF IInv, TypeOK, Exec, Turn, Goto, RunHeld, Holding
<1>25. ASSUME NEW e \in Execs, BumpRead(e) PROVE RunHeld'
  BY <1>25 DEF IInv, TypeOK, BumpRead, RunHeld, Holding
<1>26. ASSUME NEW e \in Execs, Bump(e) PROVE RunHeld'
  BY <1>26 DEF IInv, TypeOK, Bump, Goto, RunHeld, Holding
<1>27. ASSUME NEW e \in Execs, Note(e) PROVE RunHeld'
  BY <1>27 DEF IInv, TypeOK, Note, Goto, RunHeld, Holding
<1>28. ASSUME NEW e \in Execs, Verify(e) PROVE RunHeld'
  BY <1>28, GotoEffect, CloseEffect DEF Verify, RunHeld, Holding, Went
<1>29. ASSUME NEW e \in Execs, Packet(e) PROVE RunHeld'
  BY <1>29, EndingEffect, GotoEffect DEF Packet, At, Writes, Others, RunHeld, Holding, Went
<1>30. ASSUME NEW e \in Execs, CatchGoal(e) PROVE RunHeld'
  BY <1>30, EndingEffect, CloseEffect DEF IInv, TypeOK, CatchGoal, Lost, Fault, RunHeld
<1>31. CASE Lapse
  BY <1>31 DEF Lapse, history, RunHeld
<1>32. CASE Cancel
  BY <1>32 DEF Cancel, history, bounds, RunHeld
<1>33. CASE ListRuns
  BY <1>33 DEF ListRuns, history, bounds, RunHeld
<1>34. CASE StopRuns
  BY <1>34 DEF StopRuns, Interrupted, RunHeld
<1>35. CASE Restart
  BY <1>35, RestartEffect, Numbers DEF RunHeld
<1>36. ASSUME NEW e \in Execs, Synthesise(e) PROVE RunHeld'
  BY <1>36, SynthesiseEffect DEF RunHeld, Holding, Went
<1> QED
  BY <1>1, <1>2, <1>3, <1>4, <1>5, <1>6, <1>7, <1>8, <1>9, <1>10, <1>11, <1>12, <1>13, <1>14,
     <1>15, <1>16, <1>17, <1>18, <1>19, <1>20, <1>21, <1>22, <1>23, <1>24, <1>25, <1>26, <1>27,
     <1>28, <1>29, <1>30, <1>31, <1>32, <1>33, <1>34, <1>35, <1>36
  DEF Next, LoopStep, GoalStep

\* A task in progress leaves the hands of an execution with a new status.
LEMMA TaskHeldNext ==
  ASSUME IInv, Roles, TaskHeld, Next
  PROVE  TaskHeld'
<1>1. ASSUME NEW e \in Execs, Claim(e) PROVE TaskHeld'
  BY <1>1 DEF IInv, TypeOK, Claim, Goto, TaskHeld, Live
<1>2. ASSUME NEW e \in Execs, TimeOut(e) PROVE TaskHeld'
  BY <1>2 DEF TimeOut, Live, history, bounds, TaskHeld
<1>3. ASSUME NEW e \in Execs, Settle(e) PROVE TaskHeld'
  BY <1>3 DEF Settle, At, Settled, history, bounds, TaskHeld, Live
<1>4. ASSUME NEW e \in Execs, Refuse(e) PROVE TaskHeld'
  BY <1>4, EndingEffect DEF Refuse, TaskHeld
<1>5. ASSUME NEW e \in Execs, Start(e) PROVE TaskHeld'
  BY <1>5 DEF IInv, TypeOK, Start, Goto, TaskBecomes, Others, TaskHeld, Live
<1>6. ASSUME NEW e \in Execs, Peek(e) PROVE TaskHeld'
  BY <1>6 DEF IInv, TypeOK, Exec, Peek, Goto, Others, TaskHeld, Live
<1>7. ASSUME NEW e \in Execs, Load(e) PROVE TaskHeld'
  BY <1>7 DEF IInv, TypeOK, Load, Resume, Others, TaskHeld, Live
<1>8. ASSUME NEW e \in Execs, Reclaim(e) PROVE TaskHeld'
  BY <1>8 DEF IInv, TypeOK, Reclaim, Goto, TaskHeld, Live
<1>9. ASSUME NEW e \in Execs, Ask(e) PROVE TaskHeld'
  BY <1>9 DEF IInv, TypeOK, Exec, Ask
<1>10. ASSUME NEW e \in Execs, LeaveLoop(e) PROVE TaskHeld'
  BY <1>10, LeaveLoopEffect DEF TaskHeld, Live, Went, Others
<1>11. ASSUME NEW e \in Execs, PreCheckpoint(e) PROVE TaskHeld'
  BY <1>11, GotoEffect, CheckpointEffect DEF PreCheckpoint, Others, TaskHeld, Live, Went
<1>12. ASSUME NEW e \in Execs, RunTool(e) PROVE TaskHeld'
  BY <1>12 DEF IInv, TypeOK, Exec, RunTool, Goto, TaskHeld, Live
<1>13. ASSUME NEW e \in Execs, PostCheckpoint(e) PROVE TaskHeld'
  BY <1>13, PostCheckpointEffect, CheckpointEffect, Numbers DEF TaskHeld, Live, Went, Others
<1>14. ASSUME NEW e \in Execs, FinalCheckpoint(e) PROVE TaskHeld'
  BY <1>14, GotoEffect, CheckpointEffect DEF FinalCheckpoint, Others, TaskHeld, Live, Went
<1>15. ASSUME NEW e \in Execs, EndRun(e) PROVE TaskHeld'
  BY <1>15, LeftEffect, CloseEffect DEF EndRun, Others, TaskHeld, Live, Went
<1>16. ASSUME NEW e \in Execs, CatchLoop(e) PROVE TaskHeld'
  BY <1>16, LeftEffect, CloseEffect DEF CatchLoop, Others, TaskHeld, Live, Went
<1>17. ASSUME NEW e \in Execs, Finally(e) PROVE TaskHeld'
  BY <1>17 DEF IInv, TypeOK, Finally, Goto, Others, TaskHeld, Live
<1>18. ASSUME NEW e \in Execs, ReleaseRun(e) PROVE TaskHeld'
  BY <1>18 DEF IInv, TypeOK, ReleaseRun, Goto, Others, TaskHeld, Live
<1>19. ASSUME NEW e \in Execs, WorkerOutcome(e) PROVE TaskHeld'
  BY <1>19, EndingEffect DEF IInv, TypeOK, Task, WorkerOutcome, Outcome, TaskBecomes, Fault,
     Others, TaskHeld
<1>20. ASSUME NEW e \in Execs, ChatOutcome(e) PROVE TaskHeld'
  BY <1>20, EndingEffect DEF ChatOutcome, Outcome, TaskBecomes, TaskHeld
<1>21. ASSUME NEW e \in Execs, StartGoal(e) PROVE TaskHeld'
  BY <1>21 DEF StartGoal, TaskHeld
<1>22. ASSUME NEW e \in Execs, AbortGoal(e) PROVE TaskHeld'
  BY <1>22, EndingEffect DEF AbortGoal, At, TaskHeld, Roles, GoalPcs
<1>23. ASSUME NEW e \in Execs, ExhaustGoal(e) PROVE TaskHeld'
  BY <1>23, EndingEffect, GotoEffect, CloseEffect DEF ExhaustGoal, At, TaskHeld, Roles, GoalPcs
<1>24. ASSUME NEW e \in Execs, Turn(e) PROVE TaskHeld'
  BY <1>24 DEF IInv, TypeOK, Exec, Turn, Goto, Others, TaskHeld, Live
<1>25. ASSUME NEW e \in Execs, BumpRead(e) PROVE TaskHeld'
  BY <1>25 DEF IInv, TypeOK, BumpRead, Others, TaskHeld, Live
<1>26. ASSUME NEW e \in Execs, Bump(e) PROVE TaskHeld'
  BY <1>26 DEF IInv, TypeOK, Bump, Goto, Others, TaskHeld, Live
<1>27. ASSUME NEW e \in Execs, Note(e) PROVE TaskHeld'
  BY <1>27 DEF IInv, TypeOK, Note, Goto, Others, TaskHeld, Live
<1>28. ASSUME NEW e \in Execs, Verify(e) PROVE TaskHeld'
  BY <1>28, GotoEffect, CloseEffect DEF Verify, Others, TaskHeld, Live, Went
<1>29. ASSUME NEW e \in Execs, Packet(e) PROVE TaskHeld'
  BY <1>29, EndingEffect, GotoEffect DEF Packet, At, TaskHeld, Roles, GoalPcs
<1>30. ASSUME NEW e \in Execs, CatchGoal(e) PROVE TaskHeld'
  BY <1>30, EndingEffect, CloseEffect DEF CatchGoal, At, TaskHeld, Roles, GoalPcs
<1>31. CASE Lapse
  BY <1>31 DEF Lapse, Live, history, TaskHeld
<1>32. CASE Cancel
  BY <1>32 DEF Cancel, TaskHeld
<1>33. CASE ListRuns
  BY <1>33 DEF ListRuns, history, bounds, TaskHeld, Live
<1>34. CASE StopRuns
  BY <1>34 DEF StopRuns, history, bounds, TaskHeld, Live
<1>35. CASE Restart
  BY <1>35 DEF Restart, Reclaimed, Requeued, TaskHeld
<1>36. ASSUME NEW e \in Execs, Synthesise(e) PROVE TaskHeld'
  BY <1>36, SynthesiseEffect DEF TaskHeld, Live, Went
<1> QED
  BY <1>1, <1>2, <1>3, <1>4, <1>5, <1>6, <1>7, <1>8, <1>9, <1>10, <1>11, <1>12, <1>13, <1>14,
     <1>15, <1>16, <1>17, <1>18, <1>19, <1>20, <1>21, <1>22, <1>23, <1>24, <1>25, <1>26, <1>27,
     <1>28, <1>29, <1>30, <1>31, <1>32, <1>33, <1>34, <1>35, <1>36
  DEF Next, LoopStep, GoalStep

\* Nobody but its own execution completes a run, and as the last thing it does.
LEMMA StillOpenNext ==
  ASSUME IInv, Solo, Roles, StillOpen, Next
  PROVE  StillOpen'
<1>1. ASSUME NEW e \in Execs, Claim(e) PROVE StillOpen'
  BY <1>1 DEF Claim, Goto, bounds, StillOpen, Holding
<1>2. ASSUME NEW e \in Execs, TimeOut(e) PROVE StillOpen'
  BY <1>2 DEF TimeOut, bounds, StillOpen
<1>3. ASSUME NEW e \in Execs, Settle(e) PROVE StillOpen'
  BY <1>3, SettleEffect, Numbers DEF bounds, StillOpen, Holding, Went
<1>4. ASSUME NEW e \in Execs, Refuse(e) PROVE StillOpen'
  BY <1>4, EndingEffect DEF Refuse, Writes, StillOpen, Holding, Went
<1>5. ASSUME NEW e \in Execs, Start(e) PROVE StillOpen'
  BY <1>5 DEF IInv, TypeOK, Start, Goto, TaskBecomes, Fault, Others, StillOpen, Holding
<1>6. ASSUME NEW e \in Execs, Peek(e) PROVE StillOpen'
  BY <1>6 DEF IInv, TypeOK, Exec, Peek, Goto, Writes, Others, StillOpen, Holding
<1>7. ASSUME NEW e \in Execs, Load(e) PROVE StillOpen'
  BY <1>7 DEF IInv, TypeOK, Load, Resume, Writes, Others, StillOpen, Holding
<1>8. ASSUME NEW e \in Execs, Reclaim(e) PROVE StillOpen'
  BY <1>8 DEF IInv, TypeOK, Run, Reclaim, Put, Lost, Fault, StillOpen
<1>9. ASSUME NEW e \in Execs, Ask(e) PROVE StillOpen'
  BY <1>9 DEF IInv, TypeOK, Exec, Ask
<1>10. ASSUME NEW e \in Execs, LeaveLoop(e) PROVE StillOpen'
  BY <1>10, LeaveLoopEffect DEF StillOpen, Holding, Went, Writes, Others
<1>11. ASSUME NEW e \in Execs, PreCheckpoint(e) PROVE StillOpen'
  BY <1>11, GotoEffect, CheckpointEffect DEF IInv, TypeOK, Exec, PreCheckpoint, At, Others,
     StillOpen, Holding
<1>12. ASSUME NEW e \in Execs, RunTool(e) PROVE StillOpen'
  BY <1>12 DEF RunTool, At, bounds, StillOpen, Holding
<1>13. ASSUME NEW e \in Execs, PostCheckpoint(e) PROVE StillOpen'
  BY <1>13, PostCheckpointEffect, CheckpointEffect, Numbers DEF StillOpen, Holding, Went,
     Writes, Others
<1>14. ASSUME NEW e \in Execs, FinalCheckpoint(e) PROVE StillOpen'
  BY <1>14, GotoEffect, CheckpointEffect DEF IInv, TypeOK, FinalCheckpoint, At, Others,
     StillOpen, Holding
<1>15. ASSUME NEW e \in Execs, EndRun(e) PROVE StillOpen'
  BY <1>15, LeftEffect, CloseEffect DEF EndRun, At, Others, StillOpen, Holding, Solo, Live, Went
<1>16. ASSUME NEW e \in Execs, CatchLoop(e) PROVE StillOpen'
  BY <1>16, LeftEffect, CloseEffect DEF IInv, TypeOK, Run, CatchLoop, CloseAs, Interrupted, Put,
     Lost, Fault, StillOpen
<1>17. ASSUME NEW e \in Execs, Finally(e) PROVE StillOpen'
  BY <1>17 DEF Finally, Goto, Loose, Writes, Others, StillOpen, Holding
<1>18. ASSUME NEW e \in Execs, ReleaseRun(e) PROVE StillOpen'
  BY <1>18 DEF IInv, TypeOK, Run, ReleaseRun, Interrupted, Put, Lost, Fault, StillOpen
<1>19. ASSUME NEW e \in Execs, WorkerOutcome(e) PROVE StillOpen'
  BY <1>19, EndingEffect DEF IInv, TypeOK, WorkerOutcome, Outcome, TaskBecomes, Fault, Others,
     StillOpen, Holding, Went
<1>20. ASSUME NEW e \in Execs, ChatOutcome(e) PROVE StillOpen'
  BY <1>20, EndingEffect DEF ChatOutcome, Outcome, TaskBecomes, Others, StillOpen, Holding, Went
<1>21. ASSUME NEW e \in Execs, StartGoal(e) PROVE StillOpen'
  BY <1>21 DEF IInv, TypeOK, StartGoal, Writes, Others, StillOpen, Holding
<1>22. ASSUME NEW e \in Execs, AbortGoal(e) PROVE StillOpen'
  BY <1>22, EndingEffect DEF IInv, TypeOK, Run, AbortGoal, Interrupted, Put, Lost, Fault,
     StillOpen
<1>23. ASSUME NEW e \in Execs, ExhaustGoal(e) PROVE StillOpen'
  BY <1>23, EndingEffect, GotoEffect, CloseEffect DEF IInv, TypeOK, ExhaustGoal, Lost, Fault,
     StillOpen
<1>24. ASSUME NEW e \in Execs, Turn(e) PROVE StillOpen'
  BY <1>24 DEF Turn, At, Others, StillOpen, Holding
<1>25. ASSUME NEW e \in Execs, BumpRead(e) PROVE StillOpen'
  BY <1>25 DEF BumpRead, At, Writes, Others, StillOpen, Holding
<1>26. ASSUME NEW e \in Execs, Bump(e) PROVE StillOpen'
  BY <1>26 DEF IInv, TypeOK, Run, Bump, At, Put, Lost, Fault, Others, StillOpen, Holding
<1>27. ASSUME NEW e \in Execs, Note(e) PROVE StillOpen'
  BY <1>27 DEF IInv, TypeOK, Run, Note, At, Put, Lost, Fault, Others, StillOpen, Holding
<1>28. ASSUME NEW e \in Execs, Verify(e) PROVE StillOpen'
  BY <1>28, GotoEffect, CloseEffect DEF IInv, TypeOK, Verify, At, Writes, Lost, Fault, Others,
     StillOpen, Holding, Solo, Live, Went
<1>29. ASSUME NEW e \in Execs, Packet(e) PROVE StillOpen'
  BY <1>29, EndingEffect, GotoEffect DEF IInv, TypeOK, Packet, Writes, Lost, Fault, Others,
     StillOpen, Holding, Went
<1>30. ASSUME NEW e \in Execs, CatchGoal(e) PROVE StillOpen'
  BY <1>30, EndingEffect, CloseEffect DEF IInv, TypeOK, CatchGoal, Lost, Fault, StillOpen
<1>31. CASE Lapse
  BY <1>31 DEF IInv, TypeOK, Lapse, StillOpen
<1>32. CASE Cancel
  BY <1>32 DEF Cancel, bounds, StillOpen
<1>33. CASE ListRuns
  BY <1>33 DEF ListRuns, StillOpen
<1>34. CASE StopRuns
  BY <1>34 DEF StopRuns, Interrupted, StillOpen
<1>35. CASE Restart
  BY <1>35, RestartEffect, Numbers DEF StillOpen, Holding
<1>36. ASSUME NEW e \in Execs, Synthesise(e) PROVE StillOpen'
  BY <1>36, SynthesiseEffect DEF StillOpen, Holding, Went
<1> QED
  BY <1>1, <1>2, <1>3, <1>4, <1>5, <1>6, <1>7, <1>8, <1>9, <1>10, <1>11, <1>12, <1>13, <1>14,
     <1>15, <1>16, <1>17, <1>18, <1>19, <1>20, <1>21, <1>22, <1>23, <1>24, <1>25, <1>26, <1>27,
     <1>28, <1>29, <1>30, <1>31, <1>32, <1>33, <1>34, <1>35, <1>36
  DEF Next, LoopStep, GoalStep

LEMMA PreCheckpointKnownInv ==
  ASSUME IInv, Solo, Roles, Blank, KnownInv, NEW e \in Execs, PreCheckpoint(e)
  PROVE  KnownInv'
<1>1. exec[e].pc = "checkpoint" /\ exec[e].call \in Nat
  BY Numbers DEF PreCheckpoint, At
<1>2. Went(e, "tool") /\ exec'[e].known = exec[e].known /\ exec'[e].call = exec[e].call
  BY GotoEffect DEF PreCheckpoint
<1>3. Others /\ Checkpoint(e, exec[e].call)
  BY DEF PreCheckpoint
<1>4. ASSUME lapses' = 0, faults' = 0
      PROVE  /\ run'.state.known = exec[e].known /\ run'.state.pending = exec[e].call
             /\ ran' = ran /\ erased' = erased /\ lapses = 0 /\ faults = 0 /\ UNCHANGED kind
  BY <1>1, <1>3, <1>4, CheckpointEffect, Numbers DEF Others
<1>5. ASSUME lapses' = 0, faults' = 0
      PROVE  /\ Told(exec[e])'
             /\ (ran \ erased \subseteq run.state.known \union ({run.state.pending} \ {0}))'
  BY <1>1, <1>2, <1>4, <1>5 DEF Roles, KnownInv, Told, Pending, Durable, LoopPcs
<1> QED BY <1>1, <1>2, <1>4, <1>5, KnownStep DEF Went

LEMMA FinalCheckpointKnownInv ==
  ASSUME IInv, Solo, Roles, Blank, KnownInv, NEW e \in Execs, FinalCheckpoint(e)
  PROVE  KnownInv'
<1>1. exec[e].pc = "last" /\ 0 \in Nat
  BY DEF FinalCheckpoint, At
<1>2. Went(e, "end") /\ exec'[e].known = exec[e].known /\ exec'[e].call = exec[e].call
  BY GotoEffect DEF FinalCheckpoint
<1>3. Others /\ Checkpoint(e, 0)
  BY DEF FinalCheckpoint
<1>4. ASSUME lapses' = 0, faults' = 0
      PROVE  /\ run'.state.known = exec[e].known /\ run'.state.pending = 0
             /\ ran' = ran /\ erased' = erased /\ lapses = 0 /\ faults = 0 /\ UNCHANGED kind
  BY <1>1, <1>3, <1>4, CheckpointEffect, Numbers DEF Others
<1>5. ASSUME lapses' = 0, faults' = 0
      PROVE  /\ Told(exec[e])'
             /\ (ran \ erased \subseteq run.state.known \union ({run.state.pending} \ {0}))'
  BY <1>1, <1>2, <1>4, <1>5 DEF Roles, KnownInv, Told, Went, Pending, Durable, LoopPcs
<1> QED BY <1>1, <1>2, <1>4, <1>5, KnownStep DEF Went

LEMMA PostCheckpointKnownInv ==
  ASSUME IInv, Solo, Roles, Blank, KnownInv, NEW e \in Execs, PostCheckpoint(e)
  PROVE  KnownInv'
<1>1. exec[e].pc = "ran" /\ 0 \in Nat
  BY DEF PostCheckpoint, At
<1>2. /\ exec'[e].pc \in {"ask", "summary", "last", "throw"} /\ Went(e, exec'[e].pc)
      /\ exec'[e].known = exec[e].known /\ exec'[e].call = exec[e].call
  BY PostCheckpointEffect
<1>3. Others /\ (Checkpoint(e, 0) \/ Writes)
  BY PostCheckpointEffect
<1>4. ASSUME lapses' = 0, faults' = 0
      PROVE  /\ \/ run'.state.known = exec[e].known /\ run'.state.pending = 0
                \/ run' = run
             /\ ran' = ran /\ erased' = erased /\ lapses = 0 /\ faults = 0 /\ UNCHANGED kind
  BY <1>1, <1>3, <1>4, CheckpointEffect, Numbers DEF Others, Writes
<1>5. ASSUME lapses' = 0, faults' = 0
      PROVE  /\ Told(exec[e])'
             /\ (ran \ erased \subseteq run.state.known \union ({run.state.pending} \ {0}))'
  BY <1>1, <1>2, <1>4, <1>5 DEF Roles, KnownInv, Told, Went, Pending, Durable, LoopPcs
<1> QED BY <1>1, <1>2, <1>4, <1>5, KnownStep DEF Went

\* A call is pending in the document before it runs.
LEMMA KnownInvNext ==
  ASSUME IInv, Solo, Roles, Blank, KnownInv, Next
  PROVE  KnownInv'
<1>1. ASSUME NEW e \in Execs, Claim(e) PROVE KnownInv'
  BY <1>1 DEF Claim, Goto, history, bounds, KnownInv, Told, Solo, Live, Pending
<1>2. ASSUME NEW e \in Execs, TimeOut(e) PROVE KnownInv'
  BY <1>2 DEF TimeOut, history, bounds, KnownInv, Told, Durable, Pending
<1>3. ASSUME NEW e \in Execs, Settle(e) PROVE KnownInv'
  BY <1>3, SettleEffect, Numbers DEF history, bounds, KnownInv, Told, Solo, Live, Pending, Went
<1>4. ASSUME NEW e \in Execs, Refuse(e) PROVE KnownInv'
  BY <1>4, EndingEffect DEF Refuse, At, Writes, KnownInv, Told, Solo, Live, Pending, Went
<1>5. ASSUME NEW e \in Execs, Start(e) PROVE KnownInv'
  BY <1>5 DEF IInv, TypeOK, Start, Goto, TaskBecomes, Fault, Others, KnownInv, Told, Pending
<1>6. ASSUME NEW e \in Execs, Peek(e) PROVE KnownInv'
  BY <1>6 DEF IInv, TypeOK, Exec, Peek, At, Goto, Writes, Others, KnownInv, Told, Blank, Solo,
     Live, Pending, LoopPcs
<1>7. ASSUME NEW e \in Execs, Load(e) PROVE KnownInv'
  BY <1>7 DEF IInv, TypeOK, Load, At, Resume, Writes, Others, KnownInv, Told, Solo, Live,
     Pending
<1>8. ASSUME NEW e \in Execs, Reclaim(e) PROVE KnownInv'
  BY <1>8 DEF IInv, TypeOK, Run, Reclaim, At, Goto, Put, Lost, Fault, Durable, KnownInv, Told,
     Pending
<1>9. ASSUME NEW e \in Execs, Ask(e) PROVE KnownInv'
  BY <1>9 DEF IInv, TypeOK, Exec, Ask
<1>10. ASSUME NEW e \in Execs, LeaveLoop(e) PROVE KnownInv'
  BY <1>10, LeaveLoopEffect DEF KnownInv, Told, Durable, Pending, Went, Writes, Others
<1>11. ASSUME NEW e \in Execs, PreCheckpoint(e) PROVE KnownInv'
  BY <1>11, PreCheckpointKnownInv
<1>12. ASSUME NEW e \in Execs, RunTool(e) PROVE KnownInv'
  BY <1>12 DEF IInv, TypeOK, Exec, RunTool, At, Goto, bounds, KnownInv, Told, Solo, Live, State,
     Pending
<1>13. ASSUME NEW e \in Execs, PostCheckpoint(e) PROVE KnownInv'
  BY <1>13, PostCheckpointKnownInv
<1>14. ASSUME NEW e \in Execs, FinalCheckpoint(e) PROVE KnownInv'
  BY <1>14, FinalCheckpointKnownInv
<1>15. ASSUME NEW e \in Execs, EndRun(e) PROVE KnownInv'
  BY <1>15, LeftEffect, CloseEffect DEF IInv, TypeOK, Run, EndRun, At, CloseAs, Interrupted,
     Put, Lost, Fault, Others, KnownInv, Told, Solo, Live, Pending, Went
<1>16. ASSUME NEW e \in Execs, CatchLoop(e) PROVE KnownInv'
  BY <1>16, LeftEffect, CloseEffect DEF IInv, TypeOK, Run, CatchLoop, At, CloseAs, Interrupted,
     Put, Lost, Fault, Others, KnownInv, Told, Solo, Live, Pending, Went
<1>17. ASSUME NEW e \in Execs, Finally(e) PROVE KnownInv'
  BY <1>17 DEF Finally, At, Goto, Writes, Others, KnownInv, Told, Solo, Live, Pending
<1>18. ASSUME NEW e \in Execs, ReleaseRun(e) PROVE KnownInv'
  BY <1>18 DEF IInv, TypeOK, Run, ReleaseRun, At, Goto, Interrupted, Put, Lost, Fault, Others,
     KnownInv, Told, Solo, Live, Pending
<1>19. ASSUME NEW e \in Execs, WorkerOutcome(e) PROVE KnownInv'
  BY <1>19, EndingEffect DEF IInv, TypeOK, WorkerOutcome, Outcome, At, TaskBecomes, Fault,
     Others, KnownInv, Told, Solo, Live, Pending, Went
<1>20. ASSUME NEW e \in Execs, ChatOutcome(e) PROVE KnownInv'
  BY <1>20, EndingEffect DEF ChatOutcome, Outcome, At, TaskBecomes, Others, KnownInv, Told,
     Solo, Live, Pending, Went
<1>21. ASSUME NEW e \in Execs, StartGoal(e) PROVE KnownInv'
  BY <1>21 DEF IInv, TypeOK, StartGoal, Writes, Others, KnownInv, Told, Durable, Pending
<1>22. ASSUME NEW e \in Execs, AbortGoal(e) PROVE KnownInv'
  BY <1>22, EndingEffect DEF IInv, TypeOK, Run, AbortGoal, At, Interrupted, Put, Lost, Fault,
     Others, KnownInv, Told, Solo, Live, Pending, Went, GoalPcs
<1>23. ASSUME NEW e \in Execs, ExhaustGoal(e) PROVE KnownInv'
  BY <1>23, EndingEffect, GotoEffect, CloseEffect DEF IInv, TypeOK, ExhaustGoal, At, Lost,
     Fault, Others, KnownInv, Told, Solo, Live, Pending, Went, LoopPcs
<1>24. ASSUME NEW e \in Execs, Turn(e) PROVE KnownInv'
  BY <1>24 DEF IInv, TypeOK, Exec, Turn, At, Goto, Others, KnownInv, Told, Solo, Live, Pending
<1>25. ASSUME NEW e \in Execs, BumpRead(e) PROVE KnownInv'
  BY <1>25 DEF IInv, TypeOK, BumpRead, At, Writes, Others, KnownInv, Told, Solo, Live, Pending
<1>26. ASSUME NEW e \in Execs, Bump(e) PROVE KnownInv'
  BY <1>26 DEF IInv, TypeOK, Run, Bump, At, Goto, Put, Lost, Fault, Others, KnownInv, Told,
     Solo, Live, Pending
<1>27. ASSUME NEW e \in Execs, Note(e) PROVE KnownInv'
  BY <1>27 DEF IInv, TypeOK, Run, Note, At, Goto, Put, Lost, Fault, Others, KnownInv, Told,
     Solo, Live, Pending
<1>28. ASSUME NEW e \in Execs, Verify(e) PROVE KnownInv'
  BY <1>28, GotoEffect, CloseEffect, Numbers DEF Verify, At, Writes, Lost, Fault, Others,
     KnownInv, Told, Solo, Live, Pending, Went
<1>29. ASSUME NEW e \in Execs, Packet(e) PROVE KnownInv'
  BY <1>29, EndingEffect, GotoEffect, Numbers DEF Packet, At, Writes, Lost, Fault, Others,
     KnownInv, Told, Solo, Live, Pending, Went
<1>30. ASSUME NEW e \in Execs, CatchGoal(e) PROVE KnownInv'
  BY <1>30, EndingEffect, CloseEffect DEF IInv, TypeOK, CatchGoal, At, Lost, Fault, Others,
     KnownInv, Told, Solo, Live, Pending, Went
<1>31. CASE Lapse
  BY <1>31 DEF IInv, TypeOK, Lapse, KnownInv
<1>32. CASE Cancel
  BY <1>32 DEF Cancel, history, bounds, KnownInv, Told, Durable, Pending
<1>33. CASE ListRuns
  BY <1>33 DEF ListRuns, history, bounds, KnownInv, Told, Durable
<1>34. CASE StopRuns
  BY <1>34 DEF StopRuns, Interrupted, history, bounds, KnownInv, Told, Durable
<1>35. CASE Restart
  BY <1>35, RestartEffect, Numbers DEF history, KnownInv, Told, Pending
<1>36. ASSUME NEW e \in Execs, Synthesise(e) PROVE KnownInv'
  BY <1>36, SynthesiseEffect DEF KnownInv, Told, Durable, Pending, Went
<1> QED
  BY <1>1, <1>2, <1>3, <1>4, <1>5, <1>6, <1>7, <1>8, <1>9, <1>10, <1>11, <1>12, <1>13, <1>14,
     <1>15, <1>16, <1>17, <1>18, <1>19, <1>20, <1>21, <1>22, <1>23, <1>24, <1>25, <1>26, <1>27,
     <1>28, <1>29, <1>30, <1>31, <1>32, <1>33, <1>34, <1>35, <1>36
  DEF Next, LoopStep, GoalStep

LEMMA EndRunRoundsInv ==
  ASSUME IInv, Solo, Roles, Blank, RoundsInv, NEW e \in Execs, EndRun(e)
  PROVE  RoundsInv'
<1>1. exec[e].pc = "end" /\ Others /\ CloseAs(e, "completed")
  BY DEF EndRun, At
<1>2. Went(e, "finally")
  BY LeftEffect DEF EndRun
<1>3. Paced(exec[e])'
  BY <1>2 DEF Went, Paced, InLoop
<1>4. \/ Close("completed")
      \/ UNCHANGED <<rounds, faults>> /\ run'.state = run.state
      \/ faults' = faults + 1
  BY <1>1 DEF CloseAs, Put, Lost, Fault, Interrupted, IInv, TypeOK, Run
<1>5. kind # "goal" /\ faults' = 0 =>
        \/ faults = 0 /\ rounds' = 0 /\ run'.state.iterations = 0
        \/ faults = 0 /\ rounds' = rounds /\ run'.state = run.state
  BY <1>4, CloseEffect, Numbers DEF Durable, NoState
<1>6. ASSUME Durable, lapses = 0, faults' = 0
      PROVE  /\ (rounds <= MaxIterations + 2 + Uncounted)'
             /\ (job.status = "running" => rounds <= run.state.iterations + 3 + Uncounted)'
  BY <1>1, <1>5, <1>6, Numbers DEF RoundsInv, Durable, Uncounted, Others
<1> QED BY <1>1, <1>2, <1>3, <1>6, RoundsStep DEF Went, Others

LEMMA CatchLoopRoundsInv ==
  ASSUME IInv, Solo, Roles, Blank, RoundsInv, NEW e \in Execs, CatchLoop(e)
  PROVE  RoundsInv'
<1>1. exec[e].pc = "throw" /\ Others /\ CloseAs(e, "failed")
  BY DEF CatchLoop, At
<1>2. Went(e, "finally")
  BY LeftEffect DEF CatchLoop
<1>3. Paced(exec[e])'
  BY <1>2 DEF Went, Paced, InLoop
<1>4. \/ Close("failed")
      \/ UNCHANGED <<rounds, faults>> /\ run'.state = run.state
      \/ faults' = faults + 1
  BY <1>1 DEF CloseAs, Put, Lost, Fault, Interrupted, IInv, TypeOK, Run
<1>5. kind # "goal" /\ faults' = 0 =>
        \/ faults = 0 /\ rounds' = 0 /\ run'.state.iterations = 0
        \/ faults = 0 /\ rounds' = rounds /\ run'.state = run.state
  BY <1>4, CloseEffect, Numbers DEF Durable, NoState
<1>6. ASSUME Durable, lapses = 0, faults' = 0
      PROVE  /\ (rounds <= MaxIterations + 2 + Uncounted)'
             /\ (job.status = "running" => rounds <= run.state.iterations + 3 + Uncounted)'
  BY <1>1, <1>5, <1>6, Numbers DEF RoundsInv, Durable, Uncounted, Others
<1> QED BY <1>1, <1>2, <1>3, <1>6, RoundsStep DEF Went, Others

LEMMA FinalCheckpointRoundsInv ==
  ASSUME IInv, Solo, Roles, RoundsInv, NEW e \in Execs, FinalCheckpoint(e)
  PROVE  RoundsInv'
<1>1. exec[e].pc = "last" /\ Others /\ Checkpoint(e, 0) /\ Went(e, "end")
  BY GotoEffect DEF FinalCheckpoint, At
<1>2. Paced(exec[e])'
  BY <1>1 DEF Went, Paced, InLoop
<1>3. ASSUME Durable, lapses = 0, faults' = 0
      PROVE  faults = 0 /\ rounds' = rounds /\ run'.state.iterations = exec[e].iterations
  BY <1>1, <1>3, CheckpointEffect, Numbers
<1>4. ASSUME Durable, lapses = 0, faults' = 0
      PROVE  /\ (rounds <= MaxIterations + 2 + Uncounted)'
             /\ (job.status = "running" => rounds <= run.state.iterations + 3 + Uncounted)'
  <2>1. rounds <= MaxIterations + 2 + Uncounted /\ rounds <= exec[e].iterations + 2 + Uncounted
    BY <1>1, <1>3, <1>4 DEF RoundsInv, Paced
  <2> QED BY <1>1, <1>3, <1>4, <2>1, Numbers DEF Uncounted, Others
<1> QED BY <1>1, <1>2, <1>4, RoundsStep DEF Went, Others

\* The calls of a synthesis count, but enter no row.
LEMMA SynthesiseRoundsInv ==
  ASSUME IInv, Solo, Roles, RoundsInv, NEW e \in Execs, Synthesise(e)
  PROVE  RoundsInv'
<1>1. /\ \/ exec[e].pc = "summary" /\ exec'[e].pc \in {"again", "last", "throw"}
         \/ exec[e].pc = "again" /\ exec'[e].pc \in {"last", "throw"}
      /\ \A f \in Execs : f # e => exec'[f] = exec[f]
      /\ exec'[e].iterations = exec[e].iterations
      /\ rounds' = rounds + 1
      /\ UNCHANGED <<kind, run, job, crashes, lapses, faults>>
  BY SynthesiseEffect DEF Went
<1>2. ASSUME Durable, lapses = 0, faults = 0
      PROVE  /\ rounds <= MaxIterations + 1 + Uncounted
             /\ rounds <= run.state.iterations + 2 + Uncounted
             /\ rounds <= exec[e].iterations + 1 + Uncounted
             /\ exec[e].pc = "summary" => /\ rounds <= MaxIterations + Uncounted
                                          /\ rounds <= run.state.iterations + 1 + Uncounted
                                          /\ rounds <= exec[e].iterations + Uncounted
  BY <1>1, <1>2, Numbers DEF RoundsInv, Paced, InLoop, Uncounted
<1>3. ASSUME Durable, lapses = 0, faults' = 0
      PROVE  /\ (rounds <= MaxIterations + 2 + Uncounted)'
             /\ (job.status = "running" => rounds <= run.state.iterations + 3 + Uncounted)'
             /\ Paced(exec[e])'
  BY <1>1, <1>2, <1>3, Numbers DEF Paced, InLoop, Uncounted
<1> QED BY <1>1, <1>3, RoundsStep

\* An answer is in the checkpoint before the next one is asked for.
LEMMA RoundsInvNext ==
  ASSUME IInv, Solo, Roles, Blank, RoundsInv, Next
  PROVE  RoundsInv'
<1>1. ASSUME NEW e \in Execs, Claim(e) PROVE RoundsInv'
  BY <1>1 DEF IInv, TypeOK, Run, Job, Claim, Goto, history, bounds, RoundsInv, Paced, InLoop,
     Uncounted,
     Durable, State
<1>2. ASSUME NEW e \in Execs, TimeOut(e) PROVE RoundsInv'
  BY <1>2 DEF TimeOut, history, bounds, RoundsInv, Paced, InLoop, Uncounted, Durable
<1>3. ASSUME NEW e \in Execs, Settle(e) PROVE RoundsInv'
  BY <1>3, SettleEffect, Numbers DEF history, bounds, RoundsInv, Paced, InLoop, Uncounted,
     Durable, Went
<1>4. ASSUME NEW e \in Execs, Refuse(e) PROVE RoundsInv'
  BY <1>4, EndingEffect DEF Refuse, Writes, RoundsInv, Paced, InLoop, Uncounted, Durable, Went
<1>5. ASSUME NEW e \in Execs, Start(e) PROVE RoundsInv'
  BY <1>5 DEF IInv, TypeOK, Start, At, Goto, TaskBecomes, Fault, Others, RoundsInv, Paced,
     InLoop, Uncounted
<1>6. ASSUME NEW e \in Execs, Peek(e) PROVE RoundsInv'
  BY <1>6 DEF IInv, TypeOK, Job, Exec, Peek, At, Goto, Writes, Others, RoundsInv, Paced, Blank,
     InLoop, Uncounted, Durable
<1>7. ASSUME NEW e \in Execs, Load(e) PROVE RoundsInv'
  BY <1>7 DEF IInv, TypeOK, Load, At, Resume, Writes, Others, RoundsInv, Paced, InLoop,
     Uncounted, Durable
<1>8. ASSUME NEW e \in Execs, Reclaim(e) PROVE RoundsInv'
  BY <1>8 DEF IInv, TypeOK, Run, Reclaim, At, Goto, Put, Lost, Fault, Durable, RoundsInv, Paced,
     InLoop, Uncounted
<1>9. ASSUME NEW e \in Execs, Ask(e) PROVE RoundsInv'
  BY <1>9 DEF IInv, TypeOK, Exec, Ask
<1>10. ASSUME NEW e \in Execs, LeaveLoop(e) PROVE RoundsInv'
  BY <1>10, LeaveLoopEffect, Numbers DEF RoundsInv, Paced, InLoop, Uncounted, Durable, Went,
     Writes, Others
<1>11. ASSUME NEW e \in Execs, PreCheckpoint(e) PROVE RoundsInv'
  BY <1>11, GotoEffect, CheckpointEffect DEF IInv, TypeOK, Job, Exec, Task, PreCheckpoint, At,
     Others, RoundsInv, Paced, InLoop, Uncounted, Durable, Went, Roles
<1>12. ASSUME NEW e \in Execs, RunTool(e) PROVE RoundsInv'
  BY <1>12 DEF IInv, TypeOK, Exec, RunTool, At, Goto, bounds, RoundsInv, Paced, InLoop,
     Uncounted, Durable
<1>13. ASSUME NEW e \in Execs, PostCheckpoint(e) PROVE RoundsInv'
  <2>1. CASE Checkpoint(e, 0)
    BY <1>13, <2>1, PostCheckpointEffect, CheckpointEffect, Numbers, RoundsStep
    DEF Others, RoundsInv, Paced, InLoop, Uncounted, Durable, Went
  <2>2. CASE Writes
    BY <1>13, <2>2, PostCheckpointEffect, Numbers
    DEF Writes, Others, RoundsInv, Paced, InLoop, Uncounted, Durable, Went
  <2> QED BY <1>13, <2>1, <2>2, PostCheckpointEffect
<1>14. ASSUME NEW e \in Execs, FinalCheckpoint(e) PROVE RoundsInv'
  BY <1>14, FinalCheckpointRoundsInv
<1>15. ASSUME NEW e \in Execs, EndRun(e) PROVE RoundsInv'
  BY <1>15, EndRunRoundsInv
<1>16. ASSUME NEW e \in Execs, CatchLoop(e) PROVE RoundsInv'
  BY <1>16, CatchLoopRoundsInv
<1>17. ASSUME NEW e \in Execs, Finally(e) PROVE RoundsInv'
  BY <1>17 DEF Finally, Goto, Writes, Others, RoundsInv, Paced, InLoop, Uncounted, Durable
<1>18. ASSUME NEW e \in Execs, ReleaseRun(e) PROVE RoundsInv'
  BY <1>18 DEF IInv, TypeOK, Run, ReleaseRun, Goto, Interrupted, Put, Lost, Fault, Others,
     RoundsInv, Paced, InLoop, Uncounted, Durable
<1>19. ASSUME NEW e \in Execs, WorkerOutcome(e) PROVE RoundsInv'
  BY <1>19, EndingEffect DEF IInv, TypeOK, WorkerOutcome, Outcome, TaskBecomes, Fault, Others,
     RoundsInv, Paced, InLoop, Uncounted, Durable, Went
<1>20. ASSUME NEW e \in Execs, ChatOutcome(e) PROVE RoundsInv'
  BY <1>20, EndingEffect DEF ChatOutcome, Outcome, TaskBecomes, Others, RoundsInv, Paced,
     InLoop, Uncounted,
     Durable, Went
<1>21. ASSUME NEW e \in Execs, StartGoal(e) PROVE RoundsInv'
  BY <1>21 DEF StartGoal, Others, RoundsInv, Durable
<1>22. ASSUME NEW e \in Execs, AbortGoal(e) PROVE RoundsInv'
  BY <1>22, EndingEffect DEF IInv, TypeOK, Run, AbortGoal, Interrupted, Put, Lost, Fault,
     Others, RoundsInv, Paced, InLoop, Uncounted, Durable, Went
<1>23. ASSUME NEW e \in Execs, ExhaustGoal(e) PROVE RoundsInv'
  BY <1>23, EndingEffect, GotoEffect, CloseEffect DEF ExhaustGoal, At, Others, RoundsInv,
     Durable, Roles, GoalPcs
<1>24. ASSUME NEW e \in Execs, Turn(e) PROVE RoundsInv'
  BY <1>24 DEF Turn, At, Others, RoundsInv, Durable, Roles, GoalPcs
<1>25. ASSUME NEW e \in Execs, BumpRead(e) PROVE RoundsInv'
  BY <1>25 DEF IInv, TypeOK, BumpRead, Writes, Others, RoundsInv, Paced, InLoop, Uncounted,
     Durable
<1>26. ASSUME NEW e \in Execs, Bump(e) PROVE RoundsInv'
  BY <1>26 DEF IInv, TypeOK, Run, Bump, Goto, Put, Lost, Fault, Others, RoundsInv, Paced,
     InLoop, Uncounted,
     Durable
<1>27. ASSUME NEW e \in Execs, Note(e) PROVE RoundsInv'
  BY <1>27 DEF IInv, TypeOK, Run, Note, Goto, Put, Lost, Fault, Others, RoundsInv, Paced,
     InLoop, Uncounted,
     Durable
<1>28. ASSUME NEW e \in Execs, Verify(e) PROVE RoundsInv'
  BY <1>28, GotoEffect, CloseEffect DEF Verify, At, Others, RoundsInv, Durable, Roles, GoalPcs
<1>29. ASSUME NEW e \in Execs, Packet(e) PROVE RoundsInv'
  BY <1>29, EndingEffect, GotoEffect DEF IInv, TypeOK, Packet, Writes, Lost, Fault, Others,
     RoundsInv, Paced, InLoop, Uncounted, Durable, Went
<1>30. ASSUME NEW e \in Execs, CatchGoal(e) PROVE RoundsInv'
  BY <1>30, EndingEffect, CloseEffect DEF CatchGoal, At, Others, RoundsInv, Durable, Roles,
     GoalPcs
<1>31. CASE Lapse
  BY <1>31 DEF IInv, TypeOK, Lapse, RoundsInv
<1>32. CASE Cancel
  BY <1>32 DEF Cancel, history, bounds, RoundsInv, Paced, InLoop, Uncounted, Durable
<1>33. CASE ListRuns
  BY <1>33 DEF ListRuns, history, bounds, RoundsInv, Paced, InLoop, Uncounted, Durable
<1>34. CASE StopRuns
  BY <1>34 DEF StopRuns, Interrupted, history, bounds, RoundsInv, Paced, InLoop, Uncounted,
     Durable
<1>35. CASE Restart
  BY <1>35, RestartEffect, Numbers DEF history, RoundsInv, Paced, InLoop, Uncounted, Durable
<1>36. ASSUME NEW e \in Execs, Synthesise(e) PROVE RoundsInv'
  BY <1>36, SynthesiseRoundsInv
<1> QED
  BY <1>1, <1>2, <1>3, <1>4, <1>5, <1>6, <1>7, <1>8, <1>9, <1>10, <1>11, <1>12, <1>13, <1>14,
     <1>15, <1>16, <1>17, <1>18, <1>19, <1>20, <1>21, <1>22, <1>23, <1>24, <1>25, <1>26, <1>27,
     <1>28, <1>29, <1>30, <1>31, <1>32, <1>33, <1>34, <1>35, <1>36
  DEF Next, LoopStep, GoalStep

LEMMA TurnGoalInv ==
  ASSUME IInv, Solo, Roles, GoalInv, NEW e \in Execs, Turn(e)
  PROVE  GoalInv'
<1>1. /\ exec[e].pc = "top" /\ rounds' = rounds + 1
      /\ UNCHANGED <<run, faults, kind, job, crashes, lapses>>
      /\ exec[e].attempts < MaxAttempts /\ run.turns < MaxTurns
  BY Numbers DEF Turn, At, Exhausted, Others
<1>2. /\ \A f \in Execs : f # e => exec'[f] = exec[f]
      /\ \/ exec'[e].pc = "bump" /\ exec'[e].attempts = exec[e].attempts + 1
         \/ exec'[e].pc = "caught"
  BY DEF Turn, Goto, IInv, TypeOK, Exec
<1>3. ASSUME ~Durable, lapses = 0, faults = 0
      PROVE  /\ rounds <= run.turns + Extra /\ rounds <= run.attempts + Extra
             /\ rounds <= exec[e].attempts + Extra
  BY <1>1, <1>3 DEF GoalInv, Counted
<1>4. ASSUME ~Durable, lapses = 0, faults' = 0
      PROVE  /\ (rounds <= MaxTurns + Extra /\ rounds <= MaxAttempts + Extra)'
             /\ (rounds <= run.turns + 1 + Extra /\ rounds <= run.attempts + 1 + Extra)'
             /\ Counted(exec[e])'
  BY <1>1, <1>2, <1>3, <1>4, Numbers DEF Extra, Counted
<1> QED BY <1>1, <1>2, <1>4, GoalKept

LEMMA VerifyGoalInv ==
  ASSUME IInv, Solo, Roles, GoalInv, NEW e \in Execs, Verify(e)
  PROVE  GoalInv'
<1>1. exec[e].pc = "verify" /\ UNCHANGED <<kind, job, crashes, lapses>>
  BY DEF Verify, At, Others
<1>2. /\ Went(e, "top") \/ Went(e, "caught") \/ Went(e, "packet")
      /\ exec'[e].attempts = exec[e].attempts
  BY GotoEffect DEF Verify
<1>3. faults' = 0 => faults = 0 /\ rounds' = rounds /\ run'.turns = run.turns /\ run'.attempts = run.attempts
  BY <1>1, CloseEffect, Numbers DEF Verify, Writes, Lost, Fault, Roles, GoalPcs, Durable
<1>4. ASSUME ~Durable, lapses = 0, faults' = 0
      PROVE  /\ (rounds <= MaxTurns + Extra /\ rounds <= MaxAttempts + Extra)'
             /\ (job.status = "running" => rounds <= run.turns + 1 + Extra /\ rounds <= run.attempts + 1 + Extra)'
  BY <1>1, <1>3, <1>4, Numbers DEF Extra, GoalInv
<1>5. ASSUME ~Durable, lapses = 0, faults' = 0 PROVE Counted(exec[e])'
  <2>1. /\ rounds <= run.turns + Extra /\ rounds <= run.attempts + Extra
        /\ rounds <= exec[e].attempts + Extra
    BY <1>1, <1>3, <1>5 DEF GoalInv, Counted
  <2>2. /\ (rounds <= run.turns + Extra /\ rounds <= run.attempts + Extra)'
        /\ (rounds <= exec[e].attempts + Extra)'
    BY <1>1, <1>2, <1>3, <1>5, <2>1 DEF Extra
  <2> QED BY <1>2, <2>2 DEF Counted, Went
<1> QED BY <1>1, <1>2, <1>4, <1>5, GoalKept DEF Went

\* A turn is in the row before the next one is taken.
LEMMA GoalInvNext ==
  ASSUME IInv, Solo, Roles, GoalInv, Next
  PROVE  GoalInv'
<1>1. ASSUME NEW e \in Execs, Claim(e) PROVE GoalInv'
  BY <1>1 DEF IInv, TypeOK, Run, Job, Claim, Goto, history, bounds, GoalInv, Counted, Extra,
     Durable
<1>2. ASSUME NEW e \in Execs, TimeOut(e) PROVE GoalInv'
  BY <1>2 DEF TimeOut, history, bounds, GoalInv, Counted, Extra, Durable
<1>3. ASSUME NEW e \in Execs, Settle(e) PROVE GoalInv'
  BY <1>3, SettleEffect, Numbers DEF history, bounds, GoalInv, Counted, Extra, Durable, Went
<1>4. ASSUME NEW e \in Execs, Refuse(e) PROVE GoalInv'
  BY <1>4, EndingEffect DEF Refuse, GoalInv, Durable
<1>5. ASSUME NEW e \in Execs, Start(e) PROVE GoalInv'
  BY <1>5 DEF Start, Durable, Others, GoalInv
<1>6. ASSUME NEW e \in Execs, Peek(e) PROVE GoalInv'
  BY <1>6 DEF Peek, At, Others, GoalInv, Durable, Roles, LoopPcs
<1>7. ASSUME NEW e \in Execs, Load(e) PROVE GoalInv'
  BY <1>7 DEF Load, At, Others, GoalInv, Durable, Roles, LoopPcs
<1>8. ASSUME NEW e \in Execs, Reclaim(e) PROVE GoalInv'
  BY <1>8 DEF IInv, TypeOK, Run, Reclaim, At, Goto, Put, Lost, Fault, Durable, GoalInv, Counted,
     Extra
<1>9. ASSUME NEW e \in Execs, Ask(e) PROVE GoalInv'
  BY <1>9 DEF IInv, TypeOK, Exec, Ask
<1>10. ASSUME NEW e \in Execs, LeaveLoop(e) PROVE GoalInv'
  BY <1>10, LeaveLoopEffect DEF GoalInv, Counted, Extra, Durable, Went, Writes, Others, Roles,
     LoopPcs
<1>11. ASSUME NEW e \in Execs, PreCheckpoint(e) PROVE GoalInv'
  BY <1>11, GotoEffect, CheckpointEffect DEF IInv, TypeOK, Exec, Task, PreCheckpoint, Others,
     GoalInv, Counted, Extra, Durable, Went
<1>12. ASSUME NEW e \in Execs, RunTool(e) PROVE GoalInv'
  BY <1>12 DEF IInv, TypeOK, Exec, RunTool, Goto, bounds, GoalInv, Counted, Extra, Durable,
     LoopPcs
<1>13. ASSUME NEW e \in Execs, PostCheckpoint(e) PROVE GoalInv'
  BY <1>13, PostCheckpointEffect, CheckpointEffect, Numbers DEF GoalInv, Counted, Extra,
     Durable, Went, Writes, Others, Roles, LoopPcs
<1>14. ASSUME NEW e \in Execs, FinalCheckpoint(e) PROVE GoalInv'
  BY <1>14, GotoEffect, CheckpointEffect DEF FinalCheckpoint, At, Others, GoalInv, Durable,
     Roles, LoopPcs
<1>15. ASSUME NEW e \in Execs, EndRun(e) PROVE GoalInv'
  BY <1>15, LeftEffect, CloseEffect DEF IInv, TypeOK, Run, EndRun, CloseAs, Interrupted, Put,
     Lost, Fault, Others, GoalInv, Counted, Extra, Durable, Went
<1>16. ASSUME NEW e \in Execs, CatchLoop(e) PROVE GoalInv'
  BY <1>16, LeftEffect, CloseEffect DEF IInv, TypeOK, Run, CatchLoop, CloseAs, Interrupted, Put,
     Lost, Fault, Others, GoalInv, Counted, Extra, Durable, Went
<1>17. ASSUME NEW e \in Execs, Finally(e) PROVE GoalInv'
  BY <1>17 DEF Finally, Goto, Writes, Others, GoalInv, Counted, Extra, Durable
<1>18. ASSUME NEW e \in Execs, ReleaseRun(e) PROVE GoalInv'
  BY <1>18 DEF IInv, TypeOK, Run, ReleaseRun, Goto, Interrupted, Put, Lost, Fault, Others,
     GoalInv, Counted, Extra, Durable
<1>19. ASSUME NEW e \in Execs, WorkerOutcome(e) PROVE GoalInv'
  BY <1>19, EndingEffect DEF WorkerOutcome, Outcome, Others, GoalInv, Durable
<1>20. ASSUME NEW e \in Execs, ChatOutcome(e) PROVE GoalInv'
  BY <1>20, EndingEffect DEF ChatOutcome, Outcome, Others, GoalInv, Durable
<1>21. ASSUME NEW e \in Execs, StartGoal(e) PROVE GoalInv'
  BY <1>21 DEF IInv, TypeOK, StartGoal, At, Writes, Others, GoalInv, Counted, Extra, Durable
<1>22. ASSUME NEW e \in Execs, AbortGoal(e) PROVE GoalInv'
  BY <1>22, EndingEffect DEF IInv, TypeOK, Run, AbortGoal, Interrupted, Put, Lost, Fault,
     Others, GoalInv, Counted, Extra, Durable, Went
<1>23. ASSUME NEW e \in Execs, ExhaustGoal(e) PROVE GoalInv'
  BY <1>23, EndingEffect, GotoEffect, CloseEffect DEF IInv, TypeOK, ExhaustGoal, Lost, Fault,
     Others, GoalInv, Counted, Extra, Durable, Went
<1>24. ASSUME NEW e \in Execs, Turn(e) PROVE GoalInv'
  BY <1>24, TurnGoalInv
<1>25. ASSUME NEW e \in Execs, BumpRead(e) PROVE GoalInv'
  BY <1>25 DEF IInv, TypeOK, BumpRead, At, Writes, Others, GoalInv, Counted, Extra, Durable
<1>26. ASSUME NEW e \in Execs, Bump(e) PROVE GoalInv'
  BY <1>26 DEF IInv, TypeOK, Run, Job, Bump, At, Goto, Put, Lost, Fault, Others, GoalInv,
     Counted, Extra, Solo, Live, Durable
<1>27. ASSUME NEW e \in Execs, Note(e) PROVE GoalInv'
  BY <1>27 DEF IInv, TypeOK, Run, Job, Exec, Note, At, Goto, Put, Lost, Fault, Others, GoalInv,
     Counted, Extra, Durable
<1>28. ASSUME NEW e \in Execs, Verify(e) PROVE GoalInv'
  BY <1>28, VerifyGoalInv
<1>29. ASSUME NEW e \in Execs, Packet(e) PROVE GoalInv'
  BY <1>29, EndingEffect, GotoEffect DEF IInv, TypeOK, Packet, Writes, Lost, Fault, Others,
     GoalInv, Counted, Extra, Durable, Went
<1>30. ASSUME NEW e \in Execs, CatchGoal(e) PROVE GoalInv'
  BY <1>30, EndingEffect, CloseEffect DEF IInv, TypeOK, CatchGoal, Lost, Fault, Others, GoalInv,
     Counted, Extra, Durable, Went
<1>31. CASE Lapse
  BY <1>31 DEF IInv, TypeOK, Lapse, GoalInv
<1>32. CASE Cancel
  BY <1>32 DEF Cancel, history, bounds, GoalInv, Counted, Extra, Durable
<1>33. CASE ListRuns
  BY <1>33 DEF ListRuns, history, bounds, GoalInv, Counted, Extra, Durable
<1>34. CASE StopRuns
  BY <1>34 DEF StopRuns, Interrupted, history, bounds, GoalInv, Counted, Extra, Durable
<1>35. CASE Restart
  BY <1>35, RestartEffect, Numbers DEF history, GoalInv, Counted, Extra, Durable
<1>36. ASSUME NEW e \in Execs, Synthesise(e) PROVE GoalInv'
  BY <1>36, SynthesiseEffect DEF GoalInv, Counted, Extra, Durable, Went, Roles, LoopPcs
<1> QED
  BY <1>1, <1>2, <1>3, <1>4, <1>5, <1>6, <1>7, <1>8, <1>9, <1>10, <1>11, <1>12, <1>13, <1>14,
     <1>15, <1>16, <1>17, <1>18, <1>19, <1>20, <1>21, <1>22, <1>23, <1>24, <1>25, <1>26, <1>27,
     <1>28, <1>29, <1>30, <1>31, <1>32, <1>33, <1>34, <1>35, <1>36
  DEF Next, LoopStep, GoalStep
-----------------------------------------------------------------------------
(* The theorems about documents.                                            *)

LEMMA InitDocInv == Init => DocInv
<1> SUFFICES ASSUME Init PROVE DocInv
  OBVIOUS
<1>1. \A e \in Execs : exec[e].pc = "none"
  BY DEF Init, Idle
<1>2. /\ lapses = 0 /\ ran = {} /\ rounds = 0 /\ crashes = 0 /\ job.retries = 0
      /\ job.status = "pending" /\ task.status = "pending" /\ ~begun
      /\ run.state = NoState /\ run.turns = 0 /\ run.attempts = 0
  BY DEF Init, NewRun
<1>3. MaxIterations \in Nat /\ MaxTurns \in Nat /\ MaxAttempts \in Nat
  BY RunBounds
<1>4. Roles /\ Solo /\ Blank /\ RunHeld /\ TaskHeld /\ StillOpen
  BY <1>1, <1>2 DEF Roles, GoalPcs, LoopPcs, Solo, Live, Blank, NoState, RunHeld, TaskHeld,
     StillOpen, Holding
<1>5. KnownInv
  BY <1>1, <1>2 DEF KnownInv, Told, Pending
<1>6. RoundsInv
  BY <1>1, <1>2, <1>3 DEF RoundsInv, Paced, InLoop, Uncounted, NoState
<1>7. GoalInv
  BY <1>1, <1>2, <1>3 DEF GoalInv, Counted, Extra
<1> QED BY <1>4, <1>5, <1>6, <1>7 DEF DocInv

LEMMA NextDocInv == IInv /\ DocInv /\ [Next]_vars => DocInv'
<1> SUFFICES ASSUME IInv, DocInv, [Next]_vars PROVE DocInv'
  OBVIOUS
<1>1. CASE UNCHANGED vars
  <2>1. UNCHANGED <<kind, run, job, task, exec, begun, ran, rounds, erased, crashes, lapses,
  faults>>
    BY <1>1 DEF vars, history, bounds
  <2>2. (Roles /\ Solo /\ Blank /\ RunHeld /\ TaskHeld /\ StillOpen)'
    BY <2>1 DEF DocInv, Roles, Solo, Live, Blank, RunHeld, TaskHeld, StillOpen
  <2>3. (KnownInv /\ RoundsInv /\ GoalInv)'
    BY <2>1 DEF DocInv, KnownInv, Told, Durable, RoundsInv, Paced, InLoop, Uncounted, Extra,
       GoalInv, Counted
  <2> QED BY <2>2, <2>3 DEF DocInv
<1>2. CASE Next
  BY <1>2, RolesNext, SoloNext, BlankNext, RunHeldNext, TaskHeldNext, StillOpenNext,
     KnownInvNext, RoundsInvNext, GoalInvNext DEF DocInv
<1> QED BY <1>1, <1>2

\* The second inductive invariant: each execution beside the run, the task and the job.
THEOREM DocumentsInvariant == Spec => []DocInv
<1>1. IInv /\ DocInv /\ [Next]_vars => DocInv'
  BY NextDocInv
<1> QED BY InitDocInv, <1>1, RunsInvariant, PTL DEF Spec

\* While no lease lapses and no write fails, the model is never asked to go on without
\* being told of a tool that ran for this checkpoint, however often the process died:
\* the call is in the row before it runs, and resumeRun reads it back.
THEOREM EffectsAreKnown == Spec => []EffectsKnown
<1>1. DocInv => EffectsKnown
  BY DEF DocInv, EffectsKnown, KnownInv, Told, At, Roles, LoopPcs, Durable
<1> QED BY <1>1, DocumentsInvariant, PTL

\* Once a run was taken over, its job over and no execution left, neither the run nor
\* the task says that work goes on, whatever lapses, dies or is aborted, as long as no
\* write fails. A cancelled job may leave its task behind.
THEOREM RunsSettle == Spec => []RunIsSettled
<1>1. DocInv => RunIsSettled
  BY DEF DocInv, RunIsSettled, RunHeld, TaskHeld, JobLive, Live, Holding
<1> QED BY <1>1, DocumentsInvariant, PTL

\* A goal takes no more turns and no more attempts than its budget, beyond one for each
\* death of the process and each retry of the job.
THEOREM GoalsKeepBudget == Spec => []GoalBudget
<1>1. IInv => /\ MaxTurns \in Nat /\ MaxAttempts \in Nat /\ crashes \in Nat
              /\ job.retries \in Nat /\ rounds \in Nat
  BY Numbers
<1>2. IInv /\ DocInv => GoalBudget
  BY <1>1 DEF DocInv, GoalBudget, GoalInv, Extra, Durable
<1> QED BY <1>2, RunsInvariant, DocumentsInvariant, PTL

\* Until its checkpoint is thrown away, a durable run calls the model at most
\* max_iterations times and twice for its synthesis, and three times more for each
\* death and each retry: an iteration that was not saved, and another synthesis.
THEOREM RoundsAreBounded == Spec => []RoundsBounded
<1>1. IInv => /\ MaxIterations \in Nat /\ crashes \in Nat
              /\ job.retries \in Nat /\ rounds \in Nat
  BY Numbers
<1>2. IInv /\ DocInv => RoundsBounded
  BY <1>1 DEF DocInv, RoundsBounded, RoundsInv, Synthesis, Uncounted
<1> QED BY <1>2, RunsInvariant, DocumentsInvariant, PTL

\* A step from a completed run.
LEMMA CompletedStep ==
  ASSUME IInv, StillOpen, Next, run.status = "completed", lapses = 0, faults = 0, ~listed
  PROVE  run'.status \in {"completed", "running"} \/ \E e \in Execs : CatchGoal(e)
<1>1. \A e \in Execs : exec[e].pc \notin Holding \ {"caught"}
  BY DEF StillOpen
<1>2. ASSUME NEW e \in Execs,
             LoopStep(e) \/ AbortGoal(e) \/ ExhaustGoal(e) \/ Turn(e) \/ BumpRead(e) \/ Bump(e)
             \/ Note(e) \/ Verify(e)
      PROVE  run' = run
  <2>1. Finally(e)
    BY <1>1, <1>2 DEF LoopStep, Ask, LeaveLoop, PreCheckpoint, RunTool, PostCheckpoint,
       Synthesise, FinalCheckpoint, EndRun, CatchLoop, ReleaseRun, AbortGoal, ExhaustGoal,
       Turn, BumpRead,
       Bump, Note, Verify, At, Holding
  <2> QED BY <2>1 DEF Finally, Writes
<1>3. ASSUME NEW e \in Execs, Reclaim(e) PROVE run'.status \in {"completed", "running"}
  BY <1>3 DEF Reclaim, Put, Lost, IInv, TypeOK, Run
<1>4. ASSUME NEW e \in Execs, Start(e) \/ WorkerOutcome(e) \/ ChatOutcome(e) PROVE run' = run
  BY <1>4 DEF Start, WorkerOutcome, ChatOutcome, Outcome
<1>5. ASSUME NEW e \in Execs,
             Refuse(e) \/ Peek(e) \/ Load(e) \/ StartGoal(e) \/ Packet(e)
      PROVE  run' = run
  BY <1>5 DEF Refuse, Peek, Load, StartGoal, Packet, Writes, Lost
<1>6. ASSUME NEW e \in Execs, Claim(e) \/ TimeOut(e) \/ Settle(e) PROVE run' = run
  BY <1>6 DEF Claim, TimeOut, Settle
<1>7. CASE Lapse \/ Cancel \/ ListRuns \/ StopRuns \/ Restart
  BY <1>7 DEF Lapse, Cancel, ListRuns, StopRuns, Restart
<1> QED BY <1>2, <1>3, <1>4, <1>5, <1>6, <1>7 DEF Next, GoalStep

\* While no lease lapses, no write fails and no SIGTERM listed it before, a completed run
\* is not turned into anything else: a new claim reopens it, and only the goal that was
\* met fails its own, when its proof packet cannot be built.
THEOREM CompletedRunsStay == Spec => CompletedStays
<1> DEFINE Stays == run.status = "completed" /\ lapses = 0 /\ faults = 0 /\ ~listed =>
                      \/ run'.status \in {"completed", "running"}
                      \/ \E e \in Execs : CatchGoal(e)
<1>1. IInv /\ DocInv /\ [Next]_vars => [Stays]_vars
  BY CompletedStep DEF DocInv
<1>2. Spec => [][Stays]_vars
  <2> HIDE DEF Stays
  <2> QED BY <1>1, RunsInvariant, DocumentsInvariant, PTL DEF Spec
<1> QED BY <1>2 DEF CompletedStays
=============================================================================
