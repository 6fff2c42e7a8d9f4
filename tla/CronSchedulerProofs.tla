------------------------- MODULE CronSchedulerProofs -------------------------
(***************************************************************************)
(* Proofs about CronScheduler: its records settle and stay settled, its    *)
(* counts agree with the outcomes, a failing task is paused, and boot      *)
(* revives nothing.                                                        *)
(***************************************************************************)
EXTENDS CronScheduler, TLAPS

Resting == {"idle", "done"}

\* A process that is down or reconciling does nothing, boot meets no call of a user,
\* and boot's own call is over when boot is.
ProcessInv ==
  /\ ~Alive => /\ \A e \in Execs : exec[e].pc \in Resting
               /\ \A t \in Tasks : ~handle[t].on
  /\ mode # "up" => cleaning = {} /\ \A c \in Clients : call[c].pc = "idle"
  /\ mode # "booting" => call["boot"].pc = "idle" /\ todo = {}

\* Only a task that was created is run, armed or activated.
Activating == {"stop", "build", "next", "autopause", "catchup"}
BornInv ==
  \A t \in Tasks : doc[t].status = "none" =>
    /\ doc[t].errs = 0 /\ ~handle[t].on
    /\ \A e \in Execs : exec[e].task = t => exec[e].pc = "idle"
    /\ \A c \in Callers : call[c].task = t => call[c].pc \notin Activating
    /\ t \notin todo

\* The record of an execution goes with its place.
RunInv ==
  \A e \in Execs :
    /\ exec[e].pc \in {"idle", "read"} => run[e] = "none"
    /\ exec[e].pc \in {"handler", "winRun"} => run[e] = "running"
    /\ exec[e].pc \in {"winJob", "nextRun", "notifyWin"} => run[e] = "success"
    /\ exec[e].pc = "loseRun" => run[e] = "running" \/ (run[e] = "success" /\ faults > 0)
    /\ exec[e].pc = "croner" => faults > 0

\* What an execution, an instance or a call remembers of the counts was once true, and
\* still is for the only execution of a task.
CountsBounded ==
  /\ \A t \in Tasks : doc[t].runs <= wins[t] /\ doc[t].errs <= losses[t]
  /\ \A t \in Tasks : handle[t].errs <= losses[t]
  /\ \A e \in Execs : exec[e].pc \notin Resting =>
       /\ exec[e].runs <= wins[exec[e].task] /\ exec[e].errs <= losses[exec[e].task]
       /\ exec[e].armed <= losses[exec[e].task]
  /\ \A c \in Callers : call[c].pc # "idle" => call[c].errs <= losses[call[c].task]

Working(e, t) == exec[e].task = t /\ exec[e].pc \notin Resting \union {"read", "croner"}
CountsExact ==
  \A t \in Tasks \ overlapped :
    /\ doc[t].status # "deleted" => doc[t].runs = wins[t] /\ doc[t].errs = losses[t]
    /\ \A e, f \in Execs : Working(e, t) /\ Working(f, t) => e = f
    /\ \A e \in Execs : exec[e].task = t =>
         /\ exec[e].pc \in {"handler", "winRun", "winJob"} => exec[e].runs = doc[t].runs
         /\ exec[e].pc \in {"handler", "winRun", "winJob", "nextRun", "notifyWin",
                            "loseRun", "loseJob"} => exec[e].errs = doc[t].errs

\* Who is about to pause a task that reached the threshold: an execution, or a call
\* that read the count, boot's included, or boot will.
ExecPauses(t) == \E e \in Execs : exec[e].task = t /\ exec[e].pc = "pause"
CallPauses(t) ==
  \E c \in Callers :
    /\ call[c].task = t /\ call[c].errs >= MaxErrors
    /\ call[c].pc \in {"stop", "build", "autopause"}
    /\ call[c].pc = "stop" => call[c].status = "active"
FailInv ==
  \A t \in Tasks :
    Alive /\ faults = 0 /\ doc[t].status = "active" /\ doc[t].errs >= MaxErrors =>
      ExecPauses(t) \/ CallPauses(t) \/ t \in todo

\* While it boots, the process leaves a task alone until its turn comes, and arms it
\* only while it is active.
Deactivates(t) ==
  \E e \in Execs : exec[e].task = t /\ exec[e].pc \in {"deactivate", "pauseDeactivate"}
Untouched(t) ==
  /\ doc[t].status = "active" /\ ~handle[t].on
  /\ \A e \in Execs : exec[e].task = t => exec[e].pc \in Resting
BootInv ==
  mode = "booting" =>
    /\ \A t \in todo : Untouched(t)
    /\ call["boot"].pc # "idle" => call["boot"].task \notin todo
    /\ call["boot"].pc \in {"stop", "build", "autopause"} => Untouched(call["boot"].task)
    /\ \A t \in Tasks : handle[t].on => doc[t].status = "active" \/ Deactivates(t)

IInv == TypeOK /\ ProcessInv /\ BornInv /\ RunInv /\ RunsSettle /\ CountsBounded /\ CountsExact
        /\ FailInv /\ BootInv

-----------------------------------------------------------------------------
(* Types. What the actions write in place of an entry is one.               *)

ExecsTyped ==
  /\ exec \in [Execs -> Exec]
  /\ \A e \in Execs : exec[e].pc \notin Resting => exec[e].task \in Tasks
CallsTyped ==
  /\ call \in [Callers -> Call]
  /\ \A c \in Callers : call[c].pc # "idle" => call[c].task \in Tasks

LEMMA Instances ==
  ASSUME TypeOK, NEW t \in Tasks, NEW b \in BOOLEAN, NEW n \in Nat
  PROVE  /\ [handle EXCEPT ![t].busy = b] \in [Tasks -> Instance]
         /\ [handle EXCEPT ![t].ticks = b] \in [Tasks -> Instance]
         /\ [handle EXCEPT ![t].paused = b] \in [Tasks -> Instance]
         /\ [handle EXCEPT ![t].busy = TRUE, ![t].ticks = b] \in [Tasks -> Instance]
         /\ [handle EXCEPT ![t] = NoHandle] \in [Tasks -> Instance]
         /\ [handle EXCEPT ![t] = [NoHandle EXCEPT !.on = TRUE, !.ticks = b, !.errs = n]]
              \in [Tasks -> Instance]
<1>1. handle[t] \in Instance /\ handle \in [Tasks -> Instance]
  BY DEF TypeOK
<1>2. /\ [handle[t] EXCEPT !.busy = b] \in Instance
      /\ [handle[t] EXCEPT !.ticks = b] \in Instance
      /\ [handle[t] EXCEPT !.paused = b] \in Instance
      /\ [handle[t] EXCEPT !.busy = TRUE, !.ticks = b] \in Instance
      /\ NoHandle \in Instance
      /\ [NoHandle EXCEPT !.on = TRUE, !.ticks = b, !.errs = n] \in Instance
  BY <1>1 DEF Instance, NoHandle
<1> QED BY <1>1, <1>2

LEMMA Documents ==
  ASSUME TypeOK, NEW t \in Tasks, NEW s \in Statuses \union {"deleted"}, NEW n \in Nat
  PROVE  /\ [doc EXCEPT ![t].status = s] \in [Tasks -> Doc]
         /\ [doc EXCEPT ![t].runs = n] \in [Tasks -> Doc]
         /\ [doc EXCEPT ![t].errs = n] \in [Tasks -> Doc]
<1>1. doc[t] \in Doc /\ doc \in [Tasks -> Doc]
  BY DEF TypeOK
<1>2. /\ [doc[t] EXCEPT !.status = s] \in Doc
      /\ [doc[t] EXCEPT !.runs = n] \in Doc
      /\ [doc[t] EXCEPT !.errs = n] \in Doc
  BY <1>1 DEF Doc
<1> QED BY <1>1, <1>2

LEMMA StatusSet ==
  ASSUME TypeOK, NEW t \in Tasks, NEW s \in Statuses, SetStatus(t, s)
  PROVE  doc' \in [Tasks -> Doc]
<1>1. doc \in [Tasks -> Doc] /\ 0 \in Nat
  BY DEF TypeOK
<1> QED BY <1>1, Documents DEF SetStatus

\* An execution under way moves.
LEMMA Moved ==
  ASSUME TypeOK, NEW e \in Execs, exec[e].pc \notin Resting,
         NEW pc \in {"handler", "winRun", "winJob", "nextRun", "notifyWin", "complete",
                     "deactivate", "loseRun", "loseJob", "pause", "pauseDeactivate",
                     "notifyLoss", "done"},
         Goto(e, pc)
  PROVE  ExecsTyped'
<1>1. exec[e] \in Exec /\ exec \in [Execs -> Exec] /\ exec[e].task \in Tasks
  BY DEF TypeOK, Resting
<1> DEFINE x == [exec[e] EXCEPT !.pc = pc]
<1>2. x \in Exec /\ x.task = exec[e].task
  BY <1>1 DEF Exec
<1>3. exec' = [exec EXCEPT ![e] = x]
  BY <1>1 DEF Goto
<1> HIDE DEF x
<1> QED BY <1>1, <1>2, <1>3 DEF ExecsTyped, TypeOK, Resting

LEMMA Left ==
  ASSUME TypeOK, NEW e \in Execs, exec[e].pc \notin Resting, Leave(e)
  PROVE  ExecsTyped' /\ handle' \in [Tasks -> Instance]
<1>1. handle \in [Tasks -> Instance] /\ exec[e].task \in Tasks /\ 0 \in Nat
  BY DEF TypeOK, Resting
<1> QED BY <1>1, Moved, Instances DEF Leave

LEMMA Started ==
  ASSUME TypeOK, NEW t \in Tasks, NEW by \in {"timer", "manual", "boot"}, Start(t, by)
  PROVE  ExecsTyped'
<1>1. PICK e \in Execs :
        exec' = [exec EXCEPT ![e] = [Idle EXCEPT !.pc = "read", !.task = t, !.by = by,
                                       !.own = (by # "boot"), !.armed = handle[t].errs]]
  BY DEF Start
<1> DEFINE n == handle[t].errs
           own == (by # "boot")
           x == [Idle EXCEPT !.pc = "read", !.task = t, !.by = by, !.own = own, !.armed = n]
<1>2. n \in Nat /\ own \in BOOLEAN
  BY DEF TypeOK, Instance
<1>3. x \in Exec /\ x.task = t
  <2> HIDE DEF n, own
  <2> QED BY <1>2 DEF Exec, Idle
<1>4. exec' = [exec EXCEPT ![e] = x]
  BY <1>1
<1> HIDE DEF x
<1> QED BY <1>3, <1>4 DEF ExecsTyped, TypeOK, Resting

\* stop() only takes the instance from its executions.
LEMMA StopTyped ==
  ASSUME TypeOK, NEW t \in Tasks, Stopped(t)
  PROVE  ExecsTyped' /\ handle' \in [Tasks -> Instance]
<1>1. handle' \in [Tasks -> Instance]
  <2>1. 0 \in Nat /\ TRUE \in BOOLEAN
    OBVIOUS
  <2> QED BY <2>1, Instances DEF Stopped
<1>2. ASSUME NEW e \in Execs
      PROVE  exec'[e] \in Exec /\ exec'[e].pc = exec[e].pc /\ exec'[e].task = exec[e].task
  <2>1. exec[e] \in Exec
    BY DEF TypeOK
  <2>2. [exec[e] EXCEPT !.own = FALSE] \in Exec
    BY <2>1 DEF Exec
  <2> QED BY <2>1, <2>2 DEF Stopped, Exec
<1>3. ExecsTyped'
  <2>1. exec' = [e \in Execs |-> exec'[e]]
    BY DEF Stopped
  <2> QED BY <1>2, <2>1 DEF ExecsTyped, TypeOK, Resting
<1> QED BY <1>1, <1>3

\* A call that is given another record.
LEMMA CallSet ==
  ASSUME TypeOK, NEW c \in Callers, NEW x \in Call, x.pc # "idle" => x.task \in Tasks,
         call' = [call EXCEPT ![c] = x]
  PROVE  CallsTyped'
  BY DEF TypeOK, CallsTyped

LEMMA CallMoved ==
  ASSUME TypeOK, NEW c \in Callers, call[c].pc # "idle",
         NEW pc \in {"stop", "build", "next", "autopause", "catchup"},
         call' = [call EXCEPT ![c].pc = pc]
  PROVE  CallsTyped'
<1> DEFINE x == [call[c] EXCEPT !.pc = pc]
<1>1. call[c] \in Call /\ call \in [Callers -> Call] /\ call[c].task \in Tasks
  BY DEF TypeOK
<1>2. x \in Call /\ x.task = call[c].task
  BY <1>1 DEF Call
<1>3. call' = [call EXCEPT ![c] = x]
  BY <1>1
<1> HIDE DEF x
<1> QED BY <1>1, <1>2, <1>3, CallSet

LEMMA CallOver ==
  ASSUME TypeOK, NEW c \in Callers, call' = [call EXCEPT ![c] = NoCall]
  PROVE  CallsTyped'
<1>1. NoCall \in Call /\ NoCall.pc = "idle"
  BY DEF NoCall, Call
<1> QED BY <1>1, CallSet

LEMMA Activated ==
  ASSUME TypeOK, NEW c \in Callers, call[c].pc # "idle", AfterActivate(c)
  PROVE  CallsTyped'
<1>1. CASE call[c].kind = "catchup"
  <2>1. call' = [call EXCEPT ![c].pc = "catchup"]
    BY <1>1 DEF AfterActivate, TypeOK
  <2> QED BY <2>1, CallMoved
<1>2. CASE call[c].kind # "catchup"
  <2>1. call' = [call EXCEPT ![c] = NoCall]
    BY <1>2 DEF AfterActivate, TypeOK
  <2> QED BY <2>1, CallOver
<1> QED BY <1>1, <1>2

LEMMA Begun ==
  ASSUME TypeOK, NEW c \in Clients, NEW t \in Tasks,
         NEW kind \in {"create", "pause", "resume", "update", "delete"},
         NEW pc \in {"stop", "pauseWrite", "patch", "remove"}, Begin(c, kind, t, pc)
  PROVE  CallsTyped'
<1> DEFINE x == [NoCall EXCEPT !.kind = kind, !.task = t, !.pc = pc, !.status = "active"]
<1>1. x \in Call /\ x.task = t
  BY DEF Call, NoCall, Statuses
<1>2. call' = [call EXCEPT ![c] = x] /\ c \in Callers
  BY DEF Begin, Callers
<1> HIDE DEF x
<1> QED BY <1>1, <1>2, CallSet

LEMMA BootCalled ==
  ASSUME TypeOK, NEW t \in Tasks, NEW kind \in {"boot", "catchup"}, BootActivate(t, kind)
  PROVE  CallsTyped'
<1> DEFINE s == doc[t].status
           n == doc[t].errs
           x == [pc |-> "stop", kind |-> kind, task |-> t, status |-> s, errs |-> n]
<1>1. s \in Statuses \union {"none", "deleted"} /\ n \in Nat
  BY DEF TypeOK, Doc
<1>2. x \in Call /\ x.task = t
  <2> HIDE DEF s, n
  <2> QED BY <1>1 DEF Call
<1>3. call' = [call EXCEPT !["boot"] = x] /\ "boot" \in Callers
  BY DEF BootActivate, Callers
<1> HIDE DEF x
<1> QED BY <1>2, <1>3, CallSet

\* The type invariant from its parts.
LEMMA Typed ==
  ASSUME ExecsTyped', CallsTyped', doc' \in [Tasks -> Doc], handle' \in [Tasks -> Instance],
         run' \in [Execs -> RunStatuses],
         past' \subseteq Tasks, todo' \subseteq Tasks, cleaning' \subseteq Tasks,
         mode' \in {"down", "reconciling", "booting", "up"},
         ops' \in Nat, crashes' \in Nat, faults' \in Nat,
         wins' \in [Tasks -> Nat], losses' \in [Tasks -> Nat], streak' \in [Tasks -> Nat],
         overlapped' \subseteq Tasks
  PROVE  TypeOK'
  BY DEF TypeOK, ExecsTyped, CallsTyped, Resting

-----------------------------------------------------------------------------
(* What the shared parts of actions do, entry by entry.                     *)

LEMMA LeaveEffect ==
  ASSUME TypeOK, NEW e \in Execs, exec[e].task \in Tasks, Leave(e)
  PROVE  /\ \A f \in Execs : /\ exec'[f].pc = IF f = e THEN "done" ELSE exec[f].pc
                             /\ exec'[f].task = exec[f].task
                             /\ exec'[f].runs = exec[f].runs /\ exec'[f].errs = exec[f].errs
                             /\ exec'[f].armed = exec[f].armed
         /\ \A u \in Tasks : handle'[u].on = handle[u].on /\ handle'[u].errs = handle[u].errs
<1>1. exec \in [Execs -> Exec] /\ handle \in [Tasks -> Instance]
  BY DEF TypeOK
<1>2. \A u \in Tasks : handle'[u].on = handle[u].on /\ handle'[u].errs = handle[u].errs
  BY <1>1 DEF Leave, Instance
<1> QED BY <1>1, <1>2 DEF Leave, Goto

LEMMA StartEffect ==
  ASSUME TypeOK, NEW t, NEW by, Start(t, by)
  PROVE  \E e \in Execs :
           /\ exec[e].pc = "idle" /\ exec'[e].pc = "read" /\ exec'[e].task = t
           /\ exec'[e].runs = 0 /\ exec'[e].errs = 0 /\ exec'[e].armed = handle[t].errs
           /\ \A f \in Execs : f # e => exec'[f] = exec[f]
  BY DEF TypeOK, Start, Idle

LEMMA StopEffect ==
  ASSUME TypeOK, NEW t \in Tasks, Stopped(t)
  PROVE  /\ \A f \in Execs : /\ exec'[f].pc = exec[f].pc /\ exec'[f].task = exec[f].task
                             /\ exec'[f].runs = exec[f].runs /\ exec'[f].errs = exec[f].errs
                             /\ exec'[f].armed = exec[f].armed
         /\ \A u \in Tasks : /\ handle'[u].on => handle[u].on
                             /\ handle'[u].errs = 0 \/ handle'[u].errs = handle[u].errs
<1>1. exec \in [Execs -> Exec] /\ handle \in [Tasks -> Instance]
  BY DEF TypeOK
<1>2. \A u \in Tasks : /\ handle'[u].on => handle[u].on
                       /\ handle'[u].errs = 0 \/ handle'[u].errs = handle[u].errs
  BY <1>1 DEF Stopped, NoHandle
<1>3. ASSUME NEW f \in Execs
      PROVE  /\ exec'[f].pc = exec[f].pc /\ exec'[f].task = exec[f].task
             /\ exec'[f].runs = exec[f].runs /\ exec'[f].errs = exec[f].errs
             /\ exec'[f].armed = exec[f].armed
  <2>1. exec'[f] = exec[f] \/ exec'[f] = [exec[f] EXCEPT !.own = FALSE]
    BY DEF Stopped
  <2> QED BY <1>1, <2>1 DEF Exec
<1> QED BY <1>2, <1>3

LEMMA AfterEffect ==
  ASSUME TypeOK, NEW c \in Callers, AfterActivate(c)
  PROVE  /\ \A d \in Callers : d # c => call'[d] = call[d]
         /\ call'[c].pc \in {"idle", "catchup"}
         /\ call'[c].pc # "idle" => call'[c].task = call[c].task /\ call'[c].errs = call[c].errs
<1>1. call \in [Callers -> Call]
  BY DEF TypeOK
<1> QED BY <1>1 DEF AfterActivate, NoCall, Call

\* The status of a document is all that SetStatus changes.
LEMMA StatusEffect ==
  ASSUME TypeOK, NEW t \in Tasks, NEW s, SetStatus(t, s)
  PROVE  \A u \in Tasks :
           /\ doc'[u].status = IF u = t /\ Exists(t) THEN s ELSE doc[u].status
           /\ doc'[u].runs = doc[u].runs /\ doc'[u].errs = doc[u].errs
           /\ doc'[u].kind = doc[u].kind
<1>1. doc \in [Tasks -> Doc]
  BY DEF TypeOK
<1> QED BY <1>1 DEF SetStatus, Doc

-----------------------------------------------------------------------------
(* Facts about one state.                                                   *)

LEMMA Numbers ==
  ASSUME TypeOK
  PROVE  /\ \A t \in Tasks : /\ doc[t].runs \in Nat /\ doc[t].errs \in Nat
                             /\ handle[t].errs \in Nat
                             /\ wins[t] \in Nat /\ losses[t] \in Nat
         /\ \A e \in Execs : /\ exec[e].runs \in Nat /\ exec[e].errs \in Nat
                             /\ exec[e].armed \in Nat
         /\ \A c \in Callers : call[c].errs \in Nat
  BY DEF TypeOK, Doc, Instance, Exec, Call

LEMMA Existing ==
  ASSUME TypeOK
  PROVE  \A t \in Tasks : Exists(t) <=> doc[t].status \notin {"none", "deleted"}
  BY DEF TypeOK, Doc, Exists, Statuses

\* Who pauses, or deactivates, goes on doing so.
LEMMA StillPaused ==
  /\ (\A e \in Execs : exec[e].pc = "pause" =>
        exec'[e].pc = "pause" /\ exec'[e].task = exec[e].task) =>
       \A t : ExecPauses(t) => ExecPauses(t)'
  /\ UNCHANGED call => \A t : CallPauses(t) => CallPauses(t)'
  BY DEF ExecPauses, CallPauses

LEMMA OtherCallers ==
  ASSUME NEW c \in Callers, \A d \in Callers : d # c => call'[d] = call[d],
         call[c].pc \notin {"stop", "build", "autopause"}
  PROVE  \A t : CallPauses(t) => CallPauses(t)'
  BY DEF CallPauses

LEMMA StillDeactivated ==
  (\A e \in Execs : exec[e].pc \in {"deactivate", "pauseDeactivate"} =>
     exec'[e].pc \in {"deactivate", "pauseDeactivate"} /\ exec'[e].task = exec[e].task) =>
    \A t : Deactivates(t) => Deactivates(t)'
  BY DEF Deactivates

LEMMA FireTimerStep ==
  ASSUME IInv, NEW t \in Tasks, FireTimer(t)
  PROVE  IInv'
<1>1. \A u \in Tasks : handle'[u].on = handle[u].on /\ handle'[u].errs = handle[u].errs
  BY DEF IInv, FireTimer, TypeOK, Instance
<1>2. \/ UNCHANGED exec
      \/ \E e \in Execs :
           /\ exec[e].pc = "idle" /\ exec'[e].pc = "read" /\ exec'[e].task = t
           /\ exec'[e].runs = 0 /\ exec'[e].errs = 0 /\ exec'[e].armed = handle[t].errs
           /\ \A f \in Execs : f # e => exec'[f] = exec[f]
  BY StartEffect DEF IInv, FireTimer
<1>3. TypeOK'
  <2>1. ExecsTyped'
    BY Started DEF IInv, FireTimer, TypeOK, ExecsTyped, Resting
  <2>2. handle' \in [Tasks -> Instance]
    <3> DEFINE again == (doc[t].kind = "recurring")
    <3>1. again \in BOOLEAN /\ 0 \in Nat
      OBVIOUS
    <3>2. \/ handle' = [handle EXCEPT ![t].busy = TRUE, ![t].ticks = again]
          \/ handle' = [handle EXCEPT ![t].ticks = again]
      BY DEF FireTimer
    <3>3. /\ [handle EXCEPT ![t].busy = TRUE, ![t].ticks = again] \in [Tasks -> Instance]
          /\ [handle EXCEPT ![t].ticks = again] \in [Tasks -> Instance]
      <4> HIDE DEF again
      <4> QED BY <3>1, Instances DEF IInv
    <3> QED BY <3>2, <3>3
  <2> QED BY <2>1, <2>2, Typed DEF IInv, TypeOK, CallsTyped, FireTimer, history
<1>4. ProcessInv'
  BY SchedulerBounds, <1>1, <1>2 DEF IInv, ProcessInv, Alive, FireTimer
<1>5. BornInv'
  BY SchedulerBounds, <1>1, <1>2 DEF IInv, BornInv, Alive, FireTimer
<1>6. RunInv'
  BY <1>1, <1>2 DEF IInv, RunInv, FireTimer
<1>7. RunsSettle'
  BY <1>1, <1>2 DEF IInv, RunsSettle, FireTimer
<1>8. CountsBounded'
  BY Numbers, <1>1, <1>2 DEF IInv, CountsBounded, FireTimer, Alive, history
<1>9. CountsExact'
  BY Numbers, Existing, <1>1, <1>2 DEF IInv, CountsExact, Working, FireTimer, history
<1>10. FailInv'
  BY SchedulerBounds, StillPaused, Numbers, <1>1, <1>2 DEF IInv, FailInv, FireTimer
<1>11. BootInv'
  <2>1. handle[t].on /\ UNCHANGED <<doc, call, mode, todo>>
    BY DEF FireTimer
  <2>2. \A u : Deactivates(u) => Deactivates(u)'
    BY <1>2, StillDeactivated
  <2>3. \A u \in Tasks : Untouched(u) => Untouched(u)'
    BY <1>1, <1>2, <2>1 DEF Untouched
  <2>4. "boot" \in Callers /\ (call["boot"].pc # "idle" => call["boot"].task \in Tasks)
    BY DEF IInv, TypeOK, Callers
  <2> QED BY <1>1, <2>1, <2>2, <2>3, <2>4 DEF IInv, BootInv, TypeOK
<1> QED BY <1>3, <1>4, <1>5, <1>6, <1>7, <1>8, <1>9, <1>10, <1>11 DEF IInv

LEMMA TriggerStep ==
  ASSUME IInv, NEW t \in Tasks, Trigger(t)
  PROVE  IInv'
<1>1. TypeOK'
  <2>1. ExecsTyped'
    BY Started DEF IInv, Trigger
  <2>2. handle' \in [Tasks -> Instance]
    BY Instances DEF IInv, Trigger
  <2> QED BY <2>1, <2>2, Typed DEF IInv, TypeOK, CallsTyped, Trigger, history, CountOp
<1>2. ProcessInv'
  BY SchedulerBounds DEF IInv, ProcessInv, Alive, Trigger
<1>3. BornInv'
  BY SchedulerBounds DEF IInv, BornInv, Trigger, Start
<1>4. RunInv'
  BY DEF IInv, RunInv, Trigger, Start
<1>5. RunsSettle'
  BY DEF IInv, RunsSettle, ProcessInv, Trigger, Start
<1>6. CountsBounded'
  BY Numbers DEF IInv, CountsBounded, Trigger, Start, Idle, history
<1>7. CountsExact'
  BY Numbers, Existing DEF IInv, CountsExact, Working, Trigger, Start, history
<1>8. FailInv'
  BY SchedulerBounds, StillPaused, Numbers DEF IInv, FailInv, Alive, Trigger, Start
<1>9. BootInv'
  BY SchedulerBounds, StillDeactivated DEF BootInv, Trigger
<1> QED BY <1>1, <1>2, <1>3, <1>4, <1>5, <1>6, <1>7, <1>8, <1>9 DEF IInv

LEMMA CleanupScanStep ==
  ASSUME IInv, NEW t \in Tasks, CleanupScan(t)
  PROVE  IInv'
<1>1. TypeOK'
  <2> QED BY Typed DEF IInv, TypeOK, CleanupScan, history, CountOp
<1>2. ProcessInv'
  BY SchedulerBounds DEF IInv, ProcessInv, Alive, CleanupScan
<1>3. BornInv'
  BY SchedulerBounds DEF IInv, BornInv, CleanupScan
<1>4. RunInv'
  BY DEF IInv, RunInv, CleanupScan
<1>5. RunsSettle'
  BY DEF IInv, RunsSettle, Alive, CleanupScan
<1>6. CountsBounded'
  BY Numbers DEF IInv, CountsBounded, CleanupScan, history
<1>7. CountsExact'
  BY Numbers, Existing DEF IInv, CountsExact, Working, CleanupScan, history
<1>8. FailInv'
  BY SchedulerBounds, StillPaused, Numbers DEF IInv, FailInv, Alive, CleanupScan
<1>9. BootInv'
  BY SchedulerBounds, StillDeactivated DEF BootInv, CleanupScan
<1> QED BY <1>1, <1>2, <1>3, <1>4, <1>5, <1>6, <1>7, <1>8, <1>9 DEF IInv

LEMMA CleanupCancelStep ==
  ASSUME IInv, NEW t \in Tasks, CleanupCancel(t)
  PROVE  IInv'
<1>1. \A u \in Tasks :
        /\ doc'[u].status = IF u = t /\ Exists(u) THEN "cancelled" ELSE doc[u].status
        /\ doc'[u].runs = doc[u].runs /\ doc'[u].errs = doc[u].errs
  BY StatusEffect DEF IInv, CleanupCancel
<1>2. TypeOK'
  <2>1. doc' \in [Tasks -> Doc]
    BY StatusSet DEF IInv, CleanupCancel, Statuses
  <2> QED BY <2>1, Typed DEF IInv, TypeOK, CleanupCancel, history
<1>3. ProcessInv'
  BY SchedulerBounds, <1>1 DEF IInv, ProcessInv, Alive, CleanupCancel
<1>4. BornInv'
  BY SchedulerBounds, <1>1 DEF IInv, BornInv, CleanupCancel
<1>5. RunInv'
  BY <1>1 DEF IInv, RunInv, CleanupCancel
<1>6. RunsSettle'
  BY <1>1 DEF IInv, RunsSettle, Alive, CleanupCancel
<1>7. CountsBounded'
  BY Numbers, <1>1 DEF IInv, CountsBounded, CleanupCancel, history
<1>8. CountsExact'
  BY Numbers, Existing, <1>1 DEF IInv, CountsExact, Working, CleanupCancel, history
<1>9. FailInv'
  BY SchedulerBounds, StillPaused, Numbers, <1>1 DEF IInv, FailInv, Alive, CleanupCancel
<1>10. BootInv'
  BY SchedulerBounds, StillDeactivated, <1>1 DEF IInv, BootInv, ProcessInv, CleanupCancel
<1> QED BY <1>2, <1>3, <1>4, <1>5, <1>6, <1>7, <1>8, <1>9, <1>10 DEF IInv

LEMMA TimePassesStep ==
  ASSUME IInv, NEW t \in Tasks, TimePasses(t)
  PROVE  IInv'
<1>1. TypeOK'
  <2> QED BY Typed DEF IInv, TypeOK, TimePasses, history
<1>2. ProcessInv'
  BY SchedulerBounds DEF IInv, ProcessInv, Alive, TimePasses
<1>3. BornInv'
  BY SchedulerBounds DEF IInv, BornInv, TimePasses
<1>4. RunInv'
  BY DEF IInv, RunInv, TimePasses
<1>5. RunsSettle'
  BY DEF RunsSettle, Alive, TimePasses
<1>6. CountsBounded'
  BY Numbers DEF IInv, CountsBounded, TimePasses, history
<1>7. CountsExact'
  BY Numbers, Existing DEF IInv, CountsExact, Working, TimePasses, history
<1>8. FailInv'
  BY SchedulerBounds, StillPaused, Numbers DEF FailInv, Alive, TimePasses
<1>9. BootInv'
  BY SchedulerBounds, StillDeactivated DEF BootInv, TimePasses
<1> QED BY <1>1, <1>2, <1>3, <1>4, <1>5, <1>6, <1>7, <1>8, <1>9 DEF IInv

LEMMA ReadTaskStep ==
  ASSUME IInv, NEW e \in Execs, ReadTask(e)
  PROVE  IInv'
<1>1. exec[e].task \in Tasks /\ exec \in [Execs -> Exec]
  BY DEF IInv, ReadTask, TypeOK
<1>2. \A f \in Execs : f # e => exec'[f] = exec[f]
  BY <1>1 DEF ReadTask, Leave, Goto
<1>3. \A u \in Tasks : handle'[u].on = handle[u].on /\ handle'[u].errs = handle[u].errs
  BY <1>1, LeaveEffect DEF IInv, ReadTask
<1>4. /\ exec'[e].task = exec[e].task /\ exec'[e].armed = exec[e].armed
      /\ \/ /\ Exists(exec[e].task) /\ exec'[e].pc = "handler"
            /\ exec'[e].runs = doc[exec[e].task].runs /\ exec'[e].errs = doc[exec[e].task].errs
            /\ run' = [run EXCEPT ![e] = "running"]
            /\ overlapped' = IF Of(exec[e].task) # {e} THEN overlapped \union {exec[e].task}
                             ELSE overlapped
         \/ /\ exec'[e].pc = "done" /\ exec'[e].runs = exec[e].runs
            /\ exec'[e].errs = exec[e].errs /\ UNCHANGED <<run, overlapped>>
  BY <1>1, LeaveEffect DEF IInv, ReadTask, Exec
<1>5. TypeOK'
  <2>1. ExecsTyped' /\ handle' \in [Tasks -> Instance]
    <3>1. CASE Leave(e)
      BY <3>1, Left DEF IInv, ReadTask, Resting
    <3>2. CASE ~Leave(e)
      <4> DEFINE x == [exec[e] EXCEPT !.pc = "handler", !.runs = doc[exec[e].task].runs,
                                      !.errs = doc[exec[e].task].errs]
      <4>1. exec' = [exec EXCEPT ![e] = x] /\ UNCHANGED handle
        BY <1>1, <3>2 DEF ReadTask
      <4>2. x \in Exec /\ x.task = exec[e].task
        <5>1. exec[e] \in Exec /\ doc[exec[e].task] \in Doc
          BY <1>1 DEF IInv, TypeOK
        <5> QED BY <5>1 DEF Exec, Doc
      <4> HIDE DEF x
      <4> QED BY <1>1, <4>1, <4>2 DEF IInv, ExecsTyped, TypeOK, Resting
    <3> QED BY <3>1, <3>2
  <2>2. run' \in [Execs -> RunStatuses] /\ overlapped' \subseteq Tasks
    BY <1>1 DEF IInv, ReadTask, TypeOK, RunStatuses
  <2> QED BY <2>1, <2>2, Typed DEF IInv, TypeOK, CallsTyped, ReadTask
<1>6. ProcessInv'
  BY SchedulerBounds, <1>1, <1>2, <1>3, <1>4 DEF IInv, ProcessInv, Alive, Resting, ReadTask
<1>7. BornInv'
  BY SchedulerBounds, <1>1, <1>2, <1>3, <1>4 DEF IInv, BornInv, ReadTask
<1>8. RunInv'
  BY <1>1, <1>2, <1>3, <1>4 DEF IInv, RunInv, TypeOK, ReadTask
<1>9. RunsSettle'
  BY <1>1, <1>2, <1>3, <1>4 DEF IInv, RunsSettle, TypeOK, ProcessInv, Resting, ReadTask
<1>10. CountsBounded'
  BY Numbers, <1>1, <1>2, <1>3, <1>4 DEF IInv, CountsBounded, Resting, ReadTask, Of
<1>11. CountsExact'
  <2>1. ASSUME exec'[e].pc = "handler", exec[e].task \notin overlapped'
        PROVE  \A f \in Execs : f # e => ~Working(f, exec[e].task)
    <3>1. e \in Of(exec[e].task) /\ Of(exec[e].task) = {e}
      BY <1>1, <1>4, <2>1
    <3>2. ASSUME NEW f \in Execs, Working(f, exec[e].task) PROVE f = e
      BY <3>1, <3>2 DEF Of, Working, Resting
    <3> QED BY <3>2
<2> QED BY <1>1, <1>2, <1>4, <2>1, Numbers, Existing DEF IInv, CountsExact, Working, Resting,
      ReadTask
<1>12. FailInv'
BY SchedulerBounds, StillPaused, Numbers, <1>1, <1>2, <1>3, <1>4 DEF IInv, FailInv, Alive,
     ReadTask
<1>13. BootInv'
BY SchedulerBounds, StillDeactivated, <1>1, <1>2, <1>3, <1>4 DEF IInv, BootInv, Untouched,
     TypeOK, Resting, Callers, Alive, ReadTask
<1> QED BY <1>5, <1>6, <1>7, <1>8, <1>9, <1>10, <1>11, <1>12, <1>13 DEF IInv

LEMMA HandleStep ==
  ASSUME IInv, NEW e \in Execs, Handle(e)
  PROVE  IInv'
<1>1. TypeOK'
  <2>1. ExecsTyped'
    BY Moved DEF Handle, Resting, IInv
  <2> QED BY <2>1, Typed DEF IInv, TypeOK, CallsTyped, Handle, history
<1>2. ProcessInv'
  BY SchedulerBounds DEF IInv, ProcessInv, Alive, Resting, Handle
<1>3. BornInv'
  BY SchedulerBounds DEF IInv, BornInv, Handle, Goto
<1>4. RunInv'
  BY DEF IInv, RunInv, Handle, Goto
<1>5. RunsSettle'
  BY DEF IInv, RunsSettle, ProcessInv, Resting, Handle, Goto
<1>6. CountsBounded'
  BY Numbers DEF IInv, CountsBounded, Resting, Handle, Goto, history
<1>7. CountsExact'
  BY Numbers, Existing DEF IInv, CountsExact, Working, Resting, Handle, Goto, history
<1>8. FailInv'
  BY SchedulerBounds, StillPaused, Numbers DEF IInv, FailInv, Alive, Handle, Goto
<1>9. BootInv'
  BY SchedulerBounds, StillDeactivated DEF IInv, BootInv, Untouched, Resting, Handle, Goto
<1> QED BY <1>1, <1>2, <1>3, <1>4, <1>5, <1>6, <1>7, <1>8, <1>9 DEF IInv

LEMMA WinRunStep ==
  ASSUME IInv, NEW e \in Execs, WinRun(e)
  PROVE  IInv'
<1>1. TypeOK'
  <2>1. ExecsTyped'
    BY Moved DEF WinRun, Resting, IInv
  <2> QED BY <2>1, Typed DEF IInv, TypeOK, CallsTyped, WinRun, history, RunStatuses
<1>2. ProcessInv'
  BY SchedulerBounds DEF IInv, ProcessInv, Alive, Resting, WinRun
<1>3. BornInv'
  BY SchedulerBounds DEF IInv, BornInv, WinRun, Goto
<1>4. RunInv'
  BY DEF IInv, RunInv, TypeOK, WinRun, Goto
<1>5. RunsSettle'
  BY DEF IInv, RunsSettle, TypeOK, ProcessInv, Resting, WinRun, Goto
<1>6. CountsBounded'
  BY Numbers DEF IInv, CountsBounded, Resting, WinRun, Goto, history
<1>7. CountsExact'
  BY Numbers, Existing DEF IInv, CountsExact, Working, Resting, WinRun, Goto, history
<1>8. FailInv'
  BY SchedulerBounds, StillPaused, Numbers DEF IInv, FailInv, Alive, WinRun, Goto
<1>9. BootInv'
  BY SchedulerBounds, StillDeactivated DEF IInv, BootInv, Untouched, Resting, WinRun, Goto
<1> QED BY <1>1, <1>2, <1>3, <1>4, <1>5, <1>6, <1>7, <1>8, <1>9 DEF IInv

LEMMA WinJobStep ==
  ASSUME IInv, NEW e \in Execs, WinJob(e)
  PROVE  IInv'
<1>1. exec[e].task \in Tasks /\ doc \in [Tasks -> Doc]
  BY DEF IInv, WinJob, TypeOK, Resting
<1>2. \A u \in Tasks :
        /\ doc'[u].status = doc[u].status /\ doc'[u].errs = doc[u].errs
        /\ doc'[u].runs = IF u = exec[e].task /\ Exists(u) THEN exec[e].runs + 1 ELSE doc[u].runs
        /\ wins'[u] = IF u = exec[e].task THEN wins[u] + 1 ELSE wins[u]
  BY <1>1 DEF IInv, WinJob, TypeOK
<1>3. \A f \in Execs : /\ exec'[f].pc = IF f = e THEN "nextRun" ELSE exec[f].pc
                       /\ exec'[f].task = exec[f].task
                       /\ exec'[f].runs = exec[f].runs /\ exec'[f].errs = exec[f].errs
                       /\ exec'[f].armed = exec[f].armed
  BY DEF IInv, WinJob, Goto, TypeOK, Exec
<1>4. TypeOK'
  <2>1. ExecsTyped'
    BY Moved DEF WinJob, Resting, IInv
  <2>2. doc' \in [Tasks -> Doc]
    <3>1. exec[e].task \in Tasks /\ exec[e].runs + 1 \in Nat /\ doc \in [Tasks -> Doc]
      BY Numbers DEF IInv, TypeOK, WinJob
    <3>2. [doc EXCEPT ![exec[e].task].runs = exec[e].runs + 1] \in [Tasks -> Doc]
      BY <3>1, Documents DEF IInv, Statuses
    <3> QED BY <3>1, <3>2 DEF WinJob
  <2>3. wins' \in [Tasks -> Nat] /\ streak' \in [Tasks -> Nat]
    BY DEF IInv, WinJob, TypeOK, Resting
  <2> QED BY <2>1, <2>2, <2>3, Typed DEF IInv, TypeOK, CallsTyped, WinJob
<1>5. ProcessInv'
  BY SchedulerBounds, <1>1, <1>2, <1>3 DEF IInv, ProcessInv, Alive, Resting, WinJob
<1>6. BornInv'
  BY SchedulerBounds, <1>1, <1>2, <1>3 DEF IInv, BornInv, WinJob
<1>7. RunInv'
  BY <1>1, <1>2, <1>3 DEF IInv, RunInv, WinJob
<1>8. RunsSettle'
  BY <1>1, <1>2, <1>3 DEF IInv, RunsSettle, ProcessInv, Resting, WinJob
<1>9. CountsBounded'
  BY Numbers, <1>1, <1>2, <1>3 DEF IInv, CountsBounded, Resting, WinJob, Exists
<1>10. CountsExact'
  <2> SUFFICES ASSUME NEW t \in Tasks \ overlapped'
               PROVE  /\ doc'[t].status # "deleted" => doc'[t].runs = wins'[t] /\ doc'[t].errs = losses'[t]
                      /\ \A f, g \in Execs : Working(f, t)' /\ Working(g, t)' => f = g
                      /\ \A f \in Execs : exec'[f].task = t =>
                           /\ exec'[f].pc \in {"handler", "winRun", "winJob"} => exec'[f].runs = doc'[t].runs
                           /\ exec'[f].pc \in {"handler", "winRun", "winJob", "nextRun", "notifyWin",
                                               "loseRun", "loseJob"} => exec'[f].errs = doc'[t].errs
    BY DEF CountsExact
  <2>1. exec[e].task = t => exec[e].pc = "winJob" /\ Working(e, t) /\ doc[t].status # "none"
    BY DEF WinJob, Working, Resting, IInv, BornInv
  <2>2. \A f \in Execs : Working(f, t)' => Working(f, t)
    BY <1>1, <1>2, <1>3 DEF WinJob, Working, Resting
  <2>3. t \in Tasks \ overlapped /\ UNCHANGED losses
    BY DEF WinJob
  <2>4. \A f \in Execs : exec[e].task = t /\ Working(f, t) => f = e
    BY <2>1, <2>3 DEF IInv, CountsExact
  <2>5. doc'[t].status # "deleted" => doc'[t].runs = wins'[t] /\ doc'[t].errs = losses'[t]
    BY <1>1, <1>2, <1>3, <2>1, <2>3, Numbers, Existing DEF IInv, CountsExact
  <2>6. \A f, g \in Execs : Working(f, t)' /\ Working(g, t)' => f = g
    BY <2>2, <2>3 DEF IInv, CountsExact
  <2>7. ASSUME NEW f \in Execs, exec'[f].task = t
        PROVE  /\ exec'[f].pc \in {"handler", "winRun", "winJob"} => exec'[f].runs = doc'[t].runs
               /\ exec'[f].pc \in {"handler", "winRun", "winJob", "nextRun", "notifyWin",
                                   "loseRun", "loseJob"} => exec'[f].errs = doc'[t].errs
    <3>1. CASE exec[e].task = t
BY <1>1, <1>2, <1>3, <2>1, <2>2, <2>3, <2>4, <2>7, <3>1 DEF IInv, CountsExact, Working, Resting
    <3>2. CASE exec[e].task # t
      BY <1>1, <1>2, <1>3, <2>3, <2>7, <3>2 DEF IInv, CountsExact
    <3> QED BY <3>1, <3>2
  <2> QED BY <2>5, <2>6, <2>7
<1>11. FailInv'
  BY SchedulerBounds, StillPaused, Numbers, <1>1, <1>2, <1>3 DEF IInv, FailInv, Alive, WinJob
<1>12. BootInv'
BY SchedulerBounds, StillDeactivated, <1>1, <1>2, <1>3 DEF IInv, BootInv, Untouched, Resting,
     Callers, ProcessInv, Alive, WinJob
<1> QED BY <1>4, <1>5, <1>6, <1>7, <1>8, <1>9, <1>10, <1>11, <1>12 DEF IInv

LEMMA WriteNextStep ==
  ASSUME IInv, NEW e \in Execs, WriteNext(e)
  PROVE  IInv'
<1>1. TypeOK'
  <2>1. ExecsTyped'
    BY Moved DEF WriteNext, Resting, IInv
  <2> QED BY <2>1, Typed DEF IInv, TypeOK, CallsTyped, WriteNext, history
<1>2. ProcessInv'
  BY SchedulerBounds DEF IInv, ProcessInv, Alive, Resting, WriteNext
<1>3. BornInv'
  BY SchedulerBounds DEF IInv, BornInv, WriteNext, Goto
<1>4. RunInv'
  BY DEF IInv, RunInv, WriteNext, Goto
<1>5. RunsSettle'
  BY DEF IInv, RunsSettle, ProcessInv, Resting, WriteNext, Goto
<1>6. CountsBounded'
  BY Numbers DEF IInv, CountsBounded, Resting, WriteNext, Goto, history
<1>7. CountsExact'
  BY Numbers, Existing DEF IInv, CountsExact, Working, Resting, WriteNext, Goto, history
<1>8. FailInv'
  BY SchedulerBounds, StillPaused, Numbers DEF IInv, FailInv, Alive, WriteNext, Goto
<1>9. BootInv'
  BY SchedulerBounds, StillDeactivated DEF IInv, BootInv, Untouched, Resting, WriteNext, Goto
<1> QED BY <1>1, <1>2, <1>3, <1>4, <1>5, <1>6, <1>7, <1>8, <1>9 DEF IInv

LEMMA NotifyWinStep ==
  ASSUME IInv, NEW e \in Execs, NotifyWin(e)
  PROVE  IInv'
<1>1. /\ \A f \in Execs : /\ f # e => exec'[f].pc = exec[f].pc
                          /\ exec'[f].task = exec[f].task
                          /\ exec'[f].runs = exec[f].runs /\ exec'[f].errs = exec[f].errs
                          /\ exec'[f].armed = exec[f].armed
      /\ exec'[e].pc \in {"complete", "done"}
      /\ \A u \in Tasks : handle'[u].on = handle[u].on /\ handle'[u].errs = handle[u].errs
  <2>1. exec[e].task \in Tasks /\ exec \in [Execs -> Exec]
    BY DEF IInv, NotifyWin, TypeOK, Resting
  <2>2. CASE Leave(e)
    BY <2>1, <2>2, LeaveEffect DEF IInv
  <2>3. CASE Goto(e, "complete") /\ UNCHANGED handle
    BY <2>1, <2>3 DEF Goto, Exec
  <2> QED BY <2>2, <2>3 DEF NotifyWin
<1>2. TypeOK'
  <2>1. ExecsTyped' /\ handle' \in [Tasks -> Instance]
    BY Moved, Left DEF IInv, NotifyWin, TypeOK, Resting
  <2> QED BY <2>1, Typed DEF IInv, TypeOK, CallsTyped, NotifyWin, history
<1>3. ProcessInv'
  BY SchedulerBounds, <1>1 DEF IInv, ProcessInv, Alive, Resting, NotifyWin
<1>4. BornInv'
  BY SchedulerBounds, <1>1 DEF IInv, BornInv, NotifyWin
<1>5. RunInv'
  BY <1>1 DEF IInv, RunInv, NotifyWin
<1>6. RunsSettle'
  BY <1>1 DEF IInv, RunsSettle, ProcessInv, Resting, NotifyWin
<1>7. CountsBounded'
  BY Numbers, <1>1 DEF IInv, CountsBounded, Resting, NotifyWin, history
<1>8. CountsExact'
  BY Numbers, Existing, <1>1 DEF IInv, CountsExact, Working, Resting, Callers, NotifyWin, history
<1>9. FailInv'
  BY SchedulerBounds, StillPaused, Numbers, <1>1 DEF IInv, FailInv, Alive, NotifyWin
<1>10. BootInv'
BY SchedulerBounds, StillDeactivated, <1>1 DEF IInv, BootInv, Untouched, TypeOK, Resting,
     Callers, ProcessInv, Alive, NotifyWin
<1> QED BY <1>2, <1>3, <1>4, <1>5, <1>6, <1>7, <1>8, <1>9, <1>10 DEF IInv

LEMMA NotifyThrowsStep ==
  ASSUME IInv, NEW e \in Execs, NotifyThrows(e)
  PROVE  IInv'
<1>1. TypeOK'
  <2>1. ExecsTyped'
    BY Moved DEF NotifyThrows, Resting, IInv
  <2> QED BY <2>1, Typed DEF IInv, TypeOK, CallsTyped, NotifyThrows, history
<1>2. ProcessInv'
  BY SchedulerBounds DEF IInv, ProcessInv, Alive, Resting, NotifyThrows
<1>3. BornInv'
  BY SchedulerBounds DEF IInv, BornInv, NotifyThrows, Goto
<1>4. RunInv'
  BY DEF IInv, RunInv, TypeOK, NotifyThrows, Goto
<1>5. RunsSettle'
  BY DEF IInv, RunsSettle, ProcessInv, Resting, NotifyThrows, Goto
<1>6. CountsBounded'
  BY Numbers DEF IInv, CountsBounded, Resting, NotifyThrows, Goto, history
<1>7. CountsExact'
  BY Numbers, Existing DEF IInv, CountsExact, Working, Resting, NotifyThrows, Goto, history
<1>8. FailInv'
  BY SchedulerBounds, StillPaused, Numbers DEF IInv, FailInv, TypeOK, NotifyThrows
<1>9. BootInv'
  BY SchedulerBounds, StillDeactivated DEF IInv, BootInv, Untouched, Resting, NotifyThrows, Goto
<1> QED BY <1>1, <1>2, <1>3, <1>4, <1>5, <1>6, <1>7, <1>8, <1>9 DEF IInv

LEMMA CompleteOneShotStep ==
  ASSUME IInv, NEW e \in Execs, CompleteOneShot(e)
  PROVE  IInv'
<1>1. \A u \in Tasks :
        /\ doc'[u].status = IF u = exec[e].task /\ Exists(u) THEN "completed" ELSE doc[u].status
        /\ doc'[u].runs = doc[u].runs /\ doc'[u].errs = doc[u].errs
  BY StatusEffect DEF IInv, CompleteOneShot, TypeOK
<1>2. TypeOK'
  <2>1. ExecsTyped'
    BY Moved DEF IInv, CompleteOneShot, AfterComplete, Resting
  <2>2. doc' \in [Tasks -> Doc]
    BY StatusSet DEF IInv, CompleteOneShot, TypeOK, Statuses
  <2> QED BY <2>1, <2>2, Typed DEF IInv, TypeOK, CallsTyped, CompleteOneShot, history
<1>3. ProcessInv'
  BY SchedulerBounds, <1>1 DEF IInv, ProcessInv, Alive, Resting, CompleteOneShot
<1>4. BornInv'
  BY SchedulerBounds, <1>1 DEF IInv, BornInv, CompleteOneShot, Goto
<1>5. RunInv'
  BY <1>1 DEF IInv, RunInv, CompleteOneShot, Goto, AfterComplete
<1>6. RunsSettle'
  BY <1>1 DEF IInv, RunsSettle, ProcessInv, Resting, CompleteOneShot, Goto
<1>7. CountsBounded'
BY Numbers, <1>1 DEF IInv, CountsBounded, Resting, CompleteOneShot, Exists, Goto, AfterComplete,
     history
<1>8. CountsExact'
BY Numbers, Existing, <1>1 DEF IInv, CountsExact, Working, Resting, CompleteOneShot, Goto,
     AfterComplete, history
<1>9. FailInv'
  BY SchedulerBounds, StillPaused, Numbers, <1>1 DEF IInv, FailInv, Alive, CompleteOneShot, Goto
<1>10. BootInv'
  <2>1. /\ exec[e].pc = "complete" /\ exec[e].task \in Tasks
        /\ UNCHANGED <<call, mode, todo, handle>>
        /\ \A f \in Execs : f # e => exec'[f] = exec[f]
        /\ exec'[e].pc = "deactivate" /\ exec'[e].task = exec[e].task
    BY DEF IInv, TypeOK, Resting, CompleteOneShot, Goto, AfterComplete, Exec, history
  <2>2. \A u : Deactivates(u) => Deactivates(u)'
    BY <2>1, StillDeactivated
  <2>3. Deactivates(exec[e].task)'
    BY <2>1 DEF Deactivates
  <2>4. \A u \in Tasks : Untouched(u) => Untouched(u)' /\ u # exec[e].task
    BY <1>1, <2>1 DEF Untouched, Resting
  <2>5. "boot" \in Callers /\ (call["boot"].pc # "idle" => call["boot"].task \in Tasks)
    BY DEF IInv, TypeOK, Callers
  <2> QED BY <1>1, <2>1, <2>2, <2>3, <2>4, <2>5 DEF IInv, BootInv, TypeOK
<1> QED BY <1>2, <1>3, <1>4, <1>5, <1>6, <1>7, <1>8, <1>9, <1>10 DEF IInv

LEMMA LoseRunStep ==
  ASSUME IInv, NEW e \in Execs, LoseRun(e)
  PROVE  IInv'
<1>1. TypeOK'
  <2>1. ExecsTyped'
    BY Moved DEF LoseRun, Resting, IInv
  <2> QED BY <2>1, Typed DEF IInv, TypeOK, CallsTyped, LoseRun, history, RunStatuses
<1>2. ProcessInv'
  BY SchedulerBounds DEF IInv, ProcessInv, Alive, Resting, LoseRun
<1>3. BornInv'
  BY SchedulerBounds DEF IInv, BornInv, LoseRun, Goto
<1>4. RunInv'
  BY DEF IInv, RunInv, TypeOK, LoseRun, Goto
<1>5. RunsSettle'
  BY DEF IInv, RunsSettle, TypeOK, ProcessInv, Resting, LoseRun, Goto
<1>6. CountsBounded'
  BY Numbers DEF IInv, CountsBounded, Resting, LoseRun, Goto, history
<1>7. CountsExact'
  BY Numbers, Existing DEF IInv, CountsExact, Working, Resting, LoseRun, Goto, history
<1>8. FailInv'
  BY SchedulerBounds, StillPaused, Numbers DEF IInv, FailInv, Alive, LoseRun, Goto
<1>9. BootInv'
  BY SchedulerBounds, StillDeactivated DEF IInv, BootInv, Untouched, Resting, LoseRun, Goto
<1> QED BY <1>1, <1>2, <1>3, <1>4, <1>5, <1>6, <1>7, <1>8, <1>9 DEF IInv

LEMMA LoseJobStep ==
  ASSUME IInv, NEW e \in Execs, LoseJob(e)
  PROVE  IInv'
<1>1. exec[e].task \in Tasks /\ doc \in [Tasks -> Doc]
  BY DEF IInv, LoseJob, TypeOK, Resting
<1>2. \A u \in Tasks :
        /\ doc'[u].status = doc[u].status /\ doc'[u].runs = doc[u].runs
        /\ doc'[u].errs = IF u = exec[e].task /\ Exists(u) THEN exec[e].errs + 1 ELSE doc[u].errs
        /\ losses'[u] = IF u = exec[e].task THEN losses[u] + 1 ELSE losses[u]
  BY <1>1 DEF IInv, LoseJob, ErrorCount, TypeOK
<1>3. \A f \in Execs : /\ f # e => exec'[f].pc = exec[f].pc
                       /\ exec'[f].task = exec[f].task
                       /\ exec'[f].runs = exec[f].runs /\ exec'[f].errs = exec[f].errs
                       /\ exec'[f].armed = exec[f].armed
  BY DEF IInv, LoseJob, Goto, TypeOK, Exec
<1>4. exec'[e].pc = IF Exists(exec[e].task) /\ exec[e].errs + 1 >= MaxErrors
                    THEN "pause" ELSE "notifyLoss"
  BY DEF IInv, LoseJob, Goto, ErrorCount, TypeOK, Exec
<1>5. TypeOK'
  <2>1. ExecsTyped'
    BY Moved DEF LoseJob, Resting, IInv
  <2>2. doc' \in [Tasks -> Doc]
    <3>1. exec[e].task \in Tasks /\ ErrorCount(e) \in Nat /\ doc \in [Tasks -> Doc]
      BY Numbers DEF IInv, TypeOK, LoseJob, ErrorCount
    <3>2. [doc EXCEPT ![exec[e].task].errs = ErrorCount(e)] \in [Tasks -> Doc]
      BY <3>1, Documents DEF IInv, Statuses
    <3> QED BY <3>1, <3>2 DEF LoseJob
  <2>3. losses' \in [Tasks -> Nat] /\ streak' \in [Tasks -> Nat]
    BY DEF IInv, LoseJob, TypeOK, Resting
  <2> QED BY <2>1, <2>2, <2>3, Typed DEF IInv, TypeOK, CallsTyped, LoseJob
<1>6. ProcessInv'
  BY SchedulerBounds, <1>1, <1>2, <1>3, <1>4 DEF IInv, ProcessInv, Alive, Resting, LoseJob
<1>7. BornInv'
  BY SchedulerBounds, <1>1, <1>2, <1>3, <1>4 DEF IInv, BornInv, LoseJob
<1>8. RunInv'
  BY <1>1, <1>2, <1>3, <1>4 DEF IInv, RunInv, LoseJob
<1>9. RunsSettle'
  BY <1>1, <1>2, <1>3, <1>4 DEF IInv, RunsSettle, ProcessInv, Resting, LoseJob
<1>10. CountsBounded'
  <2>1. exec[e].pc = "loseJob" /\ UNCHANGED <<handle, call, wins>>
    BY DEF LoseJob
  <2>2. exec'[e].pc \in {"pause", "notifyLoss"}
    BY <1>4
  <2>3. \A f \in Execs : exec'[f].pc \notin Resting => exec[f].pc \notin Resting
    BY <1>3, <2>1 DEF Resting
  <2>4. \A u \in Tasks : losses[u] <= losses'[u] /\ wins'[u] = wins[u]
    BY <1>2, <2>1, Numbers DEF IInv
  <2>5. \A f \in Execs : exec[f].pc \notin Resting => exec[f].task \in Tasks
    BY DEF IInv, TypeOK, Resting
  <2>6. \A c \in Callers : call[c].pc # "idle" => call[c].task \in Tasks
    BY DEF IInv, TypeOK
  <2>7. \A u \in Tasks : doc'[u].runs <= wins'[u] /\ doc'[u].errs <= losses'[u]
    BY <1>1, <1>2, <2>1, <2>4, Numbers DEF IInv, CountsBounded, Resting
  <2>8. \A u \in Tasks : handle'[u].errs <= losses'[u]
    BY <1>2, <2>1, <2>4, Numbers DEF IInv, CountsBounded
  <2>9. ASSUME NEW f \in Execs, exec'[f].pc \notin Resting
        PROVE  /\ exec'[f].runs <= wins'[exec'[f].task] /\ exec'[f].errs <= losses'[exec'[f].task]
               /\ exec'[f].armed <= losses'[exec'[f].task]
    <3>1. /\ exec[f].task \in Tasks /\ exec[f].runs <= wins[exec[f].task]
          /\ exec[f].errs <= losses[exec[f].task] /\ exec[f].armed <= losses[exec[f].task]
      BY <2>3, <2>5, <2>9 DEF IInv, CountsBounded
    <3>2. losses[exec[f].task] \in Nat /\ losses'[exec[f].task] \in Nat
      BY <1>2, <3>1, Numbers DEF IInv
    <3> QED BY <1>3, <2>4, <3>1, <3>2, Numbers DEF IInv
  <2>10. ASSUME NEW c \in Callers, call'[c].pc # "idle"
         PROVE  call'[c].errs <= losses'[call'[c].task]
    BY <1>2, <2>1, <2>4, <2>6, <2>10, Numbers DEF IInv, CountsBounded
  <2> QED BY <2>7, <2>8, <2>9, <2>10 DEF CountsBounded
<1>11. CountsExact'
  <2> SUFFICES ASSUME NEW t \in Tasks \ overlapped'
               PROVE  /\ doc'[t].status # "deleted" => doc'[t].runs = wins'[t] /\ doc'[t].errs = losses'[t]
                      /\ \A f, g \in Execs : Working(f, t)' /\ Working(g, t)' => f = g
                      /\ \A f \in Execs : exec'[f].task = t =>
                           /\ exec'[f].pc \in {"handler", "winRun", "winJob"} => exec'[f].runs = doc'[t].runs
                           /\ exec'[f].pc \in {"handler", "winRun", "winJob", "nextRun", "notifyWin",
                                               "loseRun", "loseJob"} => exec'[f].errs = doc'[t].errs
    BY DEF CountsExact
  <2>1. exec[e].task = t => exec[e].pc = "loseJob" /\ Working(e, t) /\ doc[t].status # "none"
    BY DEF LoseJob, Working, Resting, IInv, BornInv
  <2>2. \A f \in Execs : Working(f, t)' => Working(f, t)
    BY <1>1, <1>2, <1>3, <1>4 DEF LoseJob, Working, Resting
  <2>3. t \in Tasks \ overlapped /\ UNCHANGED wins
    BY DEF LoseJob
  <2>4. \A f \in Execs : exec[e].task = t /\ Working(f, t) => f = e
    BY <2>1, <2>3 DEF IInv, CountsExact
  <2>5. doc'[t].status # "deleted" => doc'[t].runs = wins'[t] /\ doc'[t].errs = losses'[t]
    BY <1>1, <1>2, <1>3, <1>4, <2>1, <2>3, Numbers, Existing DEF IInv, CountsExact
  <2>6. \A f, g \in Execs : Working(f, t)' /\ Working(g, t)' => f = g
    BY <2>2, <2>3 DEF IInv, CountsExact
  <2>7. ASSUME NEW f \in Execs, exec'[f].task = t
        PROVE  /\ exec'[f].pc \in {"handler", "winRun", "winJob"} => exec'[f].runs = doc'[t].runs
               /\ exec'[f].pc \in {"handler", "winRun", "winJob", "nextRun", "notifyWin",
                                   "loseRun", "loseJob"} => exec'[f].errs = doc'[t].errs
    <3>1. CASE exec[e].task = t
      BY <1>1, <1>2, <1>3, <1>4, <2>1, <2>2, <2>3, <2>4, <2>7, <3>1 DEF Working, Resting
    <3>2. CASE exec[e].task # t
      BY <1>1, <1>2, <1>3, <1>4, <2>3, <2>7, <3>2 DEF IInv, CountsExact
    <3> QED BY <3>1, <3>2
  <2> QED BY <2>5, <2>6, <2>7
<1>12. FailInv'
  <2>1. exec[e].pc = "loseJob" /\ UNCHANGED <<call, mode, todo, faults>>
    BY DEF LoseJob
  <2>2. \A u : CallPauses(u) => CallPauses(u)'
    BY <2>1, StillPaused
  <2>3. \A u : ExecPauses(u) => ExecPauses(u)'
    BY <1>3, <2>1, StillPaused
  <2>4. doc'[exec[e].task].status = "active" /\ doc'[exec[e].task].errs >= MaxErrors =>
          ExecPauses(exec[e].task)'
    <3>1. doc'[exec[e].task].status = "active" => Exists(exec[e].task)
      BY <1>1, <1>2, Existing DEF IInv
    <3> QED BY <1>1, <1>2, <1>3, <1>4, <3>1 DEF ExecPauses
  <2> SUFFICES ASSUME NEW u \in Tasks, Alive, faults = 0,
                      doc'[u].status = "active", doc'[u].errs >= MaxErrors
               PROVE  ExecPauses(u)' \/ CallPauses(u)' \/ u \in todo
    BY <2>1 DEF FailInv, Alive
  <2>5. CASE u = exec[e].task
    <3>1. ExecPauses(exec[e].task)'
      BY <2>4, <2>5
    <3>2. exec[e].task = exec'[e].task
      BY <1>3
    <3> QED BY <2>5, <3>1, <3>2 DEF ExecPauses
  <2>6. CASE u # exec[e].task
    BY <1>2, <2>2, <2>3, <2>6 DEF IInv, FailInv
  <2> QED BY <2>5, <2>6
<1>13. BootInv'
  <2>1. exec[e].pc = "loseJob" /\ UNCHANGED <<call, mode, todo, handle>>
    BY DEF LoseJob
  <2>2. \A u : Deactivates(u) => Deactivates(u)'
    BY <1>3, <2>1, StillDeactivated
  <2>3. \A u \in Tasks : Untouched(u) => Untouched(u)'
    BY <1>2, <1>3, <2>1 DEF Untouched, Resting
  <2>4. "boot" \in Callers /\ (call["boot"].pc # "idle" => call["boot"].task \in Tasks)
    BY DEF IInv, TypeOK, Callers
  <2> QED BY <1>2, <2>1, <2>2, <2>3, <2>4 DEF IInv, BootInv, TypeOK
<1> QED BY <1>5, <1>6, <1>7, <1>8, <1>9, <1>10, <1>11, <1>12, <1>13 DEF IInv

LEMMA AutoPauseStep ==
  ASSUME IInv, NEW e \in Execs, AutoPause(e)
  PROVE  IInv'
<1>1. \A u \in Tasks :
        /\ doc'[u].status = IF u = exec[e].task /\ Exists(u) THEN "paused" ELSE doc[u].status
        /\ doc'[u].runs = doc[u].runs /\ doc'[u].errs = doc[u].errs
  BY StatusEffect DEF IInv, AutoPause, TypeOK
<1>2. TypeOK'
  <2>1. ExecsTyped'
    BY Moved DEF AutoPause, Resting, IInv
  <2>2. doc' \in [Tasks -> Doc]
    BY StatusSet DEF IInv, AutoPause, TypeOK, Statuses
  <2> QED BY <2>1, <2>2, Typed DEF IInv, TypeOK, CallsTyped, AutoPause, history
<1>3. ProcessInv'
  BY SchedulerBounds, <1>1 DEF IInv, ProcessInv, Alive, Resting, AutoPause
<1>4. BornInv'
  BY SchedulerBounds, <1>1 DEF IInv, BornInv, AutoPause, Goto
<1>5. RunInv'
  BY <1>1 DEF IInv, RunInv, AutoPause, Goto
<1>6. RunsSettle'
  BY <1>1 DEF IInv, RunsSettle, ProcessInv, Resting, AutoPause, Goto
<1>7. CountsBounded'
  BY Numbers, <1>1 DEF IInv, CountsBounded, Resting, AutoPause, Exists, Goto, history
<1>8. CountsExact'
  BY Numbers, Existing, <1>1 DEF IInv, CountsExact, Working, Resting, AutoPause, Goto, history
<1>9. FailInv'
  <2>1. /\ exec[e].pc = "pause" /\ exec[e].task \in Tasks
        /\ UNCHANGED <<call, mode, todo, faults>>
        /\ \A f \in Execs : f # e => exec'[f] = exec[f]
    BY DEF IInv, TypeOK, Resting, AutoPause, Goto, history
  <2>2. ASSUME NEW u \in Tasks, u # exec[e].task, ExecPauses(u) PROVE ExecPauses(u)'
    BY <2>1, <2>2 DEF ExecPauses
  <2>3. doc'[exec[e].task].status # "active"
    BY <1>1, <2>1, Existing DEF IInv
  <2>4. \A u : CallPauses(u) => CallPauses(u)'
    BY <2>1, StillPaused
  <2> QED BY <1>1, <2>1, <2>2, <2>3, <2>4 DEF IInv, FailInv, Alive
<1>10. BootInv'
  <2>1. /\ exec[e].pc = "pause" /\ exec[e].task \in Tasks
        /\ UNCHANGED <<call, mode, todo, handle>>
        /\ \A f \in Execs : f # e => exec'[f] = exec[f]
        /\ exec'[e].pc = "pauseDeactivate" /\ exec'[e].task = exec[e].task
    BY DEF IInv, TypeOK, Resting, AutoPause, Goto, Exec, history
  <2>2. \A u : Deactivates(u) => Deactivates(u)'
    BY <2>1, StillDeactivated
  <2>3. Deactivates(exec[e].task)'
    BY <2>1 DEF Deactivates
  <2>4. \A u \in Tasks : Untouched(u) => Untouched(u)' /\ u # exec[e].task
    BY <1>1, <2>1 DEF Untouched, Resting
  <2>5. "boot" \in Callers /\ (call["boot"].pc # "idle" => call["boot"].task \in Tasks)
    BY DEF IInv, TypeOK, Callers
  <2> QED BY <1>1, <2>1, <2>2, <2>3, <2>4, <2>5 DEF IInv, BootInv, TypeOK
<1> QED BY <1>2, <1>3, <1>4, <1>5, <1>6, <1>7, <1>8, <1>9, <1>10 DEF IInv

LEMMA DeactivateStep ==
  ASSUME IInv, NEW e \in Execs, Deactivate(e)
  PROVE  IInv'
<1>1. exec[e].task \in Tasks /\ handle \in [Tasks -> Instance]
  BY DEF IInv, Deactivate, TypeOK, Resting
<1>2. \A f \in Execs : /\ f # e => exec'[f].pc = exec[f].pc
                       /\ exec'[f] \in Exec /\ exec'[f].task = exec[f].task
                       /\ exec'[f].runs = exec[f].runs /\ exec'[f].errs = exec[f].errs
                       /\ exec'[f].armed = exec[f].armed
  <2> SUFFICES ASSUME NEW f \in Execs
               PROVE  /\ f # e => exec'[f].pc = exec[f].pc
                      /\ exec'[f] \in Exec /\ exec'[f].task = exec[f].task
                      /\ exec'[f].runs = exec[f].runs /\ exec'[f].errs = exec[f].errs
                      /\ exec'[f].armed = exec[f].armed
    OBVIOUS
  <2>1. exec[f] \in Exec
    BY DEF IInv, TypeOK
  <2>2. \/ exec'[f] = exec[f] /\ f # e
        \/ exec'[f] = [exec[f] EXCEPT !.own = FALSE] /\ f # e
        \/ exec'[f] = [exec[f] EXCEPT !.own = FALSE, !.pc = "done"] /\ f = e
        \/ exec'[f] = [exec[f] EXCEPT !.own = FALSE, !.pc = "notifyLoss"] /\ f = e
    BY <2>1 DEF Deactivate, Exec
  <2> QED BY <2>1, <2>2 DEF Exec
<1>3. exec'[e].pc = IF exec[e].pc = "deactivate" THEN "done" ELSE "notifyLoss"
  <2>1. exec[e] \in Exec
    BY DEF IInv, TypeOK
  <2> QED BY <2>1 DEF Deactivate, Exec
<1>4. \A u \in Tasks : handle'[u] = IF u = exec[e].task THEN NoHandle ELSE handle[u]
  BY <1>1 DEF Deactivate
<1>5. TypeOK'
  <2>1. ExecsTyped'
    <3>1. exec' = [f \in Execs |-> exec'[f]]
      BY DEF Deactivate
    <3>2. exec' \in [Execs -> Exec]
      BY <1>2, <3>1
    <3>3. \A f \in Execs : exec'[f].pc \notin Resting => exec[f].pc \notin Resting
      BY <1>2 DEF Deactivate, Resting
    <3> QED BY <1>2, <3>2, <3>3 DEF IInv, ExecsTyped, TypeOK, Resting
  <2>2. handle' \in [Tasks -> Instance]
    <3>1. 0 \in Nat /\ TRUE \in BOOLEAN
      OBVIOUS
    <3> QED BY <1>1, <3>1, Instances DEF IInv, Deactivate
  <2> QED BY <2>1, <2>2, Typed DEF IInv, TypeOK, ExecsTyped, Deactivate, history
<1>6. ProcessInv'
  BY SchedulerBounds, <1>1, <1>2, <1>3, <1>4 DEF IInv, ProcessInv, Alive, Resting, Deactivate
<1>7. BornInv'
  BY SchedulerBounds, <1>1, <1>2, <1>3, <1>4 DEF IInv, BornInv, Deactivate
<1>8. RunInv'
  BY <1>1, <1>2, <1>3, <1>4 DEF IInv, RunInv, Deactivate
<1>9. RunsSettle'
  BY <1>1, <1>2, <1>3, <1>4 DEF IInv, RunsSettle, ProcessInv, Resting, Deactivate
<1>10. CountsBounded'
BY Numbers, <1>1, <1>2, <1>3, <1>4 DEF IInv, CountsBounded, Resting, Deactivate, NoHandle,
     history
<1>11. CountsExact'
BY Numbers, Existing, <1>1, <1>2, <1>3, <1>4 DEF IInv, CountsExact, Working, Resting,
     Deactivate, history
<1>12. FailInv'
BY SchedulerBounds, StillPaused, Numbers, <1>1, <1>2, <1>3, <1>4 DEF IInv, FailInv, Alive,
     Deactivate
<1>13. BootInv'
  <2>1. /\ exec[e].pc \in {"deactivate", "pauseDeactivate"}
        /\ UNCHANGED <<doc, call, mode, todo>>
    BY DEF Deactivate, history
  <2>2. ASSUME NEW u \in Tasks, u # exec[e].task, Deactivates(u) PROVE Deactivates(u)'
    BY <1>2, <2>2 DEF Deactivates
  <2>3. \A u \in Tasks : Untouched(u) => Untouched(u)'
    BY <1>2, <1>3, <1>4, <2>1 DEF Untouched, Resting
  <2>4. "boot" \in Callers /\ (call["boot"].pc # "idle" => call["boot"].task \in Tasks)
    BY DEF IInv, TypeOK, Callers
  <2>5. \A u \in Tasks : handle'[u].on => handle[u].on /\ u # exec[e].task
    BY <1>4 DEF NoHandle
  <2> QED BY <2>1, <2>2, <2>3, <2>4, <2>5 DEF IInv, BootInv, TypeOK
<1> QED BY <1>5, <1>6, <1>7, <1>8, <1>9, <1>10, <1>11, <1>12, <1>13 DEF IInv

LEMMA NotifyLossStep ==
  ASSUME IInv, NEW e \in Execs, NotifyLoss(e)
  PROVE  IInv'
<1>1. TypeOK'
  <2>1. ExecsTyped' /\ handle' \in [Tasks -> Instance]
    BY Left DEF IInv, NotifyLoss, Resting
  <2> QED BY <2>1, Typed DEF IInv, TypeOK, CallsTyped, NotifyLoss, history
<1>2. ProcessInv'
  BY SchedulerBounds DEF IInv, ProcessInv, Alive, Resting, NotifyLoss
<1>3. BornInv'
  BY SchedulerBounds DEF IInv, BornInv, NotifyLoss, Leave, Goto
<1>4. RunInv'
  BY DEF IInv, RunInv, NotifyLoss, Leave, Goto
<1>5. RunsSettle'
  BY DEF IInv, RunsSettle, ProcessInv, Resting, NotifyLoss, Leave, Goto
<1>6. CountsBounded'
  BY Numbers DEF IInv, CountsBounded, Resting, NotifyLoss, Leave, Goto, history
<1>7. CountsExact'
  BY Numbers, Existing DEF IInv, CountsExact, Working, Resting, NotifyLoss, Leave, Goto, history
<1>8. FailInv'
  BY SchedulerBounds, StillPaused, Numbers DEF IInv, FailInv, Alive, NotifyLoss, Leave, Goto
<1>9. BootInv'
BY SchedulerBounds, StillDeactivated DEF IInv, BootInv, Untouched, Resting, NotifyLoss, Leave,
     Goto
<1> QED BY <1>1, <1>2, <1>3, <1>4, <1>5, <1>6, <1>7, <1>8, <1>9 DEF IInv

LEMMA ExecuteThrowsStep ==
  ASSUME IInv, NEW e \in Execs, ExecuteThrows(e)
  PROVE  IInv'
<1>1. /\ \A f \in Execs : /\ f # e => exec'[f].pc = exec[f].pc
                          /\ exec'[f].task = exec[f].task
                          /\ exec'[f].runs = exec[f].runs /\ exec'[f].errs = exec[f].errs
                          /\ exec'[f].armed = exec[f].armed
      /\ exec'[e].pc \in {"croner", "done"}
      /\ \A u \in Tasks : handle'[u].on = handle[u].on /\ handle'[u].errs = handle[u].errs
  <2>1. exec[e].task \in Tasks /\ exec \in [Execs -> Exec] /\ handle \in [Tasks -> Instance]
    BY DEF IInv, ExecuteThrows, TypeOK, Resting
  <2>2. CASE Leave(e)
    BY <2>1, <2>2, LeaveEffect DEF IInv
  <2>3. CASE ~Leave(e)
    <3>1. exec' = [exec EXCEPT ![e].pc = "croner", ![e].own = FALSE]
      BY <2>3 DEF ExecuteThrows
    <3>2. handle' = [handle EXCEPT ![exec[e].task].busy = FALSE] \/ handle' = handle
      BY <2>3 DEF ExecuteThrows
    <3>3. \A u \in Tasks : handle'[u].on = handle[u].on /\ handle'[u].errs = handle[u].errs
      BY <2>1, <3>2 DEF Instance
    <3> QED BY <2>1, <3>1, <3>3 DEF Exec
  <2> QED BY <2>2, <2>3
<1>2. TypeOK'
  <2>1. ExecsTyped' /\ handle' \in [Tasks -> Instance]
    <3>1. exec[e].task \in Tasks /\ exec \in [Execs -> Exec] /\ handle \in [Tasks -> Instance]
      BY DEF IInv, ExecuteThrows, TypeOK, Resting
    <3>2. CASE Leave(e)
      BY <3>2, Left DEF IInv, ExecuteThrows, Resting
    <3>3. CASE ~Leave(e)
      <4> DEFINE x == [exec[e] EXCEPT !.pc = "croner", !.own = FALSE]
      <4>1. /\ exec' = [exec EXCEPT ![e] = x]
            /\ \/ handle' = [handle EXCEPT ![exec[e].task].busy = FALSE] \/ handle' = handle
        BY <3>1, <3>3 DEF ExecuteThrows
      <4>2. x \in Exec /\ x.task = exec[e].task
        BY <3>1 DEF Exec
      <4>3. handle' \in [Tasks -> Instance]
        BY <3>1, <4>1 DEF Instance
      <4> HIDE DEF x
      <4> QED BY <3>1, <4>1, <4>2, <4>3 DEF IInv, ExecsTyped, TypeOK, Resting
    <3> QED BY <3>2, <3>3
  <2> QED BY <2>1, Typed DEF IInv, TypeOK, CallsTyped, ExecuteThrows, history
<1>3. ProcessInv'
  BY SchedulerBounds, <1>1 DEF IInv, ProcessInv, Alive, Resting, ExecuteThrows
<1>4. BornInv'
  BY SchedulerBounds, <1>1 DEF IInv, BornInv, Callers, Alive, ExecuteThrows
<1>5. RunInv'
  BY <1>1 DEF IInv, RunInv, TypeOK, ExecuteThrows
<1>6. RunsSettle'
  BY <1>1 DEF IInv, RunsSettle, ProcessInv, Resting, ExecuteThrows
<1>7. CountsBounded'
  BY Numbers, <1>1 DEF IInv, CountsBounded, Resting, ExecuteThrows, history
<1>8. CountsExact'
  <2>1. exec[e].pc \in {"read", "notifyLoss"} /\ UNCHANGED <<doc, wins, losses, overlapped>>
    BY DEF ExecuteThrows, history
  <2>2. \A f \in Execs, t \in Tasks : Working(f, t)' => Working(f, t)
    BY <1>1, <2>1 DEF Working, Resting
  <2> QED BY <1>1, <2>1, <2>2 DEF IInv, CountsExact
<1>9. FailInv'
  BY SchedulerBounds, StillPaused, Numbers, <1>1 DEF IInv, FailInv, TypeOK, ExecuteThrows
<1>10. BootInv'
  <2>1. exec[e].pc \in {"read", "notifyLoss"} /\ UNCHANGED <<doc, call, mode, todo>>
    BY DEF ExecuteThrows
  <2>2. \A u : Deactivates(u) => Deactivates(u)'
    BY <1>1, <2>1, StillDeactivated
  <2>3. \A u \in Tasks : Untouched(u) => Untouched(u)'
    BY <1>1, <2>1 DEF Untouched, Resting
  <2>4. "boot" \in Callers /\ (call["boot"].pc # "idle" => call["boot"].task \in Tasks)
    BY DEF IInv, TypeOK, Callers
  <2> QED BY <1>1, <2>1, <2>2, <2>3, <2>4 DEF IInv, BootInv, TypeOK
<1> QED BY <1>2, <1>3, <1>4, <1>5, <1>6, <1>7, <1>8, <1>9, <1>10 DEF IInv

LEMMA HandleErrorStep ==
  ASSUME IInv, NEW e \in Execs, HandleError(e)
  PROVE  IInv'
<1>1. exec[e].task \in Tasks /\ doc \in [Tasks -> Doc]
  BY DEF IInv, HandleError, TypeOK, Resting
<1>2. \A u \in Tasks :
        /\ doc'[u].status = doc[u].status /\ doc'[u].runs = doc[u].runs
        /\ doc'[u].errs = IF u = exec[e].task /\ Exists(u) THEN exec[e].armed + 1 ELSE doc[u].errs
        /\ losses'[u] = IF u = exec[e].task THEN losses[u] + 1 ELSE losses[u]
  BY <1>1 DEF IInv, HandleError, TypeOK
<1>3. \A f \in Execs : /\ exec'[f].pc = IF f = e THEN "done" ELSE exec[f].pc
                       /\ exec'[f].task = exec[f].task
                       /\ exec'[f].runs = exec[f].runs /\ exec'[f].errs = exec[f].errs
                       /\ exec'[f].armed = exec[f].armed
  BY DEF IInv, HandleError, Goto, TypeOK, Exec
<1>4. TypeOK'
  <2>1. ExecsTyped'
    BY Moved DEF HandleError, Resting, IInv
  <2>2. doc' \in [Tasks -> Doc]
    <3>1. exec[e].task \in Tasks /\ exec[e].armed + 1 \in Nat /\ doc \in [Tasks -> Doc]
      BY Numbers DEF IInv, TypeOK, HandleError
    <3>2. [doc EXCEPT ![exec[e].task].errs = exec[e].armed + 1] \in [Tasks -> Doc]
      BY <3>1, Documents DEF IInv, Statuses
    <3> QED BY <3>1, <3>2 DEF HandleError
  <2>3. losses' \in [Tasks -> Nat] /\ overlapped' \subseteq Tasks
    BY DEF IInv, HandleError, TypeOK, Resting
  <2> QED BY <2>1, <2>2, <2>3, Typed DEF IInv, TypeOK, CallsTyped, HandleError
<1>5. ProcessInv'
  BY SchedulerBounds, <1>1, <1>2, <1>3 DEF IInv, ProcessInv, Alive, Resting, HandleError
<1>6. BornInv'
  BY SchedulerBounds, <1>1, <1>2, <1>3 DEF IInv, BornInv, HandleError
<1>7. RunInv'
  BY <1>1, <1>2, <1>3 DEF IInv, RunInv, HandleError
<1>8. RunsSettle'
  BY <1>1, <1>2, <1>3 DEF IInv, RunsSettle, ProcessInv, Resting, HandleError
<1>9. CountsBounded'
  BY Numbers, <1>1, <1>2, <1>3 DEF IInv, CountsBounded, Resting, HandleError
<1>10. CountsExact'
BY Numbers, Existing, <1>1, <1>2, <1>3 DEF IInv, CountsExact, Working, Resting, Callers,
     HandleError
<1>11. FailInv'
  <2>1. faults > 0 /\ UNCHANGED faults
    BY DEF IInv, RunInv, HandleError
  <2> QED BY <2>1 DEF IInv, TypeOK, FailInv
<1>12. BootInv'
BY SchedulerBounds, StillDeactivated, <1>1, <1>2, <1>3 DEF IInv, BootInv, Untouched, Resting,
     HandleError
<1> QED BY <1>4, <1>5, <1>6, <1>7, <1>8, <1>9, <1>10, <1>11, <1>12 DEF IInv

LEMMA StopInstanceStep ==
  ASSUME IInv, NEW c \in Callers, StopInstance(c)
  PROVE  IInv'
<1>1. call[c].task \in Tasks /\ call \in [Callers -> Call]
  BY DEF IInv, StopInstance, TypeOK
<1>2. /\ \A f \in Execs : /\ exec'[f].pc = exec[f].pc /\ exec'[f].task = exec[f].task
                          /\ exec'[f].runs = exec[f].runs /\ exec'[f].errs = exec[f].errs
                          /\ exec'[f].armed = exec[f].armed
      /\ \A u \in Tasks : /\ handle'[u].on => handle[u].on
                          /\ handle'[u].errs = 0 \/ handle'[u].errs = handle[u].errs
  BY <1>1, StopEffect DEF IInv, StopInstance
<1>3. /\ \A d \in Callers : d # c => call'[d] = call[d]
      /\ call'[c].pc \in {"idle", "catchup", "build"}
      /\ call'[c].pc # "idle" => call'[c].task = call[c].task /\ call'[c].errs = call[c].errs
      /\ call[c].status = "active" => call'[c].pc = "build"
  BY <1>1, AfterEffect DEF IInv, StopInstance, Call
<1>4. TypeOK'
  <2>1. ExecsTyped' /\ handle' \in [Tasks -> Instance]
    BY <1>1, StopTyped DEF IInv, StopInstance, ExecsTyped, TypeOK, Resting
  <2>2. CallsTyped'
    BY Activated, CallMoved DEF IInv, StopInstance
  <2> QED BY <2>1, <2>2, Typed DEF IInv, TypeOK, StopInstance, history
<1>5. ProcessInv'
  BY SchedulerBounds, <1>1, <1>2, <1>3 DEF IInv, ProcessInv, Alive, Callers, StopInstance
<1>6. BornInv'
  BY SchedulerBounds, <1>1, <1>2, <1>3 DEF IInv, BornInv, Activating, StopInstance
<1>7. RunInv'
  BY <1>1, <1>2, <1>3 DEF IInv, RunInv, StopInstance
<1>8. RunsSettle'
  BY <1>1, <1>2, <1>3 DEF IInv, RunsSettle, Alive, StopInstance
<1>9. CountsBounded'
  BY Numbers, <1>1, <1>2, <1>3 DEF IInv, CountsBounded, Resting, StopInstance, history
<1>10. CountsExact'
BY Numbers, Existing, <1>1, <1>2, <1>3 DEF IInv, CountsExact, Working, Resting, Callers,
     StopInstance, history
<1>11. FailInv'
  <2>1. ASSUME NEW u \in Tasks, CallPauses(u) PROVE CallPauses(u)'
    <3>1. PICK d \in Callers : /\ call[d].task = u /\ call[d].errs >= MaxErrors
                               /\ call[d].pc \in {"stop", "build", "autopause"}
                               /\ call[d].pc = "stop" => call[d].status = "active"
      BY <2>1 DEF CallPauses
    <3>2. CASE d = c
      BY <1>1, <1>3, <3>1, <3>2 DEF CallPauses, StopInstance
    <3>3. CASE d # c
      BY <1>3, <3>1, <3>3 DEF CallPauses
    <3> QED BY <3>2, <3>3
  <2>2. \A u : ExecPauses(u) => ExecPauses(u)'
    BY <1>2, StillPaused
  <2> QED BY <1>2, <2>1, <2>2 DEF IInv, FailInv, Alive, StopInstance
<1>12. BootInv'
BY SchedulerBounds, StillDeactivated, <1>1, <1>2, <1>3 DEF IInv, BootInv, Untouched, Callers,
     ProcessInv, StopInstance
<1> QED BY <1>4, <1>5, <1>6, <1>7, <1>8, <1>9, <1>10, <1>11, <1>12 DEF IInv

LEMMA BuildInstanceStep ==
  ASSUME IInv, NEW c \in Callers, BuildInstance(c)
  PROVE  IInv'
<1>1. call[c].task \in Tasks /\ call \in [Callers -> Call] /\ handle \in [Tasks -> Instance]
  BY DEF IInv, BuildInstance, TypeOK
<1>2. /\ \A d \in Callers : d # c => call'[d] = call[d]
      /\ call'[c].pc \in {"idle", "catchup", "next", "autopause"}
      /\ call'[c].pc # "idle" => call'[c].task = call[c].task /\ call'[c].errs = call[c].errs
      /\ call[c].errs >= MaxErrors => call'[c].pc = "autopause"
  BY <1>1, AfterEffect DEF IInv, BuildInstance, TooManyErrors, Call
<1>3. \A u \in Tasks : \/ handle'[u] = handle[u]
                       \/ u = call[c].task /\ handle'[u].on /\ handle'[u].errs = call[c].errs
  <2> DEFINE t == call[c].task
             hasNext == doc[t].kind = "recurring" \/ t \notin past
             x == [NoHandle EXCEPT !.on = TRUE, !.ticks = hasNext, !.errs = call[c].errs]
  <2>1. handle' = handle \/ handle' = [handle EXCEPT ![t] = x]
    BY DEF BuildInstance
  <2>2. x.on /\ x.errs = call[c].errs
    BY DEF NoHandle
  <2> HIDE DEF x
  <2> QED BY <1>1, <2>1, <2>2
<1>4. call[c].pc = "build" /\ UNCHANGED <<doc, run, past, mode, exec, todo, cleaning, faults, wins, losses, overlapped>>
  BY DEF BuildInstance, history
<1>5. TypeOK'
  <2>1. CallsTyped'
    <3>1. \/ AfterActivate(c)
          \/ call' = [call EXCEPT ![c].pc = "autopause"]
          \/ call' = [call EXCEPT ![c].pc = "next"]
      BY DEF BuildInstance
    <3> QED BY <1>4, <3>1, Activated, CallMoved DEF IInv
  <2>2. handle' \in [Tasks -> Instance]
    <3> DEFINE hasNext == doc[call[c].task].kind = "recurring" \/ call[c].task \notin past
               n == call[c].errs
               x == [NoHandle EXCEPT !.on = TRUE, !.ticks = hasNext, !.errs = n]
    <3>1. handle' = handle \/ handle' = [handle EXCEPT ![call[c].task] = x]
      BY DEF BuildInstance
    <3>2. hasNext \in BOOLEAN /\ n \in Nat
      BY Numbers DEF IInv
    <3>3. x \in Instance
      <4> HIDE DEF hasNext, n
      <4> QED BY <3>2 DEF Instance, NoHandle
    <3> HIDE DEF x
    <3> QED BY <1>1, <3>1, <3>3
  <2> QED BY <2>1, <2>2, Typed DEF IInv, TypeOK, CallsTyped, BuildInstance, history
<1>6. ProcessInv'
  BY SchedulerBounds, <1>1, <1>2, <1>3, <1>4 DEF IInv, ProcessInv, Alive, Callers
<1>7. BornInv'
  BY SchedulerBounds, <1>1, <1>2, <1>3, <1>4 DEF IInv, BornInv, Activating
<1>8. RunInv'
  BY <1>1, <1>2, <1>3, <1>4 DEF IInv, RunInv
<1>9. RunsSettle'
  BY <1>1, <1>2, <1>3, <1>4 DEF IInv, RunsSettle, Alive
<1>10. CountsBounded'
  BY Numbers, <1>1, <1>2, <1>3, <1>4 DEF IInv, CountsBounded
<1>11. CountsExact'
  BY Numbers, Existing, <1>1, <1>2, <1>3, <1>4 DEF IInv, CountsExact, Working
<1>12. FailInv'
  <2>1. ASSUME NEW u \in Tasks, CallPauses(u) PROVE CallPauses(u)'
    <3>1. PICK d \in Callers : /\ call[d].task = u /\ call[d].errs >= MaxErrors
                               /\ call[d].pc \in {"stop", "build", "autopause"}
                               /\ call[d].pc = "stop" => call[d].status = "active"
      BY <2>1 DEF CallPauses
    <3>2. CASE d = c
      BY <1>1, <1>2, <1>4, <3>1, <3>2 DEF CallPauses
    <3>3. CASE d # c
      BY <1>2, <3>1, <3>3 DEF CallPauses
    <3> QED BY <3>2, <3>3
  <2>2. \A u : ExecPauses(u) => ExecPauses(u)'
    BY <1>4, StillPaused
  <2> QED BY <1>4, <2>1, <2>2 DEF IInv, FailInv, Alive, Alive
<1>13. BootInv'
  <2>1. \A u : Deactivates(u) => Deactivates(u)'
    BY <1>4, StillDeactivated
  <2>2. mode = "booting" => c = "boot"
    BY <1>4 DEF IInv, ProcessInv, Callers
  <2>3. mode = "booting" => Untouched(call[c].task) /\ call[c].task \notin todo
    BY <1>4, <2>2 DEF IInv, BootInv
  <2>4. \A u \in Tasks : u # call[c].task /\ Untouched(u) => Untouched(u)'
    BY <1>3, <1>4 DEF Untouched
  <2>5. call'[c].pc = "autopause" => handle' = handle
    BY <1>1 DEF BuildInstance, AfterActivate, NoCall, Call
  <2>6. "boot" \in Callers /\ (call["boot"].pc # "idle" => call["boot"].task \in Tasks)
    BY DEF IInv, TypeOK, Callers
<2> QED BY <1>1, <1>2, <1>3, <1>4, <2>1, <2>2, <2>3, <2>4, <2>5, <2>6 DEF IInv, BootInv,
      Untouched, TypeOK
<1> QED BY <1>5, <1>6, <1>7, <1>8, <1>9, <1>10, <1>11, <1>12, <1>13 DEF IInv

LEMMA WriteNextRunStep ==
  ASSUME IInv, NEW c \in Callers, WriteNextRun(c)
  PROVE  IInv'
<1>1. TypeOK'
  <2>1. CallsTyped'
    BY Activated DEF IInv, WriteNextRun
  <2> QED BY <2>1, Typed DEF IInv, TypeOK, CallsTyped, WriteNextRun, history
<1>2. ProcessInv'
  BY SchedulerBounds DEF IInv, ProcessInv, Alive, WriteNextRun, AfterActivate
<1>3. BornInv'
  BY SchedulerBounds DEF IInv, BornInv, Activating, WriteNextRun, AfterActivate, NoCall
<1>4. RunInv'
  BY DEF IInv, RunInv, WriteNextRun
<1>5. RunsSettle'
  BY DEF IInv, RunsSettle, Alive, WriteNextRun
<1>6. CountsBounded'
  BY Numbers DEF IInv, CountsBounded, WriteNextRun, AfterActivate, NoCall, history
<1>7. CountsExact'
  BY Numbers, Existing DEF IInv, CountsExact, Working, WriteNextRun, history
<1>8. FailInv'
  <2>1. \A u : CallPauses(u) => CallPauses(u)'
    BY OtherCallers, AfterEffect DEF IInv, WriteNextRun
  <2> QED BY <2>1, StillPaused DEF IInv, FailInv, Alive, WriteNextRun
<1>9. BootInv'
BY SchedulerBounds, StillDeactivated DEF IInv, BootInv, Untouched, WriteNextRun, AfterActivate,
     NoCall
<1> QED BY <1>1, <1>2, <1>3, <1>4, <1>5, <1>6, <1>7, <1>8, <1>9 DEF IInv

LEMMA PauseAtActivationStep ==
  ASSUME IInv, NEW c \in Callers, PauseAtActivation(c)
  PROVE  IInv'
<1>1. \A u \in Tasks :
        /\ doc'[u].status = IF u = call[c].task /\ Exists(u) THEN "paused" ELSE doc[u].status
        /\ doc'[u].runs = doc[u].runs /\ doc'[u].errs = doc[u].errs
  BY StatusEffect DEF IInv, PauseAtActivation, TypeOK
<1>2. /\ \A d \in Callers : d # c => call'[d] = call[d]
      /\ call'[c].pc \in {"idle", "catchup"}
      /\ call'[c].pc # "idle" => call'[c].task = call[c].task /\ call'[c].errs = call[c].errs
  BY AfterEffect DEF IInv, PauseAtActivation
<1>3. TypeOK'
  <2>1. CallsTyped'
    BY Activated DEF IInv, PauseAtActivation
  <2>2. doc' \in [Tasks -> Doc]
    BY StatusSet DEF IInv, PauseAtActivation, TypeOK, Statuses
  <2> QED BY <2>1, <2>2, Typed DEF IInv, TypeOK, CallsTyped, PauseAtActivation, history
<1>4. ProcessInv'
  BY SchedulerBounds, <1>1, <1>2 DEF IInv, ProcessInv, Alive, Callers, PauseAtActivation
<1>5. BornInv'
  BY SchedulerBounds, <1>1, <1>2 DEF IInv, BornInv, Activating, PauseAtActivation
<1>6. RunInv'
  BY <1>1, <1>2 DEF IInv, RunInv, PauseAtActivation
<1>7. RunsSettle'
  BY <1>1, <1>2 DEF IInv, RunsSettle, Alive, PauseAtActivation
<1>8. CountsBounded'
  BY Numbers, <1>1, <1>2 DEF IInv, CountsBounded, PauseAtActivation, history
<1>9. CountsExact'
  BY Numbers, Existing, <1>1, <1>2 DEF IInv, CountsExact, Working, PauseAtActivation, history
<1>10. FailInv'
  <2>1. call[c].pc = "autopause" /\ call[c].task \in Tasks /\ UNCHANGED <<exec, mode, todo, faults>>
    BY DEF IInv, TypeOK, PauseAtActivation, history
  <2>2. ASSUME NEW u \in Tasks, u # call[c].task, CallPauses(u) PROVE CallPauses(u)'
    BY <1>2, <2>2 DEF CallPauses
  <2>3. doc'[call[c].task].status # "active"
    BY <1>1, <2>1, Existing DEF IInv
  <2>4. \A u : ExecPauses(u) => ExecPauses(u)'
    BY <2>1, StillPaused
  <2> QED BY <1>1, <2>1, <2>2, <2>3, <2>4 DEF IInv, FailInv, Alive
<1>11. BootInv'
  <2>1. call[c].pc = "autopause" /\ call[c].task \in Tasks /\ UNCHANGED <<exec, handle, mode, todo>>
    BY DEF IInv, TypeOK, PauseAtActivation, history
  <2>2. \A u : Deactivates(u) => Deactivates(u)'
    BY <2>1, StillDeactivated
  <2>3. mode = "booting" => c = "boot"
    BY <2>1 DEF IInv, ProcessInv, Callers
  <2>4. \A u \in Tasks : u # call[c].task /\ Untouched(u) => Untouched(u)'
    BY <1>1, <2>1 DEF Untouched
  <2>5. mode = "booting" => ~handle[call[c].task].on /\ call[c].task \notin todo
    BY <2>1, <2>3 DEF IInv, BootInv, Untouched
  <2> QED BY <1>1, <1>2, <2>1, <2>2, <2>3, <2>4, <2>5 DEF IInv, BootInv, TypeOK
<1> QED BY <1>3, <1>4, <1>5, <1>6, <1>7, <1>8, <1>9, <1>10, <1>11 DEF IInv

LEMMA CreateStep ==
  ASSUME IInv, NEW c \in Clients, NEW t \in Tasks, Create(c, t)
  PROVE  IInv'
<1>1. TypeOK'
  <2>1. CallsTyped'
    BY Begun DEF IInv, Create
  <2>2. doc' \in [Tasks -> Doc]
    BY Documents DEF IInv, Create, Statuses
  <2> QED BY <2>1, <2>2, Typed DEF IInv, TypeOK, CallsTyped, Create, history
<1>2. ProcessInv'
  BY SchedulerBounds DEF IInv, ProcessInv, Alive, Create, Begin
<1>3. BornInv'
  BY SchedulerBounds DEF IInv, BornInv, TypeOK, Create, Begin
<1>4. RunInv'
  BY DEF IInv, RunInv, Create
<1>5. RunsSettle'
  BY DEF IInv, RunsSettle, Alive, Create
<1>6. CountsBounded'
  BY Numbers DEF IInv, CountsBounded, Create, Begin, NoCall, history
<1>7. CountsExact'
  BY Numbers, Existing DEF IInv, CountsExact, Working, Create, history
<1>8. FailInv'
  <2>1. \A u : CallPauses(u) => CallPauses(u)'
    BY OtherCallers DEF Callers, Create, Begin
  <2> QED BY <2>1, StillPaused, SchedulerBounds DEF IInv, FailInv, Alive, Create, BornInv
<1>9. BootInv'
  BY SchedulerBounds, StillDeactivated DEF BootInv, Create, Begin
<1> QED BY <1>1, <1>2, <1>3, <1>4, <1>5, <1>6, <1>7, <1>8, <1>9 DEF IInv

LEMMA PauseStep ==
  ASSUME IInv, NEW c \in Clients, NEW t \in Tasks, Pause(c, t)
  PROVE  IInv'
<1>1. TypeOK'
  <2>1. CallsTyped'
    BY Begun DEF IInv, Pause
  <2>2. handle' \in [Tasks -> Instance]
    <3>1. TypeOK /\ handle' = [handle EXCEPT ![t].paused = handle[t].on]
      BY DEF IInv, Pause
    <3>2. handle[t].on \in BOOLEAN
      BY <3>1 DEF TypeOK, Instance
    <3> QED BY <3>1, <3>2, Instances
  <2>3. ops' \in Nat
    BY DEF IInv, TypeOK, Pause, CountOp
  <2>4. UNCHANGED <<doc, run, past, mode, exec, todo, cleaning, crashes, faults, history>>
    BY DEF Pause
  <2>5. ExecsTyped'
    <3>1. ExecsTyped
      BY DEF IInv, TypeOK, ExecsTyped, Resting
    <3> QED BY <2>4, <3>1 DEF ExecsTyped
  <2>6. /\ doc' \in [Tasks -> Doc] /\ run' \in [Execs -> RunStatuses]
        /\ past' \subseteq Tasks /\ todo' \subseteq Tasks /\ cleaning' \subseteq Tasks
        /\ mode' \in {"down", "reconciling", "booting", "up"}
        /\ crashes' \in Nat /\ faults' \in Nat
        /\ wins' \in [Tasks -> Nat] /\ losses' \in [Tasks -> Nat]
        /\ streak' \in [Tasks -> Nat] /\ overlapped' \subseteq Tasks
    BY <2>4 DEF IInv, TypeOK, history
  <2> QED BY <2>1, <2>2, <2>3, <2>5, <2>6, Typed
<1>2. ProcessInv'
  BY SchedulerBounds DEF IInv, ProcessInv, Alive, Pause, Begin
<1>3. BornInv'
  BY SchedulerBounds DEF IInv, BornInv, Activating, Pause, Begin
<1>4. RunInv'
  BY DEF IInv, RunInv, Pause
<1>5. RunsSettle'
  BY DEF IInv, RunsSettle, Alive, Pause
<1>6. CountsBounded'
  BY Numbers DEF IInv, CountsBounded, Pause, Begin, NoCall, history
<1>7. CountsExact'
  BY Numbers, Existing DEF IInv, CountsExact, Working, Pause, history
<1>8. FailInv'
  <2>1. \A u : CallPauses(u) => CallPauses(u)'
    BY OtherCallers DEF Callers, Pause, Begin
  <2> QED BY <2>1, StillPaused DEF IInv, FailInv, Alive, Pause
<1>9. BootInv'
  BY SchedulerBounds, StillDeactivated DEF BootInv, Pause, Begin
<1> QED BY <1>1, <1>2, <1>3, <1>4, <1>5, <1>6, <1>7, <1>8, <1>9 DEF IInv

LEMMA PauseWriteStep ==
  ASSUME IInv, NEW c \in Clients, PauseWrite(c)
  PROVE  IInv'
<1>1. \A u \in Tasks :
        /\ doc'[u].status = IF u = call[c].task /\ Exists(u) THEN "paused" ELSE doc[u].status
        /\ doc'[u].runs = doc[u].runs /\ doc'[u].errs = doc[u].errs
  BY StatusEffect DEF IInv, PauseWrite, TypeOK, Callers
<1>2. TypeOK'
  <2>1. CallsTyped'
    BY CallOver DEF IInv, PauseWrite, Callers
  <2>2. doc' \in [Tasks -> Doc]
    BY StatusSet DEF IInv, PauseWrite, TypeOK, Statuses, Callers
  <2> QED BY <2>1, <2>2, Typed DEF IInv, TypeOK, CallsTyped, PauseWrite, history
<1>3. ProcessInv'
  BY SchedulerBounds, <1>1 DEF IInv, ProcessInv, Alive, PauseWrite
<1>4. BornInv'
  BY SchedulerBounds, <1>1 DEF IInv, BornInv, PauseWrite, NoCall
<1>5. RunInv'
  BY <1>1 DEF IInv, RunInv, PauseWrite
<1>6. RunsSettle'
  BY <1>1 DEF IInv, RunsSettle, Alive, PauseWrite
<1>7. CountsBounded'
  BY Numbers, <1>1 DEF IInv, CountsBounded, PauseWrite, NoCall, history
<1>8. CountsExact'
  BY Numbers, Existing, <1>1 DEF IInv, CountsExact, Working, PauseWrite, history
<1>9. FailInv'
  <2>1. \A u : CallPauses(u) => CallPauses(u)'
    BY OtherCallers DEF Callers, PauseWrite
  <2> QED BY <2>1, StillPaused, <1>1 DEF IInv, FailInv, Alive, PauseWrite
<1>10. BootInv'
  BY SchedulerBounds, StillDeactivated, <1>1 DEF IInv, BootInv, ProcessInv, PauseWrite
<1> QED BY <1>2, <1>3, <1>4, <1>5, <1>6, <1>7, <1>8, <1>9, <1>10 DEF IInv

LEMMA ResumeStep ==
  ASSUME IInv, NEW c \in Clients, NEW t \in Tasks, Resume(c, t)
  PROVE  IInv'
<1>1. TypeOK'
  <2>1. CallsTyped'
    BY Begun DEF IInv, Resume
  <2> QED BY <2>1, Typed DEF IInv, TypeOK, CallsTyped, Resume, history, CountOp
<1>2. ProcessInv'
  BY SchedulerBounds DEF IInv, ProcessInv, Alive, Resume, Begin
<1>3. BornInv'
  BY SchedulerBounds DEF IInv, BornInv, Activating, Resume, Begin
<1>4. RunInv'
  BY DEF IInv, RunInv, Resume
<1>5. RunsSettle'
  BY DEF IInv, RunsSettle, Alive, Resume
<1>6. CountsBounded'
  BY Numbers DEF IInv, CountsBounded, Resume, Begin, NoCall, history
<1>7. CountsExact'
  BY Numbers, Existing DEF IInv, CountsExact, Working, Resume, history
<1>8. FailInv'
  <2>1. \A u : CallPauses(u) => CallPauses(u)'
    BY OtherCallers DEF Callers, Resume, Begin
  <2> QED BY <2>1, StillPaused DEF IInv, FailInv, Alive, Resume
<1>9. BootInv'
  BY SchedulerBounds, StillDeactivated DEF BootInv, Resume, Begin
<1> QED BY <1>1, <1>2, <1>3, <1>4, <1>5, <1>6, <1>7, <1>8, <1>9 DEF IInv

LEMMA UpdateStep ==
  ASSUME IInv, NEW c \in Clients, NEW t \in Tasks, Update(c, t)
  PROVE  IInv'
<1>1. TypeOK'
  <2>1. CallsTyped'
    BY Begun DEF IInv, Update
  <2> QED BY <2>1, Typed DEF IInv, TypeOK, CallsTyped, Update, history, CountOp
<1>2. ProcessInv'
  BY SchedulerBounds DEF IInv, ProcessInv, Alive, Update, Begin
<1>3. BornInv'
  BY SchedulerBounds DEF IInv, BornInv, Activating, Update, Begin
<1>4. RunInv'
  BY DEF IInv, RunInv, Update
<1>5. RunsSettle'
  BY DEF IInv, RunsSettle, Alive, Update
<1>6. CountsBounded'
  BY Numbers DEF IInv, CountsBounded, Update, Begin, NoCall, history
<1>7. CountsExact'
  BY Numbers, Existing DEF IInv, CountsExact, Working, Update, history
<1>8. FailInv'
  <2>1. \A u : CallPauses(u) => CallPauses(u)'
    BY OtherCallers DEF Callers, Update, Begin
  <2> QED BY <2>1, StillPaused DEF IInv, FailInv, Alive, Update
<1>9. BootInv'
  BY SchedulerBounds, StillDeactivated DEF BootInv, Update, Begin
<1> QED BY <1>1, <1>2, <1>3, <1>4, <1>5, <1>6, <1>7, <1>8, <1>9 DEF IInv

LEMMA PatchWriteStep ==
  ASSUME IInv, NEW c \in Clients, PatchWrite(c)
  PROVE  IInv'
<1>1. /\ call[c].task \in Tasks /\ call \in [Callers -> Call]
      /\ doc \in [Tasks -> Doc] /\ c \in Callers
  BY DEF IInv, PatchWrite, TypeOK, Callers
<1>2. \A d \in Callers : d # c => call'[d] = call[d]
  BY <1>1 DEF PatchWrite
<1>3. \/ UNCHANGED doc /\ call'[c].pc = "idle"
      \/ \E s \in Statuses :
           /\ Exists(call[c].task)
           /\ \A u \in Tasks : /\ doc'[u].status = IF u = call[c].task THEN s ELSE doc[u].status
                               /\ doc'[u].runs = doc[u].runs /\ doc'[u].errs = doc[u].errs
           /\ call'[c].pc = "stop" /\ call'[c].status = s
           /\ call'[c].task = call[c].task /\ call'[c].errs = doc[call[c].task].errs
  <2>1. CASE ~Exists(call[c].task)
    BY <1>1, <2>1 DEF PatchWrite, NoCall
  <2>2. CASE Exists(call[c].task)
    <3> DEFINE t == call[c].task
    <3>1. PICK s \in IF call[c].kind = "resume" THEN {"active"} ELSE Patches \union {doc[t].status} :
            /\ doc' = [doc EXCEPT ![t].status = s]
            /\ call' = [call EXCEPT ![c].pc = "stop", ![c].status = s, ![c].errs = doc[t].errs]
      BY <2>2 DEF PatchWrite
    <3>2. s \in Statuses
      BY <2>2, SchedulerBounds DEF Exists, Statuses
    <3>3. /\ call'[c].pc = "stop" /\ call'[c].status = s
          /\ call'[c].task = call[c].task /\ call'[c].errs = doc[t].errs
      BY <1>1, <3>1 DEF Call
    <3>4. \A u \in Tasks : /\ doc'[u].status = IF u = t THEN s ELSE doc[u].status
                           /\ doc'[u].runs = doc[u].runs /\ doc'[u].errs = doc[u].errs
      BY <1>1, <3>1 DEF Doc
    <3> QED BY <2>2, <3>2, <3>3, <3>4
  <2> QED BY <2>1, <2>2
<1>4. call[c].pc = "patch" /\ UNCHANGED <<run, mode, handle, exec, todo, cleaning, faults, wins, losses, overlapped>>
  BY DEF PatchWrite, history
<1>5. TypeOK'
  <2>1. CallsTyped' /\ doc' \in [Tasks -> Doc]
    <3>1. CASE ~Exists(call[c].task)
      BY <1>1, <3>1, CallOver DEF IInv, PatchWrite
    <3>2. CASE Exists(call[c].task)
      <4> DEFINE t == call[c].task
      <4>1. PICK s \in IF call[c].kind = "resume" THEN {"active"} ELSE Patches \union {doc[t].status} :
              /\ doc' = [doc EXCEPT ![t].status = s]
              /\ call' = [call EXCEPT ![c].pc = "stop", ![c].status = s, ![c].errs = doc[t].errs]
        BY <3>2 DEF PatchWrite
      <4>2. s \in Statuses /\ doc[t].errs \in Nat
        BY <1>1, <3>2, SchedulerBounds, Numbers DEF IInv, Exists, Statuses
      <4> DEFINE x == [call[c] EXCEPT !.pc = "stop", !.status = s, !.errs = doc[t].errs]
      <4>3. x \in Call /\ x.task = t
        BY <1>1, <4>2 DEF Call
      <4>4. call' = [call EXCEPT ![c] = x]
        BY <1>1, <4>1
      <4> HIDE DEF x
      <4>5. doc' \in [Tasks -> Doc]
        BY <1>1, <4>1, <4>2, Documents DEF IInv
      <4> QED BY <1>1, <4>3, <4>4, <4>5, CallSet DEF IInv
    <3> QED BY <3>1, <3>2
  <2> QED BY <2>1, Typed DEF IInv, TypeOK, CallsTyped, PatchWrite, history
<1>6. ProcessInv'
  BY SchedulerBounds, <1>1, <1>2, <1>3, <1>4 DEF IInv, ProcessInv, Alive, Callers
<1>7. BornInv'
  BY SchedulerBounds, <1>1, <1>2, <1>3, <1>4 DEF IInv, BornInv, Activating, Statuses
<1>8. RunInv'
  BY <1>1, <1>2, <1>3, <1>4 DEF IInv, RunInv
<1>9. RunsSettle'
  BY <1>1, <1>2, <1>3, <1>4 DEF IInv, RunsSettle, Alive
<1>10. CountsBounded'
  BY Numbers, <1>1, <1>2, <1>3, <1>4 DEF IInv, CountsBounded
<1>11. CountsExact'
  BY Numbers, Existing, <1>1, <1>2, <1>3, <1>4 DEF IInv, CountsExact, Working, Resting
<1>12. FailInv'
  <2>1. \A u : CallPauses(u) => CallPauses(u)'
    BY <1>1, <1>2, <1>4, OtherCallers
  <2>2. \A u : ExecPauses(u) => ExecPauses(u)'
    BY <1>4, StillPaused
  <2>3. CASE UNCHANGED doc
    BY <1>4, <2>1, <2>2, <2>3 DEF IInv, FailInv, Alive
  <2>4. CASE call'[c].pc = "stop"
    <3>1. ASSUME doc'[call[c].task].status = "active", doc'[call[c].task].errs >= MaxErrors
          PROVE  CallPauses(call[c].task)'
      BY <1>1, <1>3, <2>4, <3>1 DEF CallPauses
    <3> QED BY <1>1, <1>3, <1>4, <2>1, <2>2, <2>4, <3>1 DEF IInv, FailInv, Alive
  <2> QED BY <1>3, <2>3, <2>4
<1>13. BootInv'
  BY SchedulerBounds, StillDeactivated, <1>1, <1>2, <1>3, <1>4 DEF IInv, BootInv, ProcessInv
<1> QED BY <1>5, <1>6, <1>7, <1>8, <1>9, <1>10, <1>11, <1>12, <1>13 DEF IInv

LEMMA DeleteStep ==
  ASSUME IInv, NEW c \in Clients, NEW t \in Tasks, Delete(c, t)
  PROVE  IInv'
<1>1. /\ \A f \in Execs : /\ exec'[f].pc = exec[f].pc /\ exec'[f].task = exec[f].task
                          /\ exec'[f].runs = exec[f].runs /\ exec'[f].errs = exec[f].errs
                          /\ exec'[f].armed = exec[f].armed
      /\ \A u \in Tasks : /\ handle'[u].on => handle[u].on
                          /\ handle'[u].errs = 0 \/ handle'[u].errs = handle[u].errs
  BY StopEffect DEF IInv, Delete
<1>2. TypeOK'
  <2>1. CallsTyped'
    BY Begun DEF IInv, Delete
  <2>2. ExecsTyped' /\ handle' \in [Tasks -> Instance]
    BY StopTyped DEF IInv, Delete
  <2> QED BY <2>1, <2>2, Typed DEF IInv, TypeOK, Delete, history, CountOp
<1>3. ProcessInv'
  BY SchedulerBounds, <1>1 DEF IInv, ProcessInv, Alive, Delete, Begin
<1>4. BornInv'
  BY SchedulerBounds, <1>1 DEF IInv, BornInv, Activating, Delete, Begin
<1>5. RunInv'
  BY <1>1 DEF IInv, RunInv, Delete
<1>6. RunsSettle'
  BY <1>1 DEF IInv, RunsSettle, Alive, Delete
<1>7. CountsBounded'
  BY Numbers, <1>1 DEF IInv, CountsBounded, Resting, Delete, Begin, NoCall, history
<1>8. CountsExact'
BY Numbers, Existing, <1>1 DEF IInv, CountsExact, Working, Callers, Delete, CountOp, Begin,
     history
<1>9. FailInv'
  <2>1. \A u : CallPauses(u) => CallPauses(u)'
    BY OtherCallers DEF Callers, Delete, Begin
  <2> QED BY <2>1, StillPaused, <1>1 DEF IInv, FailInv, Alive, Delete
<1>10. BootInv'
  BY SchedulerBounds, StillDeactivated, <1>1 DEF BootInv, Delete, Begin
<1> QED BY <1>2, <1>3, <1>4, <1>5, <1>6, <1>7, <1>8, <1>9, <1>10 DEF IInv

LEMMA RemoveStep ==
  ASSUME IInv, NEW c \in Clients, Remove(c)
  PROVE  IInv'
<1>1. TypeOK'
  <2>1. CallsTyped'
    BY CallOver DEF IInv, Remove, Callers
  <2>2. doc' \in [Tasks -> Doc]
    BY Documents DEF IInv, Remove, TypeOK
  <2> QED BY <2>1, <2>2, Typed DEF IInv, TypeOK, CallsTyped, Remove, history
<1>2. ProcessInv'
  BY SchedulerBounds DEF IInv, ProcessInv, Alive, Remove
<1>3. BornInv'
  BY SchedulerBounds DEF IInv, BornInv, Remove, NoCall
<1>4. RunInv'
  BY DEF IInv, RunInv, Remove
<1>5. RunsSettle'
  BY DEF IInv, RunsSettle, Alive, Remove
<1>6. CountsBounded'
  BY Numbers DEF IInv, CountsBounded, Remove, NoCall, history
<1>7. CountsExact'
  BY Numbers, Existing DEF IInv, CountsExact, Working, Remove, history
<1>8. FailInv'
  <2>1. \A u : CallPauses(u) => CallPauses(u)'
    BY OtherCallers DEF Callers, Remove
  <2> QED BY <2>1, StillPaused DEF IInv, FailInv, Alive, Remove
<1>9. BootInv'
  BY SchedulerBounds, StillDeactivated DEF IInv, BootInv, ProcessInv, Remove
<1> QED BY <1>1, <1>2, <1>3, <1>4, <1>5, <1>6, <1>7, <1>8, <1>9 DEF IInv

LEMMA CrashStep ==
  ASSUME IInv, Crash
  PROVE  IInv'
<1>1. TypeOK'
  <2>1. ExecsTyped'
    BY DEF IInv, Crash, TypeOK, ExecsTyped, Resting, Idle, Exec
  <2>2. handle' \in [Tasks -> Instance]
    BY DEF Crash, NoHandle, Instance
  <2>3. CallsTyped'
    BY DEF Crash, CallsTyped, NoCall, Call
  <2> QED BY <2>1, <2>2, <2>3, Typed DEF IInv, TypeOK, ExecsTyped, Crash, history
<1>2. ProcessInv'
  BY SchedulerBounds DEF ProcessInv, Resting, Callers, Crash, NoHandle, Idle, NoCall
<1>3. BornInv'
  BY SchedulerBounds DEF IInv, BornInv, Crash, NoHandle, Idle, NoCall
<1>4. RunInv'
  BY DEF IInv, RunInv, Crash, Idle
<1>5. RunsSettle'
  BY DEF RunsSettle, Alive, Crash
<1>6. CountsBounded'
  BY Numbers DEF IInv, CountsBounded, Resting, Crash, NoHandle, Idle, NoCall, history
<1>7. CountsExact'
  BY Numbers, Existing DEF IInv, CountsExact, Working, Resting, Crash, Idle, history
<1>8. FailInv'
  BY SchedulerBounds, StillPaused, Numbers DEF FailInv, Alive, Crash
<1>9. BootInv'
  BY SchedulerBounds, StillDeactivated DEF BootInv, Crash
<1> QED BY <1>1, <1>2, <1>3, <1>4, <1>5, <1>6, <1>7, <1>8, <1>9 DEF IInv

LEMMA RestartStep ==
  ASSUME IInv, Restart
  PROVE  IInv'
<1>1. TypeOK'
  <2> QED BY Typed DEF IInv, TypeOK, Restart, history
<1>2. ProcessInv'
  BY SchedulerBounds DEF IInv, ProcessInv, Alive, Restart
<1>3. BornInv'
  BY SchedulerBounds DEF IInv, BornInv, Restart
<1>4. RunInv'
  BY DEF IInv, RunInv, Restart
<1>5. RunsSettle'
  BY DEF RunsSettle, Alive, Restart
<1>6. CountsBounded'
  BY Numbers DEF IInv, CountsBounded, Restart, history
<1>7. CountsExact'
  BY Numbers, Existing DEF IInv, CountsExact, Working, Restart, history
<1>8. FailInv'
  BY SchedulerBounds, StillPaused, Numbers DEF FailInv, Alive, Restart
<1>9. BootInv'
  BY SchedulerBounds, StillDeactivated DEF BootInv, Restart
<1> QED BY <1>1, <1>2, <1>3, <1>4, <1>5, <1>6, <1>7, <1>8, <1>9 DEF IInv

LEMMA RepairRunStep ==
  ASSUME IInv, NEW e \in Execs, RepairRun(e)
  PROVE  IInv'
<1>1. TypeOK'
  <2> QED BY Typed DEF IInv, TypeOK, RepairRun, history, RunStatuses
<1>2. ProcessInv'
  BY SchedulerBounds DEF IInv, ProcessInv, Alive, RepairRun
<1>3. BornInv'
  BY SchedulerBounds DEF IInv, BornInv, RepairRun
<1>4. RunInv'
  BY DEF IInv, RunInv, ProcessInv, Resting, Alive, RepairRun, Orphaned
<1>5. RunsSettle'
  BY DEF RunsSettle, Alive, RepairRun
<1>6. CountsBounded'
  BY Numbers DEF IInv, CountsBounded, RepairRun, history
<1>7. CountsExact'
  BY Numbers, Existing DEF IInv, CountsExact, Working, RepairRun, history
<1>8. FailInv'
  BY SchedulerBounds, StillPaused, Numbers DEF FailInv, Alive, RepairRun
<1>9. BootInv'
  BY SchedulerBounds, StillDeactivated DEF BootInv, RepairRun
<1> QED BY <1>1, <1>2, <1>3, <1>4, <1>5, <1>6, <1>7, <1>8, <1>9 DEF IInv

LEMMA BootScanStep ==
  ASSUME IInv, BootScan
  PROVE  IInv'
<1>1. TypeOK'
  <2> QED BY Typed DEF IInv, TypeOK, BootScan, history
<1>2. ProcessInv'
  BY SchedulerBounds DEF IInv, ProcessInv, Alive, BootScan
<1>3. BornInv'
  BY SchedulerBounds DEF IInv, BornInv, BootScan
<1>4. RunInv'
  BY DEF IInv, RunInv, BootScan
<1>5. RunsSettle'
  BY DEF RunsSettle, BootScan, Orphaned
<1>6. CountsBounded'
  BY Numbers DEF IInv, CountsBounded, BootScan, history
<1>7. CountsExact'
  BY Numbers, Existing DEF IInv, CountsExact, Working, BootScan, history
<1>8. FailInv'
  BY SchedulerBounds, StillPaused, Numbers DEF FailInv, BootScan
<1>9. BootInv'
  <2>1. /\ mode = "reconciling" /\ todo' = {t \in Tasks : doc[t].status = "active"}
        /\ UNCHANGED <<doc, handle, exec, call>>
    BY DEF BootScan, history
  <2>2. /\ call["boot"].pc = "idle"
        /\ \A e \in Execs : exec[e].pc \in Resting
        /\ \A t \in Tasks : ~handle[t].on
    BY <2>1 DEF IInv, ProcessInv, Alive
  <2> QED BY <2>1, <2>2 DEF BootInv, Untouched
<1> QED BY <1>1, <1>2, <1>3, <1>4, <1>5, <1>6, <1>7, <1>8, <1>9 DEF IInv

LEMMA BootTaskStep ==
  ASSUME IInv, NEW t \in Tasks, BootTask(t)
  PROVE  IInv'
<1>1. call \in [Callers -> Call] /\ doc \in [Tasks -> Doc] /\ "boot" \in Callers
  BY DEF IInv, TypeOK, Callers
<1>2. \A d \in Callers : d # "boot" => call'[d] = call[d]
  BY <1>1 DEF BootTask, BootActivate
<1>3. \/ /\ UNCHANGED doc /\ call'["boot"].pc = "stop" /\ call'["boot"].task = t
         /\ call'["boot"].status = doc[t].status /\ call'["boot"].errs = doc[t].errs
      \/ /\ UNCHANGED call
         /\ \A u \in Tasks :
              /\ doc'[u].status = IF u = t /\ Exists(u) THEN "failed" ELSE doc[u].status
              /\ doc'[u].runs = doc[u].runs /\ doc'[u].errs = doc[u].errs
  BY <1>1, StatusEffect DEF IInv, BootTask, BootActivate
<1>4. /\ mode = "booting" /\ call["boot"].pc = "idle" /\ t \in todo /\ todo' = todo \ {t}
      /\ UNCHANGED <<run, mode, handle, exec, cleaning, faults, wins, losses, overlapped>>
  BY DEF BootTask, history
<1>5. TypeOK'
  <2>1. CallsTyped' /\ doc' \in [Tasks -> Doc]
    <3>1. \/ UNCHANGED doc /\ \E kind \in {"boot", "catchup"} : BootActivate(t, kind)
          \/ UNCHANGED call /\ SetStatus(t, "failed")
      BY DEF BootTask
    <3>2. "failed" \in Statuses
      BY DEF Statuses
    <3>3. UNCHANGED call => CallsTyped'
      BY DEF IInv, TypeOK, CallsTyped
    <3> QED BY <1>1, <3>1, <3>2, <3>3, BootCalled, StatusSet DEF IInv
  <2> QED BY <2>1, Typed DEF IInv, TypeOK, CallsTyped, BootTask, history
<1>6. ProcessInv'
  BY SchedulerBounds, <1>1, <1>2, <1>3, <1>4 DEF IInv, ProcessInv, Alive, Callers
<1>7. BornInv'
  BY SchedulerBounds, <1>1, <1>2, <1>3, <1>4 DEF IInv, BornInv
<1>8. RunInv'
  BY <1>1, <1>2, <1>3, <1>4 DEF IInv, RunInv
<1>9. RunsSettle'
  BY <1>1, <1>2, <1>3, <1>4 DEF IInv, RunsSettle, Alive
<1>10. CountsBounded'
  BY Numbers, <1>1, <1>2, <1>3, <1>4 DEF IInv, CountsBounded
<1>11. CountsExact'
  BY Numbers, Existing, <1>1, <1>2, <1>3, <1>4 DEF IInv, CountsExact, Working
<1>12. FailInv'
  <2>1. \A u : CallPauses(u) => CallPauses(u)'
    BY <1>1, <1>2, <1>4, OtherCallers
  <2>2. \A u : ExecPauses(u) => ExecPauses(u)'
    BY <1>4, StillPaused
  <2>3. doc'[t].status = "active" /\ doc'[t].errs >= MaxErrors => CallPauses(t)'
    BY <1>1, <1>3, Existing DEF IInv, CallPauses
  <2>4. \A u \in Tasks : u # t => doc'[u].status = doc[u].status /\ doc'[u].errs = doc[u].errs
    BY <1>3
  <2> QED BY <1>4, <2>1, <2>2, <2>3, <2>4 DEF IInv, FailInv, Alive
<1>13. BootInv'
BY SchedulerBounds, StillDeactivated, <1>1, <1>2, <1>3, <1>4 DEF IInv, BootInv, Untouched,
     TypeOK
<1> QED BY <1>5, <1>6, <1>7, <1>8, <1>9, <1>10, <1>11, <1>12, <1>13 DEF IInv

LEMMA CatchUpStep ==
  ASSUME IInv, CatchUp
  PROVE  IInv'
<1>1. call["boot"].task \in Tasks
      /\ \E e \in Execs :
           /\ exec[e].pc = "idle" /\ exec'[e].pc = "read" /\ exec'[e].task = call["boot"].task
           /\ exec'[e].runs = 0 /\ exec'[e].errs = 0
           /\ exec'[e].armed = handle[call["boot"].task].errs
           /\ \A f \in Execs : f # e => exec'[f] = exec[f]
  BY StartEffect DEF IInv, CatchUp, TypeOK, Callers
<1>2. TypeOK'
  <2>1. CallsTyped'
    BY CallOver DEF IInv, CatchUp, Callers
  <2>2. ExecsTyped'
    BY Started DEF IInv, CatchUp, TypeOK, Callers
  <2> QED BY <2>1, <2>2, Typed DEF IInv, TypeOK, CatchUp, history
<1>3. ProcessInv'
  BY SchedulerBounds, <1>1 DEF IInv, ProcessInv, Alive, CatchUp
<1>4. BornInv'
  BY SchedulerBounds, <1>1 DEF IInv, BornInv, Activating, Callers, CatchUp, NoCall
<1>5. RunInv'
  BY <1>1 DEF IInv, RunInv, CatchUp
<1>6. RunsSettle'
  BY <1>1 DEF IInv, RunsSettle, Alive, CatchUp
<1>7. CountsBounded'
  <2>1. UNCHANGED <<doc, handle, wins, losses>> /\ call' = [call EXCEPT !["boot"] = NoCall]
    BY DEF CatchUp, history
  <2>2. \A c \in Callers : call'[c] = call[c] \/ call'[c].pc = "idle"
    BY <2>1 DEF IInv, TypeOK, NoCall
  <2>3. call["boot"].task \in Tasks
    BY <1>1
  <2>4. \A f \in Execs : exec[f].pc \notin Resting => exec[f].task \in Tasks
    BY DEF IInv, TypeOK, Resting
  <2>5. \A f \in Execs : \/ exec'[f] = exec[f]
                         \/ /\ exec'[f].task = call["boot"].task
                            /\ exec'[f].runs = 0 /\ exec'[f].errs = 0
                            /\ exec'[f].armed = handle[call["boot"].task].errs
    BY <1>1
  <2> QED BY <2>1, <2>2, <2>3, <2>4, <2>5, Numbers DEF IInv, CountsBounded
<1>8. CountsExact'
  BY Numbers, Existing, <1>1 DEF IInv, CountsExact, Working, Callers, CatchUp, NoCall, history
<1>9. FailInv'
  <2>1. \A u : CallPauses(u) => CallPauses(u)'
    BY OtherCallers DEF Callers, CatchUp
  <2>2. \A u : ExecPauses(u) => ExecPauses(u)'
    BY <1>1, StillPaused
  <2> QED BY <2>1, <2>2 DEF IInv, FailInv, Alive, CatchUp
<1>10. BootInv'
  BY SchedulerBounds, StillDeactivated, <1>1 DEF IInv, BootInv, Untouched, CatchUp, NoCall
<1> QED BY <1>2, <1>3, <1>4, <1>5, <1>6, <1>7, <1>8, <1>9, <1>10 DEF IInv

LEMMA BootDoneStep ==
  ASSUME IInv, BootDone
  PROVE  IInv'
<1>1. TypeOK'
  <2> QED BY Typed DEF IInv, TypeOK, BootDone, history
<1>2. ProcessInv'
  BY SchedulerBounds DEF ProcessInv, Alive, BootDone
<1>3. BornInv'
  BY SchedulerBounds DEF IInv, BornInv, BootDone
<1>4. RunInv'
  BY DEF IInv, RunInv, BootDone
<1>5. RunsSettle'
  BY DEF IInv, RunsSettle, Alive, BootDone
<1>6. CountsBounded'
  BY Numbers DEF IInv, CountsBounded, BootDone, history
<1>7. CountsExact'
  BY Numbers, Existing DEF IInv, CountsExact, Working, BootDone, history
<1>8. FailInv'
  BY SchedulerBounds, StillPaused, Numbers DEF IInv, FailInv, Alive, BootDone
<1>9. BootInv'
  BY SchedulerBounds, StillDeactivated DEF BootInv, BootDone
<1> QED BY <1>1, <1>2, <1>3, <1>4, <1>5, <1>6, <1>7, <1>8, <1>9 DEF IInv

-----------------------------------------------------------------------------
(* The theorems.                                                            *)

LEMMA InitIInv == Init => IInv
<1> SUFFICES ASSUME Init PROVE IInv
  OBVIOUS
<1>1. TypeOK
  <2>1. exec \in [Execs -> Exec] /\ \A e \in Execs : exec[e].pc = "idle"
    BY DEF Init, Idle, Exec
  <2>2. call \in [Callers -> Call] /\ \A c \in Callers : call[c].pc = "idle"
    BY DEF Init, NoCall, Call
  <2>3. handle \in [Tasks -> Instance]
    BY DEF Init, NoHandle, Instance
  <2>4. doc \in [Tasks -> Doc]
    BY DEF Init, Doc
  <2> QED BY <2>1, <2>2, <2>3, <2>4 DEF Init, TypeOK, RunStatuses
<1>2. /\ mode = "up" /\ todo = {} /\ cleaning = {}
      /\ \A e \in Execs : exec[e].pc = "idle" /\ run[e] = "none"
      /\ \A c \in Callers : call[c].pc = "idle"
      /\ \A t \in Tasks : /\ doc[t].status = "none" /\ doc[t].runs = 0 /\ doc[t].errs = 0
                          /\ ~handle[t].on /\ handle[t].errs = 0
                          /\ wins[t] = 0 /\ losses[t] = 0
  BY DEF Init, Idle, NoCall, NoHandle
<1>3. ProcessInv /\ BornInv
  BY <1>2 DEF ProcessInv, BornInv, Alive, Activating, Callers
<1>4. RunInv /\ RunsSettle
  BY <1>2 DEF RunInv, RunsSettle
<1>5. CountsBounded /\ CountsExact
  BY <1>2 DEF CountsBounded, CountsExact, Resting, Working
<1>6. FailInv /\ BootInv
  BY <1>2 DEF FailInv, BootInv
<1> QED BY <1>1, <1>3, <1>4, <1>5, <1>6 DEF IInv

LEMMA StutterStep ==
  ASSUME IInv, UNCHANGED vars
  PROVE  IInv'
<1>1. TypeOK'
  BY DEF IInv, TypeOK, vars, history
<1>2. ProcessInv' /\ BornInv' /\ RunInv' /\ RunsSettle'
  BY DEF IInv, ProcessInv, BornInv, RunInv, RunsSettle, Alive, vars
<1>3. CountsBounded' /\ CountsExact'
  BY DEF IInv, CountsBounded, CountsExact, Working, vars, history
<1>4. FailInv' /\ BootInv'
  BY DEF IInv, FailInv, BootInv, ExecPauses, CallPauses, Untouched, Deactivates, Alive, vars
<1> QED BY <1>1, <1>2, <1>3, <1>4 DEF IInv

LEMMA NextIInv == IInv /\ [Next]_vars => IInv'
<1> SUFFICES ASSUME IInv, [Next]_vars PROVE IInv'
  OBVIOUS
<1>1. ASSUME NEW t \in Tasks,
             FireTimer(t) \/ Trigger(t) \/ CleanupScan(t) \/ CleanupCancel(t) \/ TimePasses(t)
      PROVE  IInv'
  BY <1>1, FireTimerStep, TriggerStep, CleanupScanStep, CleanupCancelStep, TimePassesStep
<1>2. ASSUME NEW e \in Execs, ExecuteStep(e) \/ NotifyThrows(e) \/ ExecuteThrows(e)
      PROVE  IInv'
BY <1>2, ReadTaskStep, HandleStep, WinRunStep, WinJobStep, WriteNextStep, NotifyWinStep,
     CompleteOneShotStep, LoseRunStep, LoseJobStep, AutoPauseStep, DeactivateStep,
     NotifyLossStep, HandleErrorStep, NotifyThrowsStep, ExecuteThrowsStep DEF ExecuteStep
<1>3. ASSUME NEW c \in Callers, ActivateStep(c) PROVE IInv'
BY <1>3, StopInstanceStep, BuildInstanceStep, WriteNextRunStep, PauseAtActivationStep DEF
     ActivateStep
<1>4. ASSUME NEW c \in Clients, UserStep(c) PROVE IInv'
BY <1>4, CreateStep, PauseStep, ResumeStep, UpdateStep, DeleteStep, PauseWriteStep,
     PatchWriteStep, RemoveStep DEF UserStep
<1>5. CASE BootStep \/ Crash
BY <1>5, RestartStep, BootScanStep, CatchUpStep, BootDoneStep, RepairRunStep, BootTaskStep,
     CrashStep DEF BootStep
<1>6. CASE UNCHANGED vars
  BY <1>6, StutterStep
<1> QED BY <1>1, <1>2, <1>3, <1>4, <1>5, <1>6 DEF Next

\* The inductive invariant: types, what a process that is down or booting leaves alone,
\* the place of each record, the counts, and who is about to pause a failing task.
THEOREM SchedulerInvariant == Spec => []IInv
  BY InitIInv, NextIInv, PTL DEF Spec

\* Every document, record, instance and call keeps its type.
THEOREM SchedulerTypes == Spec => []TypeOK
<1>1. IInv => TypeOK
  BY DEF IInv
<1> QED BY <1>1, SchedulerInvariant, PTL

\* A record says "running" only while its execution is under way, for any number of
\* executions, faults and deaths of the process.
THEOREM RecordsSettle == Spec => []RunsSettle
<1>1. IInv => RunsSettle
  BY DEF IInv
<1> QED BY <1>1, SchedulerInvariant, PTL

\* run_count and error_count stay within the outcomes recorded, and equal them for a
\* task that never had two executions at once.
THEOREM CountsAreHonest == Spec => []CountsHonest
<1>1. IInv => CountsHonest
  <2> SUFFICES ASSUME IInv, NEW t \in Tasks, Exists(t)
               PROVE  /\ doc[t].runs <= wins[t] /\ doc[t].errs <= losses[t]
                      /\ t \notin overlapped => doc[t].runs = wins[t] /\ doc[t].errs = losses[t]
    BY DEF CountsHonest
  <2>1. doc[t].status # "deleted"
    BY Existing DEF IInv
  <2> QED BY <2>1 DEF IInv, CountsBounded, CountsExact
<1> QED BY <1>1, SchedulerInvariant, PTL

\* As long as nothing throws, a task that reached the threshold is about to be paused,
\* whatever executions, calls and boots bring it there.
THEOREM FailingTaskIsPaused == Spec => []FailingIsPaused
<1>1. IInv => FailingIsPaused
  <2> SUFFICES ASSUME IInv, NEW t \in Tasks, mode = "up", faults = 0,
                      doc[t].status = "active", doc[t].errs >= MaxErrors
               PROVE  \/ \E e \in Of(t) : exec[e].pc = "pause"
                      \/ \E c \in Clients : /\ call[c].task = t
                                            /\ call[c].pc \in {"stop", "build", "autopause"}
                                            /\ call[c].errs >= MaxErrors
    BY DEF FailingIsPaused
  <2>1. todo = {} /\ call["boot"].pc = "idle"
    BY DEF IInv, ProcessInv
  <2>2. ExecPauses(t) \/ CallPauses(t)
    BY <2>1 DEF IInv, FailInv, Alive
  <2>3. CASE ExecPauses(t)
    BY <2>3 DEF ExecPauses, Of
  <2>4. CASE CallPauses(t)
    BY <2>1, <2>4 DEF CallPauses, Callers
  <2> QED BY <2>2, <2>3, <2>4
<1> QED BY <1>1, SchedulerInvariant, PTL

\* While it boots, the process arms active tasks only: one that is armed and not active
\* was paused or completed by a catch-up, which is about to disarm it.
THEOREM BootIsQuiet == Spec => []BootQuiet
<1>1. IInv => BootQuiet
  BY DEF IInv, BootInv, BootQuiet, Deactivates, Of
<1> QED BY <1>1, SchedulerInvariant, PTL

\* A settled record is never written again, but by a notification that throws after a
\* success.
THEOREM SettledRecordsStay == Spec => SettledStays
<1> DEFINE Settled(e) == run[e] \in {"success", "failed", "timeout"}
           Stays == \A e \in Execs : Settled(e) =>
                      \/ run'[e] = run[e]
                      \/ run[e] = "success" /\ run'[e] = "failed" /\ faults > 0
<1>1. IInv /\ [Next]_vars => [Stays]_vars
  <2> SUFFICES ASSUME IInv, Next, NEW f \in Execs, Settled(f)
               PROVE  \/ run'[f] = run[f]
                      \/ run[f] = "success" /\ run'[f] = "failed" /\ faults > 0
    OBVIOUS
  <2>1. run \in [Execs -> RunStatuses]
    BY DEF IInv, TypeOK
  <2>2. ASSUME NEW e \in Execs, ReadTask(e) \/ WinRun(e) \/ LoseRun(e) \/ RepairRun(e)
        PROVE  \/ run'[f] = run[f]
               \/ run[f] = "success" /\ run'[f] = "failed" /\ faults > 0
    BY <2>1, <2>2 DEF IInv, RunInv, ReadTask, WinRun, LoseRun, RepairRun, Orphaned
  <2>3. CASE UNCHANGED run
    BY <2>3
  <2>4. \/ UNCHANGED run
        \/ \E e \in Execs : ReadTask(e) \/ WinRun(e) \/ LoseRun(e) \/ RepairRun(e)
BY DEF Next, ExecuteStep, ActivateStep, UserStep, BootStep, FireTimer, Trigger, CleanupScan,
       CleanupCancel, TimePasses, Handle, WinJob, WriteNext, NotifyWin, NotifyThrows,
       CompleteOneShot, LoseJob, AutoPause, Deactivate, NotifyLoss, ExecuteThrows, HandleError,
       StopInstance, BuildInstance, WriteNextRun, PauseAtActivation, Create, Pause, PauseWrite,
       Resume, Update, PatchWrite, Delete, Remove, Crash, Restart, BootScan, BootTask, CatchUp,
       BootDone
  <2> QED BY <2>2, <2>3, <2>4
<1>2. Spec => [][Stays]_vars
  <2> HIDE DEF Stays
  <2> QED BY <1>1, SchedulerInvariant, PTL DEF Spec
<1> QED BY <1>2 DEF SettledStays
==============================================================================
