------------------------- MODULE QueueSafetyProofs -------------------------
(***************************************************************************)
(* What the queue promises while many activations share it, for every      *)
(* value of the constants: a job has one executor and is never left        *)
(* without, its outcome is announced once, a lane is served in order, and  *)
(* the slots are counted and bounded.                                      *)
(***************************************************************************)
EXTENDS DurableQueueProofs, FiniteSetTheorems

-----------------------------------------------------------------------------
(***************************************************************************)
(* A job is held by the dispatcher that claimed it, then by the executor   *)
(* it launches. The holder carries the number of the last claim, so two    *)
(* holders of a job would be one; and the lease of a held job has not      *)
(* lapsed, so nothing hands the job to somebody else meanwhile.            *)
(***************************************************************************)
Claiming(d, j) == disp[d].pc = "claimed" /\ disp[d].job = j

HoldOf(j, n) == /\ n = job[j].attempts
                /\ Status(j) \in {"running", "cancelled"}
                /\ job[j].lease # "lapsed"

Free(j) == /\ \A n \in Starts : ~Working(j, n)
           /\ \A d \in Dispatchers : ~Claiming(d, j)

HolderInv(j) ==
  /\ \A n \in Starts : Working(j, n) => HoldOf(j, n)
  /\ \A d \in Dispatchers :
       Claiming(d, j) => HoldOf(j, disp[d].start) /\ \A n \in Starts : ~Working(j, n)
  /\ \A d, e \in Dispatchers : Claiming(d, j) /\ Claiming(e, j) => d = e

ExclusiveInv == \A j \in Jobs : HolderInv(j)

\* No step but a claim or a launch adds a holder.
Shrink == /\ \A j \in Jobs, n \in Starts : Working(j, n)' => Working(j, n)
          /\ \A j \in Jobs, d \in Dispatchers :
               Claiming(d, j)' => Claiming(d, j) /\ disp'[d].start = disp[d].start

LEMMA ShrinkKeeps ==
  ASSUME ExclusiveInv, Shrink,
         \A j \in Jobs : Free(j)' \/ \A n \in Nat : HoldOf(j, n) => HoldOf(j, n)',
         QueueInv, QueueInv'
  PROVE  ExclusiveInv'
<1> SUFFICES ASSUME NEW j \in Jobs PROVE HolderInv(j)'
  BY DEF ExclusiveInv
<1>1. CASE Free(j)'
  BY <1>1 DEF Free, HolderInv
<1>2. CASE \A n \in Nat : HoldOf(j, n) => HoldOf(j, n)'
  <2>1. Starts \subseteq Nat /\ \A d \in Dispatchers : disp[d].start \in Nat
    BY Constants DEF Starts, QueueInv, CoreInv, DispInv, Dispatch
  <2>2. \A n \in Starts : Working(j, n)' => HoldOf(j, n)'
    BY <1>2, <2>1 DEF Shrink, ExclusiveInv, HolderInv
  <2>3. ASSUME NEW d \in Dispatchers, Claiming(d, j)'
        PROVE  HoldOf(j, disp[d].start)' /\ \A n \in Starts : ~Working(j, n)'
    <3>1. Claiming(d, j) /\ disp'[d].start = disp[d].start /\ disp[d].start \in Nat
      BY <2>1, <2>3 DEF Shrink
    <3>2. HoldOf(j, disp[d].start) /\ \A n \in Starts : ~Working(j, n)
      BY <3>1 DEF ExclusiveInv, HolderInv
    <3> QED
      BY <1>2, <3>1, <3>2 DEF Shrink, HoldOf, Status
  <2>4. \A d, e \in Dispatchers : Claiming(d, j)' /\ Claiming(e, j)' => d = e
    BY DEF Shrink, ExclusiveInv, HolderInv
  <2> QED
    BY <2>2, <2>3, <2>4 DEF HolderInv
<1> QED
  BY <1>1, <1>2

LEMMA SameActivations ==
  ASSUME UNCHANGED <<disp, exec>>
  PROVE  Shrink
  BY DEF Shrink, Working, Claiming

LEMMA SameHolds ==
  ASSUME UNCHANGED job
  PROVE  \A j \in Jobs, n \in Nat : HoldOf(j, n) => HoldOf(j, n)'
  BY DEF HoldOf, Status

\* A write of one document leaves the holds of the others alone.
LEMMA WriteHolds ==
  ASSUME QueueInv, NEW j \in Jobs, NEW w, job' = [job EXCEPT ![j] = w],
         Free(j)' \/ \A n \in Nat : HoldOf(j, n) => HoldOf(j, n)'
  PROVE  \A i \in Jobs : Free(i)' \/ \A n \in Nat : HoldOf(i, n) => HoldOf(i, n)'
<1>1. \A i \in Jobs : i # j => job'[i] = job[i]
  BY DEF QueueInv, CoreInv, DocsInv
<1> QED
  BY <1>1 DEF HoldOf, Status

\* An execution moves away from "working", or stays where it is.
LEMMA ExecShrinks ==
  ASSUME QueueInv, NEW j \in Jobs, NEW n \in Starts, NEW r,
         r.pc = "working" => Working(j, n),
         exec' = [exec EXCEPT ![<<j, n>>] = r], UNCHANGED disp
  PROVE  Shrink
<1>1. \A i \in Jobs, m \in Starts : exec'[<<i, m>>] = IF i = j /\ m = n THEN r ELSE exec[<<i, m>>]
  BY DEF QueueInv, CoreInv, ExecInv
<1> QED
  BY <1>1 DEF Shrink, Working, Claiming

\* A dispatcher moves to a step where it holds nothing.
LEMMA DispShrinks ==
  ASSUME QueueInv, NEW d \in Dispatchers, NEW r, r.pc # "claimed",
         disp' = [disp EXCEPT ![d] = r], UNCHANGED exec
  PROVE  Shrink
<1>1. \A e \in Dispatchers : disp'[e] = IF e = d THEN r ELSE disp[e]
  BY DEF QueueInv, CoreInv, DispInv
<1> QED
  BY <1>1 DEF Shrink, Working, Claiming

LEMMA InitExclusive == Init => ExclusiveInv
  BY DEF Init, ExclusiveInv, HolderInv, Working, Claiming, NoExec, Idle

\* A claim: the job was pending, so nobody held it.
LEMMA ClaimExclusive ==
  ASSUME QueueInv, QueueInv', ExclusiveInv, NEW d \in Dispatchers, ClaimJob(d),
         CanClaim(job[disp[d].job])
  PROVE  ExclusiveInv'
<1>1. PICK j \in Jobs : j = disp[d].job
  BY DEF ClaimJob, QueueInv, CoreInv, DispInv
<1>2. Free(j)
  BY <1>1 DEF Free, ExclusiveInv, HolderInv, HoldOf, CanClaim, Status
<1>3. /\ job[j] \in Doc /\ job \in [Jobs -> Doc] /\ disp \in [Dispatchers -> Dispatch]
      /\ UNCHANGED exec
  BY DEF QueueInv, CoreInv, DocsInv, DispInv, ClaimJob
<1>4. PICK k \in Nat : k = job[j].attempts + 1
  BY <1>3, Constants DEF Doc
<1>5. \A i \in Jobs : job'[i] = IF i = j THEN ClaimedDoc(job[j]) ELSE job[i]
  BY <1>1, <1>3 DEF ClaimJob
<1>6. /\ \A e \in Dispatchers \ {d} : disp'[e] = disp[e]
      /\ disp'[d].pc = "claimed" /\ disp'[d].job = j
      /\ disp'[d].start = k
  BY <1>4, <1>1, <1>3 DEF ClaimJob, Dispatch
<1>7. HoldOf(j, k)'
  <2>1. /\ ClaimedDoc(job[j]).attempts = job[j].attempts + 1
        /\ ClaimedDoc(job[j]).status = "running" /\ ClaimedDoc(job[j]).lease = "live"
    BY <1>3 DEF ClaimedDoc, Doc
  <2> QED
    BY <1>4, <1>5, <2>1 DEF HoldOf, Status
<1>8. ASSUME NEW i \in Jobs PROVE HolderInv(i)'
  <2>1. CASE i = j
    BY <1>2, <1>3, <1>6, <1>7, <2>1 DEF HolderInv, HoldOf, Free, Working, Claiming
  <2>2. CASE i # j
    BY <1>3, <1>5, <1>6, <2>2 DEF HolderInv, ExclusiveInv, HoldOf, Working, Claiming, Status
  <2> QED
    BY <2>1, <2>2
<1> QED
  BY <1>8 DEF ExclusiveInv

\* A launch: the executor takes over the hold of its dispatcher.
LEMMA LaunchExclusive ==
  ASSUME QueueInv, QueueInv', ExclusiveInv, NEW d \in Dispatchers, Launch(d)
  PROVE  ExclusiveInv'
<1>1. PICK j \in Jobs : j = disp[d].job
  BY DEF Launch, QueueInv, CoreInv, DispInv
<1>2. PICK k \in Nat : k = disp[d].start
  BY DEF QueueInv, CoreInv, DispInv, Dispatch
<1>3. Claiming(d, j) /\ HoldOf(j, k) /\ \A n \in Starts : ~Working(j, n)
  BY <1>1, <1>2 DEF Launch, Claiming, ExclusiveInv, HolderInv
<1>4. /\ UNCHANGED job /\ exec \in [Jobs \X Starts -> Execution]
      /\ disp \in [Dispatchers -> Dispatch]
  BY DEF Launch, QueueInv, CoreInv, ExecInv, DispInv
<1>5. /\ \A e \in Dispatchers \ {d} : disp'[e] = disp[e]
      /\ disp'[d].pc = "idle"
  BY <1>4 DEF Launch, Idle
<1>6. \A i \in Jobs, n \in Starts : Working(i, n)' => Working(i, n) \/ (i = j /\ n = k)
  BY <1>1, <1>2, <1>4 DEF Launch, Working
<1>7. ASSUME NEW i \in Jobs PROVE HolderInv(i)'
  <2>1. CASE i = j
    <3>1. \A e \in Dispatchers : ~Claiming(e, j)'
      BY <1>3, <1>5 DEF Claiming, ExclusiveInv, HolderInv
    <3>2. \A n \in Starts : Working(j, n)' => HoldOf(j, n)'
      BY <1>3, <1>4, <1>6 DEF HoldOf, Status
    <3> QED
      BY <2>1, <3>1, <3>2 DEF HolderInv
  <2>2. CASE i # j
    BY <1>4, <1>5, <1>6, <2>2 DEF HolderInv, ExclusiveInv, HoldOf, Claiming, Status
  <2> QED
    BY <2>1, <2>2
<1> QED
  BY <1>7 DEF ExclusiveInv

\* An answer: the only execution working on the job stops working.
LEMMA AnswerFrees ==
  ASSUME QueueInv, ExclusiveInv, NEW j \in Jobs, NEW n \in Starts, Answer(j, n)
  PROVE  Shrink /\ Free(j)' /\ \A i \in Jobs \ {j} : job'[i] = job[i]
<1>1. Working(j, n) /\ UNCHANGED disp
  BY DEF Answer, SucceedJob, FailJob, FailOrRetryJob, AbortJob, GiveUpStore, Store
<1>2. PICK p \in {"hook_ok", "hook_fail", "closing"} :
        exec' = [exec EXCEPT ![<<j, n>>].pc = p]
  BY DEF Answer, SucceedJob, FailJob, FailOrRetryJob, AbortJob, GiveUpStore, Store,
         AfterRetry
<1> DEFINE r == [exec[<<j, n>>] EXCEPT !.pc = p]
<1>3. r.pc = p /\ exec' = [exec EXCEPT ![<<j, n>>] = r]
  BY <1>2 DEF QueueInv, CoreInv, ExecInv, Execution
<1>4. Shrink
  BY <1>1, <1>3, ExecShrinks
<1>5. ~Working(j, n)'
  BY <1>3 DEF QueueInv, CoreInv, ExecInv, Working
<1>6. \A m \in Starts : Working(j, m) => m = n
  BY <1>1 DEF ExclusiveInv, HolderInv, HoldOf
<1>7. \A d \in Dispatchers : ~Claiming(d, j)
  BY <1>1 DEF ExclusiveInv, HolderInv
<1>8. Free(j)'
  BY <1>4, <1>5, <1>6, <1>7 DEF Shrink, Free
<1>9. \A i \in Jobs \ {j} : job'[i] = job[i]
  BY DEF Answer, SucceedJob, FailJob, FailOrRetryJob, AbortJob, GiveUpStore, Store,
         QueueInv, CoreInv, DocsInv
<1> QED
  BY <1>4, <1>8, <1>9

\* Leases of live executions are renewed in time (LeaseMayLapse is FALSE): then a
\* step that is neither a claim nor a launch adds no holder, and takes a job away
\* from its holder only by ending the hold.
Kept == \A j \in Jobs : Free(j)' \/ \A n \in Nat : HoldOf(j, n) => HoldOf(j, n)'
Launches == \E d \in Dispatchers : Launch(d)

LEMMA StepShrinks ==
  ASSUME ~LeaseMayLapse, QueueInv, ExclusiveInv, [Next]_vars
  PROVE  (Shrink /\ Kept) \/ Claims \/ Launches
<1> USE DEF Kept
<1>1. CASE UNCHANGED vars
  BY <1>1, SameActivations, SameHolds DEF vars, memory
<1>2. CASE DispatchNext
  <2>1. PICK d \in Dispatchers :
          ReadLane(d) \/ ClaimJob(d) \/ Launch(d) \/ \E l \in Lanes : FireTimer(d, l)
    BY <1>2 DEF DispatchNext
  <2>2. CASE ReadLane(d)
    <3>1. PICK r : r.pc # "claimed" /\ disp' = [disp EXCEPT ![d] = r]
      <4>1. Idle.pc = "idle" /\ disp[d] \in Dispatch /\ disp \in [Dispatchers -> Dispatch]
        BY DEF Idle, QueueInv, CoreInv, DispInv
      <4>2. \A j \in Jobs : [disp[d] EXCEPT !.pc = "claim", !.job = j].pc = "claim"
        BY <4>1 DEF Dispatch
      <4>3. \/ disp' = [disp EXCEPT ![d] = Idle]
            \/ \E j \in Jobs :
                 disp' = [disp EXCEPT ![d] = [disp[d] EXCEPT !.pc = "claim", !.job = j]]
        BY <2>2, <4>1 DEF ReadLane
      <4>4. CASE disp' = [disp EXCEPT ![d] = Idle]
        BY <4>1, <4>4
      <4>5. ASSUME NEW j \in Jobs,
                   disp' = [disp EXCEPT ![d] = [disp[d] EXCEPT !.pc = "claim", !.job = j]]
            PROVE  \E r : r.pc # "claimed" /\ disp' = [disp EXCEPT ![d] = r]
        <5> WITNESS [disp[d] EXCEPT !.pc = "claim", !.job = j]
        <5> QED
          BY <4>2, <4>5
      <4> QED
        BY <4>3, <4>4, <4>5
    <3> QED
      BY <2>2, <3>1, DispShrinks, SameHolds DEF ReadLane
  <2>3. CASE ClaimJob(d)
    <3>1. CASE CanClaim(job[disp[d].job])
      BY <2>3, <3>1 DEF Claims
    <3>2. CASE ~CanClaim(job[disp[d].job])
      <4>1. [Idle EXCEPT !.pc = "read", !.lane = disp[d].lane].pc = "read"
        BY DEF Idle
      <4>2. disp' = [disp EXCEPT ![d] = [Idle EXCEPT !.pc = "read", !.lane = disp[d].lane]]
        BY <2>3, <3>2 DEF ClaimJob
      <4>3. UNCHANGED <<exec, job>>
        BY <2>3, <3>2 DEF ClaimJob
      <4>4. Shrink
        <5> DEFINE r == [Idle EXCEPT !.pc = "read", !.lane = disp[d].lane]
        <5>1. r.pc # "claimed" /\ disp' = [disp EXCEPT ![d] = r]
          BY <4>1, <4>2
        <5> HIDE DEF r
        <5> QED
          BY <4>3, <5>1, DispShrinks
      <4> QED
        BY <4>3, <4>4, SameHolds
    <3> QED
      BY <3>1, <3>2
  <2>4. CASE Launch(d)
    BY <2>4 DEF Launches
  <2>5. CASE \E l \in Lanes : FireTimer(d, l)
    <3>1. PICK l \in Lanes : FireTimer(d, l)
      BY <2>5
    <3> DEFINE r == [Idle EXCEPT !.pc = "read", !.lane = l]
    <3>2. r.pc # "claimed" /\ disp' = [disp EXCEPT ![d] = r] /\ UNCHANGED <<exec, job>>
      BY <3>1 DEF FireTimer, Idle
    <3> HIDE DEF r
    <3> QED
      BY <3>2, DispShrinks, SameHolds
  <2> QED
    BY <2>1, <2>2, <2>3, <2>4, <2>5
<1>3. CASE ExecNext
  <2>1. PICK j \in Jobs, n \in Starts :
          Answer(j, n) \/ CallHook(j, n) \/ CloseExec(j, n) \/ TimeOut(j, n)
    BY <1>3 DEF ExecNext
  <2>2. CASE Answer(j, n)
    BY <2>2, AnswerFrees DEF HoldOf, Status
  <2>3. exec[<<j, n>>] \in Execution
    BY DEF QueueInv, CoreInv, ExecInv
  <2>4. CASE CallHook(j, n)
    <3> DEFINE r == [exec[<<j, n>>] EXCEPT !.pc = "closing"]
    <3>1. r.pc = "closing" /\ exec' = [exec EXCEPT ![<<j, n>>] = r] /\ UNCHANGED <<disp, job>>
      BY <2>3, <2>4 DEF CallHook, Execution
    <3> HIDE DEF r
    <3> QED
      BY <3>1, ExecShrinks, SameHolds
  <2>5. CASE CloseExec(j, n)
    <3>1. NoExec.pc = "none"
      BY DEF NoExec
    <3> QED
      BY <2>5, <3>1, ExecShrinks, SameHolds DEF CloseExec
  <2>6. CASE TimeOut(j, n)
    <3> DEFINE r == [exec[<<j, n>>] EXCEPT !.aborted = TRUE]
    <3>1. exec' = [exec EXCEPT ![<<j, n>>] = r] /\ UNCHANGED <<disp, job>> /\ Working(j, n)
      BY <2>6 DEF TimeOut
    <3> HIDE DEF r
    <3> QED
      BY <3>1, ExecShrinks, SameHolds
  <2> QED
    BY <2>1, <2>2, <2>4, <2>5, <2>6
<1>4. CASE TimeNext
  <2>1. CASE TickDispatch \/ \E j \in Jobs : TickNotice(j)
    BY <2>1, SameActivations, SameHolds DEF TickDispatch, TickNotice
  <2>2. ASSUME NEW j \in Jobs,
               BackoffElapses(j) \/ LeaseLapses(j) \/ RenewLease(j) \/ TickReclaim(j)
        PROVE  Shrink /\ Kept
    <3>1. UNCHANGED <<disp, exec>> /\ \A i \in Jobs \ {j} : job'[i] = job[i]
      BY <2>2 DEF BackoffElapses, LeaseLapses, RenewLease, TickReclaim, memory,
                  QueueInv, CoreInv, DocsInv
    <3>2. Free(j) => Free(j)'
      BY <3>1 DEF Free, Working, Claiming
    <3>3. CASE BackoffElapses(j)
      BY <3>1, <3>3, SameActivations DEF BackoffElapses, HoldOf, Status
    <3>4. CASE LeaseLapses(j)
      <4>1. Free(j)
        BY <3>4 DEF LeaseLapses, Renewing, Free, Working, Claiming
      <4> QED
        BY <3>1, <3>2, <4>1, SameActivations DEF HoldOf, Status
    <3>5. CASE RenewLease(j)
      <4>1. /\ job'[j].attempts = job[j].attempts /\ job'[j].status = job[j].status
            /\ job'[j].lease = "live"
        BY <3>5 DEF RenewLease, QueueInv, CoreInv, DocsInv, Doc
      <4> QED
        BY <3>1, <4>1, SameActivations DEF HoldOf, Status
    <3>6. CASE TickReclaim(j)
      <4>1. Free(j)
        BY <3>6 DEF TickReclaim, Lapsed, Free, ExclusiveInv, HolderInv, HoldOf
      <4> QED
        BY <3>1, <3>2, <4>1, SameActivations DEF HoldOf, Status
    <3> QED
      BY <2>2, <3>3, <3>4, <3>5, <3>6
  <2> QED
    BY <1>4, <2>1, <2>2 DEF TimeNext
<1>5. CASE UserNext
  <2>1. ASSUME NEW l \in Lanes, NEW k \in Kinds, Enqueue(l, k)
        PROVE  Shrink /\ Kept
    BY <2>1, SameActivations, SameHolds DEF Enqueue, memory
  <2>7. ASSUME NEW j \in Jobs, StoreJob(j)
        PROVE  Shrink /\ Kept
    <3>1. Status(j) = "absent" /\ job' = [job EXCEPT ![j] = creating[j]]
      BY <2>7 DEF StoreJob
    <3>2. \A n \in Nat : ~HoldOf(j, n)
      BY <3>1 DEF HoldOf
    <3> QED
      BY <2>7, <3>1, <3>2, SameActivations, WriteHolds DEF StoreJob
  <2>2. ASSUME NEW j \in Jobs, Cancel(j)
        PROVE  Shrink /\ Kept
    <3>1. \A i \in Jobs, n \in Starts : exec'[<<i, n>>].pc = exec[<<i, n>>].pc
      BY <2>2, SameDocs, AbortedKeepsExec DEF Cancel, QueueInv, CoreInv
    <3> QED
      BY <2>2, <3>1, SameHolds DEF Cancel, Shrink, Working, Claiming
  <2>3. ASSUME NEW j \in Jobs, WriteCancel(j)
        PROVE  Shrink /\ Kept
    <3>1. UNCHANGED <<disp, exec>> /\ \A i \in Jobs \ {j} : job'[i] = job[i]
      BY <2>3 DEF WriteCancel, QueueInv, CoreInv, DocsInv
    <3>2. \A n \in Nat : HoldOf(j, n) => HoldOf(j, n)'
      <4>1. CASE CanCancel(job[j])
        <5>1. "cancelled" \in Statuses /\ job[j] \in Doc /\ job \in [Jobs -> Doc]
          BY DEF Statuses, Final, QueueInv, CoreInv, DocsInv
        <5>2. job'[j] = Released(job[j], "cancelled")
          BY <2>3, <4>1, <5>1 DEF WriteCancel
        <5>3. /\ job'[j].status = "cancelled" /\ job'[j].lease = "null"
              /\ job'[j].attempts = job[j].attempts
          BY <5>1, <5>2, ReleasedFields
        <5> QED
          BY <5>3 DEF HoldOf, Status
      <4>2. CASE ~CanCancel(job[j])
        BY <2>3, <4>2 DEF WriteCancel, HoldOf, Status, QueueInv, CoreInv, DocsInv
      <4> QED
        BY <4>1, <4>2
    <3> QED
      BY <3>1, <3>2, SameActivations DEF HoldOf, Status
  <2>4. ASSUME NEW l \in Lanes, CancelLane(l)
        PROVE  Shrink /\ Kept
    BY <2>4, SameActivations, SameHolds DEF CancelLane
  <2>6. ASSUME NEW l \in Lanes, CancelRunning(l)
        PROVE  Shrink /\ Kept
    <3>1. PICK j \in Jobs : exec' = Aborted({j})
      BY <2>6 DEF CancelRunning, Registered
    <3>2. \A i \in Jobs, n \in Starts : exec'[<<i, n>>].pc = exec[<<i, n>>].pc
      BY <2>6, <3>1, SameDocs, AbortedKeepsExec DEF CancelRunning, QueueInv, CoreInv
    <3> QED
      BY <2>6, <3>2, SameHolds DEF CancelRunning, Shrink, Working, Claiming
  <2>5. ASSUME NEW l \in Lanes, CancelWaiting(l)
        PROVE  Shrink /\ Kept
    BY <2>5, SameActivations, SameHolds DEF CancelWaiting
  <2> QED
    BY <1>5, <2>1, <2>2, <2>3, <2>4, <2>5, <2>6, <2>7 DEF UserNext
<1>6. CASE BootNext
  <2>1. CASE Crash
    <3>1. \A j \in Jobs : Free(j)'
      BY <2>1 DEF Crash, Free, Working, Claiming, NoExec, Idle
    <3> QED
      BY <3>1 DEF Free, Shrink
  <2>2. CASE Restart \/ StartQueue
    BY <2>2, SameActivations, SameHolds DEF Restart, StartQueue, memory
  <2>3. ASSUME NEW j \in Jobs, Reconcile(j)
        PROVE  Shrink /\ Kept
    <3>1. UNCHANGED <<disp, exec, phase>> /\ ~Serving
      BY <2>3 DEF Reconcile, memory, Serving
    <3>2. \A i \in Jobs : Free(i)'
      BY <3>1 DEF QueueInv, CoreInv, QuietUnlessServing, Free, Working, Claiming
    <3> QED
      BY <3>1, <3>2, SameActivations
  <2> QED
    BY <1>6, <2>1, <2>2, <2>3 DEF BootNext
<1> QED
  BY <1>1, <1>2, <1>3, <1>4, <1>5, <1>6 DEF Next

LEMMA ExclusiveStep ==
  ASSUME ~LeaseMayLapse, QueueInv, QueueInv', ExclusiveInv, [Next]_vars
  PROVE  ExclusiveInv'
  BY StepShrinks, ShrinkKeeps, ClaimExclusive, LaunchExclusive DEF Kept, Claims, Launches

-----------------------------------------------------------------------------
(* Exclusion *)

LEMMA ExclusiveImplies == ExclusiveInv => OneExecutorPerJob
  BY DEF ExclusiveInv, HolderInv, HoldOf, OneExecutorPerJob

\* As long as the renewal timer keeps the leases of live executions, two executors
\* never work on one job, however claims, retries, cancels, reclaims, store faults
\* and restarts interleave.
THEOREM ExecutorsExclude == Spec => []OneExecutorPerJob
<1>1. CASE LeaseMayLapse
  <2>1. OneExecutorPerJob
    BY <1>1 DEF OneExecutorPerJob
  <2> QED
    BY <2>1, PTL
<1>2. CASE ~LeaseMayLapse
  <2>1. QueueInv /\ QueueInv' /\ ExclusiveInv /\ [Next]_vars => ExclusiveInv'
    BY <1>2, ExclusiveStep
  <2> QED
    BY <2>1, InitExclusive, QueueInvariant, ExclusiveImplies, PTL DEF Spec
<1> QED
  BY <1>1, <1>2

-----------------------------------------------------------------------------
(***************************************************************************)
(* No running job is left alone. A hold ends only with a write that takes  *)
(* the job out of "running", unless the store gave that write up.          *)
(***************************************************************************)

\* Whoever holds a job that still runs after the step holds it as before.
HeldKeeps ==
  \A j \in Jobs : Status(j)' = "running" =>
    /\ Status(j) = "running" /\ job'[j].attempts = job[j].attempts
    /\ \A n \in Starts : Working(j, n) => Working(j, n)'
    /\ \A d \in Dispatchers : Claiming(d, j) => disp'[d] = disp[d]

\* The start a running job is on is one of Starts.
LEMMA RunningStart ==
  ASSUME QueueInv, NEW j \in Jobs, Status(j) = "running"
  PROVE  job[j].attempts \in Starts /\ (Serving => Owned(job[j]))
<1>1. job[j].attempts \in 0..MaxStarts /\ job[j].attempts # 0
  BY DEF QueueInv, CoreInv, DocsInv, GoodDoc, Doc, Status
<1> QED
  BY <1>1, Constants DEF Starts, QueueInv, CoreInv, DocsInv, Owned, Status

LEMMA HeldStays ==
  ASSUME QueueInv, RunningIsHeld, HeldKeeps, UNCHANGED phase, faults' = 0 => faults = 0
  PROVE  RunningIsHeld'
<1> SUFFICES ASSUME faults' = 0, NEW j \in Jobs, Serving', Status(j)' = "running"
             PROVE  Held(j)'
  BY DEF RunningIsHeld
<1>1. Held(j) /\ Status(j) = "running" /\ job'[j].attempts = job[j].attempts
  BY DEF RunningIsHeld, HeldKeeps, Serving
<1>2. PICK k \in Starts : k = job[j].attempts
  BY <1>1, RunningStart
<1> QED
  BY <1>1, <1>2 DEF Held, HeldKeeps, Working, Claiming

\* Nothing is written and no holder moves.
LEMMA IdleKeeps ==
  ASSUME UNCHANGED job,
         \A j \in Jobs, n \in Starts : Working(j, n) => Working(j, n)',
         \A d \in Dispatchers : disp[d].pc = "claimed" => disp'[d] = disp[d]
  PROVE  HeldKeeps
  BY DEF HeldKeeps, Claiming, Status

\* One document is written, and it does not run unless it did.
LEMMA WriteKeeps ==
  ASSUME NEW j \in Jobs, \A i \in Jobs \ {j} : job'[i] = job[i],
         job'[j].status = "running" =>
           job[j].status = "running" /\ job'[j].attempts = job[j].attempts,
         UNCHANGED <<disp, exec>>
  PROVE  HeldKeeps
  BY DEF HeldKeeps, Claiming, Working, Status

LEMMA DispatchHolds ==
  ASSUME QueueInv, QueueInv', RunningIsHeld, DispatchNext
  PROVE  RunningIsHeld'
<1>1. PICK d \in Dispatchers :
        ReadLane(d) \/ ClaimJob(d) \/ Launch(d) \/ \E l \in Lanes : FireTimer(d, l)
  BY DEF DispatchNext
<1>2. /\ disp \in [Dispatchers -> Dispatch] /\ job \in [Jobs -> Doc]
      /\ exec \in [Jobs \X Starts -> Execution]
  BY DEF QueueInv, CoreInv, DispInv, DocsInv, ExecInv
<1>3. CASE ReadLane(d) \/ (\E l \in Lanes : FireTimer(d, l))
           \/ (ClaimJob(d) /\ ~CanClaim(job[disp[d].job]))
  <2>1. UNCHANGED <<job, phase, exec, faults>> /\ disp[d].pc # "claimed"
    BY <1>3 DEF ReadLane, FireTimer, ClaimJob
  <2>2. \A e \in Dispatchers \ {d} : disp'[e] = disp[e]
    BY <1>2, <1>3 DEF ReadLane, FireTimer, ClaimJob
  <2> QED
    BY <2>1, <2>2, IdleKeeps, HeldStays DEF Working
<1>4. CASE ClaimJob(d) /\ CanClaim(job[disp[d].job])
  <2>1. PICK j \in Jobs : j = disp[d].job
    BY <1>4 DEF ClaimJob, QueueInv, CoreInv, DispInv
  <2>2. UNCHANGED <<phase, exec, faults>> /\ disp[d].pc = "claim"
    BY <1>4 DEF ClaimJob
  <2>3. \A i \in Jobs : job'[i] = IF i = j THEN ClaimedDoc(job[j]) ELSE job[i]
    BY <1>2, <1>4, <2>1 DEF ClaimJob
  <2>4. /\ \A e \in Dispatchers \ {d} : disp'[e] = disp[e]
        /\ disp'[d].pc = "claimed" /\ disp'[d].job = j
        /\ disp'[d].start = job[j].attempts + 1
    BY <1>2, <1>4, <2>1 DEF ClaimJob, Dispatch
  <2>5. ClaimedDoc(job[j]).attempts = job[j].attempts + 1
    BY <1>2 DEF ClaimedDoc, Doc
  <2> SUFFICES ASSUME faults' = 0, NEW i \in Jobs, Serving', Status(i)' = "running"
               PROVE  Held(i)'
    BY DEF RunningIsHeld
  <2>6. CASE i = j
    BY <2>3, <2>4, <2>5, <2>6 DEF Held
  <2>7. CASE i # j
    <3>1. job'[i] = job[i] /\ Held(i)
      BY <2>2, <2>3, <2>7 DEF RunningIsHeld, Serving, Status
    <3>2. PICK k \in Starts : k = job[i].attempts
      BY <3>1, RunningStart DEF Status
    <3> QED
      BY <2>2, <2>4, <3>1, <3>2 DEF Held, Working
  <2> QED
    BY <2>6, <2>7
<1>5. CASE Launch(d)
  <2>1. PICK j \in Jobs : j = disp[d].job
    BY <1>5 DEF Launch, QueueInv, CoreInv, DispInv
  <2>2. UNCHANGED <<phase, job, faults>>
    BY <1>5 DEF Launch
  <2>3. \A e \in Dispatchers \ {d} : disp'[e] = disp[e]
    BY <1>2, <1>5 DEF Launch
  <2>4. \A i \in Jobs, n \in Starts :
          IF i = j /\ n = disp[d].start THEN Working(i, n)'
          ELSE Working(i, n)' <=> Working(i, n)
    BY <1>2, <1>5, <2>1 DEF Launch, Working
  <2> SUFFICES ASSUME faults' = 0, NEW i \in Jobs, Serving', Status(i)' = "running"
               PROVE  Held(i)'
    BY DEF RunningIsHeld
  <2>5. PICK k \in Starts : k = job[i].attempts
    BY <2>2, RunningStart DEF Status
  <2>6. Held(i)
    BY <2>2 DEF RunningIsHeld, Serving, Status
  <2> QED
    BY <2>1, <2>2, <2>3, <2>4, <2>5, <2>6 DEF Held, Working
<1> QED
  BY <1>1, <1>3, <1>4, <1>5

\* An answer that is stored takes its job out of "running".
LEMMA AnswerEnds ==
  ASSUME QueueInv, NEW j \in Jobs, NEW n \in Starts, Answer(j, n), ~GiveUpStore(j, n)
  PROVE  /\ UNCHANGED <<phase, faults, disp, hooks, noticing>>
         /\ \E w : job' = [job EXCEPT ![j] = w] /\ w.status # "running"
         /\ \E p \in {"hook_ok", "hook_fail", "closing"} :
              exec' = [exec EXCEPT ![<<j, n>>].pc = p]
<1>1. job[j].status # "absent" /\ GoodDoc(job[j]) /\ Serving
  <2>1. Working(j, n)
    BY DEF Answer, SucceedJob, FailJob, FailOrRetryJob, AbortJob, GiveUpStore
  <2> QED
    BY <2>1, WorkedDoc, ActivityMeansServing DEF QueueInv, CoreInv, Working
<1>2. Owned(job[j]) <=> job[j].status = "running"
  BY <1>1, RunningStart DEF Owned, Status
<1>3. Owned(job[j]) => /\ RetriedDoc(job[j]).status # "running"
                       /\ \A s \in Final : Released(job[j], s).status = s
  BY <1>1, <1>2, RetriedIsGood, ReleasedIsGood
<1>4. CanCancel(job[j]) => Released(job[j], "cancelled").status = "cancelled"
  BY <1>1, ReleasedIsGood DEF Final
<1>5. ~CanCancel(job[j]) => job[j].status # "running"
  BY DEF CanCancel
<1>6. PICK w, p : Store(j, n, w, p) /\ w.status # "running"
                  /\ p \in {"hook_ok", "hook_fail", "closing"}
  <2>1. CASE SucceedJob(j, n)
    BY <1>2, <1>3, <2>1 DEF SucceedJob, Final
  <2>2. CASE FailJob(j, n)
    BY <1>2, <1>3, <2>2 DEF FailJob, Final
  <2>3. CASE FailOrRetryJob(j, n)
    BY <1>2, <1>3, <2>3 DEF FailOrRetryJob, AfterRetry
  <2>4. CASE AbortJob(j, n)
    BY <1>4, <1>5, <2>4 DEF AbortJob
  <2> QED
    BY <2>1, <2>2, <2>3, <2>4 DEF Answer
<1>7. \E v : job' = [job EXCEPT ![j] = v] /\ v.status # "running"
  BY <1>6 DEF Store
<1>8. \E q \in {"hook_ok", "hook_fail", "closing"} : exec' = [exec EXCEPT ![<<j, n>>].pc = q]
  BY <1>6 DEF Store
<1> QED
  BY <1>6, <1>7, <1>8 DEF Store

LEMMA RunningIsHeldStep ==
  ASSUME QueueInv, QueueInv', RunningIsHeld, [Next]_vars
  PROVE  RunningIsHeld'
<1>1. CASE UNCHANGED vars
  BY <1>1, IdleKeeps, HeldStays DEF vars, memory, Working
<1>2. CASE DispatchNext
  BY <1>2, DispatchHolds
<1>3. CASE ExecNext
  <2>1. PICK j \in Jobs, n \in Starts :
          Answer(j, n) \/ CallHook(j, n) \/ CloseExec(j, n) \/ TimeOut(j, n)
    BY <1>3 DEF ExecNext
  <2>2. exec \in [Jobs \X Starts -> Execution] /\ job \in [Jobs -> Doc]
    BY DEF QueueInv, CoreInv, ExecInv, DocsInv
  <2>3. CASE GiveUpStore(j, n)
    <3>1. faults' # 0
      BY <2>3 DEF GiveUpStore, QueueInv, CoreInv, ProcessInv
    <3> QED
      BY <3>1 DEF RunningIsHeld
  <2>4. CASE Answer(j, n) /\ ~GiveUpStore(j, n)
    <3>1. PICK w : job' = [job EXCEPT ![j] = w] /\ w.status # "running"
      BY <2>4, AnswerEnds
    <3>2. UNCHANGED <<phase, faults, disp>> /\ \A i \in Jobs \ {j}, m \in Starts :
            exec'[<<i, m>>] = exec[<<i, m>>]
      BY <2>2, <2>4, AnswerEnds
    <3>3. HeldKeeps
      BY <2>2, <3>1, <3>2 DEF HeldKeeps, Working, Claiming, Status
    <3> QED
      BY <3>2, <3>3, HeldStays
  <2>5. CASE CallHook(j, n) \/ CloseExec(j, n) \/ TimeOut(j, n)
    <3>1. \A i \in Jobs, m \in Starts : Working(i, m) => Working(i, m)'
      BY <2>2, <2>5 DEF CallHook, CloseExec, TimeOut, Working, Execution
    <3>2. UNCHANGED <<phase, faults, disp, job>>
      BY <2>5 DEF CallHook, CloseExec, TimeOut
    <3> QED
      BY <3>1, <3>2, IdleKeeps, HeldStays
  <2> QED
    BY <2>1, <2>3, <2>4, <2>5
<1>4. CASE TimeNext
  <2>1. CASE TickDispatch \/ \E j \in Jobs : TickNotice(j)
    BY <2>1, IdleKeeps, HeldStays DEF TickDispatch, TickNotice, Working
  <2>2. ASSUME NEW j \in Jobs,
               BackoffElapses(j) \/ LeaseLapses(j) \/ RenewLease(j) \/ TickReclaim(j)
        PROVE  RunningIsHeld'
    <3>1. UNCHANGED <<disp, exec, phase, faults>> /\ job[j] \in Doc /\ GoodDoc(job[j])
      BY <2>2 DEF BackoffElapses, LeaseLapses, RenewLease, TickReclaim, memory,
                  QueueInv, CoreInv, DocsInv
    <3>2. /\ \A i \in Jobs \ {j} : job'[i] = job[i]
          /\ job'[j].status = "running" => /\ job[j].status = "running"
                                           /\ job'[j].attempts = job[j].attempts
      <4> USE DEF QueueInv, CoreInv, DocsInv
      <4>1. CASE BackoffElapses(j)
        BY <3>1, <4>1 DEF BackoffElapses, Doc
      <4>2. CASE LeaseLapses(j)
        BY <3>1, <4>2 DEF LeaseLapses, Doc
      <4>3. CASE RenewLease(j)
        BY <3>1, <4>3 DEF RenewLease, Doc
      <4>4. CASE TickReclaim(j)
        BY <3>1, <4>4, ReclaimedIsGood DEF TickReclaim, Lapsed
      <4> QED
        BY <2>2, <4>1, <4>2, <4>3, <4>4
    <3> QED
      BY <3>1, <3>2, WriteKeeps, HeldStays
  <2> QED
    BY <1>4, <2>1, <2>2 DEF TimeNext
<1>5. CASE UserNext
  <2>1. ASSUME NEW l \in Lanes, NEW k \in Kinds, Enqueue(l, k)
        PROVE  RunningIsHeld'
    BY <2>1, IdleKeeps, HeldStays DEF Enqueue, memory, Working
  <2>6. ASSUME NEW j \in Jobs, StoreJob(j)
        PROVE  RunningIsHeld'
    <3>1. PICK l \in Lanes, k \in Kinds : creating[j] = CreatedDoc(l, k)
      BY <2>6 DEF StoreJob, QueueInv, BirthInv
    <3>2. creating[j].status = "pending"
      BY <3>1 DEF CreatedDoc, Absent
    <3> QED
      BY <2>6, <3>2, WriteKeeps, HeldStays DEF StoreJob, QueueInv, CoreInv, DocsInv
  <2>2. ASSUME NEW j \in Jobs, WriteCancel(j)
        PROVE  RunningIsHeld'
    <3>1. PICK w : job' = [job EXCEPT ![j] = w] /\ w.status # "running"
      <4>1. CanCancel(job[j]) => Released(job[j], "cancelled").status = "cancelled"
        BY ReleasedIsGood DEF QueueInv, CoreInv, DocsInv, CanCancel, Final
      <4> QED
        BY <2>2, <4>1 DEF WriteCancel, CanCancel
    <3> QED
      BY <2>2, <3>1, WriteKeeps, HeldStays DEF WriteCancel, QueueInv, CoreInv, DocsInv
  <2>3. ASSUME NEW S \in SUBSET Jobs, exec' = Aborted(S), UNCHANGED <<job, disp, phase, boot, faults>>
        PROVE  RunningIsHeld'
    <3>1. \A i \in Jobs, m \in Starts : exec'[<<i, m>>].pc = exec[<<i, m>>].pc
      BY <2>3, SameDocs, AbortedKeepsExec DEF QueueInv, CoreInv
    <3> QED
      BY <2>3, <3>1, IdleKeeps, HeldStays DEF Working
  <2>4. ASSUME NEW l \in Lanes, CancelLane(l) \/ CancelWaiting(l)
        PROVE  RunningIsHeld'
    BY <2>4, IdleKeeps, HeldStays DEF CancelLane, CancelWaiting, Working
  <2>5. ASSUME NEW l \in Lanes, CancelRunning(l)
        PROVE  RunningIsHeld'
    <3>1. PICK j \in Jobs : exec' = Aborted({j})
      BY <2>5 DEF CancelRunning, Registered
    <3> QED
      BY <2>3, <2>5, <3>1 DEF CancelRunning
  <2> QED
    BY <1>5, <2>1, <2>2, <2>3, <2>4, <2>5, <2>6 DEF UserNext, Cancel
<1>6. CASE BootNext
  <2>1. CASE Crash \/ Restart
    BY <2>1 DEF Crash, Restart, RunningIsHeld, Serving
  <2>2. CASE StartQueue
    BY <2>2 DEF StartQueue, RunningIsHeld, Orphan, Status
  <2>3. ASSUME NEW j \in Jobs, Reconcile(j)
        PROVE  RunningIsHeld'
    BY <2>3 DEF Reconcile, RunningIsHeld, Serving
  <2> QED
    BY <1>6, <2>1, <2>2, <2>3 DEF BootNext
<1> QED
  BY <1>1, <1>2, <1>3, <1>4, <1>5, <1>6 DEF Next

\* No orphans while the process lives: a running job of a serving process always
\* has the executor, or the dispatcher about to start it, that will end it.
THEOREM NoOrphans == Spec => []RunningIsHeld
<1>1. Init => RunningIsHeld
  BY DEF Init, RunningIsHeld, Absent, Status
<1>2. QueueInv /\ QueueInv' /\ RunningIsHeld /\ [Next]_vars => RunningIsHeld'
  BY RunningIsHeldStep
<1> QED
  BY <1>1, <1>2, QueueInvariant, PTL DEF Spec

-----------------------------------------------------------------------------
(***************************************************************************)
(* One announcement per job. It is due only once the document is final and *)
(* the job has no holder, and both are for good: nobody can come to the    *)
(* same point again. Reclaims of the tick, which also announce, need a     *)
(* running job without a live holder and never happen here.                *)
(***************************************************************************)
Announcing(j, n) == exec[<<j, n>>].pc \in {"hook_ok", "hook_fail"}

AnnouncedOnce(j) ==
  /\ \A n \in Starts : Announcing(j, n) =>
       /\ Status(j) \in Final /\ hooks[j] = <<>> /\ Free(j)
       /\ \A m \in Starts : Announcing(j, m) => m = n
  /\ hooks[j] # <<>> =>
       /\ Status(j) \in Final /\ Len(hooks[j]) = 1 /\ Free(j)
       /\ \A n \in Starts : ~Announcing(j, n)

NoticeInv == faults = 0 => noticing = {} /\ \A j \in Jobs : AnnouncedOnce(j)

NoNews == /\ UNCHANGED <<hooks, noticing>>
          /\ \A j \in Jobs, n \in Starts : Announcing(j, n)' => Announcing(j, n)

\* A final job without a holder never gets one.
LEMMA FreeStays ==
  ASSUME ~LeaseMayLapse, QueueInv, ExclusiveInv, [Next]_vars,
         NEW j \in Jobs, Status(j) \in Final, Free(j)
  PROVE  Free(j)'
<1>1. CASE Shrink
  BY <1>1 DEF Shrink, Free
<1>2. CASE Claims
  <2>1. PICK d \in Dispatchers : ClaimJob(d) /\ CanClaim(job[disp[d].job])
    BY <1>2 DEF Claims
  <2>2. disp[d].job # j
    BY <2>1 DEF CanClaim, Status, Final
  <2>3. UNCHANGED exec /\ \A e \in Dispatchers : disp'[e].job = disp[e].job
                          /\ (e # d => disp'[e] = disp[e])
    BY <2>1 DEF ClaimJob, QueueInv, CoreInv, DispInv, Dispatch
  <2> QED
    BY <2>2, <2>3 DEF Free, Working, Claiming
<1>3. CASE Launches
  <2>1. PICK d \in Dispatchers : Launch(d)
    BY <1>3 DEF Launches
  <2>2. disp[d].job # j
    BY <2>1 DEF Launch, Free, Claiming
  <2>3. /\ \A n \in Starts : exec'[<<j, n>>] = exec[<<j, n>>]
        /\ \A e \in Dispatchers : disp'[e] = IF e = d THEN Idle ELSE disp[e]
    BY <2>1, <2>2 DEF Launch, QueueInv, CoreInv, DispInv, ExecInv
  <2> QED
    BY <2>3 DEF Free, Working, Claiming, Idle
<1> QED
  BY <1>1, <1>2, <1>3, StepShrinks

\* With leases renewed and stores that succeed, the tick finds nothing to reclaim.
LEMMA NothingToReclaim ==
  ASSUME QueueInv, ExclusiveInv, RunningIsHeld, faults = 0, NEW j \in Jobs
  PROVE  ~TickReclaim(j)
<1> SUFFICES ASSUME Serving, Status(j) = "running", job[j].lease = "lapsed"
             PROVE  FALSE
  BY DEF TickReclaim, Lapsed, Status
<1>1. PICK k \in Starts : k = job[j].attempts
  BY RunningStart
<1> QED
  BY <1>1 DEF RunningIsHeld, Held, ExclusiveInv, HolderInv, HoldOf, Claiming

LEMMA NoticeStays ==
  ASSUME ~LeaseMayLapse, QueueInv, ExclusiveInv, [Next]_vars, NoticeInv, NoNews,
         faults' = 0 => faults = 0
  PROVE  NoticeInv'
<1> SUFFICES ASSUME faults = 0, NEW j \in Jobs
             PROVE  noticing' = {} /\ AnnouncedOnce(j)'
  BY DEF NoticeInv, NoNews
<1>1. noticing' = {} /\ AnnouncedOnce(j)
  BY DEF NoticeInv, NoNews
<1>2. Status(j) \in Final => Status(j)' \in Final
  BY FinalStep DEF Status
<1>3. Status(j) \in Final /\ Free(j) => Free(j)'
  BY FreeStays
<1> QED
  BY <1>1, <1>2, <1>3 DEF AnnouncedOnce, NoNews

\* An answer makes the announcement due only for a job it leaves final.
LEMMA AnswerNotice ==
  ASSUME ~LeaseMayLapse, QueueInv, ExclusiveInv, NoticeInv, [Next]_vars,
         NEW j \in Jobs, NEW n \in Starts, Answer(j, n), ~GiveUpStore(j, n)
  PROVE  NoticeInv'
<1>1. Working(j, n)
  BY DEF Answer, SucceedJob, FailJob, FailOrRetryJob, AbortJob, GiveUpStore
<1>2. UNCHANGED <<hooks, noticing, faults>>
  BY AnswerEnds
<1>3. /\ \A i \in Jobs, m \in Starts : i # j \/ m # n => exec'[<<i, m>>] = exec[<<i, m>>]
      /\ \A i \in Jobs \ {j} : job'[i] = job[i]
  <2>1. PICK p : exec' = [exec EXCEPT ![<<j, n>>].pc = p]
    BY AnswerEnds
  <2> QED
    BY <2>1, AnswerFrees DEF QueueInv, CoreInv, ExecInv
<1>4. Announcing(j, n)' => Status(j)' \in Final
  <2>1. /\ job[j].status \in {"running", "cancelled"} /\ GoodDoc(job[j])
        /\ job[j] \in Doc /\ job \in [Jobs -> Doc] /\ exec[<<j, n>>] \in Execution
    BY <1>1 DEF ExclusiveInv, HolderInv, HoldOf, Status, QueueInv, CoreInv, DocsInv, ExecInv
  <2>2. job[j].status = "running" => Owned(job[j])
    BY <1>1, RunningStart, ActivityMeansServing DEF QueueInv, CoreInv, Working, Status
  <2>3. \A s \in Final : Owned(job[j]) => Released(job[j], s).status = s
    BY <2>1, ReleasedIsGood DEF Owned
  <2>4. CASE SucceedJob(j, n)
    BY <2>1, <2>2, <2>3, <2>4 DEF SucceedJob, Store, Status, Final
  <2>5. CASE FailJob(j, n)
    BY <2>1, <2>2, <2>3, <2>5 DEF FailJob, Store, Status, Final
  <2>6. CASE FailOrRetryJob(j, n)
    <3>1. CASE Owned(job[j])
      <4>1. /\ job'[j] = RetriedDoc(job[j])
            /\ exec'[<<j, n>>].pc = AfterRetry(RetriedDoc(job[j]))
        BY <2>1, <2>6, <3>1 DEF FailOrRetryJob, Store, QueueInv, CoreInv, ExecInv, Execution
      <4> QED
        BY <4>1 DEF AfterRetry, Announcing, Status, Final
    <3>2. CASE ~Owned(job[j])
      BY <2>1, <2>2, <3>2, <2>6 DEF FailOrRetryJob, Store, Status, Final
    <3> QED
      BY <3>1, <3>2
  <2>7. CASE AbortJob(j, n)
    <3>1. exec'[<<j, n>>].pc = "closing"
      BY <2>1, <2>7 DEF AbortJob, Store, QueueInv, CoreInv, ExecInv, Execution
    <3> QED
      BY <3>1 DEF Announcing
  <2> QED
    BY <2>4, <2>5, <2>6, <2>7 DEF Answer
<1> SUFFICES ASSUME faults = 0, NEW i \in Jobs
             PROVE  noticing' = {} /\ AnnouncedOnce(i)'
  BY <1>2 DEF NoticeInv
<1>5. noticing' = {} /\ AnnouncedOnce(i)
  BY <1>2 DEF NoticeInv
<1>6. CASE i = j
  <2>1. ~Free(j)
    BY <1>1 DEF Free
  <2>2. hooks[j] = <<>> /\ \A m \in Starts : ~Announcing(j, m)
    BY <1>5, <1>6, <2>1 DEF AnnouncedOnce
  <2>3. Free(j)'
    BY AnswerFrees
  <2> QED
    BY <1>2, <1>3, <1>4, <1>5, <1>6, <2>2, <2>3 DEF AnnouncedOnce, Announcing
<1>7. CASE i # j
  <2>1. Free(i) => Free(i)'
    BY AnswerFrees DEF Shrink, Free
  <2> QED
    BY <1>2, <1>3, <1>5, <1>7, <2>1 DEF AnnouncedOnce, Announcing, Status
<1> QED
  BY <1>6, <1>7

\* The hook is called: the announcement is made, and none is due any more.
LEMMA HookNotice ==
  ASSUME ~LeaseMayLapse, QueueInv, ExclusiveInv, NoticeInv, [Next]_vars,
         NEW j \in Jobs, NEW n \in Starts, CallHook(j, n)
  PROVE  NoticeInv'
<1>1. UNCHANGED <<job, noticing, faults>> /\ Announcing(j, n)
  BY DEF CallHook, Announcing
<1>2. \A i \in Jobs, m \in Starts :
        exec'[<<i, m>>] = IF i = j /\ m = n THEN [exec[<<j, n>>] EXCEPT !.pc = "closing"]
                          ELSE exec[<<i, m>>]
  BY DEF CallHook, QueueInv, CoreInv, ExecInv
<1>3. [exec[<<j, n>>] EXCEPT !.pc = "closing"].pc = "closing"
  BY DEF QueueInv, CoreInv, ExecInv, Execution
<1>4. \A i \in Jobs : hooks'[i] = IF i = j THEN Append(hooks[j], exec[<<j, n>>].pc = "hook_ok")
                                  ELSE hooks[i]
  BY DEF CallHook, QueueInv, CoreInv, ProcessInv
<1> SUFFICES ASSUME faults = 0, NEW i \in Jobs
             PROVE  noticing' = {} /\ AnnouncedOnce(i)'
  BY <1>1 DEF NoticeInv
<1>5. noticing' = {} /\ AnnouncedOnce(i)
  BY <1>1 DEF NoticeInv
<1>6. Status(i) \in Final /\ Free(i) => Free(i)'
  BY FreeStays
<1>7. CASE i = j
  <2>1. /\ hooks[j] = <<>> /\ Status(j) \in Final /\ Free(j)
        /\ \A m \in Starts : Announcing(j, m) => m = n
    BY <1>1, <1>5, <1>7 DEF AnnouncedOnce
  <2>2. \A m \in Starts : ~Announcing(j, m)'
    BY <1>2, <1>3, <2>1 DEF Announcing
  <2>3. Len(hooks'[j]) = 1
    BY <1>4, <2>1
  <2> QED
    BY <1>1, <1>5, <1>6, <1>7, <2>1, <2>2, <2>3 DEF AnnouncedOnce, Status
<1>8. CASE i # j
  BY <1>1, <1>2, <1>4, <1>5, <1>6, <1>8 DEF AnnouncedOnce, Announcing, Status
<1> QED
  BY <1>7, <1>8

LEMMA NoticeStep ==
  ASSUME ~LeaseMayLapse, QueueInv, QueueInv', ExclusiveInv, RunningIsHeld, NoticeInv,
         [Next]_vars
  PROVE  NoticeInv'
<1>1. ASSUME UNCHANGED <<exec, hooks, noticing, faults>>
      PROVE  NoticeInv'
  BY <1>1, NoticeStays DEF NoNews, Announcing
<1>2. CASE UNCHANGED vars
  BY <1>1, <1>2 DEF vars, memory
<1>3. exec \in [Jobs \X Starts -> Execution]
  BY DEF QueueInv, CoreInv, ExecInv
<1>4. CASE DispatchNext
  <2>1. PICK d \in Dispatchers :
          ReadLane(d) \/ ClaimJob(d) \/ Launch(d) \/ \E l \in Lanes : FireTimer(d, l)
    BY <1>4 DEF DispatchNext
  <2>2. CASE Launch(d)
    <3>1. \A i \in Jobs, m \in Starts :
            Announcing(i, m)' => Announcing(i, m)
      BY <1>3, <2>2 DEF Launch, Announcing
    <3> QED
      BY <2>2, <3>1, NoticeStays DEF Launch, NoNews
  <2> QED
    BY <1>1, <2>1, <2>2 DEF ReadLane, ClaimJob, FireTimer
<1>5. CASE ExecNext
  <2>1. PICK j \in Jobs, n \in Starts :
          Answer(j, n) \/ CallHook(j, n) \/ CloseExec(j, n) \/ TimeOut(j, n)
    BY <1>5 DEF ExecNext
  <2>2. CASE GiveUpStore(j, n)
    <3>1. faults' # 0
      BY <2>2 DEF GiveUpStore, QueueInv, CoreInv, ProcessInv
    <3> QED
      BY <3>1 DEF NoticeInv
  <2>3. CASE CloseExec(j, n) \/ TimeOut(j, n)
    <3>1. \A i \in Jobs, m \in Starts : Announcing(i, m)' => Announcing(i, m)
      BY <1>3, <2>3 DEF CloseExec, TimeOut, Announcing, NoExec, Execution
    <3> QED
      BY <2>3, <3>1, NoticeStays DEF CloseExec, TimeOut, NoNews
  <2> QED
    BY <2>1, <2>2, <2>3, AnswerNotice, HookNotice
<1>6. CASE TimeNext
  <2>1. CASE faults = 0
    <3>1. \A j \in Jobs : ~TickReclaim(j) /\ ~TickNotice(j)
      BY <2>1, NothingToReclaim DEF NoticeInv, TickNotice
    <3> QED
      BY <1>1, <1>6, <3>1 DEF TimeNext, TickDispatch, BackoffElapses, LeaseLapses,
                              RenewLease, memory
  <2>2. CASE faults # 0
    <3>1. UNCHANGED faults
      BY <1>6 DEF TimeNext, TickDispatch, BackoffElapses, LeaseLapses, RenewLease,
                  TickReclaim, TickNotice
    <3> QED
      BY <2>2, <3>1 DEF NoticeInv
  <2> QED
    BY <2>1, <2>2
<1>7. CASE UserNext
  <2>1. ASSUME NEW S \in SUBSET Jobs, exec' = Aborted(S),
               UNCHANGED <<job, phase, boot, hooks, noticing, faults>>
        PROVE  NoticeInv'
    <3>1. \A i \in Jobs, m \in Starts : exec'[<<i, m>>].pc = exec[<<i, m>>].pc
      BY <2>1, SameDocs, AbortedKeepsExec DEF QueueInv, CoreInv
    <3> QED
      BY <2>1, <3>1, NoticeStays DEF NoNews, Announcing
  <2>2. ASSUME NEW l \in Lanes, CancelRunning(l)
        PROVE  NoticeInv'
    <3>1. PICK j \in Jobs : exec' = Aborted({j})
      BY <2>2 DEF CancelRunning, Registered
    <3> QED
      BY <2>1, <2>2, <3>1 DEF CancelRunning
  <2> QED
    BY <1>1, <1>7, <2>1, <2>2
       DEF UserNext, Enqueue, StoreJob, Cancel, WriteCancel, CancelLane, CancelWaiting, memory
<1>8. CASE BootNext
  <2>1. CASE Crash
    <3>1. \A i \in Jobs, m \in Starts : ~Announcing(i, m)'
      BY <2>1 DEF Crash, Announcing, NoExec
    <3>2. faults = 0 => noticing = {} /\ noticing' = {}
      BY <2>1 DEF Crash, NoticeInv
    <3> SUFFICES ASSUME faults = 0 PROVE NoticeInv'
      BY <2>1 DEF Crash, NoticeInv
    <3> QED
      BY <2>1, <3>1, <3>2, NoticeStays DEF Crash, NoNews
  <2> QED
    BY <1>1, <1>8, <2>1 DEF BootNext, Restart, StartQueue, Reconcile, memory
<1> QED
  BY <1>2, <1>4, <1>5, <1>6, <1>7, <1>8 DEF Next

\* The terminal hook of a job is called at most once, and a job it was called for
\* is over: no requeue, reclaim or second execution follows the announcement (leases
\* of live executions renewed, no store that gives up).
THEOREM HooksAnnounceOnce == Spec => []NotifiedOnce
<1>1. CASE LeaseMayLapse
  <2>1. NotifiedOnce
    BY <1>1 DEF NotifiedOnce
  <2> QED
    BY <2>1, PTL
<1>2. CASE ~LeaseMayLapse
  <2>1. Init => NoticeInv
    BY DEF Init, NoticeInv, AnnouncedOnce, Announcing, NoExec
  <2>2. /\ QueueInv /\ QueueInv' /\ ExclusiveInv /\ RunningIsHeld /\ NoticeInv
        /\ [Next]_vars
        => NoticeInv'
    BY <1>2, NoticeStep
  <2>3. QueueInv /\ QueueInv' /\ ExclusiveInv /\ [Next]_vars => ExclusiveInv'
    BY <1>2, ExclusiveStep
  <2>4. QueueInv /\ NoticeInv => NotifiedOnce
    <3> SUFFICES ASSUME QueueInv, NoticeInv, faults = 0, NEW j \in Jobs
                 PROVE  Len(hooks[j]) <= 1 /\ (hooks[j] # <<>> => Status(j) \in Final)
      BY DEF NotifiedOnce
    <3>1. CASE hooks[j] = <<>>
      <4>1. Len(hooks[j]) = 0
        BY <3>1
      <4> QED
        BY <3>1, <4>1
    <3>2. CASE hooks[j] # <<>>
      <4>1. Len(hooks[j]) = 1 /\ Status(j) \in Final
        BY <3>2 DEF NoticeInv, AnnouncedOnce
      <4> QED
        BY <4>1
    <3> QED
      BY <3>1, <3>2
  <2> QED
    BY <2>1, <2>2, <2>3, <2>4, InitExclusive, QueueInvariant, NoOrphans, PTL DEF Spec
<1> QED
  BY <1>1, <1>2

-----------------------------------------------------------------------------
(***************************************************************************)
(* The order of a lane and the slots: what a step does to the counters and *)
(* to the activations, by the six shapes a step can have.                  *)
(***************************************************************************)

\* A document that exists keeps its lane and its kind, and never loses a start.
LEMMA DocsKept ==
  ASSUME QueueInv, [Next]_vars, NEW j \in Jobs
  PROVE  /\ Status(j) # "absent" =>
              /\ Status(j)' # "absent"
              /\ job'[j].lane = job[j].lane /\ job'[j].kind = job[j].kind
         /\ job'[j].attempts >= job[j].attempts
         /\ Status(j) = "cancelled" => Status(j)' = "cancelled"
<1>1. /\ job \in [Jobs -> Doc] /\ GoodDoc(job[j]) /\ job[j] \in Doc
      /\ job[j].attempts \in Nat
  BY Constants DEF QueueInv, CoreInv, DocsInv, GoodDoc, Doc
<1>2. CASE Stores
  <2>1. PICK l \in Lanes, k \in Kinds, i \in Jobs :
          Status(i) = "absent" /\ job' = [job EXCEPT ![i] = CreatedDoc(l, k)]
    BY <1>2, StoresOne
  <2>2. CASE i = j
    BY <1>1, <2>1, <2>2, CreatedFields DEF GoodDoc, Status
  <2>3. CASE i # j
    BY <1>1, <2>1, <2>3 DEF Status
  <2> QED
    BY <2>2, <2>3
<1>3. CASE Claims
  <2>1. PICK d \in Dispatchers : ClaimJob(d) /\ CanClaim(job[disp[d].job])
    BY <1>3 DEF Claims
  <2>2. CASE disp[d].job = j
    <3>1. job'[j] = ClaimedDoc(job[j]) /\ Status(j) = "pending"
      BY <1>1, <2>1, <2>2 DEF ClaimJob, CanClaim, Status
    <3> QED
      BY <1>1, <3>1, ClaimedFields DEF Status
  <2>3. CASE disp[d].job # j
    BY <1>1, <2>1, <2>3 DEF ClaimJob, Status
  <2> QED
    BY <2>2, <2>3
<1>4. CASE Moves
  BY <1>1, <1>4 DEF Moves, Move, Status, Final
<1> QED
  BY <1>2, <1>3, <1>4, StepMoves

LEMMA ClaimStep ==
  ASSUME QueueInv, NEW d \in Dispatchers, ClaimJob(d), CanClaim(job[disp[d].job])
  PROVE  \E j \in Jobs :
           /\ disp[d].pc = "claim" /\ disp[d].job = j
           /\ Status(j) = "pending" /\ job[j].attempts + 1 \in Starts
           /\ job'[j].attempts = job[j].attempts + 1 /\ Status(j)' = "running"
           /\ \A i \in Jobs \ {j} : job'[i] = job[i]
           /\ disp'[d].pc = "claimed" /\ disp'[d].job = j
           /\ disp'[d].start = job[j].attempts + 1
           /\ \A e \in Dispatchers \ {d} : disp'[e] = disp[e]
           /\ UNCHANGED <<exec, running>>
<1>1. PICK j \in Jobs : j = disp[d].job
  BY DEF ClaimJob, QueueInv, CoreInv, DispInv
<1>2. /\ GoodDoc(job[j]) /\ job[j] \in Doc /\ job \in [Jobs -> Doc]
      /\ disp \in [Dispatchers -> Dispatch]
  BY DEF QueueInv, CoreInv, DocsInv, DispInv, GoodDoc
<1>3. PICK k \in Nat : k = job[j].attempts + 1
  BY <1>2, Constants DEF Doc
<1>4. k \in Starts
  BY <1>1, <1>2, <1>3, PendingHasStart, Constants DEF CanClaim, Starts, Doc
<1>5. \A i \in Jobs : job'[i] = IF i = j THEN ClaimedDoc(job[j]) ELSE job[i]
  BY <1>1, <1>2 DEF ClaimJob
<1>6. /\ \A e \in Dispatchers \ {d} : disp'[e] = disp[e]
      /\ disp'[d].pc = "claimed" /\ disp'[d].job = j
      /\ disp'[d].start = k
  BY <1>1, <1>2, <1>3 DEF ClaimJob, Dispatch
<1>7. /\ disp[d].pc = "claim" /\ Status(j) = "pending"
      /\ UNCHANGED <<exec, running>>
  BY <1>1 DEF ClaimJob, CanClaim, Status
<1>8. job'[j].attempts = job[j].attempts + 1 /\ Status(j)' = "running"
  BY <1>2, <1>5, ClaimedFields DEF Status
<1> QED
  BY <1>1, <1>3, <1>4, <1>5, <1>6, <1>7, <1>8

LEMMA LaunchStep ==
  ASSUME QueueInv, NEW d \in Dispatchers, Launch(d)
  PROVE  \E j \in Jobs :
           /\ disp[d].pc = "claimed" /\ disp[d].job = j
           /\ disp'[d].pc = "idle"
           /\ \A e \in Dispatchers \ {d} : disp'[e] = disp[e]
           /\ running' = running + 1 /\ UNCHANGED job
           /\ \A i \in Jobs, n \in Starts :
                exec'[<<i, n>>].pc = IF i = j /\ n = disp[d].start THEN "working"
                                     ELSE exec[<<i, n>>].pc
<1>1. PICK j \in Jobs : j = disp[d].job
  BY DEF Launch, QueueInv, CoreInv, DispInv
<1>2. /\ exec \in [Jobs \X Starts -> Execution] /\ disp \in [Dispatchers -> Dispatch]
  BY DEF QueueInv, CoreInv, ExecInv, DispInv
<1>3. /\ \A e \in Dispatchers \ {d} : disp'[e] = disp[e]
      /\ disp'[d].pc = "idle"
  BY <1>2 DEF Launch, Idle
<1>4. \A i \in Jobs, n \in Starts :
        exec'[<<i, n>>].pc = IF i = j /\ n = disp[d].start THEN "working"
                             ELSE exec[<<i, n>>].pc
  BY <1>1, <1>2 DEF Launch
<1> QED
  BY <1>1, <1>3, <1>4 DEF Launch

\* ReadLane lets a dispatcher go on to the claim of the head of its lane.
Passes(d) ==
  \E j \in Jobs :
    /\ HeadOf(disp[d].lane, j) /\ ~CapBlocks(job[j].kind)
    /\ disp[d].pc = "read" /\ disp'[d].pc = "claim" /\ disp'[d].job = j
    /\ \A e \in Dispatchers \ {d} : disp'[e] = disp[e]
    /\ UNCHANGED <<job, exec, running>>

Closes(j, n) ==
  /\ exec[<<j, n>>].pc # "none" /\ running' = running - 1
  /\ \A i \in Jobs, m \in Starts :
       exec'[<<i, m>>].pc = IF i = j /\ m = n THEN "none" ELSE exec[<<i, m>>].pc
  /\ UNCHANGED <<job, disp>>

\* Every other step: no slot is taken or given back and nobody passes the cap.
Steady ==
  /\ UNCHANGED running
  /\ \A j \in Jobs, n \in Starts : exec'[<<j, n>>].pc = "none" <=> exec[<<j, n>>].pc = "none"
  /\ \A d \in Dispatchers : disp'[d] = disp[d] \/ disp'[d].pc \in {"idle", "read"}
  /\ \A j \in Jobs : Status(j) # "absent" => job'[j].attempts = job[j].attempts

\* What a step does to the dispatchers and the executions.
LEMMA DispatchShape ==
  ASSUME QueueInv, DispatchNext
  PROVE  Claims \/ Steady \/ \E d \in Dispatchers : Launch(d) \/ Passes(d)
<1>1. PICK d \in Dispatchers :
        ReadLane(d) \/ ClaimJob(d) \/ Launch(d) \/ \E l \in Lanes : FireTimer(d, l)
  BY DEF DispatchNext
<1>2. disp \in [Dispatchers -> Dispatch] /\ Idle.pc = "idle"
  BY DEF QueueInv, CoreInv, DispInv, Idle
<1>3. \A l : [Idle EXCEPT !.pc = "read", !.lane = l].pc = "read"
  BY DEF Idle
<1>4. ASSUME disp'[d].pc \in {"idle", "read"}, \A e \in Dispatchers \ {d} : disp'[e] = disp[e],
             UNCHANGED <<job, exec, running>>
      PROVE  Steady
  BY <1>2, <1>4 DEF Steady
<1>5. CASE ReadLane(d)
  <2>1. CASE disp' = [disp EXCEPT ![d] = Idle]
    <3>1. disp'[d].pc = "idle" /\ \A e \in Dispatchers \ {d} : disp'[e] = disp[e]
      BY <1>2, <2>1
    <3> QED
      BY <1>4, <1>5, <3>1 DEF ReadLane
  <2>2. CASE disp' # [disp EXCEPT ![d] = Idle]
    <3>1. PICK j \in Jobs :
            /\ HeadOf(disp[d].lane, j) /\ ~CapBlocks(job[j].kind)
            /\ disp' = [disp EXCEPT ![d] = [disp[d] EXCEPT !.pc = "claim", !.job = j]]
      BY <1>2, <1>5, <2>2 DEF ReadLane
    <3>2. /\ disp'[d].pc = "claim" /\ disp'[d].job = j
          /\ \A e \in Dispatchers \ {d} : disp'[e] = disp[e]
      BY <1>2, <3>1 DEF Dispatch
    <3>3. Passes(d)
      BY <1>5, <3>1, <3>2 DEF Passes, ReadLane
    <3> QED
      BY <3>3
  <2> QED
    BY <2>1, <2>2
<1>6. CASE ClaimJob(d)
  <2>1. CASE CanClaim(job[disp[d].job])
    BY <1>6, <2>1 DEF Claims
  <2>2. CASE ~CanClaim(job[disp[d].job])
    <3> DEFINE r == [Idle EXCEPT !.pc = "read", !.lane = disp[d].lane]
    <3>1. r.pc = "read" /\ disp' = [disp EXCEPT ![d] = r] /\ UNCHANGED <<job, exec, running>>
      BY <1>3, <1>6, <2>2 DEF ClaimJob
    <3> HIDE DEF r
    <3>2. disp'[d].pc = "read" /\ \A e \in Dispatchers \ {d} : disp'[e] = disp[e]
      BY <1>2, <3>1
    <3> QED
      BY <1>4, <3>1, <3>2
  <2> QED
    BY <2>1, <2>2
<1>7. ASSUME NEW l \in Lanes, FireTimer(d, l)
      PROVE  Steady
  <2> DEFINE r == [Idle EXCEPT !.pc = "read", !.lane = l]
  <2>1. r.pc = "read" /\ disp' = [disp EXCEPT ![d] = r] /\ UNCHANGED <<job, exec, running>>
    BY <1>3, <1>7 DEF FireTimer
  <2> HIDE DEF r
  <2>2. disp'[d].pc = "read" /\ \A e \in Dispatchers \ {d} : disp'[e] = disp[e]
    BY <1>2, <2>1
  <2> QED
    BY <1>4, <2>1, <2>2
<1> QED
  BY <1>1, <1>5, <1>6, <1>7

LEMMA SteadyStep ==
  ASSUME QueueInv, [Next]_vars, UNCHANGED <<disp, running>>,
         \A j \in Jobs, n \in Starts : exec'[<<j, n>>].pc = "none" <=> exec[<<j, n>>].pc = "none"
  PROVE  Steady
<1>1. ~Claims
  <2> SUFFICES ASSUME NEW d \in Dispatchers, ClaimJob(d), CanClaim(job[disp[d].job])
               PROVE  FALSE
    BY DEF Claims
  <2> QED
    BY ClaimStep
<1>2. ASSUME NEW j \in Jobs, Status(j) # "absent"
      PROVE  job'[j].attempts = job[j].attempts
  <2>1. job \in [Jobs -> Doc]
    BY DEF QueueInv, CoreInv, DocsInv
  <2>2. CASE Stores
    BY <1>2, <2>1, <2>2 DEF Stores, StoreJob, Status
  <2>3. CASE Moves
    BY <2>1, <2>3 DEF Moves, Move
  <2> QED
    BY <1>1, <2>2, <2>3, StepMoves
<1> QED
  BY <1>2 DEF Steady

LEMMA ExecShape ==
  ASSUME QueueInv, [Next]_vars, ExecNext
  PROVE  Steady \/ \E j \in Jobs, n \in Starts : Closes(j, n)
<1>1. PICK j \in Jobs, n \in Starts :
        Answer(j, n) \/ CallHook(j, n) \/ CloseExec(j, n) \/ TimeOut(j, n)
  BY DEF ExecNext
<1>2. exec \in [Jobs \X Starts -> Execution] /\ exec[<<j, n>>] \in Execution
  BY DEF QueueInv, CoreInv, ExecInv
<1>3. CASE Answer(j, n)
  <2>1. PICK p \in {"hook_ok", "hook_fail", "closing"} :
          exec' = [exec EXCEPT ![<<j, n>>].pc = p]
    BY <1>3 DEF Answer, SucceedJob, FailJob, FailOrRetryJob, AbortJob, GiveUpStore, Store,
                AfterRetry
  <2>2. exec[<<j, n>>].pc = "working" /\ UNCHANGED <<disp, running>>
    BY <1>3 DEF Answer, SucceedJob, FailJob, FailOrRetryJob, AbortJob, GiveUpStore, Store,
                Working
  <2>3. exec'[<<j, n>>].pc = p
    BY <1>2, <2>1 DEF Execution
  <2>4. \A i \in Jobs, m \in Starts :
          exec'[<<i, m>>].pc = "none" <=> exec[<<i, m>>].pc = "none"
    BY <1>2, <2>1, <2>2, <2>3
  <2> QED
    BY <2>2, <2>4, SteadyStep
<1>4. CASE CallHook(j, n)
  <2>1. /\ exec[<<j, n>>].pc # "none" /\ UNCHANGED <<disp, running>>
        /\ exec' = [exec EXCEPT ![<<j, n>>].pc = "closing"]
    BY <1>4 DEF CallHook
  <2>2. exec'[<<j, n>>].pc = "closing"
    BY <1>2, <2>1 DEF Execution
  <2>3. \A i \in Jobs, m \in Starts :
          exec'[<<i, m>>].pc = "none" <=> exec[<<i, m>>].pc = "none"
    BY <1>2, <2>1, <2>2
  <2> QED
    BY <2>1, <2>3, SteadyStep
<1>5. CASE CloseExec(j, n)
  <2>1. \A i \in Jobs, m \in Starts :
          exec'[<<i, m>>].pc = IF i = j /\ m = n THEN "none" ELSE exec[<<i, m>>].pc
    BY <1>2, <1>5 DEF CloseExec, NoExec
  <2>2. Closes(j, n)
    BY <1>5, <2>1 DEF CloseExec, Closes, SlotsAfter
  <2> QED
    BY <2>2
<1>6. CASE TimeOut(j, n)
  <2>1. /\ UNCHANGED <<disp, running>>
        /\ exec' = [exec EXCEPT ![<<j, n>>].aborted = TRUE]
    BY <1>6 DEF TimeOut
  <2>2. \A i \in Jobs, m \in Starts : exec'[<<i, m>>].pc = exec[<<i, m>>].pc
    BY <1>2, <2>1 DEF Execution
  <2> QED
    BY <2>1, <2>2, SteadyStep
<1> QED
  BY <1>1, <1>3, <1>4, <1>5, <1>6

LEMMA StepShape ==
  ASSUME QueueInv, [Next]_vars
  PROVE  \/ Claims \/ Steady \/ Crash
         \/ \E d \in Dispatchers : Launch(d) \/ Passes(d)
         \/ \E j \in Jobs, n \in Starts : Closes(j, n)
<1>1. UNCHANGED <<disp, exec, running>> => Steady
  BY SteadyStep
<1>2. CASE UNCHANGED vars
  BY <1>1, <1>2 DEF vars, memory
<1>3. CASE TimeNext
  BY <1>1, <1>3 DEF TimeNext, BackoffElapses, LeaseLapses, RenewLease, TickReclaim,
                    TickNotice, TickDispatch, memory
<1>4. CASE UserNext
  <2>1. ASSUME NEW S \in SUBSET Jobs, exec' = Aborted(S),
             UNCHANGED <<job, phase, boot, disp, running>>
        PROVE  Steady
    <3>1. \A i \in Jobs, n \in Starts : exec'[<<i, n>>].pc = exec[<<i, n>>].pc
      BY <2>1, SameDocs, AbortedKeepsExec DEF QueueInv, CoreInv
    <3> QED
      BY <2>1, <3>1, SteadyStep
  <2>2. ASSUME NEW l \in Lanes, NEW k \in Kinds, Enqueue(l, k)
        PROVE  Steady
    BY <1>1, <2>2 DEF Enqueue, memory
  <2>7. ASSUME NEW j \in Jobs, StoreJob(j)
        PROVE  Steady
    BY <1>1, <2>7 DEF StoreJob
  <2>3. ASSUME NEW l \in Lanes, CancelLane(l) \/ CancelWaiting(l)
        PROVE  Steady
    BY <1>1, <2>3 DEF CancelLane, CancelWaiting
  <2>4. ASSUME NEW l \in Lanes, CancelRunning(l)
        PROVE  Steady
    <3>1. PICK j \in Jobs : exec' = Aborted({j})
      BY <2>4 DEF CancelRunning, Registered
    <3> QED
      BY <2>1, <2>4, <3>1 DEF CancelRunning
  <2>5. ASSUME NEW j \in Jobs, Cancel(j)
        PROVE  Steady
    BY <2>1, <2>5 DEF Cancel
  <2>6. ASSUME NEW j \in Jobs, WriteCancel(j)
        PROVE  Steady
    BY <1>1, <2>6 DEF WriteCancel
  <2> QED
    BY <1>4, <2>2, <2>3, <2>4, <2>5, <2>6, <2>7 DEF UserNext
<1>5. CASE BootNext
  BY <1>1, <1>5 DEF BootNext, Restart, StartQueue, Reconcile, memory
<1> QED
  BY <1>2, <1>3, <1>4, <1>5, DispatchShape, ExecShape DEF Next

-----------------------------------------------------------------------------
(***************************************************************************)
(* FIFO. A document that was there, with a smaller id, when that of the head *)
(* was put was passed over for a reason: it started, it was cancelled, or it *)
(* waits for a retry, which it only does once it started.                   *)
(***************************************************************************)
Begun(j) == job[j].attempts > 0 \/ Status(j) = "cancelled"
Older(i, j) == i \in older[j] /\ job[i].lane = job[j].lane

FifoInv ==
  /\ \A j \in Jobs : \A i \in older[j] : i < j /\ Status(i) # "absent"
  /\ \A j \in Jobs : Status(j) = "pending" /\ job[j].attempts = 0 => job[j].due
  /\ \A j \in Jobs : Status(j) \in {"running", "completed", "failed", "interrupted"} =>
       Begun(j)
  /\ \A d \in Dispatchers, j \in Jobs :
       disp[d].pc \in {"claim", "claimed"} /\ disp[d].job = j =>
         \A i \in Jobs : Older(i, j) => Begun(i)
  /\ FifoStarts

LEMMA InitFifo == Init => FifoInv
  BY Constants DEF Init, FifoInv, FifoStarts, Absent, Idle, NoJob, Status

\* What began stays begun.
LEMMA BegunStays ==
  ASSUME QueueInv, [Next]_vars, NEW j \in Jobs, Begun(j)
  PROVE  Begun(j)'
<1>1. job[j].attempts \in Nat /\ job'[j].attempts >= job[j].attempts
  BY DocsKept, Constants DEF QueueInv, CoreInv, DocsInv, Doc
<1>2. job'[j].attempts \in Nat
  BY QueueInvStep, Constants DEF QueueInv, CoreInv, DocsInv, Doc
<1> QED
  BY <1>1, <1>2, DocsKept DEF Begun

\* Only the put of a document says which ones were there before it.
LEMMA OlderStep ==
  ASSUME QueueInv, [Next]_vars, NEW j \in Jobs
  PROVE  \/ older'[j] = older[j]
         \/ /\ Status(j) = "absent"
            /\ older'[j] = {i \in Jobs : i < j /\ Status(i) # "absent"}
<1>1. older \in [Jobs -> SUBSET Jobs]
  BY DEF QueueInv, BirthInv
<1>2. CASE UNCHANGED older
  BY <1>2
<1>3. ASSUME NEW m \in Jobs, StoreJob(m)
      PROVE  \/ older'[j] = older[j]
             \/ /\ Status(j) = "absent"
                /\ older'[j] = {i \in Jobs : i < j /\ Status(i) # "absent"}
  BY <1>1, <1>3 DEF StoreJob
<1> QED
  BY <1>2, <1>3, BirthShape DEF births, Enqueue, Crash

LEMMA FifoIds ==
  ASSUME QueueInv, [Next]_vars, FifoInv, NEW j \in Jobs, NEW i \in older'[j]
  PROVE  i \in Jobs /\ i < j /\ Status(i)' # "absent"
<1>1. i \in Jobs /\ i < j /\ Status(i) # "absent"
  BY OlderStep DEF FifoInv, QueueInv, BirthInv
<1> QED
  BY <1>1, DocsKept

\* A job that never started is due, and one that left the lane started or was cancelled.
LEMMA FifoDocs ==
  ASSUME QueueInv, [Next]_vars, FifoInv, NEW j \in Jobs
  PROVE  /\ (Status(j) = "pending" /\ job[j].attempts = 0 => job[j].due)'
         /\ (Status(j) \in {"running", "completed", "failed", "interrupted"} => Begun(j))'
<1>1. /\ job \in [Jobs -> Doc] /\ GoodDoc(job[j]) /\ job[j].attempts \in Nat
      /\ job' \in [Jobs -> Doc] /\ job'[j].attempts \in Nat
  BY QueueInvStep, Constants DEF QueueInv, CoreInv, DocsInv, Doc
<1>2. CASE job'[j] = job[j]
  BY <1>2 DEF FifoInv, Status, Begun
<1>3. CASE Stores
  <2>1. PICK l \in Lanes, k \in Kinds, m \in Jobs :
          job' = [job EXCEPT ![m] = CreatedDoc(l, k)]
    BY <1>3, StoresOne
  <2> QED
    BY <1>1, <1>2, <2>1, CreatedFields DEF Status
<1>4. CASE Claims
  <2>1. PICK d \in Dispatchers : ClaimJob(d) /\ CanClaim(job[disp[d].job])
    BY <1>4 DEF Claims
  <2>2. PICK m \in Jobs : /\ job'[m].attempts = job[m].attempts + 1 /\ Status(m)' = "running"
                          /\ \A i \in Jobs \ {m} : job'[i] = job[i]
    BY <2>1, ClaimStep
  <2> QED
    BY <1>1, <1>2, <2>2 DEF Status, Begun
<1>5. CASE Moves
  <2>1. CASE job'[j] # job[j]
    <3>1. PICK w \in Doc : job'[j] = w /\ Move(job[j], w)
      BY <1>1, <1>5, <2>1 DEF Moves
    <3> QED
      BY <1>1, <3>1 DEF Move, FifoInv, Begun, Status, Final, GoodDoc
  <2> QED
    BY <1>2, <2>1
<1> QED
  BY <1>3, <1>4, <1>5, StepMoves

\* The lanes of documents that exist do not change.
LEMMA OlderStays ==
  ASSUME QueueInv, [Next]_vars, FifoInv, NEW i \in Jobs, NEW j \in Jobs,
         Status(j) # "absent", Older(i, j)'
  PROVE  Older(i, j)
<1>1. i \in older[j]
  BY OlderStep DEF Older
<1>2. Status(i) # "absent"
  BY <1>1 DEF FifoInv
<1> QED
  BY <1>1, <1>2, DocsKept DEF Older

\* A dispatcher that is about to start a job left no older one of the lane behind.
LEMMA FifoDispatch ==
  ASSUME QueueInv, [Next]_vars, FifoInv, NEW d \in Dispatchers, NEW j \in Jobs,
         disp'[d].pc \in {"claim", "claimed"}, disp'[d].job = j,
         NEW i \in Jobs, Older(i, j)'
  PROVE  Begun(i)'
<1>1. CASE disp[d].pc \in {"claim", "claimed"} /\ disp[d].job = j
  <2>1. Status(j) # "absent"
    BY <1>1 DEF QueueInv, CoreInv, DispInv
  <2>2. Begun(i)
    BY <1>1, <2>1, OlderStays DEF FifoInv
  <2> QED
    BY <2>2, BegunStays
<1>2. CASE Passes(d)
  <2>1. HeadOf(disp[d].lane, j) /\ UNCHANGED job
    BY <1>2 DEF Passes
  <2>2. /\ Status(j) # "absent" /\ job[j].lane = disp[d].lane
        /\ ~(Status(i) = "pending" /\ job[i].due)
    <3>1. i \in older[j] /\ job[i].lane = job[j].lane /\ i < j
      <4>1. Status(j) # "absent"
        BY <2>1 DEF HeadOf, Pending
      <4> QED
        BY <4>1, OlderStays DEF Older, FifoInv
    <3> QED
      BY <2>1, <3>1, Constants DEF HeadOf, Pending
  <2>3. Status(i) # "absent" /\ Status(i) \in Statuses
    BY <2>2, OlderStays DEF FifoInv, Older, QueueInv, CoreInv, DocsInv, Doc, Status
  <2>4. Begun(i)
    BY <2>2, <2>3, Constants DEF FifoInv, Begun, Statuses, Final, QueueInv, CoreInv, DocsInv, Doc
  <2> QED
    BY <2>4, BegunStays
<1>3. CASE ~Passes(d) /\ ~(disp[d].pc \in {"claim", "claimed"} /\ disp[d].job = j)
  <2>1. CASE Claims
    <3>1. PICK e \in Dispatchers : ClaimJob(e) /\ CanClaim(job[disp[e].job])
      BY <2>1 DEF Claims
    <3> QED
      BY <1>3, <3>1, ClaimStep
  <2>2. CASE Steady
    BY <1>3, <2>2 DEF Steady
  <2>3. CASE Crash
    BY <2>3 DEF Crash, Idle
  <2>4. ASSUME NEW e \in Dispatchers, Launch(e)
        PROVE  FALSE
    BY <1>3, <2>4, LaunchStep
  <2>5. ASSUME NEW e \in Dispatchers, Passes(e)
        PROVE  FALSE
    BY <1>3, <2>5 DEF Passes
  <2>6. ASSUME NEW m \in Jobs, NEW n \in Starts, Closes(m, n)
        PROVE  FALSE
    BY <1>3, <2>6 DEF Closes
  <2> QED
    BY <2>1, <2>2, <2>3, <2>4, <2>5, <2>6, StepShape
<1> QED
  BY <1>1, <1>2, <1>3

\* Nothing but a claim starts a job.
LEMMA StartIsClaim ==
  ASSUME QueueInv, [Next]_vars, NEW j \in Jobs, job'[j].attempts > 0
  PROVE  \/ job[j].attempts > 0
         \/ \E d \in Dispatchers : disp[d].pc = "claim" /\ disp[d].job = j
<1>1. job \in [Jobs -> Doc] /\ job[j].attempts \in Nat
  BY Constants DEF QueueInv, CoreInv, DocsInv, Doc
<1>2. CASE Stores
  <2>1. PICK l \in Lanes, k \in Kinds, m \in Jobs :
          job' = [job EXCEPT ![m] = CreatedDoc(l, k)]
    BY <1>2, StoresOne
  <2> QED
    BY <1>1, <2>1, CreatedFields
<1>3. CASE Claims
  <2>1. PICK d \in Dispatchers : ClaimJob(d) /\ CanClaim(job[disp[d].job])
    BY <1>3 DEF Claims
  <2> QED
    BY <2>1, ClaimStep
<1>4. CASE Moves
  BY <1>1, <1>4 DEF Moves, Move
<1> QED
  BY <1>2, <1>3, <1>4, StepMoves

LEMMA FifoStep ==
  ASSUME QueueInv, [Next]_vars, FifoInv
  PROVE  FifoInv'
<1>1. (\A j \in Jobs : \A i \in older[j] : i < j /\ Status(i) # "absent")'
  BY FifoIds
<1>2. (\A j \in Jobs : Status(j) = "pending" /\ job[j].attempts = 0 => job[j].due)'
  BY FifoDocs
<1>3. (\A j \in Jobs : Status(j) \in {"running", "completed", "failed", "interrupted"} =>
         Begun(j))'
  BY FifoDocs
<1>4. (\A d \in Dispatchers, j \in Jobs :
         disp[d].pc \in {"claim", "claimed"} /\ disp[d].job = j =>
           \A i \in Jobs : Older(i, j) => Begun(i))'
  BY FifoDispatch
<1>5. FifoStarts'
  <2> SUFFICES ASSUME NEW j \in Jobs, NEW i \in Jobs, Older(i, j)', job'[j].attempts > 0
               PROVE  Begun(i)'
    BY FifoIds DEF FifoStarts, Older, Begun
  <2>1. CASE job[j].attempts > 0
    <3>1. Status(j) # "absent"
      BY <2>1 DEF QueueInv, CoreInv, DocsInv, GoodDoc, Status
    <3>2. Begun(i)
      BY <2>1, <3>1, OlderStays DEF FifoInv, FifoStarts, Older, Begun
    <3> QED
      BY <3>2, BegunStays
  <2>2. ASSUME NEW d \in Dispatchers, disp[d].pc = "claim", disp[d].job = j
        PROVE  Begun(i)'
    <3>1. Status(j) # "absent"
      BY <2>2 DEF QueueInv, CoreInv, DispInv
    <3>2. Begun(i)
      BY <2>2, <3>1, OlderStays DEF FifoInv
    <3> QED
      BY <3>2, BegunStays
  <2> QED
    BY <2>1, <2>2, StartIsClaim
<1> QED
  BY <1>1, <1>2, <1>3, <1>4, <1>5 DEF FifoInv

\* Of two jobs of a lane, the one of smaller id that was stored when the other was
\* put starts first, for any number of jobs, lanes, calls of createJob under way and
\* activations of dispatchLane, whatever is retried, reclaimed or cancelled meanwhile.
THEOREM LanesAreFifo == Spec => []FifoStarts
<1>1. QueueInv /\ [Next]_vars /\ FifoInv => FifoInv'
  BY FifoStep
<1>2. FifoInv => FifoStarts
  BY DEF FifoInv
<1> QED
  BY <1>1, <1>2, InitFifo, QueueInvariant, PTL DEF Spec

-----------------------------------------------------------------------------
(***************************************************************************)
(* Slots. runningCount is a counter that executeJob raises and lowers; it   *)
(* counts the executions because every start of a job has a number of its   *)
(* own: no launch finds an execution of the same start still there.        *)
(***************************************************************************)
SlotNumbers ==
  /\ \A j \in Jobs, n \in Starts : exec[<<j, n>>].pc # "none" => n <= job[j].attempts
  /\ \A d \in Dispatchers, j \in Jobs : Claiming(d, j) =>
       /\ disp[d].start \in Starts /\ disp[d].start <= job[j].attempts
       /\ exec[<<j, disp[d].start>>].pc = "none"
  /\ \A d, e \in Dispatchers, j \in Jobs :
       Claiming(d, j) /\ Claiming(e, j) /\ disp[d].start = disp[e].start => d = e

SlotInv == SlotNumbers /\ SlotsMatchExecutions

LEMMA ActiveFinite == IsFiniteSet(Active) /\ Cardinality(Active) \in Nat
<1>1. IsFiniteSet(Jobs) /\ IsFiniteSet(Starts)
  BY FS_Interval, Constants DEF Jobs, Starts
<1>2. IsFiniteSet(Jobs \X Starts)
  BY <1>1, FS_Product
<1>3. IsFiniteSet(Active)
  BY <1>2, FS_Subset DEF Active
<1> QED
  BY <1>3, FS_CardinalityType

LEMMA InitSlots == Init => SlotInv
<1> SUFFICES ASSUME Init PROVE SlotInv
  OBVIOUS
<1>1. Active = {}
  BY DEF Init, Active, NoExec
<1>2. SlotsMatchExecutions
  BY <1>1, FS_EmptySet DEF Init, SlotsMatchExecutions
<1> QED
  BY <1>2 DEF Init, SlotInv, SlotNumbers, Claiming, NoExec, Idle

\* A step that adds no execution and no claim keeps them.
LEMMA NumbersShrink ==
  ASSUME QueueInv, [Next]_vars, SlotNumbers,
         \A j \in Jobs, n \in Starts : exec'[<<j, n>>].pc # "none" => exec[<<j, n>>].pc # "none",
         \A d \in Dispatchers : disp'[d] = disp[d] \/ disp'[d].pc # "claimed"
  PROVE  SlotNumbers'
<1>1. \A j \in Jobs : /\ job[j].attempts \in Nat /\ job'[j].attempts \in Nat
                      /\ job'[j].attempts >= job[j].attempts
  BY DocsKept, QueueInvStep, Constants DEF QueueInv, CoreInv, DocsInv, Doc
<1>2. Starts \subseteq Nat
  BY DEF Starts
<1>3. \A d \in Dispatchers, j \in Jobs : Claiming(d, j)' => Claiming(d, j) /\ disp'[d] = disp[d]
  BY DEF Claiming
<1>4. ASSUME NEW j \in Jobs, NEW n \in Starts, n <= job[j].attempts
      PROVE  n <= job'[j].attempts
  BY <1>1, <1>2, <1>4
<1>5. \A j \in Jobs, n \in Starts : exec'[<<j, n>>].pc # "none" => n <= job'[j].attempts
  BY <1>4 DEF SlotNumbers
<1>6. ASSUME NEW d \in Dispatchers, NEW j \in Jobs, Claiming(d, j)'
      PROVE  /\ disp'[d].start \in Starts /\ disp'[d].start <= job'[j].attempts
             /\ exec'[<<j, disp'[d].start>>].pc = "none"
  <2>1. /\ disp[d].start \in Starts /\ disp[d].start <= job[j].attempts
        /\ exec[<<j, disp[d].start>>].pc = "none" /\ disp'[d] = disp[d]
    BY <1>3, <1>6 DEF SlotNumbers
  <2> QED
    BY <1>4, <2>1
<1>7. \A d, e \in Dispatchers, j \in Jobs :
        Claiming(d, j)' /\ Claiming(e, j)' /\ disp'[d].start = disp'[e].start => d = e
  BY <1>3 DEF SlotNumbers
<1> QED
  BY <1>5, <1>6, <1>7 DEF SlotNumbers

LEMMA ClaimNumbers ==
  ASSUME QueueInv, [Next]_vars, SlotNumbers, NEW d \in Dispatchers, ClaimJob(d),
         CanClaim(job[disp[d].job])
  PROVE  SlotNumbers'
<1>1. PICK j \in Jobs :
        /\ disp[d].pc = "claim" /\ disp[d].job = j
        /\ Status(j) = "pending" /\ job[j].attempts + 1 \in Starts
        /\ job'[j].attempts = job[j].attempts + 1 /\ Status(j)' = "running"
        /\ \A i \in Jobs \ {j} : job'[i] = job[i]
        /\ disp'[d].pc = "claimed" /\ disp'[d].job = j
        /\ disp'[d].start = job[j].attempts + 1
        /\ \A e \in Dispatchers \ {d} : disp'[e] = disp[e]
        /\ UNCHANGED <<exec, running>>
  BY ClaimStep
<1>2. \A i \in Jobs : job[i].attempts \in Nat
  BY Constants DEF QueueInv, CoreInv, DocsInv, Doc
<1>3. Starts \subseteq Nat
  BY DEF Starts
<1>4. \A i \in Jobs, n \in Starts : exec[<<i, n>>].pc # "none" => n <= job'[i].attempts
  BY <1>1, <1>2, <1>3 DEF SlotNumbers
<1>5. exec[<<j, disp'[d].start>>].pc = "none"
  BY <1>1, <1>2 DEF SlotNumbers
<1>6. \A e \in Dispatchers \ {d}, i \in Jobs : Claiming(e, i) =>
        /\ disp[e].start \in Starts /\ disp[e].start <= job'[i].attempts
        /\ exec[<<i, disp[e].start>>].pc = "none"
        /\ i = j => disp[e].start # disp'[d].start
  <2> SUFFICES ASSUME NEW e \in Dispatchers \ {d}, NEW i \in Jobs, Claiming(e, i)
               PROVE  /\ disp[e].start \in Starts /\ disp[e].start <= job'[i].attempts
                      /\ exec[<<i, disp[e].start>>].pc = "none"
                      /\ i = j => disp[e].start # disp'[d].start
    OBVIOUS
  <2>1. /\ disp[e].start \in Starts /\ disp[e].start <= job[i].attempts
        /\ exec[<<i, disp[e].start>>].pc = "none"
    BY DEF SlotNumbers
  <2>2. job'[i].attempts = IF i = j THEN job[i].attempts + 1 ELSE job[i].attempts
    BY <1>1
  <2>3. PICK s \in Nat, a \in Nat : s = disp[e].start /\ a = job[i].attempts
    BY <1>2, <1>3, <2>1
  <2>4. s <= a => s <= a + 1 /\ s # a + 1
    BY <2>3
  <2>5. i = j => disp'[d].start = a + 1
    BY <1>1, <2>3
  <2> QED
    BY <2>1, <2>2, <2>3, <2>4, <2>5
<1> QED
  BY <1>1, <1>2, <1>4, <1>5, <1>6 DEF SlotNumbers, Claiming

LEMMA LaunchNumbers ==
  ASSUME QueueInv, SlotNumbers, NEW d \in Dispatchers, Launch(d)
  PROVE  SlotNumbers'
<1>1. PICK j \in Jobs :
        /\ disp[d].pc = "claimed" /\ disp[d].job = j
        /\ disp'[d].pc = "idle"
        /\ \A e \in Dispatchers \ {d} : disp'[e] = disp[e]
        /\ running' = running + 1 /\ UNCHANGED job
        /\ \A i \in Jobs, n \in Starts :
             exec'[<<i, n>>].pc = IF i = j /\ n = disp[d].start THEN "working"
                                  ELSE exec[<<i, n>>].pc
  BY LaunchStep
<1>2. Claiming(d, j)
  BY <1>1 DEF Claiming
<1>3. \A i \in Jobs, n \in Starts : exec'[<<i, n>>].pc # "none" => n <= job'[i].attempts
  BY <1>1, <1>2 DEF SlotNumbers
<1>4. \A e \in Dispatchers, i \in Jobs : Claiming(e, i)' => Claiming(e, i) /\ e # d /\ disp'[e] = disp[e]
  BY <1>1 DEF Claiming
<1>5. \A e \in Dispatchers, i \in Jobs : Claiming(e, i)' =>
        /\ disp'[e].start \in Starts /\ disp'[e].start <= job'[i].attempts
        /\ exec'[<<i, disp'[e].start>>].pc = "none"
  BY <1>1, <1>2, <1>4 DEF SlotNumbers
<1>6. \A e, f \in Dispatchers, i \in Jobs :
        Claiming(e, i)' /\ Claiming(f, i)' /\ disp'[e].start = disp'[f].start => e = f
  BY <1>4 DEF SlotNumbers
<1> QED
  BY <1>3, <1>5, <1>6 DEF SlotNumbers

LEMMA NumbersStep ==
  ASSUME QueueInv, [Next]_vars, SlotNumbers
  PROVE  SlotNumbers'
<1>1. CASE Claims
  BY <1>1, ClaimNumbers DEF Claims
<1>2. CASE Steady
  BY <1>2, NumbersShrink DEF Steady
<1>3. CASE Crash
  BY <1>3, NumbersShrink DEF Crash, NoExec, Idle
<1>4. ASSUME NEW d \in Dispatchers, Passes(d)
      PROVE  SlotNumbers'
  BY <1>4, NumbersShrink DEF Passes
<1>5. ASSUME NEW j \in Jobs, NEW n \in Starts, Closes(j, n)
      PROVE  SlotNumbers'
  BY <1>5, NumbersShrink DEF Closes
<1> QED
  BY <1>1, <1>2, <1>3, <1>4, <1>5, LaunchNumbers, StepShape

\* The counter follows the set.
LEMMA SlotsStep ==
  ASSUME QueueInv, [Next]_vars, SlotNumbers, SlotsMatchExecutions
  PROVE  SlotsMatchExecutions'
<1>1. running \in Int /\ IsFiniteSet(Active)
  BY ActiveFinite DEF QueueInv, CoreInv, ProcessInv
<1>2. CASE UNCHANGED running /\ Active' = Active
  BY <1>2 DEF SlotsMatchExecutions
<1>3. CASE Claims
  <2>1. UNCHANGED <<exec, running>>
    BY <1>3, ClaimStep DEF Claims
  <2> QED
    BY <1>2, <2>1 DEF Active
<1>4. CASE Steady
  <2>1. Active' = Active
    BY <1>4 DEF Steady, Active
  <2> QED
    BY <1>2, <1>4, <2>1 DEF Steady
<1>5. CASE Crash
  <2>1. running' = 0 /\ Active' = {}
    BY <1>5 DEF Crash, Active, NoExec
  <2> QED
    BY <2>1, FS_EmptySet DEF SlotsMatchExecutions
<1>6. ASSUME NEW d \in Dispatchers, Passes(d)
      PROVE  SlotsMatchExecutions'
  BY <1>2, <1>6 DEF Passes, Active
<1>7. ASSUME NEW d \in Dispatchers, Launch(d)
      PROVE  SlotsMatchExecutions'
  <2>1. PICK j \in Jobs :
          /\ disp[d].pc = "claimed" /\ disp[d].job = j
          /\ running' = running + 1
          /\ \A i \in Jobs, n \in Starts :
               exec'[<<i, n>>].pc = IF i = j /\ n = disp[d].start THEN "working"
                                    ELSE exec[<<i, n>>].pc
    BY <1>7, LaunchStep
  <2>2. disp[d].start \in Starts /\ exec[<<j, disp[d].start>>].pc = "none"
    BY <2>1 DEF SlotNumbers, Claiming
  <2> DEFINE e == <<j, disp[d].start>>
  <2>3. Active' = Active \union {e} /\ e \notin Active
    BY <2>1, <2>2 DEF Active
  <2> HIDE DEF e
  <2> QED
    BY <1>1, <2>1, <2>3, FS_AddElement DEF SlotsMatchExecutions
<1>8. ASSUME NEW j \in Jobs, NEW n \in Starts, Closes(j, n)
      PROVE  SlotsMatchExecutions'
  <2> DEFINE e == <<j, n>>
  <2>1. Active' = Active \ {e} /\ e \in Active
    BY <1>8 DEF Closes, Active
  <2> HIDE DEF e
  <2> QED
    BY <1>1, <1>8, <2>1, FS_RemoveElement DEF SlotsMatchExecutions, Closes
<1> QED
  BY <1>3, <1>4, <1>5, <1>6, <1>7, <1>8, StepShape

LEMMA SlotInvStep ==
  ASSUME QueueInv, [Next]_vars, SlotInv
  PROVE  SlotInv'
  BY NumbersStep, SlotsStep DEF SlotInv

\* runningCount is the number of executions in progress: no path of executeJob, no
\* crash and no second attempt beside a late first one leaks a slot or returns one twice.
THEOREM SlotsAreExact == Spec => []SlotsMatchExecutions
<1>1. QueueInv /\ [Next]_vars /\ SlotInv => SlotInv'
  BY SlotInvStep
<1>2. SlotInv => SlotsMatchExecutions
  BY DEF SlotInv
<1> QED
  BY <1>1, <1>2, InitSlots, QueueInvariant, PTL DEF Spec

-----------------------------------------------------------------------------
(***************************************************************************)
(* The cap. A dispatcher compares runningCount with the cap long before it *)
(* starts the execution that raises it. What the check bounds is therefore *)
(* the executions together with the dispatchers that have passed it.       *)
(***************************************************************************)
Capped(j) == job[j].kind # "chat_turn"
Passed == {d \in Dispatchers : disp[d].pc \in {"claim", "claimed"} /\ Capped(disp[d].job)}
CapInv == Cardinality(Unchatty) + Cardinality(Passed) < MaxGlobal + Cardinality(Dispatchers)

LEMMA SetsFinite ==
  /\ IsFiniteSet(Unchatty) /\ Cardinality(Unchatty) \in Nat
  /\ IsFiniteSet(Passed) /\ Cardinality(Passed) \in Nat
  /\ Cardinality(Unchatty) <= Cardinality(Active)
  /\ Cardinality(Passed) <= Cardinality(Dispatchers)
  /\ Cardinality(Dispatchers) \in Nat /\ Cardinality(Active) \in Nat
<1>1. Unchatty \subseteq Active /\ Passed \subseteq Dispatchers
  BY DEF Unchatty, Passed
<1>2. IsFiniteSet(Dispatchers)
  BY BoundsAssumption
<1> QED
  BY <1>1, <1>2, ActiveFinite, FS_Subset, FS_CardinalityType

LEMMA InitCap == Init => CapInv
<1> SUFFICES ASSUME Init PROVE CapInv
  OBVIOUS
<1>1. Unchatty = {} /\ Passed = {}
  BY DEF Init, Unchatty, Active, Passed, NoExec, Idle
<1> QED
  BY <1>1, SetsFinite, FS_EmptySet, BoundsAssumption DEF CapInv

\* A step that adds to neither set keeps the bound.
LEMMA CapShrinks ==
  ASSUME CapInv, Unchatty' \subseteq Unchatty, Passed' \subseteq Passed
  PROVE  CapInv'
<1>1. /\ Cardinality(Unchatty') <= Cardinality(Unchatty)
      /\ Cardinality(Passed') <= Cardinality(Passed)
  BY SetsFinite, FS_Subset
<1>2. Cardinality(Unchatty') \in Nat /\ Cardinality(Passed') \in Nat
  BY SetsFinite, FS_Subset, FS_CardinalityType
<1> QED
  BY <1>1, <1>2, SetsFinite, BoundsAssumption DEF CapInv

\* The kinds of the jobs that count do not change.
LEMMA KindsKept ==
  ASSUME QueueInv, [Next]_vars
  PROVE  /\ \A j \in Jobs, n \in Starts :
              exec[<<j, n>>].pc # "none" => job'[j].kind = job[j].kind
         /\ \A d \in Dispatchers :
              disp[d].pc \in {"claim", "claimed"} =>
                disp[d].job \in Jobs /\ job'[disp[d].job].kind = job[disp[d].job].kind
  BY DocsKept DEF QueueInv, CoreInv, ExecInv, DispInv

LEMMA ExecsShrink ==
  ASSUME QueueInv, [Next]_vars,
         \A j \in Jobs, n \in Starts : exec'[<<j, n>>].pc # "none" => exec[<<j, n>>].pc # "none"
  PROVE  Unchatty' \subseteq Unchatty
  BY KindsKept DEF Unchatty, Active

LEMMA PassedShrinks ==
  ASSUME QueueInv, [Next]_vars,
         \A d \in Dispatchers : \/ disp'[d].pc \notin {"claim", "claimed"}
                                \/ /\ disp[d].pc \in {"claim", "claimed"}
                                   /\ disp'[d].job = disp[d].job
  PROVE  Passed' \subseteq Passed
  BY KindsKept DEF Passed, Capped

LEMMA LaunchCap ==
  ASSUME QueueInv, [Next]_vars, SlotInv, CapInv, NEW d \in Dispatchers, Launch(d)
  PROVE  CapInv'
<1>1. PICK j \in Jobs :
        /\ disp[d].pc = "claimed" /\ disp[d].job = j
        /\ disp'[d].pc = "idle"
        /\ \A e \in Dispatchers \ {d} : disp'[e] = disp[e]
        /\ running' = running + 1 /\ UNCHANGED job
        /\ \A i \in Jobs, n \in Starts :
             exec'[<<i, n>>].pc = IF i = j /\ n = disp[d].start THEN "working"
                                  ELSE exec[<<i, n>>].pc
  BY LaunchStep
<1>2. disp[d].start \in Starts
  BY <1>1 DEF SlotInv, SlotNumbers, Claiming
<1>3. CASE Capped(j)
  <2> DEFINE e == <<j, disp[d].start>>
  <2>1. Unchatty' \subseteq Unchatty \union {e}
    BY <1>1 DEF Unchatty, Active
  <2>2. Passed' \subseteq Passed \ {d} /\ d \in Passed
    BY <1>1, <1>3 DEF Passed, Capped
  <2> HIDE DEF e
  <2>3. /\ Cardinality(Unchatty \union {e}) <= Cardinality(Unchatty) + 1
        /\ IsFiniteSet(Unchatty \union {e})
    <3> DEFINE U == Unchatty
    <3>1. IsFiniteSet(U) /\ Cardinality(U) \in Nat
      BY SetsFinite
    <3> HIDE DEF U
    <3>2. /\ IsFiniteSet(U \union {e})
          /\ Cardinality(U \union {e}) = IF e \in U THEN Cardinality(U) ELSE Cardinality(U) + 1
      BY <3>1, FS_AddElement
    <3>3. Cardinality(U \union {e}) <= Cardinality(U) + 1
      BY <3>1, <3>2
    <3> QED
      BY <3>2, <3>3 DEF U
  <2>4. /\ Cardinality(Passed \ {d}) = Cardinality(Passed) - 1
        /\ IsFiniteSet(Passed \ {d})
    BY <2>2, SetsFinite, FS_RemoveElement
  <2>5. /\ Cardinality(Unchatty') <= Cardinality(Unchatty \union {e})
        /\ Cardinality(Passed') <= Cardinality(Passed \ {d})
        /\ Cardinality(Unchatty') \in Nat /\ Cardinality(Passed') \in Nat
        /\ Cardinality(Unchatty \union {e}) \in Nat
    BY <2>1, <2>2, <2>3, <2>4, FS_Subset, FS_CardinalityType
  <2> QED
    BY <2>3, <2>4, <2>5, SetsFinite, BoundsAssumption DEF CapInv
<1>4. CASE ~Capped(j)
  <2>1. Unchatty' \subseteq Unchatty
    BY <1>1, <1>4 DEF Unchatty, Active, Capped
  <2>2. Passed' \subseteq Passed
    BY <1>1, PassedShrinks
  <2> QED
    BY <2>1, <2>2, CapShrinks
<1> QED
  BY <1>3, <1>4

\* The check: below the cap there is room for every dispatcher at once.
LEMMA PassCap ==
  ASSUME QueueInv, [Next]_vars, SlotInv, CapInv, NEW d \in Dispatchers, Passes(d)
  PROVE  CapInv'
<1>1. PICK j \in Jobs :
        /\ ~CapBlocks(job[j].kind)
        /\ disp[d].pc = "read" /\ disp'[d].pc = "claim" /\ disp'[d].job = j
        /\ \A e \in Dispatchers \ {d} : disp'[e] = disp[e]
        /\ UNCHANGED <<job, exec, running>>
  BY DEF Passes
<1>2. Unchatty' = Unchatty /\ Active' = Active
  BY <1>1 DEF Unchatty, Active
<1>3. CASE Capped(j)
  <2>1. running < MaxGlobal
    BY <1>1, <1>3, BoundsAssumption DEF CapBlocks, Capped, QueueInv, CoreInv, ProcessInv
  <2>2. Cardinality(Unchatty) < MaxGlobal
    BY <2>1, SetsFinite, BoundsAssumption DEF SlotInv, SlotsMatchExecutions
  <2>3. Passed' \subseteq Dispatchers /\ IsFiniteSet(Dispatchers)
    BY BoundsAssumption DEF Passed
  <2>4. /\ Cardinality(Passed') \in Nat
        /\ Cardinality(Passed') <= Cardinality(Dispatchers)
    BY <2>3, FS_Subset, FS_CardinalityType
  <2> QED
    BY <1>2, <2>2, <2>4, SetsFinite, BoundsAssumption DEF CapInv
<1>4. CASE ~Capped(j)
  <2>1. Passed' \subseteq Passed
    BY <1>1, <1>4 DEF Passed, Capped
  <2> QED
    BY <1>2, <2>1, CapShrinks
<1> QED
  BY <1>3, <1>4

LEMMA CapStep ==
  ASSUME QueueInv, [Next]_vars, SlotInv, CapInv
  PROVE  CapInv'
<1>1. CASE Claims
  <2>1. PICK d \in Dispatchers : ClaimJob(d) /\ CanClaim(job[disp[d].job])
    BY <1>1 DEF Claims
  <2>2. /\ disp[d].pc = "claim" /\ disp'[d].job = disp[d].job
        /\ \A e \in Dispatchers \ {d} : disp'[e] = disp[e]
        /\ UNCHANGED exec
    BY <2>1, ClaimStep
  <2>3. Unchatty' \subseteq Unchatty
    BY <2>2, ExecsShrink
  <2>4. Passed' \subseteq Passed
    BY <2>2, PassedShrinks
  <2> QED
    BY <2>3, <2>4, CapShrinks
<1>2. CASE Steady
  <2>1. Unchatty' \subseteq Unchatty
    BY <1>2, ExecsShrink DEF Steady
  <2>2. Passed' \subseteq Passed
    BY <1>2, PassedShrinks DEF Steady
  <2> QED
    BY <2>1, <2>2, CapShrinks
<1>3. CASE Crash
  <2>1. Unchatty' \subseteq Unchatty
    BY <1>3 DEF Crash, Unchatty, Active, NoExec
  <2>2. Passed' \subseteq Passed
    BY <1>3 DEF Crash, Passed, Idle
  <2> QED
    BY <2>1, <2>2, CapShrinks
<1>4. ASSUME NEW j \in Jobs, NEW n \in Starts, Closes(j, n)
      PROVE  CapInv'
  <2>1. Unchatty' \subseteq Unchatty
    BY <1>4, ExecsShrink DEF Closes
  <2>2. Passed' \subseteq Passed
    BY <1>4 DEF Closes, Passed, Capped
  <2> QED
    BY <2>1, <2>2, CapShrinks
<1> QED
  BY <1>1, <1>2, <1>3, <1>4, LaunchCap, PassCap, StepShape

\* The executions the cap applies to exceed it by fewer than the activations of
\* dispatchLane, for every cap and every number of activations: the overrun is one
\* round of dispatchers that read the counter before any of them raised it.
THEOREM CapIsNearlyKept == Spec => []OverrunBounded
<1>1. QueueInv /\ [Next]_vars /\ SlotInv /\ CapInv => SlotInv' /\ CapInv'
  BY SlotInvStep, CapStep
<1>2. CapInv => OverrunBounded
  BY SetsFinite, BoundsAssumption DEF CapInv, OverrunBounded
<1> QED
  BY <1>1, <1>2, InitSlots, InitCap, QueueInvariant, PTL DEF Spec
=============================================================================
