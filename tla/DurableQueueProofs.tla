------------------------- MODULE DurableQueueProofs -------------------------
(***************************************************************************)
(* Proofs about DurableQueue, for every value of its constants: its types, *)
(* the start budget, the ownership of leases, and the life cycle of a job. *)
(***************************************************************************)
EXTENDS DurableQueue, TLAPS

-----------------------------------------------------------------------------
(***************************************************************************)
(* What every stored document satisfies, whoever writes it. Each guarded   *)
(* write of job-store.ts is shown to keep it; the state invariant then     *)
(* only has to look at the document a step writes.                         *)
(***************************************************************************)
GoodDoc(doc) ==
  /\ doc \in Doc
  /\ doc.attempts <= MaxAttempts + doc.retries
  /\ doc.status = "pending" => doc.attempts < MaxAttempts + doc.retries
  /\ (doc.status = "running") <=> (doc.owner # 0)
  /\ (doc.status = "running") <=> (doc.lease # "null")
  /\ doc.status = "running" => doc.attempts # 0
  /\ IF doc.status = "absent" THEN doc.attempts = 0 ELSE doc.lane \in Lanes

LEMMA Constants ==
  /\ NJobs \in Nat \ {0} /\ MaxAttempts \in Nat \ {0} /\ MaxBoots \in Nat \ {0}
  /\ MaxRetries \in Nat /\ MaxFaults \in Nat
  /\ MaxStarts \in Nat /\ MaxStarts = MaxAttempts + MaxRetries
  /\ Jobs \subseteq Nat /\ 0 \notin Jobs
  BY BoundsAssumption DEF MaxStarts, Jobs

\* Replacing one field by a value of its type keeps the type of a document.
LEMMA DocFields ==
  ASSUME NEW doc \in Doc
  PROVE  /\ \A s \in Statuses : [doc EXCEPT !.status = s] \in Doc
         /\ \A l \in Lanes : [doc EXCEPT !.lane = l] \in Doc
         /\ \A k \in Kinds : [doc EXCEPT !.kind = k] \in Doc
         /\ \A a \in 0..MaxStarts : [doc EXCEPT !.attempts = a] \in Doc
         /\ \A r \in 0..MaxRetries : [doc EXCEPT !.retries = r] \in Doc
         /\ \A b \in BOOLEAN : [doc EXCEPT !.due = b] \in Doc
         /\ \A o \in 0..MaxBoots : [doc EXCEPT !.owner = o] \in Doc
         /\ \A x \in {"null", "live", "lapsed"} : [doc EXCEPT !.lease = x] \in Doc
<1>1. \A s \in Statuses : [doc EXCEPT !.status = s] \in Doc
  BY DEF Doc
<1>2. \A l \in Lanes : [doc EXCEPT !.lane = l] \in Doc
  BY DEF Doc
<1>3. \A k \in Kinds : [doc EXCEPT !.kind = k] \in Doc
  BY DEF Doc
<1>4. \A a \in 0..MaxStarts : [doc EXCEPT !.attempts = a] \in Doc
  BY DEF Doc
<1>5. \A r \in 0..MaxRetries : [doc EXCEPT !.retries = r] \in Doc
  BY DEF Doc
<1>6. \A b \in BOOLEAN : [doc EXCEPT !.due = b] \in Doc
  BY DEF Doc
<1>7. \A o \in 0..MaxBoots : [doc EXCEPT !.owner = o] \in Doc
  BY DEF Doc
<1>8. \A x \in {"null", "live", "lapsed"} : [doc EXCEPT !.lease = x] \in Doc
  BY DEF Doc
<1> QED
  BY <1>1, <1>2, <1>3, <1>4, <1>5, <1>6, <1>7, <1>8

\* A release keeps every field but status, owner and lease.
LEMMA ReleasedFields ==
  ASSUME NEW doc \in Doc, NEW s \in Statuses
  PROVE  /\ Released(doc, s) \in Doc
         /\ Released(doc, s).status = s
         /\ Released(doc, s).owner = 0 /\ Released(doc, s).lease = "null"
         /\ Released(doc, s).attempts = doc.attempts
         /\ Released(doc, s).retries = doc.retries
         /\ Released(doc, s).lane = doc.lane /\ Released(doc, s).kind = doc.kind
<1>1. Released(doc, s) \in Doc
  <2>1. [doc EXCEPT !.status = s] \in Doc
    BY DocFields
  <2>2. \A d \in Doc : [d EXCEPT !.owner = 0] \in Doc
    <3>1. 0 \in 0..MaxBoots
      BY Constants
    <3> QED
      BY <3>1, DocFields
  <2>3. \A d \in Doc : [d EXCEPT !.lease = "null"] \in Doc
    BY DocFields
  <2> QED
    BY <2>1, <2>2, <2>3 DEF Released
<1> QED
  BY <1>1 DEF Released, Doc

LEMMA AbsentIsGood == GoodDoc(Absent)
  BY Constants DEF GoodDoc, Absent, Doc, Statuses, Final

LEMMA CreatedIsGood ==
  ASSUME NEW l \in Lanes, NEW k \in Kinds
  PROVE  GoodDoc(CreatedDoc(l, k))
<1>1. Absent \in Doc /\ "pending" \in Statuses
  BY AbsentIsGood DEF GoodDoc, Statuses
<1>2. CreatedDoc(l, k) \in Doc
  <2>1. [Absent EXCEPT !.status = "pending"] \in Doc
    BY <1>1, DocFields
  <2>2. \A d \in Doc : [d EXCEPT !.lane = l] \in Doc
    BY DocFields
  <2>3. \A d \in Doc : [d EXCEPT !.kind = k] \in Doc
    BY DocFields
  <2> QED
    BY <2>1, <2>2, <2>3 DEF CreatedDoc
<1> QED
  BY <1>2, Constants DEF GoodDoc, CreatedDoc, Absent

LEMMA ClaimedIsGood ==
  ASSUME NEW doc, GoodDoc(doc), CanClaim(doc), boot \in 1..MaxBoots
  PROVE  GoodDoc(ClaimedDoc(doc)) /\ ClaimedDoc(doc).owner = boot
<1>1. /\ doc \in Doc /\ doc.attempts \in Nat /\ doc.retries \in 0..MaxRetries
      /\ "running" \in Statuses
  BY Constants DEF GoodDoc, Doc, Statuses
<1>2. /\ doc.attempts + 1 \in 0..MaxStarts /\ doc.attempts + 1 # 0
      /\ doc.attempts + 1 <= MaxAttempts + doc.retries
  BY <1>1, Constants DEF GoodDoc, CanClaim
<1>3. ClaimedDoc(doc) \in Doc
  <2>1. [doc EXCEPT !.status = "running"] \in Doc
    BY <1>1, DocFields
  <2>2. \A d \in Doc : [d EXCEPT !.attempts = doc.attempts + 1] \in Doc
    BY <1>2, DocFields
  <2>3. \A d \in Doc : [d EXCEPT !.owner = boot] \in Doc
    <3>1. boot \in 0..MaxBoots
      BY Constants
    <3> QED
      BY <3>1, DocFields
  <2>4. \A d \in Doc : [d EXCEPT !.lease = "live"] \in Doc
    BY DocFields
  <2>5. ClaimedDoc(doc) = [[[[doc EXCEPT !.status = "running"] EXCEPT !.attempts = doc.attempts + 1]
                            EXCEPT !.owner = boot] EXCEPT !.lease = "live"]
    BY <1>1 DEF ClaimedDoc, Doc
  <2> QED
    BY <2>1, <2>2, <2>3, <2>4, <2>5
<1>4. /\ ClaimedDoc(doc).status = "running" /\ ClaimedDoc(doc).owner = boot
      /\ ClaimedDoc(doc).attempts = doc.attempts + 1
      /\ ClaimedDoc(doc).retries = doc.retries
      /\ ClaimedDoc(doc).lease = "live" /\ ClaimedDoc(doc).lane = doc.lane
  BY <1>1 DEF ClaimedDoc, Doc
<1> QED
  BY <1>2, <1>3, <1>4 DEF GoodDoc, CanClaim

\* A release to anything but "pending" needs no budget.
LEMMA ReleasedIsGood ==
  ASSUME NEW doc, GoodDoc(doc), doc.status # "absent",
         NEW s \in Final \union {"interrupted"}
  PROVE  GoodDoc(Released(doc, s)) /\ Released(doc, s).status = s
<1>1. doc \in Doc /\ s \in Statuses /\ s \notin {"absent", "pending", "running"}
  BY DEF GoodDoc, Statuses, Final
<1> QED
  BY <1>1, ReleasedFields DEF GoodDoc

\* A release to "pending" needs a start to be left.
LEMMA RequeuedIsGood ==
  ASSUME NEW doc, GoodDoc(doc), doc.status # "absent",
         doc.attempts < MaxAttempts + doc.retries
  PROVE  GoodDoc(Released(doc, "pending")) /\ Released(doc, "pending").status = "pending"
<1>1. doc \in Doc /\ "pending" \in Statuses
  BY DEF GoodDoc, Statuses
<1> QED
  BY <1>1, ReleasedFields DEF GoodDoc

\* A retry spends one of maxRetries and so leaves the document a start.
LEMMA RetriedIsGood ==
  ASSUME NEW doc, GoodDoc(doc), doc.status = "running"
  PROVE  GoodDoc(RetriedDoc(doc)) /\ RetriedDoc(doc).status \in {"pending", "failed"}
<1>1. CASE doc.retries >= MaxRetries
  BY <1>1, ReleasedIsGood DEF RetriedDoc, Final
<1>2. CASE ~(doc.retries >= MaxRetries)
  <2> DEFINE old == Released(doc, "pending")
             new == [[old EXCEPT !.retries = doc.retries + 1] EXCEPT !.due = FALSE]
  <2>1. /\ doc \in Doc /\ doc.attempts \in Nat /\ doc.retries \in Nat /\ doc.retries + 1 \in 0..MaxRetries
        /\ "pending" \in Statuses
    BY <1>2, Constants DEF GoodDoc, Doc, Statuses
  <2>2. /\ old \in Doc /\ old.status = "pending" /\ old.owner = 0 /\ old.lease = "null"
        /\ old.attempts = doc.attempts /\ old.retries = doc.retries /\ old.lane = doc.lane
    BY <2>1, ReleasedFields
  <2> HIDE DEF old
  <2>3. [old EXCEPT !.retries = doc.retries + 1] \in Doc
    BY <2>1, <2>2, DocFields
  <2>4. new \in Doc
    BY <2>3, DocFields
  <2>5. /\ new.status = "pending" /\ new.owner = 0 /\ new.lease = "null"
        /\ new.attempts = doc.attempts /\ new.retries = doc.retries + 1 /\ new.lane = doc.lane
    BY <2>2 DEF Doc
  <2>6. RetriedDoc(doc) = new
    BY <1>2, <2>2 DEF RetriedDoc, Doc, old
  <2> HIDE DEF new
  <2>7. GoodDoc(new)
    BY <2>1, <2>4, <2>5, Constants DEF GoodDoc
  <2> QED
    BY <2>5, <2>6, <2>7
<1> QED
  BY <1>1, <1>2

LEMMA ReclaimedIsGood ==
  ASSUME NEW doc, GoodDoc(doc), doc.status = "running"
  PROVE  GoodDoc(ReclaimedDoc(doc)) /\ ReclaimedDoc(doc).status \in {"pending", "interrupted"}
<1>1. CASE doc.attempts >= MaxAttempts
  BY <1>1, ReleasedIsGood DEF ReclaimedDoc
<1>2. CASE ~(doc.attempts >= MaxAttempts)
  <2>1. ReclaimedDoc(doc) = Released(doc, "pending")
    BY <1>2 DEF ReclaimedDoc
  <2>2. doc.attempts < MaxAttempts + doc.retries
    BY <1>2, Constants DEF GoodDoc, Doc
  <2> QED
    BY <2>1, <2>2, RequeuedIsGood
<1> QED
  BY <1>1, <1>2

LEMMA TimedIsGood ==
  ASSUME NEW doc, GoodDoc(doc)
  PROVE  /\ doc.status = "pending" => GoodDoc([doc EXCEPT !.due = TRUE])
         /\ doc.lease # "null" => /\ GoodDoc([doc EXCEPT !.lease = "lapsed"])
                                  /\ GoodDoc([doc EXCEPT !.lease = "live"])
  BY DEF GoodDoc, Doc

-----------------------------------------------------------------------------
(***************************************************************************)
(* The inductive invariant behind type correctness, the start budget and   *)
(* lease ownership. Type correctness alone is not inductive: a claim stays *)
(* in the range of attempts only because of the budget, the lane a closing *)
(* execution re-arms is a lane only because its job exists, and a boot     *)
(* finds no activation of the process that died.                           *)
(***************************************************************************)
DocsInv == /\ job \in [Jobs -> Doc]
           /\ \A j \in Jobs : GoodDoc(job[j])
           /\ Serving => \A j \in Jobs : Status(j) = "running" => job[j].owner = boot

ProcessInv == /\ phase \in {"down", "reconciling", "serving"}
              /\ boot \in 1..MaxBoots
              /\ phase = "down" => boot < MaxBoots
              /\ armed \subseteq Lanes
              /\ running \in Int
              /\ aborts \in [Jobs -> 0..MaxStarts]
              /\ cancelling \subseteq Jobs /\ stopping \subseteq Lanes
              /\ noticing \subseteq Jobs
              /\ faults \in 0..MaxFaults
              /\ hooks \in [Jobs -> Seq(BOOLEAN)]
              /\ lost \in [Jobs -> Nat]

DispInv == /\ disp \in [Dispatchers -> Dispatch]
           /\ \A d \in Dispatchers :
                disp[d].pc \in {"claim", "claimed"} =>
                  disp[d].job \in Jobs /\ Status(disp[d].job) # "absent"

ExecInv == /\ exec \in [Jobs \X Starts -> Execution]
           /\ \A j \in Jobs, n \in Starts :
                exec[<<j, n>>].pc # "none" => Status(j) # "absent"

QuietUnlessServing ==
  ~Serving => /\ \A d \in Dispatchers : disp[d].pc = "idle"
              /\ \A j \in Jobs, n \in Starts : exec[<<j, n>>].pc = "none"
              /\ armed = {} /\ cancelling = {} /\ stopping = {} /\ noticing = {}

CoreInv == DocsInv /\ ProcessInv /\ DispInv /\ ExecInv /\ QuietUnlessServing

\* A document waiting for its put is one createJob made, in a process that serves.
BirthInv == /\ seq \in 0..NJobs /\ older \in [Jobs -> SUBSET Jobs]
            /\ creating \in [Jobs -> Doc]
            /\ \A j \in Jobs : creating[j] # Absent =>
                 /\ Serving
                 /\ \E l \in Lanes, k \in Kinds : creating[j] = CreatedDoc(l, k)

QueueInv == CoreInv /\ BirthInv

LEMMA QueueInvImplies == QueueInv => TypeOK /\ StartBudget /\ RunningIsOwned
  BY DEF QueueInv, CoreInv, BirthInv, DocsInv, ProcessInv, DispInv, ExecInv, GoodDoc, TypeOK, StartBudget,
         RunningIsOwned, Status

\* The initial state satisfies the inductive invariant.
LEMMA InitQueueInv == Init => QueueInv
<1> SUFFICES ASSUME Init PROVE QueueInv
  OBVIOUS
<1>1. DocsInv
  BY AbsentIsGood DEF Init, DocsInv, GoodDoc, Absent, Status
<1>2. ProcessInv
  BY Constants DEF Init, ProcessInv
<1>3. DispInv
  BY Constants, NamesAssumption DEF Init, DispInv, Idle, Dispatch, NoJob
<1>4. ExecInv
  BY DEF Init, ExecInv, NoExec, Execution
<1>5. QuietUnlessServing
  BY DEF Init, QuietUnlessServing, Serving
<1>6. BirthInv
  BY AbsentIsGood, Constants DEF Init, BirthInv, GoodDoc
<1> QED
  BY <1>1, <1>2, <1>3, <1>4, <1>5, <1>6 DEF QueueInv, CoreInv
-----------------------------------------------------------------------------
(* Steps of the invariant that many actions share *)

\* A guarded write of one existing document keeps the documents, and no document
\* disappears.
LEMMA WriteKeepsDocs ==
  ASSUME DocsInv, NEW j \in Jobs, NEW w, GoodDoc(w), w.status # "absent",
         Serving /\ w.status = "running" => w.owner = boot,
         job' = [job EXCEPT ![j] = w], UNCHANGED <<phase, boot>>
  PROVE  DocsInv' /\ \A i \in Jobs : Status(i) # "absent" => Status(i)' # "absent"
<1>1. job' \in [Jobs -> Doc]
  BY DEF DocsInv, GoodDoc
<1>2. \A i \in Jobs : job'[i] = IF i = j THEN w ELSE job[i]
  BY DEF DocsInv
<1> QED
  BY <1>1, <1>2 DEF DocsInv, GoodDoc, Status, Serving

LEMMA SameDocs ==
  ASSUME DocsInv, UNCHANGED <<job, phase, boot>>
  PROVE  DocsInv' /\ \A i \in Jobs : Status(i) # "absent" => Status(i)' # "absent"
  BY DEF DocsInv, GoodDoc, Status, Serving

LEMMA SameDisp ==
  ASSUME DispInv, UNCHANGED disp,
         \A i \in Jobs : Status(i) # "absent" => Status(i)' # "absent"
  PROVE  DispInv'
  BY DEF DispInv

LEMMA SameExec ==
  ASSUME ExecInv, UNCHANGED exec,
         \A i \in Jobs : Status(i) # "absent" => Status(i)' # "absent"
  PROVE  ExecInv'
  BY DEF ExecInv

\* One dispatcher moves on.
LEMMA DispStep ==
  ASSUME DispInv, NEW d \in Dispatchers, NEW r \in Dispatch,
         disp' = [disp EXCEPT ![d] = r],
         r.pc \in {"claim", "claimed"} => r.job \in Jobs /\ Status(r.job)' # "absent",
         \A i \in Jobs : Status(i) # "absent" => Status(i)' # "absent"
  PROVE  DispInv'
<1>1. disp' \in [Dispatchers -> Dispatch]
  BY DEF DispInv
<1>2. \A e \in Dispatchers : disp'[e] = IF e = d THEN r ELSE disp[e]
  BY DEF DispInv
<1> QED
  BY <1>1, <1>2 DEF DispInv

\* One execution of an existing job changes its step.
LEMMA ExecStep ==
  ASSUME ExecInv, NEW j \in Jobs, NEW n \in 0..MaxStarts, NEW r \in Execution,
         exec' = [exec EXCEPT ![<<j, n>>] = r],
         Status(j) # "absent",
         \A i \in Jobs : Status(i) # "absent" => Status(i)' # "absent"
  PROVE  ExecInv'
<1>1. exec' \in [Jobs \X Starts -> Execution]
  BY DEF ExecInv
<1>2. \A i \in Jobs, m \in Starts : exec'[<<i, m>>] = IF i = j /\ m = n THEN r ELSE exec[<<i, m>>]
  BY DEF ExecInv
<1> QED
  BY <1>1, <1>2 DEF ExecInv

\* Whatever is pending in memory belongs to a serving process.
LEMMA ActivityMeansServing ==
  ASSUME QuietUnlessServing
  PROVE  /\ \A d \in Dispatchers : disp[d].pc # "idle" => Serving
         /\ \A j \in Jobs, n \in Starts : exec[<<j, n>>].pc # "none" => Serving
         /\ armed \union stopping # {} => Serving
         /\ cancelling \union noticing # {} => Serving
  BY DEF QuietUnlessServing

LEMMA QuietWhileServing ==
  ASSUME Serving, UNCHANGED phase
  PROVE  QuietUnlessServing'
  BY DEF QuietUnlessServing, Serving

\* The type of an activation of executeJob, field by field.
LEMMA ExecFields ==
  ASSUME NEW r \in Execution
  PROVE  /\ \A p \in {"none", "working", "hook_ok", "hook_fail", "closing"} :
              [r EXCEPT !.pc = p] \in Execution
         /\ [r EXCEPT !.aborted = TRUE] \in Execution
         /\ [r EXCEPT !.aborted = TRUE].pc = r.pc
  BY DEF Execution

\* The two shapes dispatchLane gives an activation that holds no job.
LEMMA DispFields ==
  ASSUME NEW l \in Lanes \union {NoLane}
  PROVE  /\ Idle \in Dispatch /\ Idle.pc = "idle"
         /\ [Idle EXCEPT !.pc = "read", !.lane = l] \in Dispatch
         /\ [Idle EXCEPT !.pc = "read", !.lane = l].pc = "read"
<1>1. Idle \in Dispatch /\ Idle.pc = "idle"
  BY Constants DEF Idle, Dispatch, NoJob
<1>2. [Idle EXCEPT !.pc = "read"] \in Dispatch /\ [Idle EXCEPT !.pc = "read"].pc = "read"
  BY <1>1 DEF Dispatch
<1>3. \A r \in Dispatch : [r EXCEPT !.lane = l] \in Dispatch /\ [r EXCEPT !.lane = l].pc = r.pc
  BY DEF Dispatch
<1> QED
  BY <1>1, <1>2, <1>3

\* Nothing but the process fields changes.
LEMMA OnlyProcess ==
  ASSUME QueueInv, UNCHANGED <<job, phase, boot, disp, exec>>, ProcessInv',
         QuietUnlessServing'
  PROVE  CoreInv'
  BY SameDocs, SameDisp, SameExec DEF QueueInv, CoreInv

-----------------------------------------------------------------------------
(* The actions of dispatchLane *)

LEMMA DispatchKeepsInv ==
  ASSUME QueueInv, DispatchNext
  PROVE  CoreInv'
<1> USE DEF QueueInv, CoreInv
<1>1. PICK d \in Dispatchers :
        ReadLane(d) \/ ClaimJob(d) \/ Launch(d) \/ \E l \in Lanes : FireTimer(d, l)
  BY DEF DispatchNext
<1>2. disp[d] \in Dispatch /\ disp \in [Dispatchers -> Dispatch]
  BY DEF DispInv
<1>3. CASE \E l \in Lanes : FireTimer(d, l)
  <2>1. PICK l \in Lanes : FireTimer(d, l)
    BY <1>3
  <2>2. Serving /\ UNCHANGED <<job, phase, boot, exec>>
    BY <2>1, ActivityMeansServing DEF FireTimer
  <2>3. ProcessInv'
    BY <2>1 DEF FireTimer, ProcessInv
  <2>4. DispInv'
    <3> DEFINE r == [Idle EXCEPT !.pc = "read", !.lane = l]
    <3>1. r \in Dispatch /\ r.pc = "read"
      BY DispFields
    <3> QED
      BY <2>1, <2>2, <3>1, SameDocs, DispStep DEF FireTimer
  <2> QED
    BY <2>2, <2>3, <2>4, SameDocs, SameExec, QuietWhileServing
<1>4. CASE ReadLane(d)
  <2>1. Serving /\ UNCHANGED <<job, phase, boot, exec>>
    BY <1>4, ActivityMeansServing DEF ReadLane
  <2>2. ProcessInv'
    BY <1>4 DEF ReadLane, ProcessInv
  <2>3. Idle \in Dispatch /\ Idle.pc = "idle"
    BY DispFields
  <2>4. DispInv'
    <3>1. CASE disp' = [disp EXCEPT ![d] = Idle]
      BY <2>1, <2>3, <3>1, SameDocs, DispStep
    <3>2. CASE \E j \in Jobs : /\ HeadOf(disp[d].lane, j)
                               /\ disp' = [disp EXCEPT ![d] = [@ EXCEPT !.pc = "claim", !.job = j]]
      <4>1. PICK j \in Jobs : /\ HeadOf(disp[d].lane, j)
                              /\ disp' = [disp EXCEPT ![d] = [@ EXCEPT !.pc = "claim", !.job = j]]
        BY <3>2
      <4> DEFINE r == [disp[d] EXCEPT !.pc = "claim", !.job = j]
      <4>2. r \in Dispatch /\ r.job = j /\ Status(j) # "absent"
        BY <1>2, <4>1 DEF Dispatch, HeadOf, Pending
      <4>3. disp' = [disp EXCEPT ![d] = r]
        BY <1>2, <4>1
      <4> QED
        BY <2>1, <4>2, <4>3, SameDocs, DispStep
    <3> QED
      BY <1>2, <1>4, <3>1, <3>2 DEF ReadLane
  <2> QED
    BY <2>1, <2>2, <2>4, SameDocs, SameExec, QuietWhileServing
<1>5. CASE ClaimJob(d)
  <2>0. PICK j \in Jobs : j = disp[d].job
    BY <1>5 DEF ClaimJob, DispInv
  <2>1. Serving /\ UNCHANGED <<phase, boot, exec>>
    BY <1>5, ActivityMeansServing DEF ClaimJob
  <2>2. GoodDoc(job[j]) /\ boot \in 1..MaxBoots
    BY DEF DocsInv, ProcessInv
  <2>3. ProcessInv'
    BY <1>5 DEF ClaimJob, ProcessInv
  <2>4. CASE CanClaim(job[j])
    <3> DEFINE w == ClaimedDoc(job[j])
    <3>1. /\ GoodDoc(w) /\ w.owner = boot /\ w.status # "absent"
          /\ job[j].attempts + 1 \in 0..MaxStarts
      <4>1. GoodDoc(w) /\ w.owner = boot
        BY <2>2, <2>4, ClaimedIsGood
      <4>2. w.status = "running" /\ w.attempts = job[j].attempts + 1
        BY <2>2 DEF ClaimedDoc, GoodDoc, Doc
      <4> QED
        BY <4>1, <4>2 DEF GoodDoc, Doc
    <3>2. job' = [job EXCEPT ![j] = w]
      BY <1>5, <2>0, <2>4 DEF ClaimJob
    <3>3. DocsInv' /\ \A i \in Jobs : Status(i) # "absent" => Status(i)' # "absent"
      <4> HIDE DEF w
      <4> QED
        BY <2>1, <2>2, <3>1, <3>2, WriteKeepsDocs
    <3> DEFINE r == [disp[d] EXCEPT !.pc = "claimed", !.start = job[j].attempts + 1]
    <3>4. r \in Dispatch /\ r.job = j
      BY <1>2, <2>0, <3>1 DEF Dispatch
    <3>5. disp' = [disp EXCEPT ![d] = r]
      BY <1>2, <1>5, <2>0, <2>4 DEF ClaimJob
    <3>6. Status(j)' # "absent"
      BY <1>5, <2>0, <3>3 DEF ClaimJob, DispInv
    <3>7. DispInv'
      <4> HIDE DEF r
      <4> QED
        BY <3>3, <3>4, <3>5, <3>6, DispStep
    <3> QED
      BY <2>1, <2>3, <3>3, <3>7, SameExec, QuietWhileServing
  <2>5. CASE ~CanClaim(job[j])
    <3> DEFINE r == [Idle EXCEPT !.pc = "read", !.lane = disp[d].lane]
    <3>1. r \in Dispatch /\ r.pc = "read"
      <4>1. disp[d].lane \in Lanes \union {NoLane}
        BY <1>2 DEF Dispatch
      <4> QED
        BY <4>1, DispFields
    <3>2. disp' = [disp EXCEPT ![d] = r] /\ UNCHANGED job
      BY <1>5, <2>0, <2>5 DEF ClaimJob
    <3>3. DispInv'
      BY <2>1, <3>1, <3>2, SameDocs, DispStep
    <3> QED
      BY <2>1, <2>3, <3>2, <3>3, SameDocs, SameExec, QuietWhileServing
  <2> QED
    BY <2>4, <2>5
<1>6. CASE Launch(d)
  <2> DEFINE j == disp[d].job
             n == disp[d].start
             r == [pc |-> "working", aborted |-> FALSE]
  <2>1. Serving /\ UNCHANGED <<job, phase, boot>>
    BY <1>6, ActivityMeansServing DEF Launch
  <2>2. j \in Jobs /\ Status(j) # "absent" /\ n \in 0..MaxStarts
    BY <1>2, <1>6 DEF Launch, DispInv, Dispatch
  <2>3. ProcessInv'
    BY <1>6, <2>2 DEF Launch, ProcessInv
  <2>4. Idle \in Dispatch /\ Idle.pc = "idle"
    BY DispFields
  <2>5. DispInv'
    BY <1>6, <2>1, <2>4, SameDocs, DispStep DEF Launch
  <2>6. r \in Execution
    BY DEF Execution
  <2>7. ExecInv'
    BY <1>6, <2>1, <2>2, <2>6, SameDocs, ExecStep DEF Launch
  <2> QED
    BY <2>1, <2>3, <2>5, <2>7, SameDocs, QuietWhileServing
<1> QED
  BY <1>1, <1>3, <1>4, <1>5, <1>6
-----------------------------------------------------------------------------
(* The actions of executeJob *)

\* A step that ends the work of an execution and stores at most one document.
LEMMA StoreKeepsInv ==
  ASSUME QueueInv, NEW j \in Jobs, NEW n \in Starts, Working(j, n),
         NEW w, GoodDoc(w), w.status # "absent",
         w.status = "running" => w.owner = boot,
         NEW p \in {"hook_ok", "hook_fail", "closing"},
         Store(j, n, w, p)
  PROVE  CoreInv'
<1> USE DEF QueueInv, CoreInv
<1>1. Serving /\ Status(j) # "absent" /\ UNCHANGED <<phase, boot, disp>>
  BY ActivityMeansServing DEF Working, ExecInv, Store
<1>2. DocsInv' /\ \A i \in Jobs : Status(i) # "absent" => Status(i)' # "absent"
  BY <1>1, WriteKeepsDocs DEF Store
<1>3. ProcessInv'
  BY DEF Store, ProcessInv
<1>4. ExecInv'
  <2> DEFINE r == [exec[<<j, n>>] EXCEPT !.pc = p]
  <2>1. r \in Execution
    BY ExecFields DEF ExecInv
  <2>2. exec' = [exec EXCEPT ![<<j, n>>] = r] /\ n \in 0..MaxStarts
    BY Constants DEF Store, Starts
  <2> QED
    BY <1>1, <1>2, <2>1, <2>2, ExecStep
<1> QED
  BY <1>1, <1>2, <1>3, <1>4, SameDisp, QuietWhileServing

\* A document an execution finds at the end of its work.
LEMMA WorkedDoc ==
  ASSUME QueueInv, NEW j \in Jobs, NEW n \in Starts, Working(j, n)
  PROVE  /\ GoodDoc(job[j]) /\ job[j].status # "absent"
         /\ job[j].status = "running" => job[j].owner = boot
  BY ActivityMeansServing DEF QueueInv, CoreInv, DocsInv, ExecInv, Working, Status

LEMMA AnswerKeepsInv ==
  ASSUME QueueInv, NEW j \in Jobs, NEW n \in Starts, Answer(j, n)
  PROVE  CoreInv'
<1>1. Working(j, n)
  BY DEF Answer, SucceedJob, FailJob, FailOrRetryJob, AbortJob, GiveUpStore
<1>2. /\ GoodDoc(job[j]) /\ job[j].status # "absent"
      /\ job[j].status = "running" => job[j].owner = boot
  BY <1>1, WorkedDoc
<1>3. \A s \in Final : /\ GoodDoc(Released(job[j], s))
                       /\ Released(job[j], s).status = s
  BY <1>2, ReleasedIsGood
<1>4. CASE SucceedJob(j, n)
  <2>1. CASE Owned(job[j])
    BY <1>1, <1>3, <1>4, <2>1, StoreKeepsInv DEF SucceedJob, Final
  <2>2. CASE ~Owned(job[j])
    BY <1>1, <1>2, <1>4, <2>2, StoreKeepsInv DEF SucceedJob
  <2> QED
    BY <2>1, <2>2
<1>5. CASE FailJob(j, n)
  <2>1. CASE Owned(job[j])
    BY <1>1, <1>3, <1>5, <2>1, StoreKeepsInv DEF FailJob, Final
  <2>2. CASE ~Owned(job[j])
    BY <1>1, <1>2, <1>5, <2>2, StoreKeepsInv DEF FailJob
  <2> QED
    BY <2>1, <2>2
<1>6. CASE FailOrRetryJob(j, n)
  <2>1. CASE Owned(job[j])
    <3>1. GoodDoc(RetriedDoc(job[j])) /\ RetriedDoc(job[j]).status \in {"pending", "failed"}
      BY <1>2, <2>1, RetriedIsGood DEF Owned
    <3>2. AfterRetry(RetriedDoc(job[j])) \in {"hook_fail", "closing"}
      BY DEF AfterRetry
    <3> QED
      BY <1>1, <1>6, <2>1, <3>1, <3>2, StoreKeepsInv DEF FailOrRetryJob
  <2>2. CASE ~Owned(job[j])
    BY <1>1, <1>2, <1>6, <2>2, StoreKeepsInv DEF FailOrRetryJob
  <2> QED
    BY <2>1, <2>2
<1>7. CASE AbortJob(j, n)
  <2>1. CASE CanCancel(job[j])
    BY <1>1, <1>3, <1>7, <2>1, StoreKeepsInv DEF AbortJob, Final
  <2>2. CASE ~CanCancel(job[j])
    BY <1>1, <1>2, <1>7, <2>2, StoreKeepsInv DEF AbortJob
  <2> QED
    BY <2>1, <2>2
<1>8. CASE GiveUpStore(j, n)
  <2> USE DEF QueueInv, CoreInv
  <2>1. PICK p \in {"hook_ok", "hook_fail", "closing"} :
          exec' = [exec EXCEPT ![<<j, n>>] = [exec[<<j, n>>] EXCEPT !.pc = p]]
    BY <1>8 DEF GiveUpStore
  <2>2. /\ Serving /\ UNCHANGED <<job, phase, boot, disp>> /\ Status(j) # "absent"
        /\ n \in 0..MaxStarts
    BY <1>1, <1>2, <1>8, ActivityMeansServing, Constants
       DEF GiveUpStore, Working, Starts, Status
  <2>3. ProcessInv'
    BY <1>8, Constants DEF GiveUpStore, ProcessInv
  <2>4. [exec[<<j, n>>] EXCEPT !.pc = p] \in Execution
    BY ExecFields DEF ExecInv
  <2>5. ExecInv'
    BY <2>1, <2>2, <2>4, SameDocs, ExecStep
  <2> QED
    BY <2>2, <2>3, <2>5, SameDocs, SameDisp, QuietWhileServing
<1> QED
  BY <1>4, <1>5, <1>6, <1>7, <1>8 DEF Answer

LEMMA ExecKeepsInv ==
  ASSUME QueueInv, ExecNext
  PROVE  CoreInv'
<1> USE DEF QueueInv, CoreInv
<1>1. PICK j \in Jobs, n \in Starts :
        Answer(j, n) \/ CallHook(j, n) \/ CloseExec(j, n) \/ TimeOut(j, n)
  BY DEF ExecNext
<1>2. n \in 0..MaxStarts /\ exec[<<j, n>>] \in Execution
  BY Constants DEF Starts, ExecInv
<1>3. CASE CallHook(j, n)
  <2> DEFINE r == [exec[<<j, n>>] EXCEPT !.pc = "closing"]
  <2>1. Serving /\ Status(j) # "absent" /\ UNCHANGED <<job, phase, boot, disp>>
    BY <1>3, ActivityMeansServing DEF CallHook, ExecInv
  <2>2. ProcessInv'
    BY <1>3 DEF CallHook, ProcessInv
  <2>3. r \in Execution /\ exec' = [exec EXCEPT ![<<j, n>>] = r]
    BY <1>2, <1>3, ExecFields DEF CallHook
  <2>4. ExecInv'
    BY <1>2, <2>1, <2>3, SameDocs, ExecStep
  <2> QED
    BY <2>1, <2>2, <2>4, SameDocs, SameDisp, QuietWhileServing
<1>4. CASE CloseExec(j, n)
  <2>1. Serving /\ Status(j) # "absent" /\ UNCHANGED <<job, phase, boot, disp>>
    BY <1>4, ActivityMeansServing DEF CloseExec, ExecInv
  <2>2. job[j].lane \in Lanes
    BY <2>1 DEF DocsInv, GoodDoc, Status
  <2>3. ProcessInv'
    BY <1>4, <2>2, Constants DEF CloseExec, ProcessInv, SlotsAfter
  <2>4. NoExec \in Execution
    BY DEF NoExec, Execution
  <2>5. ExecInv'
    BY <1>2, <1>4, <2>1, <2>4, SameDocs, ExecStep DEF CloseExec
  <2> QED
    BY <2>1, <2>3, <2>5, SameDocs, SameDisp, QuietWhileServing
<1>5. CASE TimeOut(j, n)
  <2> DEFINE r == [exec[<<j, n>>] EXCEPT !.aborted = TRUE]
  <2>1. Serving /\ Status(j) # "absent" /\ UNCHANGED <<job, phase, boot, disp>>
    BY <1>5, ActivityMeansServing DEF TimeOut, ExecInv, Working
  <2>2. ProcessInv'
    BY <1>5 DEF TimeOut, ProcessInv
  <2>3. r \in Execution /\ exec' = [exec EXCEPT ![<<j, n>>] = r]
    BY <1>2, <1>5, ExecFields DEF TimeOut
  <2>4. ExecInv'
    BY <1>2, <2>1, <2>3, SameDocs, ExecStep
  <2> QED
    BY <2>1, <2>2, <2>4, SameDocs, SameDisp, QuietWhileServing
<1> QED
  BY <1>1, <1>3, <1>4, <1>5, AnswerKeepsInv
-----------------------------------------------------------------------------
(* Time *)

\* A document changes, no activation does.
LEMMA OnlyWrite ==
  ASSUME QueueInv, NEW j \in Jobs, NEW w, GoodDoc(w), w.status # "absent",
         Serving /\ w.status = "running" => w.owner = boot,
         job' = [job EXCEPT ![j] = w], UNCHANGED <<phase, boot, disp, exec>>,
         ProcessInv', QuietUnlessServing'
  PROVE  CoreInv'
  BY WriteKeepsDocs, SameDisp, SameExec DEF QueueInv, CoreInv

LEMMA TimeKeepsInv ==
  ASSUME QueueInv, TimeNext
  PROVE  CoreInv'
<1> USE DEF QueueInv, CoreInv
<1>1. CASE TickDispatch
  <2>1. ProcessInv'
    BY <1>1 DEF TickDispatch, ProcessInv, DueLanes
  <2>2. QuietUnlessServing'
    BY <1>1, QuietWhileServing DEF TickDispatch
  <2> QED
    BY <1>1, <2>1, <2>2, OnlyProcess DEF TickDispatch
<1>2. ASSUME NEW j \in Jobs,
             BackoffElapses(j) \/ LeaseLapses(j) \/ RenewLease(j)
                               \/ TickReclaim(j) \/ TickNotice(j)
      PROVE  CoreInv'
  <2>1. GoodDoc(job[j]) /\ (Serving /\ Status(j) = "running" => job[j].owner = boot)
    BY DEF DocsInv
  <2>2. CASE BackoffElapses(j)
    <3> DEFINE w == [job[j] EXCEPT !.due = TRUE]
    <3>1. GoodDoc(w) /\ w.status = "pending"
      BY <2>1, <2>2, TimedIsGood DEF BackoffElapses, Status, GoodDoc, Doc
    <3>2. job' = [job EXCEPT ![j] = w]
      BY <2>2 DEF BackoffElapses
    <3>3. ProcessInv' /\ QuietUnlessServing' /\ UNCHANGED <<phase, boot, disp, exec>>
      BY <2>2 DEF BackoffElapses, memory, ProcessInv, QuietUnlessServing, Serving
    <3> HIDE DEF w
    <3> QED
      BY <3>1, <3>2, <3>3, OnlyWrite
  <2>3. CASE LeaseLapses(j)
    <3> DEFINE w == [job[j] EXCEPT !.lease = "lapsed"]
    <3>1. GoodDoc(w) /\ w.status = "running" /\ w.owner = job[j].owner /\ Status(j) = "running"
      BY <2>1, <2>3, TimedIsGood DEF LeaseLapses, Status, GoodDoc, Doc
    <3>2. job' = [job EXCEPT ![j] = w]
      BY <2>3 DEF LeaseLapses
    <3>3. ProcessInv' /\ QuietUnlessServing' /\ UNCHANGED <<phase, boot, disp, exec>>
      BY <2>3 DEF LeaseLapses, memory, ProcessInv, QuietUnlessServing, Serving
    <3> HIDE DEF w
    <3> QED
      BY <2>1, <3>1, <3>2, <3>3, OnlyWrite
  <2>4. CASE RenewLease(j)
    <3> DEFINE w == [job[j] EXCEPT !.lease = "live"]
    <3>1. GoodDoc(w) /\ w.status = "running" /\ w.owner = boot
      BY <2>1, <2>4, TimedIsGood DEF RenewLease, Owned, GoodDoc, Doc
    <3>2. job' = [job EXCEPT ![j] = w]
      BY <2>4 DEF RenewLease
    <3>3. ProcessInv' /\ QuietUnlessServing' /\ UNCHANGED <<phase, boot, disp, exec>>
      BY <2>4 DEF RenewLease, memory, ProcessInv, QuietUnlessServing, Serving
    <3> HIDE DEF w
    <3> QED
      BY <3>1, <3>2, <3>3, OnlyWrite
  <2>5. CASE TickReclaim(j)
    <3> DEFINE w == ReclaimedDoc(job[j])
    <3>1. GoodDoc(w) /\ w.status \in {"pending", "interrupted"} /\ job[j].lane \in Lanes
      BY <2>1, <2>5, ReclaimedIsGood DEF TickReclaim, Lapsed, GoodDoc
    <3>2. job' = [job EXCEPT ![j] = w] /\ UNCHANGED <<phase, boot, disp, exec>>
      BY <2>5 DEF TickReclaim
    <3>3. ProcessInv'
      <4>1. armed' \subseteq Lanes /\ noticing' \subseteq Jobs /\ lost' \in [Jobs -> Nat]
        BY <2>5, <3>1 DEF TickReclaim, ProcessInv
      <4> QED
        BY <2>5, <4>1 DEF TickReclaim, ProcessInv
    <3>4. QuietUnlessServing'
      BY <2>5, QuietWhileServing DEF TickReclaim
    <3> HIDE DEF w
    <3> QED
      BY <3>1, <3>2, <3>3, <3>4, OnlyWrite
  <2>6. CASE TickNotice(j)
    <3>1. ProcessInv'
      BY <2>6 DEF TickNotice, ProcessInv
    <3>2. QuietUnlessServing'
      BY <2>6 DEF TickNotice, QuietUnlessServing, Serving
    <3> QED
      BY <2>6, <3>1, <3>2, OnlyProcess DEF TickNotice
  <2> QED
    BY <1>2, <2>2, <2>3, <2>4, <2>5, <2>6
<1> QED
  BY <1>1, <1>2 DEF TimeNext

-----------------------------------------------------------------------------
(* Users *)

\* Firing abort signals starts or ends no execution.
LEMMA AbortedKeepsExec ==
  ASSUME ExecInv, NEW S \in SUBSET Jobs, exec' = Aborted(S),
         \A i \in Jobs : Status(i) # "absent" => Status(i)' # "absent"
  PROVE  /\ ExecInv'
         /\ \A i \in Jobs, m \in Starts : exec'[<<i, m>>].pc = exec[<<i, m>>].pc
<1>1. \A e \in Jobs \X Starts : /\ exec'[e] \in Execution
                                /\ exec'[e].pc = exec[e].pc
  BY ExecFields DEF ExecInv, Aborted
<1>2. exec' \in [Jobs \X Starts -> Execution]
  BY <1>1 DEF Aborted
<1>3. \A i \in Jobs, m \in Starts : exec'[<<i, m>>].pc = exec[<<i, m>>].pc
  BY <1>1
<1> QED
  BY <1>2, <1>3 DEF ExecInv

LEMMA UserKeepsInv ==
  ASSUME QueueInv, UserNext
  PROVE  CoreInv'
<1> USE DEF QueueInv, CoreInv
<1>1. ASSUME NEW l \in Lanes, NEW k \in Kinds, Enqueue(l, k)
      PROVE  CoreInv'
  <2>1. Serving /\ ProcessInv' /\ UNCHANGED <<job, phase, boot, disp, exec>>
    BY <1>1 DEF Enqueue, memory, ProcessInv
  <2> QED
    BY <2>1, QuietWhileServing, OnlyProcess
<1>7. ASSUME NEW j \in Jobs, StoreJob(j)
      PROVE  CoreInv'
  <2>1. PICK l \in Lanes, k \in Kinds : Serving /\ creating[j] = CreatedDoc(l, k)
    BY <1>7 DEF StoreJob, BirthInv
  <2>2. GoodDoc(creating[j]) /\ creating[j].status = "pending" /\ creating[j].lane = l
    BY <2>1, CreatedIsGood DEF CreatedDoc, Absent
  <2>3. job' = [job EXCEPT ![j] = creating[j]] /\ UNCHANGED <<phase, boot, disp, exec>>
    BY <1>7 DEF StoreJob
  <2>4. ProcessInv'
    BY <1>7, <2>2 DEF StoreJob, ProcessInv
  <2>5. QuietUnlessServing'
    BY <2>1, <2>3, QuietWhileServing
  <2> QED
    BY <2>2, <2>3, <2>4, <2>5, OnlyWrite
<1>2. ASSUME NEW j \in Jobs, Cancel(j)
      PROVE  CoreInv'
  <2>1. ProcessInv' /\ QuietUnlessServing' /\ UNCHANGED <<job, phase, boot, disp>>
    BY <1>2, QuietWhileServing DEF Cancel, ProcessInv
  <2>2. ExecInv'
    BY <1>2, <2>1, SameDocs, AbortedKeepsExec DEF Cancel
  <2> QED
    BY <2>1, <2>2, SameDocs, SameDisp
<1>3. ASSUME NEW j \in Jobs, WriteCancel(j)
      PROVE  CoreInv'
  <2>1. Serving /\ UNCHANGED <<phase, boot, disp, exec>>
    BY <1>3, ActivityMeansServing DEF WriteCancel
  <2>2. ProcessInv' /\ QuietUnlessServing'
    BY <1>3, <2>1, QuietWhileServing DEF WriteCancel, ProcessInv
  <2>3. CASE CanCancel(job[j])
    <3>1. GoodDoc(Released(job[j], "cancelled")) /\ Released(job[j], "cancelled").status = "cancelled"
      BY <2>3, ReleasedIsGood DEF CanCancel, DocsInv, Final
    <3> QED
      BY <1>3, <2>1, <2>2, <2>3, <3>1, OnlyWrite DEF WriteCancel
  <2>4. CASE ~CanCancel(job[j])
    <3>1. UNCHANGED job
      BY <1>3, <2>4 DEF WriteCancel, DocsInv
    <3> QED
      BY <2>1, <2>2, <3>1, SameDocs, SameDisp, SameExec
  <2> QED
    BY <2>3, <2>4
<1>4. ASSUME NEW l \in Lanes, CancelLane(l)
      PROVE  CoreInv'
  <2>1. Serving /\ ProcessInv' /\ UNCHANGED <<job, phase, boot, disp, exec>>
    BY <1>4 DEF CancelLane, ProcessInv
  <2> QED
    BY <2>1, QuietWhileServing, OnlyProcess
<1>6. ASSUME NEW l \in Lanes, CancelRunning(l)
      PROVE  CoreInv'
  <2>1. PICK j \in Jobs : exec' = Aborted({j}) /\ cancelling' = cancelling \union {j}
    BY <1>6 DEF CancelRunning, Registered
  <2>2. Serving /\ UNCHANGED <<job, phase, boot, disp>>
    BY <1>6, ActivityMeansServing DEF CancelRunning
  <2>3. ProcessInv' /\ QuietUnlessServing'
    BY <1>6, <2>1, <2>2, QuietWhileServing DEF CancelRunning, ProcessInv
  <2>4. ExecInv'
    BY <2>1, <2>2, SameDocs, AbortedKeepsExec
  <2> QED
    BY <2>2, <2>3, <2>4, SameDocs, SameDisp
<1>5. ASSUME NEW l \in Lanes, CancelWaiting(l)
      PROVE  CoreInv'
  <2>1. Serving /\ UNCHANGED <<job, phase, boot, disp, exec>>
    BY <1>5, ActivityMeansServing DEF CancelWaiting
  <2>2. ProcessInv'
    BY <1>5 DEF CancelWaiting, ProcessInv, Pending
  <2> QED
    BY <2>1, <2>2, QuietWhileServing, OnlyProcess
<1> QED
  BY <1>1, <1>2, <1>3, <1>4, <1>5, <1>6, <1>7 DEF UserNext

-----------------------------------------------------------------------------
(* Crash and boot *)

LEMMA BootKeepsInv ==
  ASSUME QueueInv, BootNext
  PROVE  CoreInv'
<1> USE DEF QueueInv, CoreInv
<1>1. CASE Crash
  <2>1. DocsInv'
    BY <1>1 DEF Crash, DocsInv, Serving, Status, GoodDoc
  <2>2. ProcessInv'
    BY <1>1, Constants DEF Crash, ProcessInv
  <2>3. DispInv'
    <3>1. NoLane \in Lanes \union {NoLane}
      OBVIOUS
    <3>2. Idle \in Dispatch /\ Idle.pc = "idle"
      BY <3>1, DispFields
    <3>3. disp' = [d \in Dispatchers |-> Idle]
      BY <1>1 DEF Crash
    <3> QED
      BY <3>2, <3>3 DEF DispInv
  <2>4. ExecInv' /\ QuietUnlessServing'
    BY <1>1 DEF Crash, ExecInv, QuietUnlessServing, NoExec, Execution, Idle
  <2> QED
    BY <2>1, <2>2, <2>3, <2>4
<1>2. CASE Restart
  <2>1. DocsInv'
    BY <1>2 DEF Restart, DocsInv, Serving, Status, GoodDoc
  <2>2. ProcessInv'
    BY <1>2, Constants DEF Restart, memory, ProcessInv
  <2>3. DispInv' /\ ExecInv'
    BY <1>2 DEF Restart, memory, DispInv, ExecInv, Status
  <2>4. QuietUnlessServing'
    BY <1>2 DEF Restart, memory, QuietUnlessServing, Serving
  <2> QED
    BY <2>1, <2>2, <2>3, <2>4
<1>3. CASE StartQueue
  <2>1. DocsInv'
    BY <1>3 DEF StartQueue, Orphan, DocsInv, Serving, Status, GoodDoc
  <2>2. ProcessInv'
    BY <1>3 DEF StartQueue, ProcessInv, DueLanes
  <2>3. DispInv' /\ ExecInv'
    BY <1>3 DEF StartQueue, DispInv, ExecInv, Status
  <2>4. QuietUnlessServing'
    BY <1>3 DEF StartQueue, QuietUnlessServing, Serving
  <2> QED
    BY <2>1, <2>2, <2>3, <2>4
<1>4. ASSUME NEW j \in Jobs, Reconcile(j)
      PROVE  CoreInv'
  <2> DEFINE w == ReclaimedDoc(job[j])
  <2>1. GoodDoc(w) /\ w.status \in {"pending", "interrupted"}
    BY <1>4, ReclaimedIsGood DEF Reconcile, Orphan, Status, DocsInv
  <2>2. job' = [job EXCEPT ![j] = w] /\ UNCHANGED <<phase, boot, disp, exec>>
    BY <1>4 DEF Reconcile, memory
  <2>3. ProcessInv' /\ QuietUnlessServing'
    BY <1>4 DEF Reconcile, memory, ProcessInv, QuietUnlessServing, Serving
  <2> HIDE DEF w
  <2> QED
    BY <2>1, <2>2, <2>3, OnlyWrite
<1> QED
  BY <1>1, <1>2, <1>3, <1>4 DEF BootNext

-----------------------------------------------------------------------------
(* The theorems *)

\* What a step does to the ids and to the documents about to be stored.
LEMMA BirthShape ==
  ASSUME [Next]_vars
  PROVE  \/ UNCHANGED births /\ (Serving => Serving')
         \/ \E l \in Lanes, k \in Kinds : Enqueue(l, k)
         \/ \E j \in Jobs : StoreJob(j)
         \/ Crash
<1>1. CASE UNCHANGED vars
  BY <1>1 DEF vars, Serving
<1>2. CASE DispatchNext
  BY <1>2 DEF DispatchNext, ReadLane, ClaimJob, Launch, FireTimer, Serving
<1>3. CASE ExecNext
  <2>1. PICK j \in Jobs, n \in Starts :
          Answer(j, n) \/ CallHook(j, n) \/ CloseExec(j, n) \/ TimeOut(j, n)
    BY <1>3 DEF ExecNext
  <2>2. CASE Answer(j, n)
    BY <2>2 DEF Answer, SucceedJob, FailJob, FailOrRetryJob, AbortJob, GiveUpStore, Store,
                Serving
  <2> QED
    BY <2>1, <2>2 DEF CallHook, CloseExec, TimeOut, Serving
<1>4. CASE TimeNext
  BY <1>4 DEF TimeNext, BackoffElapses, LeaseLapses, RenewLease, TickReclaim, TickNotice,
              TickDispatch, memory, Serving
<1>5. CASE UserNext
  BY <1>5 DEF UserNext, Cancel, WriteCancel, CancelLane, CancelRunning, CancelWaiting, Serving
<1>6. CASE BootNext
  BY <1>6 DEF BootNext, Restart, StartQueue, Reconcile, Serving
<1> QED
  BY <1>1, <1>2, <1>3, <1>4, <1>5, <1>6 DEF Next

LEMMA BirthInvStep ==
  ASSUME BirthInv, [Next]_vars
  PROVE  BirthInv'
<1>1. CASE UNCHANGED births /\ (Serving => Serving')
  BY <1>1 DEF births, BirthInv
<1>2. ASSUME NEW l \in Lanes, NEW k \in Kinds, Enqueue(l, k)
      PROVE  BirthInv'
  <2>1. PICK j \in Jobs : NextId(j) /\ creating' = [creating EXCEPT ![j] = CreatedDoc(l, k)]
    BY <1>2 DEF Enqueue
  <2>2. seq' \in 0..NJobs
    BY <2>1, Constants DEF NextId, Jobs
  <2>3. CreatedDoc(l, k) \in Doc
    BY CreatedIsGood DEF GoodDoc
  <2>4. Serving' /\ UNCHANGED older
    BY <1>2 DEF Enqueue, Serving
  <2>5. creating' \in [Jobs -> Doc]
    BY <2>1, <2>3 DEF BirthInv
  <2>6. \A i \in Jobs : creating'[i] # Absent =>
          \E m \in Lanes, h \in Kinds : creating'[i] = CreatedDoc(m, h)
    BY <2>1 DEF BirthInv
  <2> QED
    BY <2>2, <2>4, <2>5, <2>6 DEF BirthInv
<1>3. ASSUME NEW j \in Jobs, StoreJob(j)
      PROVE  BirthInv'
  <2>1. creating' \in [Jobs -> Doc] /\ \A i \in Jobs : creating'[i] \in {Absent, creating[i]}
    BY <1>3, AbsentIsGood DEF StoreJob, BirthInv, GoodDoc
  <2>2. older' \in [Jobs -> SUBSET Jobs] /\ UNCHANGED <<seq, phase>>
    BY <1>3 DEF StoreJob, BirthInv
  <2> QED
    BY <2>1, <2>2 DEF BirthInv, Serving
<1>4. CASE Crash
  BY <1>4, AbsentIsGood DEF Crash, BirthInv, GoodDoc
<1> QED
  BY <1>1, <1>2, <1>3, <1>4, BirthShape

LEMMA QueueInvStep == QueueInv /\ [Next]_vars => QueueInv'
<1> SUFFICES ASSUME QueueInv, [Next]_vars
             PROVE  QueueInv'
  OBVIOUS
<1>1. UNCHANGED vars => CoreInv'
  BY DEF vars, memory, CoreInv, QueueInv, DocsInv, ProcessInv, DispInv, ExecInv,
         QuietUnlessServing, GoodDoc, Status, Serving
<1>2. CoreInv'
  BY <1>1, DispatchKeepsInv, ExecKeepsInv, TimeKeepsInv, UserKeepsInv, BootKeepsInv
     DEF Next
<1>3. BirthInv'
  BY BirthInvStep DEF QueueInv
<1> QED
  BY <1>2, <1>3 DEF QueueInv

THEOREM QueueInvariant == Spec => []QueueInv
  BY InitQueueInv, QueueInvStep, PTL DEF Spec

\* Every variable of the queue keeps its type: counters stay within the ranges
\* that the code's guards, not the types, give them.
THEOREM TypeCorrect == Spec => []TypeOK
  BY QueueInvariant, QueueInvImplies, PTL

\* Retries and crash recovery, which both make claimJob add to attempts, never
\* start a job more than max_attempts + maxRetries times.
THEOREM BudgetHolds == Spec => []StartBudget
  BY QueueInvariant, QueueInvImplies, PTL

\* owner and lease are set exactly while a job runs, and a serving process owns
\* every running document: claims, retries, reclaims and boots all keep it.
THEOREM OwnershipHolds == Spec => []RunningIsOwned
  BY QueueInvariant, QueueInvImplies, PTL

-----------------------------------------------------------------------------
(***************************************************************************)
(* The life cycle. A step of the queue stores a job,  claims one, or makes *)
(* of at most one document one of the moves below: the other guards of     *)
(* job-store.ts, seen from the document.                                   *)
(***************************************************************************)
Move(doc, w) ==
  /\ w.attempts = doc.attempts /\ w.lane = doc.lane /\ w.kind = doc.kind
  /\ \/ w.status = doc.status /\ doc.status \in {"pending", "running"}
     \/ /\ doc.status = "running" /\ w.status = "pending"
        /\ w.attempts < MaxStarts
     \/ doc.status = "running" /\ w.status \in Final \union {"interrupted"}
     \/ doc.status \in {"pending", "interrupted"} /\ w.status = "cancelled"
  /\ w.status = "pending" /\ w.attempts = 0 => w.due

Stores == \E j \in Jobs, l \in Lanes, k \in Kinds :
            StoreJob(j) /\ creating[j] = CreatedDoc(l, k)
Claims == \E d \in Dispatchers : ClaimJob(d) /\ CanClaim(job[disp[d].job])
Moves == UNCHANGED job \/ \E j \in Jobs, w \in Doc :
           job' = [job EXCEPT ![j] = w] /\ Move(job[j], w)

\* A pending document has a start left.
LEMMA PendingHasStart ==
  ASSUME NEW doc, GoodDoc(doc), doc.status = "pending"
  PROVE  doc.attempts < MaxStarts
  BY Constants DEF GoodDoc, Doc

LEMMA CreatedFields ==
  ASSUME NEW l, NEW k
  PROVE  /\ CreatedDoc(l, k).status = "pending" /\ CreatedDoc(l, k).attempts = 0
         /\ CreatedDoc(l, k).due /\ CreatedDoc(l, k).lane = l
  BY DEF CreatedDoc, Absent

LEMMA ClaimedFields ==
  ASSUME NEW doc \in Doc
  PROVE  /\ ClaimedDoc(doc).status = "running"
         /\ ClaimedDoc(doc).attempts = doc.attempts + 1
         /\ ClaimedDoc(doc).lane = doc.lane /\ ClaimedDoc(doc).kind = doc.kind
  BY DEF ClaimedDoc, Doc

LEMMA EndMoves ==
  ASSUME NEW doc, GoodDoc(doc), doc.status = "running",
         NEW s \in Final \union {"interrupted"}
  PROVE  Move(doc, Released(doc, s))
<1>1. s \in Statuses /\ doc \in Doc
  BY DEF Statuses, GoodDoc
<1> QED
  BY <1>1, ReleasedFields DEF Move, Final

LEMMA CancelMoves ==
  ASSUME NEW doc, GoodDoc(doc), CanCancel(doc)
  PROVE  Move(doc, Released(doc, "cancelled"))
<1>1. "cancelled" \in Statuses /\ doc \in Doc
  BY DEF Statuses, Final, GoodDoc
<1> QED
  BY <1>1, ReleasedFields DEF Move, CanCancel, Final

LEMMA RetryMoves ==
  ASSUME NEW doc, GoodDoc(doc), doc.status = "running"
  PROVE  Move(doc, RetriedDoc(doc))
<1>1. GoodDoc(RetriedDoc(doc)) /\ RetriedDoc(doc).status \in {"pending", "failed"}
  BY RetriedIsGood
<1>2. /\ RetriedDoc(doc).attempts = doc.attempts
      /\ RetriedDoc(doc).lane = doc.lane /\ RetriedDoc(doc).kind = doc.kind
  <2>1. doc \in Doc /\ "pending" \in Statuses /\ "failed" \in Statuses
    BY DEF Statuses, Final, GoodDoc
  <2>2. \A s \in {"pending", "failed"} :
          /\ Released(doc, s) \in Doc /\ Released(doc, s).attempts = doc.attempts
          /\ Released(doc, s).lane = doc.lane /\ Released(doc, s).kind = doc.kind
    BY <2>1, ReleasedFields
  <2> QED
    BY <2>2 DEF RetriedDoc, Doc
<1>3. doc.attempts # 0
  BY DEF GoodDoc
<1> QED
  BY <1>1, <1>2, <1>3, PendingHasStart DEF Move, Final

LEMMA ReclaimMoves ==
  ASSUME NEW doc, GoodDoc(doc), doc.status = "running"
  PROVE  Move(doc, ReclaimedDoc(doc))
<1>1. GoodDoc(ReclaimedDoc(doc)) /\ ReclaimedDoc(doc).status \in {"pending", "interrupted"}
  BY ReclaimedIsGood
<1>2. /\ ReclaimedDoc(doc).attempts = doc.attempts
      /\ ReclaimedDoc(doc).lane = doc.lane /\ ReclaimedDoc(doc).kind = doc.kind
  BY ReleasedFields DEF ReclaimedDoc, GoodDoc, Statuses
<1>3. doc.attempts # 0
  BY DEF GoodDoc
<1> QED
  BY <1>1, <1>2, <1>3, PendingHasStart DEF Move

\* A write of one document is a move of it.
LEMMA WriteMoves ==
  ASSUME NEW j \in Jobs, NEW w, GoodDoc(w), Move(job[j], w), job' = [job EXCEPT ![j] = w]
  PROVE  Moves
  BY DEF Moves, GoodDoc

LEMMA AnswerMoves ==
  ASSUME QueueInv, NEW j \in Jobs, NEW n \in Starts, Answer(j, n)
  PROVE  Moves
<1>1. job \in [Jobs -> Doc] /\ GoodDoc(job[j])
  BY DEF QueueInv, CoreInv, DocsInv
<1>2. Owned(job[j]) => job[j].status = "running"
  BY DEF Owned
<1>3. job' = job => Moves
  BY DEF Moves
<1>4. ASSUME NEW s \in Final, Owned(job[j]) \/ (s = "cancelled" /\ CanCancel(job[j])),
             job' = [job EXCEPT ![j] = Released(job[j], s)]
      PROVE  Moves
  <2>1. GoodDoc(Released(job[j], s))
    BY <1>1, <1>4, ReleasedIsGood DEF Owned, CanCancel
  <2>2. Move(job[j], Released(job[j], s))
    BY <1>1, <1>4, EndMoves, CancelMoves DEF Owned
  <2> QED
    BY <1>4, <2>1, <2>2, WriteMoves
<1>5. ASSUME Owned(job[j]), job' = [job EXCEPT ![j] = RetriedDoc(job[j])]
      PROVE  Moves
  BY <1>1, <1>2, <1>5, RetriedIsGood, RetryMoves, WriteMoves
<1>6. [job EXCEPT ![j] = job[j]] = job
  BY <1>1
<1>7. CASE SucceedJob(j, n)
  <2>1. CASE Owned(job[j])
    BY <1>4, <1>7, <2>1 DEF SucceedJob, Store, Final
  <2> QED
    BY <1>3, <1>6, <1>7, <2>1 DEF SucceedJob, Store
<1>8. CASE FailJob(j, n)
  <2>1. CASE Owned(job[j])
    BY <1>4, <1>8, <2>1 DEF FailJob, Store, Final
  <2> QED
    BY <1>3, <1>6, <1>8, <2>1 DEF FailJob, Store
<1>9. CASE FailOrRetryJob(j, n)
  <2>1. CASE Owned(job[j])
    BY <1>5, <1>9, <2>1 DEF FailOrRetryJob, Store
  <2> QED
    BY <1>3, <1>6, <1>9, <2>1 DEF FailOrRetryJob, Store
<1>10. CASE AbortJob(j, n)
  <2>1. CASE CanCancel(job[j])
    BY <1>4, <1>10, <2>1 DEF AbortJob, Store, Final
  <2> QED
    BY <1>3, <1>6, <1>10, <2>1 DEF AbortJob, Store
<1>11. CASE GiveUpStore(j, n)
  BY <1>3, <1>11 DEF GiveUpStore
<1> QED
  BY <1>7, <1>8, <1>9, <1>10, <1>11 DEF Answer

LEMMA TimeMoves ==
  ASSUME QueueInv, TimeNext
  PROVE  Moves
<1>1. CASE TickDispatch
  BY <1>1 DEF TickDispatch, Moves
<1>2. ASSUME NEW j \in Jobs, BackoffElapses(j) \/ LeaseLapses(j) \/ RenewLease(j)
      PROVE  Moves
  <2>1. GoodDoc(job[j])
    BY DEF QueueInv, CoreInv, DocsInv
  <2>2. PICK w : /\ job' = [job EXCEPT ![j] = w] /\ GoodDoc(w)
                 /\ w.status = job[j].status /\ w.attempts = job[j].attempts
                 /\ w.lane = job[j].lane /\ w.kind = job[j].kind
                 /\ w.status \in {"pending", "running"} /\ (w.status = "pending" => w.due)
    <3>1. CASE BackoffElapses(j)
      <4> DEFINE w == [job[j] EXCEPT !.due = TRUE]
      <4>1. GoodDoc(w)
        BY <2>1, <3>1, TimedIsGood DEF BackoffElapses, Status
      <4>2. /\ w.status = job[j].status /\ w.attempts = job[j].attempts
            /\ w.lane = job[j].lane /\ w.kind = job[j].kind
            /\ w.status = "pending" /\ w.due
        BY <2>1, <3>1 DEF BackoffElapses, Status, GoodDoc, Doc
      <4> QED
        BY <3>1, <4>1, <4>2 DEF BackoffElapses
    <3>2. CASE LeaseLapses(j)
      <4> DEFINE w == [job[j] EXCEPT !.lease = "lapsed"]
      <4>1. GoodDoc(w) /\ job[j].status = "running"
        BY <2>1, <3>2, TimedIsGood DEF LeaseLapses, GoodDoc
      <4>2. /\ w.status = job[j].status /\ w.attempts = job[j].attempts
            /\ w.lane = job[j].lane /\ w.kind = job[j].kind
            /\ w.status = "running"
        BY <2>1, <4>1 DEF GoodDoc, Doc
      <4>3. job' = [job EXCEPT ![j] = w]
        BY <3>2 DEF LeaseLapses
      <4> WITNESS w
      <4> QED
        BY <4>1, <4>2, <4>3
    <3>3. CASE RenewLease(j)
      <4> DEFINE w == [job[j] EXCEPT !.lease = "live"]
      <4>1. GoodDoc(w) /\ job[j].status = "running"
        BY <2>1, <3>3, TimedIsGood DEF RenewLease, Owned, GoodDoc
      <4>2. /\ w.status = job[j].status /\ w.attempts = job[j].attempts
            /\ w.lane = job[j].lane /\ w.kind = job[j].kind
            /\ w.status = "running"
        BY <2>1, <4>1 DEF GoodDoc, Doc
      <4>3. job' = [job EXCEPT ![j] = w]
        BY <3>3 DEF RenewLease
      <4> WITNESS w
      <4> QED
        BY <4>1, <4>2, <4>3
    <3> QED
      BY <1>2, <3>1, <3>2, <3>3
  <2>3. Move(job[j], w)
    BY <2>2 DEF Move
  <2> QED
    BY <2>2, <2>3, WriteMoves
<1>3. ASSUME NEW j \in Jobs, TickReclaim(j)
      PROVE  Moves
  <2>1. job[j].status = "running" /\ GoodDoc(job[j]) /\ job' = [job EXCEPT ![j] = ReclaimedDoc(job[j])]
    BY <1>3 DEF TickReclaim, Lapsed, QueueInv, CoreInv, DocsInv
  <2> QED
    BY <2>1, ReclaimedIsGood, ReclaimMoves, WriteMoves
<1>4. ASSUME NEW j \in Jobs, TickNotice(j)
      PROVE  Moves
  BY <1>4 DEF TickNotice, Moves
<1> QED
  BY <1>1, <1>2, <1>3, <1>4 DEF TimeNext

\* What a put of createJob makes of the documents.
LEMMA StoresOne ==
  ASSUME Stores
  PROVE  \E l \in Lanes, k \in Kinds, j \in Jobs :
           Status(j) = "absent" /\ job' = [job EXCEPT ![j] = CreatedDoc(l, k)]
<1>1. PICK l \in Lanes, k \in Kinds, j \in Jobs :
        StoreJob(j) /\ creating[j] = CreatedDoc(l, k)
  BY DEF Stores
<1> QED
  BY <1>1 DEF StoreJob

\* Every step of the queue is one of the three.
LEMMA StepMoves ==
  ASSUME QueueInv, [Next]_vars
  PROVE  Stores \/ Claims \/ Moves
<1>1. CASE UNCHANGED vars
  BY <1>1 DEF vars, Moves
<1>2. CASE DispatchNext
  <2>1. PICK d \in Dispatchers :
          ReadLane(d) \/ ClaimJob(d) \/ Launch(d) \/ \E l \in Lanes : FireTimer(d, l)
    BY <1>2 DEF DispatchNext
  <2>2. CASE ClaimJob(d) /\ CanClaim(job[disp[d].job])
    BY <2>2 DEF Claims
  <2> QED
    BY <2>1, <2>2 DEF ReadLane, ClaimJob, Launch, FireTimer, Moves
<1>3. CASE ExecNext
  BY <1>3, AnswerMoves DEF ExecNext, CallHook, CloseExec, TimeOut, Moves
<1>4. CASE TimeNext
  BY <1>4, TimeMoves
<1>5. CASE UserNext
  <2>1. ASSUME NEW j \in Jobs, StoreJob(j)
        PROVE  Stores
    BY <2>1 DEF Stores, StoreJob, QueueInv, BirthInv
  <2>2. ASSUME NEW j \in Jobs, WriteCancel(j)
        PROVE  Moves
    <3>1. GoodDoc(job[j]) /\ job \in [Jobs -> Doc]
      BY DEF QueueInv, CoreInv, DocsInv
    <3>2. CASE CanCancel(job[j])
      <4>1. GoodDoc(Released(job[j], "cancelled"))
        BY <3>1, <3>2, ReleasedIsGood DEF CanCancel, Final
      <4> QED
        BY <2>2, <3>1, <3>2, <4>1, CancelMoves, WriteMoves DEF WriteCancel
    <3>3. CASE ~CanCancel(job[j])
      BY <2>2, <3>1, <3>3 DEF WriteCancel, Moves
    <3> QED
      BY <3>2, <3>3
  <2> QED
    BY <1>5, <2>1, <2>2
       DEF UserNext, Enqueue, Cancel, CancelLane, CancelRunning, CancelWaiting, Moves
<1>6. CASE BootNext
  <2>1. ASSUME NEW j \in Jobs, Reconcile(j)
        PROVE  Moves
    <3>1. /\ job[j].status = "running" /\ GoodDoc(job[j])
          /\ job' = [job EXCEPT ![j] = ReclaimedDoc(job[j])]
      BY <2>1 DEF Reconcile, Orphan, Status, QueueInv, CoreInv, DocsInv
    <3> QED
      BY <3>1, ReclaimedIsGood, ReclaimMoves, WriteMoves
  <2> QED
    BY <1>6, <2>1 DEF BootNext, Crash, Restart, StartQueue, Moves
<1> QED
  BY <1>1, <1>2, <1>3, <1>4, <1>5, <1>6 DEF Next

-----------------------------------------------------------------------------
(* What follows from the moves *)

LEMMA FinalStep ==
  ASSUME QueueInv, [Next]_vars
  PROVE  \A j \in Jobs : Status(j) \in Final => job'[j] = job[j]
<1> SUFFICES ASSUME NEW j \in Jobs, Status(j) \in Final
             PROVE  job'[j] = job[j]
  OBVIOUS
<1>1. CASE Stores
  BY <1>1 DEF Stores, StoreJob, Status, Final, QueueInv, CoreInv, DocsInv
<1>2. CASE Claims
  BY <1>2 DEF Claims, ClaimJob, CanClaim, Status, Final, QueueInv, CoreInv, DocsInv
<1>3. CASE Moves
  BY <1>3 DEF Moves, Move, Status, Final, QueueInv, CoreInv, DocsInv
<1> QED
  BY <1>1, <1>2, <1>3, StepMoves

\* A completed, failed or cancelled job is settled: no late answer, reclaim or
\* cancel ever changes its document.
THEOREM FinalIsFinal == Spec => FinalStays
<1>1. QueueInv /\ [Next]_vars =>
        [\A j \in Jobs : Status(j) \in Final => job'[j] = job[j]]_vars
  BY FinalStep
<1> QED
  BY <1>1, QueueInvariant, PTL DEF Spec, FinalStays

\* The queue, with its leases, retries, crashes and cancels, implements the life
\* cycle that JobLifecycle promises of every job.
THEOREM QueueImplementsLifecycle == Spec => ImplementsLifecycle
<1>1. Init => Lifecycle!Init
  BY DEF Init, Lifecycle!Init, Absent
<1>2. QueueInv /\ [Next]_vars => [Lifecycle!Next]_(Lifecycle!vars)
  <2> SUFFICES ASSUME QueueInv, [Next]_vars
               PROVE  [Lifecycle!Next]_(Lifecycle!vars)
    OBVIOUS
  <2> DEFINE st == [j \in Jobs |-> job[j].status]
             at == [j \in Jobs |-> job[j].attempts]
  <2>1. CASE UNCHANGED job
    BY <2>1 DEF Lifecycle!vars
  <2>2. \A j \in Jobs : \A w : job' = [job EXCEPT ![j] = w] =>
          /\ st' = [st EXCEPT ![j] = w.status]
          /\ at' = [at EXCEPT ![j] = w.attempts]
    BY DEF QueueInv, CoreInv, DocsInv
  <2>3. CASE Stores
    <3>1. PICK l \in Lanes, k \in Kinds, j \in Jobs :
            job[j].status = "absent" /\ job' = [job EXCEPT ![j] = CreatedDoc(l, k)]
      BY <2>3, StoresOne DEF Status
    <3>2. st' = [st EXCEPT ![j] = "pending"] /\ at' = [at EXCEPT ![j] = 0]
      <4> DEFINE w == CreatedDoc(l, k)
      <4>1. job' = [job EXCEPT ![j] = w] /\ w.status = "pending" /\ w.attempts = 0
        BY <3>1, CreatedFields
      <4> HIDE DEF w
      <4> QED
        BY <2>2, <4>1
    <3>3. job[j].attempts = 0
      BY <3>1 DEF QueueInv, CoreInv, DocsInv, GoodDoc
    <3> QED
      BY <3>1, <3>2, <3>3 DEF Lifecycle!Next, Lifecycle!Create
  <2>4. CASE Claims
    <3>1. PICK d \in Dispatchers : ClaimJob(d) /\ CanClaim(job[disp[d].job])
      BY <2>4 DEF Claims
    <3>2. PICK j \in Jobs : j = disp[d].job
      BY <3>1 DEF ClaimJob, QueueInv, CoreInv, DispInv
    <3>3. /\ job' = [job EXCEPT ![j] = ClaimedDoc(job[j])]
          /\ job[j].status = "pending" /\ GoodDoc(job[j])
      BY <3>1, <3>2 DEF ClaimJob, CanClaim, QueueInv, CoreInv, DocsInv
    <3>4. st' = [st EXCEPT ![j] = "running"] /\ at' = [at EXCEPT ![j] = job[j].attempts + 1]
      <4> DEFINE w == ClaimedDoc(job[j])
                 n == job[j].attempts + 1
      <4>1. /\ job' = [job EXCEPT ![j] = w] /\ w.status = "running"
            /\ w.attempts = n
        BY <3>3, ClaimedFields DEF GoodDoc
      <4> HIDE DEF w, n
      <4>2. st' = [st EXCEPT ![j] = "running"] /\ at' = [at EXCEPT ![j] = n]
        BY <2>2, <4>1
      <4> QED
        BY <4>2 DEF n
    <3>5. job[j].attempts < MaxStarts
      BY <3>3, PendingHasStart
    <3> QED
      BY <3>3, <3>4, <3>5 DEF Lifecycle!Next, Lifecycle!Start
  <2>5. CASE \E j \in Jobs, w \in Doc : job' = [job EXCEPT ![j] = w] /\ Move(job[j], w)
    <3>1. PICK j \in Jobs, w \in Doc : job' = [job EXCEPT ![j] = w] /\ Move(job[j], w)
      BY <2>5
    <3>2. /\ st' = [st EXCEPT ![j] = w.status]
          /\ at' = [at EXCEPT ![j] = w.attempts]
      BY <2>2, <3>1
    <3>3. st[j] = job[j].status /\ at[j] = job[j].attempts
      OBVIOUS
    <3>4. UNCHANGED at
      BY <3>1, <3>2 DEF Move
    <3>5. w.status = job[j].status => UNCHANGED st
      BY <3>2
    <3>6. CASE w.status = job[j].status
      BY <3>4, <3>5, <3>6 DEF Lifecycle!vars
    <3>7. CASE job[j].status = "running" /\ w.status = "pending" /\ w.attempts < MaxStarts
      <4>1. at[j] < MaxStarts
        BY <3>1, <3>3, <3>7 DEF Move
      <4>2. Lifecycle!Requeue(j)
        BY <3>2, <3>4, <3>7, <4>1 DEF Lifecycle!Requeue
      <4> QED
        BY <4>2 DEF Lifecycle!Next
    <3>8. CASE job[j].status = "running" /\ w.status \in Final \union {"interrupted"}
      <4>1. Lifecycle!End(j)
        BY <3>2, <3>4, <3>8 DEF Lifecycle!End, Lifecycle!Ends, Final
      <4> QED
        BY <4>1 DEF Lifecycle!Next
    <3>9. CASE job[j].status \in {"pending", "interrupted"} /\ w.status = "cancelled"
      <4>1. Lifecycle!Cancel(j)
        BY <3>2, <3>4, <3>9 DEF Lifecycle!Cancel
      <4> QED
        BY <4>1 DEF Lifecycle!Next
    <3> QED
      BY <3>1, <3>6, <3>7, <3>8, <3>9 DEF Move
  <2> QED
    BY <2>1, <2>3, <2>4, <2>5, StepMoves DEF Moves
<1> QED
  BY <1>1, <1>2, QueueInvariant, PTL DEF Spec, ImplementsLifecycle, Lifecycle!Spec
=============================================================================
