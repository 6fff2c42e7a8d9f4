----------------------- MODULE DelegationGroupsProofs -----------------------
(***************************************************************************)
(* Proofs about DelegationGroups, for any number of tasks, rounds, crashes *)
(* and faults: the claim of the summary is exclusive, document and queue   *)
(* agree, and the group implements the join FanIn.                         *)
(***************************************************************************)
EXTENDS DelegationGroups, TLAPS

-----------------------------------------------------------------------------
(***************************************************************************)
(* The inductive invariant. The document: an existing group has a task, and *)
(* a ready or notified one has all outcomes. Workers: whatever acts for a   *)
(* task acts for a registered one. Callers: one at a time is past the claim, *)
(* the job it is about to create does not exist, the one it is about to     *)
(* write down does.                                                        *)
(***************************************************************************)
Has(t) == group.outcomes[t] # 0

DocInv ==
  /\ group.tasks = {} <=> group.status = "none"
  /\ group.status \in {"ready", "notified"} => \A t \in group.tasks : Has(t)

WorkInv ==
  \A j \in Jobs :
    worker[j] # "none" \/ j \in launching \/ pc[j] = "recording" => j[1] \in group.tasks

BusyInv ==
  /\ \A j \in launching : worker[j] = "none"
  /\ \A j \in Jobs : pc[j] # "idle" => worker[j] = "ended"
  /\ pc[Turn] # "idle" => turn = "sealing"

TellInv ==
  /\ summaries \in {0, 1}
  /\ \A c \in Callers : /\ pc[c] = "creating" => summaries = 0
                        /\ pc[c] = "notifying" => summaries = 1

GroupInv == /\ TypeOK /\ ClaimIsExclusive /\ SummaryIsKnown
            /\ DocInv /\ WorkInv /\ BusyInv /\ TellInv

-----------------------------------------------------------------------------
LEMMA Naming ==
  /\ Jobs \subseteq Callers /\ Turn \in Callers /\ Turn \notin Jobs
  /\ \A j \in Jobs : j[1] \in Tasks /\ j[2] \in 1..Rounds
  /\ Rounds \in Nat \ {0} /\ MaxTurnRuns \in Nat \ {0}
  /\ MaxCrashes \in Nat /\ MaxFaults \in Nat
  BY GroupBounds, TurnIsNoTask DEF Jobs, Callers, Turn

LEMMA InitGroupInv == Init => GroupInv
<1> SUFFICES ASSUME Init PROVE GroupInv
  OBVIOUS
<1>1. NoGroup \in Group
  BY Naming DEF NoGroup, Group
<1>2. TypeOK
  BY <1>1, Naming DEF Init, TypeOK
<1>3. ClaimIsExclusive /\ WorkInv /\ BusyInv /\ TellInv /\ SummaryIsKnown
  BY Naming
     DEF Init, ClaimIsExclusive, WorkInv, BusyInv, TellInv, SummaryIsKnown, Claiming,
         NoGroup
<1>4. DocInv
  BY DEF Init, DocInv, NoGroup
<1> QED
  BY <1>2, <1>3, <1>4 DEF GroupInv

\* Replacing one field of the document by a value of its type.
LEMMA GroupFields ==
  ASSUME NEW g \in Group
  PROVE  /\ \A s \in {"none", "open", "sealed", "ready", "notified"} :
              [g EXCEPT !.status = s] \in Group
         /\ \A T \in SUBSET Tasks : [g EXCEPT !.tasks = T] \in Group
         /\ \A o \in [Tasks -> 0..Rounds] : [g EXCEPT !.outcomes = o] \in Group
         /\ \A m \in {"null", "claim", "job"} : [g EXCEPT !.summary = m] \in Group
<1>1. \A s \in {"none", "open", "sealed", "ready", "notified"} :
          [g EXCEPT !.status = s] \in Group
  BY DEF Group
<1>2. \A T \in SUBSET Tasks : [g EXCEPT !.tasks = T] \in Group
  BY DEF Group
<1>3. \A o \in [Tasks -> 0..Rounds] : [g EXCEPT !.outcomes = o] \in Group
  BY DEF Group
<1>4. \A m \in {"null", "claim", "job"} : [g EXCEPT !.summary = m] \in Group
  BY DEF Group
<1> QED
  BY <1>1, <1>2, <1>3, <1>4

\* registerDelegatedTask keeps a document well formed.
LEMMA RegisteredFields ==
  ASSUME group \in Group, NEW t \in Tasks
  PROVE  /\ Registered(t) \in Group
         /\ Registered(t).status = "open"
         /\ Registered(t).tasks = group.tasks \union {t}
         /\ Registered(t).outcomes = group.outcomes
         /\ Registered(t).summary = group.summary
<1>1. [group EXCEPT !.status = "open"] \in Group
  BY GroupFields
<1>2. group.tasks \union {t} \in SUBSET Tasks
  BY DEF Group
<1>3. \A g \in Group : [g EXCEPT !.tasks = group.tasks \union {t}] \in Group
  BY <1>2, GroupFields
<1>4. Registered(t) = [[group EXCEPT !.status = "open"] EXCEPT
                          !.tasks = group.tasks \union {t}]
  BY DEF Registered, Group
<1> QED
  BY <1>1, <1>3, <1>4 DEF Registered, Group

\* recordDelegationOutcome writes the outcome of its own task only, and never
\* takes one back.
LEMMA RecordedFields ==
  ASSUME group \in Group, NEW j \in Jobs
  PROVE  /\ Recorded(j) \in Group
         /\ Recorded(j).status = group.status
         /\ Recorded(j).tasks = group.tasks
         /\ Recorded(j).summary = group.summary
         /\ \A t \in Tasks : Recorded(j).outcomes[t] # 0 <=> group.outcomes[t] # 0 \/ t = j[1]
<1>1. j[1] \in Tasks /\ j[2] \in 0..Rounds /\ j[2] # 0
  BY Naming
<1>2. CASE group.outcomes[j[1]] # 0
  BY <1>1, <1>2 DEF Recorded, Group
<1>3. CASE group.outcomes[j[1]] = 0
  <2> DEFINE o == [group.outcomes EXCEPT ![j[1]] = j[2]]
  <2>1. o \in [Tasks -> 0..Rounds]
    BY <1>1 DEF Group
  <2>2. Recorded(j) = [group EXCEPT !.outcomes = o]
    BY <1>3 DEF Recorded
  <2>3. Recorded(j) \in Group
    <3> HIDE DEF o
    <3> QED
      BY <2>1, <2>2, GroupFields
  <2>4. Recorded(j).outcomes = o
    BY <2>2 DEF Group
  <2> QED
    BY <1>1, <1>3, <2>2, <2>3, <2>4 DEF Group
<1> QED
  BY <1>2, <1>3


LEMMA FinishTurnKeeps ==
  ASSUME GroupInv, FinishTurn
  PROVE  GroupInv'
<1>1. TypeOK'
  BY DEF GroupInv, TypeOK, FinishTurn
<1>2. ClaimIsExclusive'
  BY DEF GroupInv, ClaimIsExclusive, Claiming, FinishTurn
<1>3. DocInv'
  BY DEF GroupInv, DocInv, Has, FinishTurn
<1>4. WorkInv'
  BY DEF GroupInv, WorkInv, FinishTurn
<1>5. TellInv'
  BY DEF GroupInv, TellInv, FinishTurn
<1>6. SummaryIsKnown'
  BY DEF GroupInv, BusyInv, SummaryIsKnown, FinishTurn
<1>7. BusyInv'
  BY Naming DEF GroupInv, BusyInv, FinishTurn
<1> QED
  BY <1>1, <1>2, <1>3, <1>4, <1>5, <1>6, <1>7 DEF GroupInv

LEMMA FailTurnKeeps ==
  ASSUME GroupInv, FailTurn
  PROVE  GroupInv'
<1>1. TypeOK'
  BY DEF GroupInv, TypeOK, FailTurn
<1>2. ClaimIsExclusive'
  BY DEF GroupInv, ClaimIsExclusive, FailTurn
<1>3. DocInv'
  BY DEF GroupInv, DocInv, Has, FailTurn
<1>4. WorkInv'
  BY DEF GroupInv, WorkInv, FailTurn
<1>5. TellInv'
  BY DEF GroupInv, TellInv, FailTurn
<1>6. SummaryIsKnown'
  BY DEF GroupInv, SummaryIsKnown, FailTurn
<1>7. BusyInv'
  BY DEF GroupInv, BusyInv, FailTurn
<1> QED
  BY <1>1, <1>2, <1>3, <1>4, <1>5, <1>6, <1>7 DEF GroupInv

LEMMA EndTurnKeeps ==
  ASSUME GroupInv, EndTurn
  PROVE  GroupInv'
<1>1. TypeOK'
  BY DEF GroupInv, TypeOK, EndTurn
<1>2. ClaimIsExclusive'
  BY DEF GroupInv, ClaimIsExclusive, EndTurn
<1>3. DocInv'
  BY DEF GroupInv, DocInv, Has, EndTurn
<1>4. WorkInv'
  BY DEF GroupInv, WorkInv, EndTurn
<1>5. TellInv'
  BY DEF GroupInv, TellInv, EndTurn
<1>6. SummaryIsKnown'
  BY DEF GroupInv, SummaryIsKnown, EndTurn
<1>7. BusyInv'
  BY DEF GroupInv, BusyInv, EndTurn
<1> QED
  BY <1>1, <1>2, <1>3, <1>4, <1>5, <1>6, <1>7 DEF GroupInv

LEMMA RerunTurnKeeps ==
  ASSUME GroupInv, RerunTurn
  PROVE  GroupInv'
<1>1. TypeOK'
  BY Naming DEF GroupInv, TypeOK, RerunTurn
<1>2. ClaimIsExclusive'
  BY DEF GroupInv, ClaimIsExclusive, RerunTurn
<1>3. DocInv'
  BY DEF GroupInv, DocInv, Has, RerunTurn
<1>4. WorkInv'
  BY DEF GroupInv, WorkInv, RerunTurn
<1>5. TellInv'
  BY DEF GroupInv, TellInv, RerunTurn
<1>6. SummaryIsKnown'
  BY DEF GroupInv, SummaryIsKnown, RerunTurn
<1>7. BusyInv'
  BY DEF GroupInv, BusyInv, RerunTurn
<1> QED
  BY <1>1, <1>2, <1>3, <1>4, <1>5, <1>6, <1>7 DEF GroupInv

LEMMA SealKeeps ==
  ASSUME GroupInv, Seal
  PROVE  GroupInv'
<1>1. TypeOK'
  <2>1. group \in Group /\ group.status \in {"none", "open", "sealed", "ready", "notified"}
    BY DEF GroupInv, TypeOK, Group
  <2>2. \E s \in {"none", "open", "sealed", "ready", "notified"} :
          group' = group \/ group' = [group EXCEPT !.status = s]
    BY <2>1 DEF Seal
  <2>3. group' \in Group
    BY <2>1, <2>2, GroupFields
  <2> QED
    BY <2>3, Naming DEF GroupInv, TypeOK, Seal, Goto, AfterSeal
<1>2. ClaimIsExclusive'
  BY DEF GroupInv, TypeOK, ClaimIsExclusive, Claiming, Seal, Goto, AfterSeal, Group
<1>3. DocInv'
  BY DEF GroupInv, TypeOK, DocInv, Has, Seal, Group
<1>4. WorkInv'
  BY Naming DEF GroupInv, TypeOK, WorkInv, Seal, Goto, Group
<1>5. TellInv'
  BY DEF GroupInv, TypeOK, TellInv, Seal, Goto, AfterSeal
<1>6. SummaryIsKnown'
  BY DEF GroupInv, TypeOK, SummaryIsKnown, Seal, Goto, Group
<1>7. BusyInv'
  BY Naming DEF GroupInv, TypeOK, BusyInv, Seal, Goto
<1> QED
  BY <1>1, <1>2, <1>3, <1>4, <1>5, <1>6, <1>7 DEF GroupInv

LEMMA DelegateKeeps ==
  ASSUME GroupInv, NEW t \in Tasks, Delegate(t)
  PROVE  GroupInv'
<1>1. TypeOK'
  <2>1. group' \in Group
    BY RegisteredFields DEF GroupInv, TypeOK, Delegate
  <2>2. <<t, 1>> \in Jobs
    BY Naming DEF Jobs
  <2> QED
    BY <2>1, <2>2 DEF GroupInv, TypeOK, Delegate
<1>2. ClaimIsExclusive'
  BY DEF GroupInv, ClaimIsExclusive, Delegate, CanRegister
<1>3. DocInv'
  BY RegisteredFields DEF GroupInv, TypeOK, DocInv, Has, Delegate, Group
<1>4. WorkInv'
  BY RegisteredFields DEF GroupInv, TypeOK, WorkInv, Delegate
<1>5. TellInv'
  BY Naming, RegisteredFields DEF GroupInv, TellInv, Delegate
<1>6. SummaryIsKnown'
  BY RegisteredFields DEF GroupInv, TypeOK, SummaryIsKnown, Delegate, CanRegister
<1>7. BusyInv'
  BY Naming DEF GroupInv, WorkInv, BusyInv, Jobs, Delegate
<1> QED
  BY <1>1, <1>2, <1>3, <1>4, <1>5, <1>6, <1>7 DEF GroupInv

LEMMA ReviseKeeps ==
  ASSUME GroupInv, NEW j \in Jobs, Revise(j)
  PROVE  GroupInv'
<1>1. TypeOK'
  BY RegisteredFields DEF GroupInv, TypeOK, Revise
<1>2. ClaimIsExclusive'
  BY DEF GroupInv, ClaimIsExclusive, Revise, CanRegister
<1>3. DocInv'
  <2>1. group'.status = "open" /\ j[1] \in group'.tasks
    BY Naming, RegisteredFields DEF GroupInv, TypeOK, Revise
  <2> QED
    BY <2>1 DEF DocInv
<1>4. WorkInv'
  BY RegisteredFields DEF GroupInv, TypeOK, WorkInv, Revise
<1>5. TellInv'
  BY DEF GroupInv, TellInv, Revise
<1>6. SummaryIsKnown'
  BY RegisteredFields DEF GroupInv, TypeOK, SummaryIsKnown, Revise, CanRegister
<1>7. BusyInv'
  BY DEF GroupInv, BusyInv, Revise
<1> QED
  BY <1>1, <1>2, <1>3, <1>4, <1>5, <1>6, <1>7 DEF GroupInv

LEMMA EnqueueWorkerKeeps ==
  ASSUME GroupInv, NEW j \in Jobs, EnqueueWorker(j)
  PROVE  GroupInv'
<1>1. TypeOK'
  BY DEF GroupInv, TypeOK, EnqueueWorker
<1>2. ClaimIsExclusive'
  BY DEF GroupInv, ClaimIsExclusive, EnqueueWorker
<1>3. DocInv'
  BY DEF GroupInv, DocInv, Has, EnqueueWorker
<1>4. WorkInv'
  BY DEF GroupInv, WorkInv, EnqueueWorker
<1>5. TellInv'
  BY DEF GroupInv, TellInv, EnqueueWorker
<1>6. SummaryIsKnown'
  BY DEF GroupInv, SummaryIsKnown, EnqueueWorker
<1>7. BusyInv'
  BY DEF GroupInv, BusyInv, EnqueueWorker
<1> QED
  BY <1>1, <1>2, <1>3, <1>4, <1>5, <1>6, <1>7 DEF GroupInv

LEMMA EnqueueThrowsKeeps ==
  ASSUME GroupInv, NEW j \in Jobs, EnqueueThrows(j)
  PROVE  GroupInv'
<1>1. TypeOK'
  BY Naming DEF GroupInv, TypeOK, EnqueueThrows
<1>2. ClaimIsExclusive'
  BY DEF GroupInv, ClaimIsExclusive, EnqueueThrows
<1>3. DocInv'
  BY DEF GroupInv, DocInv, Has, EnqueueThrows
<1>4. WorkInv'
  BY DEF GroupInv, WorkInv, EnqueueThrows
<1>5. TellInv'
  BY DEF GroupInv, TellInv, EnqueueThrows
<1>6. SummaryIsKnown'
  BY DEF GroupInv, TellInv, SummaryIsKnown, EnqueueThrows
<1>7. BusyInv'
  BY DEF GroupInv, TypeOK, BusyInv, EnqueueThrows
<1> QED
  BY <1>1, <1>2, <1>3, <1>4, <1>5, <1>6, <1>7 DEF GroupInv

LEMMA DeliverTaskKeeps ==
  ASSUME GroupInv, NEW j \in Jobs, DeliverTask(j)
  PROVE  GroupInv'
<1>1. TypeOK'
  BY Naming DEF GroupInv, TypeOK, DeliverTask
<1>2. ClaimIsExclusive'
  BY DEF GroupInv, ClaimIsExclusive, DeliverTask
<1>3. DocInv'
  BY Naming DEF GroupInv, DocInv, Has, DeliverTask
<1>4. WorkInv'
  BY DEF GroupInv, WorkInv, DeliverTask
<1>5. TellInv'
  BY DEF GroupInv, TellInv, DeliverTask
<1>6. SummaryIsKnown'
  BY DEF GroupInv, Claiming, SummaryIsKnown, DeliverTask
<1>7. BusyInv'
  BY Naming DEF GroupInv, BusyInv, DeliverTask
<1> QED
  BY <1>1, <1>2, <1>3, <1>4, <1>5, <1>6, <1>7 DEF GroupInv

LEMMA EndWorkerKeeps ==
  ASSUME GroupInv, NEW j \in Jobs, EndWorker(j)
  PROVE  GroupInv'
<1>1. TypeOK'
  BY DEF GroupInv, TypeOK, EndWorker, Goto
<1>2. ClaimIsExclusive'
  BY DEF GroupInv, ClaimIsExclusive, Claiming, EndWorker, Goto
<1>3. DocInv'
  BY DEF GroupInv, DocInv, Has, EndWorker
<1>4. WorkInv'
  BY DEF GroupInv, WorkInv, EndWorker, Goto
<1>5. TellInv'
  BY DEF GroupInv, TellInv, EndWorker, Goto
<1>6. SummaryIsKnown'
  BY DEF GroupInv, BusyInv, SummaryIsKnown, EndWorker, Goto
<1>7. BusyInv'
  BY Naming DEF GroupInv, TypeOK, BusyInv, EndWorker, Goto
<1> QED
  BY <1>1, <1>2, <1>3, <1>4, <1>5, <1>6, <1>7 DEF GroupInv

LEMMA RepeatHookKeeps ==
  ASSUME GroupInv, NEW j \in Jobs, RepeatHook(j)
  PROVE  GroupInv'
<1>1. TypeOK'
  BY Naming DEF GroupInv, TypeOK, RepeatHook, Goto
<1>2. ClaimIsExclusive'
  BY DEF GroupInv, ClaimIsExclusive, Claiming, RepeatHook, Goto
<1>3. DocInv'
  BY DEF GroupInv, DocInv, Has, RepeatHook
<1>4. WorkInv'
  BY DEF GroupInv, WorkInv, RepeatHook, Goto
<1>5. TellInv'
  BY DEF GroupInv, TellInv, RepeatHook, Goto
<1>6. SummaryIsKnown'
  BY DEF GroupInv, SummaryIsKnown, RepeatHook, Goto
<1>7. BusyInv'
  BY Naming DEF GroupInv, BusyInv, RepeatHook, Goto
<1> QED
  BY <1>1, <1>2, <1>3, <1>4, <1>5, <1>6, <1>7 DEF GroupInv

LEMMA RecordOutcomeKeeps ==
  ASSUME GroupInv, NEW j \in Jobs, RecordOutcome(j)
  PROVE  GroupInv'
<1>1. TypeOK'
  BY RecordedFields DEF GroupInv, TypeOK, RecordOutcome, Goto
<1>2. ClaimIsExclusive'
  BY RecordedFields DEF GroupInv, TypeOK, ClaimIsExclusive, Claiming, RecordOutcome, Goto
<1>3. DocInv'
  BY RecordedFields DEF GroupInv, TypeOK, DocInv, Has, RecordOutcome, Group
<1>4. WorkInv'
  BY RecordedFields DEF GroupInv, TypeOK, WorkInv, RecordOutcome, Goto
<1>5. TellInv'
  BY DEF GroupInv, TellInv, RecordOutcome, Goto
<1>6. SummaryIsKnown'
  BY RecordedFields DEF GroupInv, TypeOK, SummaryIsKnown, RecordOutcome, Goto
<1>7. BusyInv'
  BY DEF GroupInv, BusyInv, RecordOutcome, Goto
<1> QED
  BY <1>1, <1>2, <1>3, <1>4, <1>5, <1>6, <1>7 DEF GroupInv

LEMMA ReadGroupKeeps ==
  ASSUME GroupInv, NEW c \in Callers, ReadGroup(c)
  PROVE  GroupInv'
<1>1. TypeOK'
  BY DEF GroupInv, TypeOK, ReadGroup, Goto
<1>2. ClaimIsExclusive'
  BY DEF GroupInv, ClaimIsExclusive, Claiming, ReadGroup, Goto
<1>3. DocInv'
  BY DEF GroupInv, DocInv, Has, ReadGroup
<1>4. WorkInv'
  BY DEF GroupInv, WorkInv, ReadGroup, Goto
<1>5. TellInv'
  BY DEF GroupInv, TellInv, ReadGroup, Goto
<1>6. SummaryIsKnown'
  BY DEF GroupInv, SummaryIsKnown, ReadGroup, Goto
<1>7. BusyInv'
  BY DEF GroupInv, BusyInv, ReadGroup, Goto
<1> QED
  BY <1>1, <1>2, <1>3, <1>4, <1>5, <1>6, <1>7 DEF GroupInv

LEMMA MakeReadyKeeps ==
  ASSUME GroupInv, NEW c \in Callers, MakeReady(c)
  PROVE  GroupInv'
<1>1. TypeOK'
  <2>1. group \in Group /\ group.status \in {"none", "open", "sealed", "ready", "notified"}
    BY DEF GroupInv, TypeOK, Group
  <2>2. \E s \in {"none", "open", "sealed", "ready", "notified"} :
          group' = group \/ group' = [group EXCEPT !.status = s]
    BY <2>1 DEF MakeReady
  <2>3. group' \in Group
    BY <2>1, <2>2, GroupFields
  <2> QED
    BY <2>3, Naming DEF GroupInv, TypeOK, MakeReady, Goto
<1>2. ClaimIsExclusive'
  BY DEF GroupInv, ClaimIsExclusive, Claiming, MakeReady, Goto
<1>3. DocInv'
  BY DEF GroupInv, DocInv, Has, MakeReady, IsComplete
<1>4. WorkInv'
  BY DEF GroupInv, WorkInv, MakeReady, Goto
<1>5. TellInv'
  BY DEF GroupInv, TellInv, MakeReady, Goto
<1>6. SummaryIsKnown'
  BY DEF GroupInv, SummaryIsKnown, MakeReady, Goto
<1>7. BusyInv'
  BY DEF GroupInv, BusyInv, MakeReady, Goto
<1> QED
  BY <1>1, <1>2, <1>3, <1>4, <1>5, <1>6, <1>7 DEF GroupInv

LEMMA ClaimSummaryKeeps ==
  ASSUME GroupInv, NEW c \in Callers, ClaimSummary(c)
  PROVE  GroupInv'
<1>1. TypeOK'
  BY GroupFields DEF GroupInv, TypeOK, ClaimSummary, Goto
<1>2. ClaimIsExclusive'
  BY DEF GroupInv, TypeOK, ClaimIsExclusive, Claiming, ClaimSummary, Goto, CanClaim, Group
<1>3. DocInv'
  BY DEF GroupInv, TypeOK, DocInv, Has, ClaimSummary, Group
<1>4. WorkInv'
  BY Naming DEF GroupInv, TypeOK, WorkInv, ClaimSummary, Goto, Group
<1>5. TellInv'
  BY DEF GroupInv, TypeOK, TellInv, ClaimSummary, Goto
<1>6. SummaryIsKnown'
  BY DEF GroupInv, TypeOK, SummaryIsKnown, ClaimSummary, Goto, Group
<1>7. BusyInv'
  BY Naming DEF GroupInv, TypeOK, BusyInv, ClaimSummary, Goto
<1> QED
  BY <1>1, <1>2, <1>3, <1>4, <1>5, <1>6, <1>7 DEF GroupInv

LEMMA FindSummaryKeeps ==
  ASSUME GroupInv, NEW c \in Callers, FindSummary(c)
  PROVE  GroupInv'
<1>1. TypeOK'
  BY DEF GroupInv, TypeOK, FindSummary, Goto
<1>2. ClaimIsExclusive'
  BY DEF GroupInv, ClaimIsExclusive, Claiming, FindSummary, Goto
<1>3. DocInv'
  BY DEF GroupInv, DocInv, Has, FindSummary
<1>4. WorkInv'
  BY DEF GroupInv, WorkInv, FindSummary, Goto
<1>5. TellInv'
  BY DEF GroupInv, TellInv, FindSummary, Goto
<1>6. SummaryIsKnown'
  BY DEF GroupInv, ClaimIsExclusive, Claiming, SummaryIsKnown, FindSummary
<1>7. BusyInv'
  BY DEF GroupInv, BusyInv, FindSummary, Goto
<1> QED
  BY <1>1, <1>2, <1>3, <1>4, <1>5, <1>6, <1>7 DEF GroupInv

LEMMA CreateSummaryKeeps ==
  ASSUME GroupInv, NEW c \in Callers, CreateSummary(c)
  PROVE  GroupInv'
<1>1. TypeOK'
  BY DEF GroupInv, TypeOK, CreateSummary, Goto
<1>2. ClaimIsExclusive'
  BY DEF GroupInv, ClaimIsExclusive, Claiming, CreateSummary, Goto
<1>3. DocInv'
  BY DEF GroupInv, DocInv, Has, CreateSummary
<1>4. WorkInv'
  BY DEF GroupInv, WorkInv, CreateSummary, Goto
<1>5. TellInv'
  BY DEF GroupInv, TypeOK, ClaimIsExclusive, Claiming, TellInv, CreateSummary, Goto
<1>6. SummaryIsKnown'
  BY DEF GroupInv, TypeOK, ClaimIsExclusive, Claiming, SummaryIsKnown, CreateSummary, Goto
<1>7. BusyInv'
  BY DEF GroupInv, BusyInv, CreateSummary, Goto
<1> QED
  BY <1>1, <1>2, <1>3, <1>4, <1>5, <1>6, <1>7 DEF GroupInv

LEMMA ResetClaimKeeps ==
  ASSUME GroupInv, NEW c \in Callers, ResetClaim(c)
  PROVE  GroupInv'
<1>1. TypeOK'
  <2>1. group \in Group /\ group.summary \in {"null", "claim", "job"}
    BY DEF GroupInv, TypeOK, Group
  <2>2. \E m \in {"null", "claim", "job"} : group' = [group EXCEPT !.summary = m]
    BY <2>1 DEF ResetClaim
  <2>3. group' \in Group
    BY <2>1, <2>2, GroupFields
  <2> QED
    BY <2>3, Naming DEF GroupInv, TypeOK, ResetClaim, Goto
<1>2. ClaimIsExclusive'
  BY DEF GroupInv, TypeOK, ClaimIsExclusive, Claiming, ResetClaim, Goto
<1>3. DocInv'
  BY DEF GroupInv, DocInv, Has, ResetClaim
<1>4. WorkInv'
  BY DEF GroupInv, WorkInv, ResetClaim, Goto
<1>5. TellInv'
  BY DEF GroupInv, TellInv, ResetClaim, Goto
<1>6. SummaryIsKnown'
  BY DEF GroupInv, ClaimIsExclusive, Claiming, SummaryIsKnown, ResetClaim
<1>7. BusyInv'
  BY DEF GroupInv, BusyInv, ResetClaim, Goto
<1> QED
  BY <1>1, <1>2, <1>3, <1>4, <1>5, <1>6, <1>7 DEF GroupInv

LEMMA NotifyGroupKeeps ==
  ASSUME GroupInv, NEW c \in Callers, NotifyGroup(c)
  PROVE  GroupInv'
<1>1. TypeOK'
  BY GroupFields DEF GroupInv, TypeOK, NotifyGroup, Goto
<1>2. ClaimIsExclusive'
  BY DEF GroupInv, TypeOK, ClaimIsExclusive, Claiming, NotifyGroup, Goto
<1>3. DocInv'
  BY DEF GroupInv, ClaimIsExclusive, Claiming, DocInv, Has, NotifyGroup
<1>4. WorkInv'
  BY DEF GroupInv, WorkInv, NotifyGroup, Goto
<1>5. TellInv'
  BY DEF GroupInv, TellInv, NotifyGroup, Goto
<1>6. SummaryIsKnown'
  BY DEF GroupInv, TellInv, SummaryIsKnown, NotifyGroup
<1>7. BusyInv'
  BY DEF GroupInv, BusyInv, NotifyGroup, Goto
<1> QED
  BY <1>1, <1>2, <1>3, <1>4, <1>5, <1>6, <1>7 DEF GroupInv

LEMMA SummaryThrowsKeeps ==
  ASSUME GroupInv, NEW c \in Callers, SummaryThrows(c)
  PROVE  GroupInv'
<1>1. TypeOK'
  BY Naming DEF GroupInv, TypeOK, SummaryThrows, Goto
<1>2. ClaimIsExclusive'
  BY DEF GroupInv, ClaimIsExclusive, Claiming, SummaryThrows, Goto
<1>3. DocInv'
  BY DEF GroupInv, DocInv, Has, SummaryThrows
<1>4. WorkInv'
  BY DEF GroupInv, WorkInv, SummaryThrows, Goto
<1>5. TellInv'
  BY DEF GroupInv, TellInv, SummaryThrows, Goto
<1>6. SummaryIsKnown'
  BY DEF GroupInv, ClaimIsExclusive, Claiming, SummaryIsKnown, SummaryThrows
<1>7. BusyInv'
  BY DEF GroupInv, BusyInv, SummaryThrows, Goto
<1> QED
  BY <1>1, <1>2, <1>3, <1>4, <1>5, <1>6, <1>7 DEF GroupInv

LEMMA CrashKeeps ==
  ASSUME GroupInv, Crash
  PROVE  GroupInv'
<1>1. TypeOK'
  <2>1. worker' \in [Jobs -> {"none", "live", "ended", "interrupted"}]
    BY DEF GroupInv, TypeOK, Crash
  <2>2. crashes' \in 0..MaxCrashes
    BY Naming DEF GroupInv, TypeOK, Crash
  <2>3. pc' \in [Callers -> {"idle"}]
    BY DEF Crash
  <2> QED
    BY <2>1, <2>2, <2>3 DEF GroupInv, TypeOK, Crash
<1>2. ClaimIsExclusive'
  BY DEF ClaimIsExclusive, Claiming, Crash
<1>3. DocInv'
  BY DEF GroupInv, DocInv, Has, Crash
<1>4. WorkInv'
  BY Naming DEF GroupInv, WorkInv, Crash
<1>5. TellInv'
  BY DEF GroupInv, TellInv, Crash
<1>6. SummaryIsKnown'
  BY DEF GroupInv, TypeOK, SummaryIsKnown, Crash
<1>7. BusyInv'
  BY Naming DEF BusyInv, Crash
<1> QED
  BY <1>1, <1>2, <1>3, <1>4, <1>5, <1>6, <1>7 DEF GroupInv


-----------------------------------------------------------------------------
LEMMA TurnKeeps == ASSUME GroupInv, TurnNext PROVE GroupInv'
  BY FinishTurnKeeps, FailTurnKeeps, EndTurnKeeps, RerunTurnKeeps, SealKeeps,
     DelegateKeeps, ReviseKeeps DEF TurnNext

LEMMA WorkerKeeps == ASSUME GroupInv, WorkerNext PROVE GroupInv'
  BY EnqueueWorkerKeeps, EnqueueThrowsKeeps, DeliverTaskKeeps, EndWorkerKeeps,
     RepeatHookKeeps, RecordOutcomeKeeps DEF WorkerNext

LEMMA FinalizeKeeps ==
  ASSUME GroupInv, NEW c \in Callers, FinalizeStep(c) \/ SummaryThrows(c)
  PROVE  GroupInv'
  BY ReadGroupKeeps, MakeReadyKeeps, ClaimSummaryKeeps, FindSummaryKeeps, CreateSummaryKeeps,
     ResetClaimKeeps, NotifyGroupKeeps, SummaryThrowsKeeps DEF FinalizeStep

LEMMA GroupInvStep == GroupInv /\ [Next]_vars => GroupInv'
<1> SUFFICES ASSUME GroupInv, [Next]_vars PROVE GroupInv'
  OBVIOUS
<1>1. CASE Next
  BY <1>1, TurnKeeps, WorkerKeeps, FinalizeKeeps, CrashKeeps DEF Next
<1>2. CASE UNCHANGED vars
  BY <1>2 DEF vars, GroupInv, TypeOK, ClaimIsExclusive, SummaryIsKnown, DocInv, Has,
              WorkInv, BusyInv, TellInv
<1> QED
  BY <1>1, <1>2

THEOREM GroupInvariant == Spec => []GroupInv
<1> QED
  BY InitGroupInv, GroupInvStep, PTL DEF Spec

\* Every variable keeps its type.
THEOREM GroupTypes == Spec => []TypeOK
<1>1. GroupInv => TypeOK
  BY DEF GroupInv
<1> QED
  BY <1>1, GroupInvariant, PTL

\* Whatever hooks, seals, failures and crashes interleave, one caller at a time is
\* between the claim of the summary and its last write, and holds the claim.
THEOREM ClaimHeldByOne == Spec => []ClaimIsExclusive
<1>1. GroupInv => ClaimIsExclusive
  BY DEF GroupInv
<1> QED
  BY <1>1, GroupInvariant, PTL

\* The group document and the queue agree on the summary job.
THEOREM SummaryAgrees == Spec => []SummaryIsKnown
<1>1. GroupInv => SummaryIsKnown
  BY DEF GroupInv
<1> QED
  BY <1>1, GroupInvariant, PTL
-----------------------------------------------------------------------------
(* The refinement. Only a registration, the seal, a first outcome and the   *)
(* creation of the summary move the join; every other step stutters.        *)

Reported == {t \in Tasks : group.outcomes[t] # 0}
Closed == group.status \notin {"none", "open"}

LEMMA JoinStutters ==
  ASSUME group'.tasks = group.tasks, Reported' = Reported, Closed' = Closed,
         summaries' = summaries
  PROVE  UNCHANGED Join!vars
  BY DEF Join!vars, Reported, Closed

LEMMA RegisterJoins ==
  ASSUME GroupInv, NEW t \in Tasks, CanRegister, group' = Registered(t), UNCHANGED summaries
  PROVE  Join!Next
<1>1. /\ group'.status = "open" /\ group'.tasks = group.tasks \union {t}
      /\ group'.outcomes = group.outcomes
  BY RegisteredFields DEF GroupInv, TypeOK
<1>2. Join!Join(t)
  BY <1>1 DEF Join!Join, CanRegister
<1> QED
  BY <1>2 DEF Join!Next

LEMMA SealCloses ==
  ASSUME GroupInv, Seal
  PROVE  Join!Next \/ UNCHANGED Join!vars
<1>1. CASE group.status = "open"
  <2>1. group' = [group EXCEPT !.status = "sealed"] /\ UNCHANGED summaries
    BY <1>1 DEF Seal
  <2>2. /\ group'.status = "sealed" /\ group'.tasks = group.tasks
        /\ group'.outcomes = group.outcomes /\ group.tasks # {}
    BY <1>1, <2>1 DEF GroupInv, TypeOK, DocInv, Group
  <2>3. Join!Close
    BY <1>1, <2>1, <2>2 DEF Join!Close
  <2> QED
    BY <2>3 DEF Join!Next
<1>2. CASE group.status # "open"
  <2>1. group' = group /\ UNCHANGED summaries
    BY <1>2 DEF Seal, GroupInv, TypeOK, Group
  <2> QED
    BY <2>1, JoinStutters DEF Reported, Closed
<1> QED
  BY <1>1, <1>2

LEMMA RecordReports ==
  ASSUME GroupInv, NEW j \in Jobs, RecordOutcome(j)
  PROVE  Join!Next \/ UNCHANGED Join!vars
<1>1. j[1] \in Tasks /\ j[1] \in group.tasks
  BY Naming DEF GroupInv, WorkInv, RecordOutcome
<1>2. /\ group'.status = group.status /\ group'.tasks = group.tasks
      /\ UNCHANGED summaries
      /\ \A t \in Tasks : group'.outcomes[t] # 0 <=> group.outcomes[t] # 0 \/ t = j[1]
  BY RecordedFields DEF GroupInv, TypeOK, RecordOutcome
<1>3. Reported' = Reported \union {j[1]} /\ Closed' = Closed
  BY <1>1, <1>2 DEF Reported, Closed
<1>4. CASE j[1] \in Reported
  BY <1>2, <1>3, <1>4, JoinStutters
<1>5. CASE j[1] \notin Reported
  <2>1. Join!Report(j[1])
    BY <1>1, <1>2, <1>3, <1>5 DEF Join!Report, Reported, Closed
  <2> QED
    BY <1>1, <2>1 DEF Join!Next
<1> QED
  BY <1>4, <1>5

LEMMA CreateTells ==
  ASSUME GroupInv, NEW c \in Callers, CreateSummary(c)
  PROVE  Join!Next
<1>1. /\ group.status = "ready" /\ \A t \in group.tasks : Has(t)
      /\ group.tasks \subseteq Tasks /\ summaries = 0
  BY DEF GroupInv, TypeOK, Group, ClaimIsExclusive, Claiming, DocInv, TellInv, CreateSummary
<1>2. summaries' = 1 /\ UNCHANGED group
  BY <1>1 DEF CreateSummary
<1>3. Join!Tell
  BY <1>1, <1>2 DEF Join!Tell, Has
<1> QED
  BY <1>3 DEF Join!Next

\* What finalizeIfReady writes to a closed group leaves it closed, with the same
\* tasks and outcomes.
LEMMA ProgressStutters ==
  ASSUME GroupInv, NEW c \in Callers,
         MakeReady(c) \/ ClaimSummary(c) \/ ResetClaim(c) \/ NotifyGroup(c)
  PROVE  UNCHANGED Join!vars
<1>1. UNCHANGED summaries
  BY DEF MakeReady, ClaimSummary, ResetClaim, NotifyGroup
<1>2. group'.tasks = group.tasks /\ group'.outcomes = group.outcomes
  BY DEF GroupInv, TypeOK, Group, MakeReady, ClaimSummary, ResetClaim, NotifyGroup
<1>3. Closed' = Closed
  <2>1. CASE MakeReady(c)
    BY <2>1 DEF GroupInv, TypeOK, Group, MakeReady, Closed
  <2>2. CASE ClaimSummary(c)
    BY <2>2 DEF GroupInv, TypeOK, Group, ClaimSummary, Closed
  <2>3. CASE ResetClaim(c)
    BY <2>3 DEF GroupInv, TypeOK, Group, ResetClaim, Closed
  <2>4. CASE NotifyGroup(c)
    BY <2>4 DEF GroupInv, TypeOK, Group, ClaimIsExclusive, Claiming, NotifyGroup, Closed
  <2> QED
    BY <2>1, <2>2, <2>3, <2>4
<1>4. Reported' = Reported
  BY <1>2 DEF Reported
<1> QED
  BY <1>1, <1>2, <1>3, <1>4, JoinStutters

LEMMA JoinStep == GroupInv /\ [Next]_vars => [Join!Next]_(Join!vars)
<1> SUFFICES ASSUME GroupInv, [Next]_vars
             PROVE  Join!Next \/ UNCHANGED Join!vars
  OBVIOUS
<1>1. CASE UNCHANGED <<group, summaries>>
  BY <1>1, JoinStutters DEF Reported, Closed
<1>2. CASE TurnNext
  <2>1. CASE Seal
    BY <2>1, SealCloses
  <2>2. CASE \E t \in Tasks : Delegate(t)
    BY <2>2, RegisterJoins DEF Delegate
  <2>3. CASE \E j \in Jobs : Revise(j)
    BY <2>3, Naming, RegisterJoins DEF Revise
  <2>4. CASE FinishTurn \/ FailTurn \/ EndTurn \/ RerunTurn
    BY <1>1, <2>4 DEF FinishTurn, FailTurn, EndTurn, RerunTurn
  <2> QED
    BY <1>2, <2>1, <2>2, <2>3, <2>4 DEF TurnNext
<1>3. CASE WorkerNext
  <2>1. PICK j \in Jobs : \/ EnqueueWorker(j) \/ EnqueueThrows(j) \/ DeliverTask(j)
                         \/ EndWorker(j) \/ RepeatHook(j) \/ RecordOutcome(j)
    BY <1>3 DEF WorkerNext
  <2>2. CASE RecordOutcome(j)
    BY <2>2, RecordReports
  <2>3. CASE ~RecordOutcome(j)
    BY <1>1, <2>1, <2>3
       DEF EnqueueWorker, EnqueueThrows, DeliverTask, EndWorker, RepeatHook
  <2> QED
    BY <2>2, <2>3
<1>4. CASE \E c \in Callers : FinalizeStep(c) \/ SummaryThrows(c)
  <2>1. PICK c \in Callers : FinalizeStep(c) \/ SummaryThrows(c)
    BY <1>4
  <2>2. CASE CreateSummary(c)
    BY <2>2, CreateTells
  <2>3. CASE MakeReady(c) \/ ClaimSummary(c) \/ ResetClaim(c) \/ NotifyGroup(c)
    BY <2>3, ProgressStutters
  <2>4. CASE ReadGroup(c) \/ FindSummary(c) \/ SummaryThrows(c)
    BY <1>1, <2>4 DEF ReadGroup, FindSummary, SummaryThrows
  <2> QED
    BY <2>1, <2>2, <2>3, <2>4 DEF FinalizeStep
<1>5. CASE Crash \/ UNCHANGED vars
  BY <1>1, <1>5 DEF Crash, vars
<1> QED
  BY <1>2, <1>3, <1>4, <1>5 DEF Next

\* A delegation group is the join FanIn, however often hooks repeat, the turn runs
\* again, enqueues fail and the process dies.
THEOREM GroupImplementsFanIn == Spec => ImplementsFanIn
<1>1. Init => Join!Init
  BY DEF Init, NoGroup, Join!Init
<1> QED
  BY <1>1, JoinStep, GroupInvariant, PTL DEF Spec, ImplementsFanIn, Join!Spec

=============================================================================
