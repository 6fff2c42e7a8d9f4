---------------------------- MODULE ToolPoolProofs ----------------------------
(***************************************************************************)
(* Proofs about ToolPool, for any number of batches, calls and workers: no *)
(* call is lost or done twice, none waits beside a free worker, and an     *)
(* abort ends the calls of its own batch only.                             *)
(***************************************************************************)
EXTENDS ToolPool, FiniteSetTheorems, SequenceTheorems, TLAPS

-----------------------------------------------------------------------------
(* Closing up a sequence over some of its positions.                        *)

\* The places of the positions of T are 1 to the number of them, each taken once.
LEMMA Ranks ==
  ASSUME NEW N \in Nat, NEW T \in SUBSET (1..N)
  PROVE  /\ Cardinality(T) \in 0..N
         /\ \A i \in T : Rank(T, i) \in 1..Cardinality(T)
         /\ \A i, k \in T : Rank(T, i) = Rank(T, k) => i = k
         /\ \A n \in 1..Cardinality(T) : \E i \in T : Rank(T, i) = n
<1>1. IsFiniteSet(T) /\ Cardinality(T) \in 0..N
  <2>1. IsFiniteSet(1..N) /\ Cardinality(1..N) = N
    BY FS_Interval
  <2>2. IsFiniteSet(T) /\ Cardinality(T) <= N
    BY <2>1, FS_Subset
  <2>3. Cardinality(T) \in Nat
    BY <2>2, FS_CardinalityType
  <2> QED
    BY <2>2, <2>3
<1>2. ASSUME NEW i \in T
      PROVE  Rank(T, i) \in 1..Cardinality(T)
  <2> DEFINE U == T \intersect 1..i
  <2>1. U \subseteq T /\ i \in U
    OBVIOUS
  <2>2. /\ IsFiniteSet(U) /\ Cardinality(U) <= Cardinality(T)
        /\ Cardinality(U) \in Nat /\ Cardinality(U) # 0
    BY <1>1, <2>1, FS_Subset, FS_CardinalityType, FS_EmptySet
  <2> QED
    BY <1>1, <2>2 DEF Rank
<1>3. ASSUME NEW i \in T, NEW k \in T, i < k
      PROVE  Rank(T, i) < Rank(T, k)
  <2> DEFINE U == T \intersect 1..i
             V == T \intersect 1..k
  <2>1. V \subseteq T /\ k \in V /\ U \subseteq V \ {k}
    BY <1>3
  <2> HIDE DEF U, V
  <2>2. IsFiniteSet(V) /\ Cardinality(V) \in Nat
    BY <1>1, <2>1, FS_Subset, FS_CardinalityType
  <2>3. IsFiniteSet(V \ {k}) /\ Cardinality(V \ {k}) = Cardinality(V) - 1
    BY <2>1, <2>2, FS_RemoveElement
  <2>4. Cardinality(U) <= Cardinality(V \ {k}) /\ Cardinality(U) \in Nat
    BY <2>1, <2>3, FS_Subset, FS_CardinalityType
  <2>5. Cardinality(U) < Cardinality(V)
    BY <2>2, <2>3, <2>4
  <2> QED
    BY <2>5 DEF Rank, U, V
<1>4. \A i, k \in T : Rank(T, i) = Rank(T, k) => i = k
  <2> SUFFICES ASSUME NEW i \in T, NEW k \in T, Rank(T, i) = Rank(T, k)
               PROVE  i = k
    OBVIOUS
  <2>1. Rank(T, i) \in Nat
    BY <1>1, <1>2
  <2>2. ~(i < k) /\ ~(k < i)
    BY <1>3, <2>1
  <2> QED
    BY <2>2
<1>5. \A n \in 1..Cardinality(T) : \E i \in T : Rank(T, i) = n
  <2> DEFINE f == [i \in T |-> Rank(T, i)]
             R == 1..Cardinality(T)
  <2>1. f \in Injection(T, R)
    BY <1>2, <1>4 DEF Injection, IsInjective
  <2>2. IsFiniteSet(R) /\ Cardinality(R) = Cardinality(T)
    BY <1>1, FS_Interval
  <2>3. f \in Surjection(T, R)
    BY <2>1, <2>2, FS_Injection
  <2> QED
    BY <2>3 DEF Surjection
<1> QED
  BY <1>1, <1>2, <1>4, <1>5

LEMMA Kept ==
  ASSUME NEW S, NEW seq \in Seq(S), NEW T \in SUBSET DOMAIN seq
  PROVE  /\ Keep(seq, T) \in Seq(S) /\ Len(Keep(seq, T)) <= Len(seq)
         /\ \A n \in DOMAIN Keep(seq, T) : \E i \in T : Keep(seq, T)[n] = seq[i] /\ Rank(T, i) = n
         /\ \A i \in T : \E n \in DOMAIN Keep(seq, T) : Keep(seq, T)[n] = seq[i]
<1>1. DOMAIN seq = 1..Len(seq) /\ Len(seq) \in Nat
  OBVIOUS
<1>2. /\ Cardinality(T) \in 0..Len(seq)
      /\ \A i \in T : Rank(T, i) \in 1..Cardinality(T)
      /\ \A i, k \in T : Rank(T, i) = Rank(T, k) => i = k
      /\ \A n \in 1..Cardinality(T) : \E i \in T : Rank(T, i) = n
  BY <1>1, Ranks
<1> DEFINE c == Cardinality(T)
           at(n) == CHOOSE i \in T : Rank(T, i) = n
<1>3. \A n \in 1..c : at(n) \in T /\ Rank(T, at(n)) = n
  BY <1>2
<1>4. Keep(seq, T) = [n \in 1..c |-> seq[at(n)]]
  BY DEF Keep
<1> HIDE DEF at
<1>5. Keep(seq, T) \in Seq(S) /\ Len(Keep(seq, T)) = c /\ DOMAIN Keep(seq, T) = 1..c
  <2>1. Keep(seq, T) \in [1..c -> S]
    BY <1>3, <1>4
  <2> QED
    BY <1>2, <2>1
<1>6. \A i \in T : Keep(seq, T)[Rank(T, i)] = seq[i]
  BY <1>2, <1>3, <1>4
<1>7. \A n \in 1..c : Keep(seq, T)[n] = seq[at(n)]
  BY <1>4
<1> QED
  BY <1>2, <1>3, <1>5, <1>6, <1>7

-----------------------------------------------------------------------------
(***************************************************************************)
(* drain. Position i of the array gets a job when its slot is idle and its *)
(* turn comes, or when the worker is new; Place is the place in the queue  *)
(* of the job it gets.                                                     *)
(***************************************************************************)
Gets(slots, waiting, i) ==
  \/ i > Len(slots)
  \/ i \in IdleIn(slots) /\ Rank(IdleIn(slots), i) <= Taken(slots, waiting)
Place(slots, i) ==
  IF i > Len(slots) THEN Cardinality(IdleIn(slots)) + i - Len(slots)
  ELSE Rank(IdleIn(slots), i)

\* A thread behind a slot works only for a job.
SlotsGood(slots) ==
  /\ slots \in Seq(Slots) /\ Len(slots) <= MaxWorkers
  /\ \A i \in DOMAIN slots : slots[i].at = "tool" => Busy(slots[i])

LEMMA DrainNumbers ==
  ASSUME NEW slots, SlotsGood(slots), NEW waiting \in Seq(Jobs)
  PROVE  /\ Cardinality(IdleIn(slots)) \in Nat /\ Room(slots) \in Nat
         /\ Taken(slots, waiting) \in 0..Len(waiting)
         /\ Taken(slots, waiting) <= Room(slots)
         /\ Taken(slots, waiting) < Len(waiting) => Taken(slots, waiting) = Room(slots)
         /\ Room(slots) = Cardinality(IdleIn(slots)) + MaxWorkers - Len(slots)
         /\ Created(slots, waiting) \in Nat
         /\ Created(slots, waiting) =
              IF Taken(slots, waiting) > Cardinality(IdleIn(slots))
              THEN Taken(slots, waiting) - Cardinality(IdleIn(slots)) ELSE 0
         /\ Len(slots) \in Nat /\ Len(waiting) \in Nat /\ MaxWorkers \in Nat
         /\ Len(slots) + Created(slots, waiting) <= MaxWorkers
         /\ DOMAIN slots = 1..Len(slots) /\ IdleIn(slots) \in SUBSET (1..Len(slots))
<1>1. /\ Len(slots) \in Nat /\ Len(waiting) \in Nat /\ MaxWorkers \in Nat
      /\ Len(slots) <= MaxWorkers
      /\ DOMAIN slots = 1..Len(slots) /\ IdleIn(slots) \in SUBSET (1..Len(slots))
  BY PoolBounds DEF SlotsGood, IdleIn
<1>2. PICK c \in Nat : c = Cardinality(IdleIn(slots))
  BY <1>1, Ranks
<1>3. PICK r \in Nat : r = Room(slots) /\ r = c + MaxWorkers - Len(slots)
  BY <1>1, <1>2 DEF Room
<1>4. PICK t \in Nat : /\ t = Taken(slots, waiting) /\ t <= Len(waiting) /\ t <= r
                       /\ t < Len(waiting) => t = r
  BY <1>1, <1>3 DEF Taken
<1>5. Created(slots, waiting) = IF t > c THEN t - c ELSE 0
  BY <1>2, <1>4 DEF Created
<1> QED
  BY <1>1, <1>2, <1>3, <1>4, <1>5

\* What a position holds after drain.
LEMMA DrainedAt ==
  ASSUME NEW slots, SlotsGood(slots), NEW waiting \in Seq(Jobs),
         NEW i \in 1..(Len(slots) + Created(slots, waiting))
  PROVE  /\ Gets(slots, waiting, i) =>
              /\ Place(slots, i) \in 1..Taken(slots, waiting)
              /\ Drained(slots, waiting)[i].job = waiting[Place(slots, i)]
              /\ i <= Len(slots) => ~Busy(slots[i])
         /\ ~Gets(slots, waiting, i) =>
              i \in DOMAIN slots /\ Drained(slots, waiting)[i] = slots[i]
         /\ Drained(slots, waiting)[i] \in Slots
<1> DEFINE idle == IdleIn(slots)
           c == Cardinality(idle)
           t == Taken(slots, waiting)
<1>1. /\ c \in Nat /\ t \in Nat /\ t <= Len(waiting) /\ Len(slots) \in Nat
      /\ DOMAIN slots = 1..Len(slots) /\ idle \in SUBSET (1..Len(slots))
      /\ Created(slots, waiting) = IF t > c THEN t - c ELSE 0
      /\ Len(waiting) \in Nat
  BY DrainNumbers
<1>2. \A k \in idle : Rank(idle, k) \in 1..c
  BY <1>1, Ranks
<1>3. Drained(slots, waiting)[i] =
        IF i > Len(slots) THEN Given(IdleSlot, waiting[c + i - Len(slots)])
        ELSE IF i \in idle /\ Rank(idle, i) <= t THEN Given(slots[i], waiting[Rank(idle, i)])
        ELSE slots[i]
  BY DEF Drained
<1>4. \A s \in Slots, j \in Jobs : Given(s, j) \in Slots /\ Given(s, j).job = j
  BY DEF Given, Slots
<1>5. IdleSlot \in Slots /\ \A n \in 1..Len(waiting) : waiting[n] \in Jobs
  BY DEF IdleSlot, Slots
<1>6. \A k \in DOMAIN slots : slots[k] \in Slots
  BY DEF SlotsGood
<1> HIDE DEF idle, c, t
<1>7. CASE i > Len(slots)
  <2>1. i \in Nat /\ c + i - Len(slots) \in 1..t
    BY <1>1, <1>7
  <2>2. waiting[c + i - Len(slots)] \in Jobs
    BY <1>1, <1>5, <2>1
  <2>3. Place(slots, i) = c + i - Len(slots)
    BY <1>7 DEF Place, c, idle
  <2> QED
    BY <1>3, <1>4, <1>5, <1>7, <2>1, <2>2, <2>3, <1>1 DEF Gets, t
<1>8. CASE i \in idle /\ Rank(idle, i) <= t
  <2>1. i \in 1..Len(slots) /\ ~(i > Len(slots))
    BY <1>1, <1>8
  <2>2. Rank(idle, i) \in 1..t
    BY <1>1, <1>2, <1>8
  <2>3. waiting[Rank(idle, i)] \in Jobs
    BY <1>1, <1>5, <2>2
  <2>4. Place(slots, i) = Rank(idle, i)
    BY <2>1 DEF Place, idle
  <2>5. ~Busy(slots[i])
    BY <1>8 DEF idle, IdleIn
  <2>6. slots[i] \in Slots
    BY <1>1, <1>6, <2>1
  <2> QED
    BY <1>3, <1>4, <1>8, <2>1, <2>2, <2>3, <2>4, <2>5, <2>6 DEF Gets, t, idle
<1>9. CASE ~(i > Len(slots)) /\ ~(i \in idle /\ Rank(idle, i) <= t)
  <2>1. i \in DOMAIN slots
    BY <1>1, <1>9
  <2> QED
    BY <1>3, <1>6, <1>9, <2>1 DEF Gets, t, idle
<1> QED
  BY <1>7, <1>8, <1>9

\* Every taken job has one place.
LEMMA DrainedPlaces ==
  ASSUME NEW slots, SlotsGood(slots), NEW waiting \in Seq(Jobs)
  PROVE  LET P == 1..(Len(slots) + Created(slots, waiting))
         IN  /\ \A i, k \in P : /\ Gets(slots, waiting, i) /\ Gets(slots, waiting, k)
                                /\ Place(slots, i) = Place(slots, k)
                                => i = k
             /\ \A n \in 1..Taken(slots, waiting) : \E i \in P :
                  Gets(slots, waiting, i) /\ Place(slots, i) = n
<1> DEFINE idle == IdleIn(slots)
           c == Cardinality(idle)
           t == Taken(slots, waiting)
           P == 1..(Len(slots) + Created(slots, waiting))
<1>1. /\ c \in Nat /\ t \in Nat /\ Len(slots) \in Nat
      /\ idle \in SUBSET (1..Len(slots))
      /\ Created(slots, waiting) = IF t > c THEN t - c ELSE 0
  BY DrainNumbers
<1>2. /\ \A i \in idle : Rank(idle, i) \in 1..c
      /\ \A i, k \in idle : Rank(idle, i) = Rank(idle, k) => i = k
      /\ \A n \in 1..c : \E i \in idle : Rank(idle, i) = n
  BY <1>1, Ranks
<1>3. \A i : Place(slots, i) = IF i > Len(slots) THEN c + i - Len(slots) ELSE Rank(idle, i)
  BY DEF Place
<1>4. \A i : Gets(slots, waiting, i) <=> i > Len(slots) \/ (i \in idle /\ Rank(idle, i) <= t)
  BY DEF Gets
<1> HIDE DEF idle, c, t
<1>5. ASSUME NEW i \in P, NEW k \in P, Gets(slots, waiting, i), Gets(slots, waiting, k),
             Place(slots, i) = Place(slots, k)
      PROVE  i = k
  BY <1>1, <1>2, <1>3, <1>4, <1>5
<1>6. ASSUME NEW n \in 1..t
      PROVE  \E i \in P : Gets(slots, waiting, i) /\ Place(slots, i) = n
  <2>1. CASE n <= c
    <3>1. PICK i \in idle : Rank(idle, i) = n
      BY <1>1, <1>2, <2>1
    <3>2. i \in P /\ ~(i > Len(slots))
      BY <1>1
    <3> QED
      BY <1>1, <1>3, <1>4, <3>1, <3>2
  <2>2. CASE n > c
    <3> DEFINE i == Len(slots) + n - c
    <3>1. i \in P /\ i > Len(slots) /\ c + i - Len(slots) = n
      BY <1>1, <2>2
    <3> HIDE DEF i
    <3> QED
      BY <1>3, <1>4, <3>1
  <2> QED
    BY <1>1, <2>1, <2>2
<1> QED
  BY <1>5, <1>6 DEF t

\* The array and the queue that drain leaves.
LEMMA DrainedSeqs ==
  ASSUME NEW slots, SlotsGood(slots), NEW waiting \in Seq(Jobs)
  PROVE  /\ SlotsGood(Drained(slots, waiting))
         /\ Len(Drained(slots, waiting)) = Len(slots) + Created(slots, waiting)
         /\ DOMAIN Drained(slots, waiting) = 1..(Len(slots) + Created(slots, waiting))
         /\ LeftOver(slots, waiting) \in Seq(Jobs)
         /\ Len(LeftOver(slots, waiting)) = Len(waiting) - Taken(slots, waiting)
         /\ \A n \in DOMAIN LeftOver(slots, waiting) :
              LeftOver(slots, waiting)[n] = waiting[Taken(slots, waiting) + n]
<1> DEFINE L == Len(slots) + Created(slots, waiting)
           D == Drained(slots, waiting)
           t == Taken(slots, waiting)
<1>1. L \in Nat /\ L <= MaxWorkers /\ t \in 0..Len(waiting) /\ Len(waiting) \in Nat
  BY DrainNumbers
<1>2. DOMAIN D = 1..L /\ D = [i \in 1..L |-> D[i]]
  BY DEF Drained
<1>3. \A i \in 1..L : D[i] \in Slots
  BY DrainedAt
<1>4. D \in Seq(Slots) /\ Len(D) = L
  <2> HIDE DEF D, L
  <2>1. D \in [1..L -> Slots]
    BY <1>2, <1>3
  <2> QED
    BY <1>1, <2>1
<1>5. ASSUME NEW i \in 1..L, D[i].at = "tool"
      PROVE  Busy(D[i])
  <2>1. CASE Gets(slots, waiting, i)
    <3>1. Place(slots, i) \in 1..Len(waiting) /\ D[i].job = waiting[Place(slots, i)]
      BY <1>1, <2>1, DrainedAt
    <3>2. D[i].job \in Jobs
      BY <3>1
    <3> QED
      BY <3>2, NoJobIsNone DEF Busy
  <2>2. CASE ~Gets(slots, waiting, i)
    BY <1>5, <2>2, DrainedAt DEF SlotsGood
  <2> QED
    BY <2>1, <2>2
<1>6. /\ LeftOver(slots, waiting) \in Seq(Jobs)
      /\ Len(LeftOver(slots, waiting)) = Len(waiting) - t
      /\ \A n \in 1..(Len(waiting) - t) : LeftOver(slots, waiting)[n] = waiting[t + n]
  <2> HIDE DEF t
  <2> QED
    BY <1>1, SubSeqProperties DEF LeftOver, t
<1> QED
  BY <1>1, <1>2, <1>4, <1>5, <1>6 DEF SlotsGood

-----------------------------------------------------------------------------
(***************************************************************************)
(* The invariant. The promises say where the calls are: a queued call has  *)
(* one place in the queue, a running one has one worker, and no other call *)
(* has any. Every callback ends with drain, so that it holds of what the   *)
(* callback leaves (slots, waiting, outcome) is what has to be shown.      *)
(***************************************************************************)
Outcomes == {"new", "queued", "running"} \union Settled

Waits(waiting, outcome) ==
  /\ waiting \in Seq(Jobs)
  /\ \A m, n \in DOMAIN waiting : waiting[m] = waiting[n] => m = n
  /\ \A j \in Jobs : outcome[j] = "queued" <=> \E n \in DOMAIN waiting : waiting[n] = j

Works(slots, outcome) ==
  /\ SlotsGood(slots)
  /\ \A i, k \in DOMAIN slots : Busy(slots[i]) /\ slots[i].job = slots[k].job => i = k
  /\ \A j \in Jobs : outcome[j] = "running" <=> \E i \in DOMAIN slots : slots[i].job = j

\* The calls of a batch are made together, and an aborted batch was called.
Together ==
  /\ \A j, k \in Jobs : j[1] = k[1] => (call[j] = "new" <=> call[k] = "new")
  /\ \A j \in Jobs : j[1] \in signal => call[j] # "new"

PoolInv ==
  /\ call \in [Jobs -> Outcomes]
  /\ signal \subseteq Batches
  /\ deaths \in 0..MaxDeaths /\ downs \in 0..MaxDowns
  /\ Waits(queue, call) /\ Works(workers, call)
  /\ WaitsForWorkers /\ Together

LEMMA InitPool == Init => PoolInv
<1> SUFFICES ASSUME Init PROVE PoolInv
  OBVIOUS
<1>1. queue = <<>> /\ workers = <<>> /\ Len(<<>>) = 0 /\ MaxWorkers \in Nat
  BY PoolBounds DEF Init
<1>2. Waits(queue, call)
  BY <1>1 DEF Init, Waits
<1>3. Works(workers, call)
  BY <1>1 DEF Init, Works, SlotsGood
<1>4. WaitsForWorkers
  BY <1>1 DEF WaitsForWorkers
<1> QED
  BY <1>2, <1>3, <1>4, PoolBounds DEF Init, PoolInv, Outcomes, Together

\* What drain does to the promises.
LEMMA FinishKeeps ==
  ASSUME NEW slots, NEW waiting, NEW outcome \in [Jobs -> Outcomes],
         Waits(waiting, outcome), Works(slots, outcome),
         Finish(slots, waiting, outcome)
  PROVE  /\ call' \in [Jobs -> Outcomes]
         /\ Waits(queue', call') /\ Works(workers', call') /\ WaitsForWorkers'
         /\ \A j \in Jobs : call'[j] = outcome[j] \/ (outcome[j] = "queued" /\ call'[j] = "running")
<1> DEFINE D == Drained(slots, waiting)
           t == Taken(slots, waiting)
           P == 1..(Len(slots) + Created(slots, waiting))
           gets(i) == Gets(slots, waiting, i)
           place(i) == Place(slots, i)
           rest == LeftOver(slots, waiting)
<1>1. SlotsGood(slots) /\ waiting \in Seq(Jobs)
  BY DEF Waits, Works
<1>2. /\ workers' = D /\ queue' = rest
      /\ call' = [j \in Jobs |-> IF outcome[j] = "queued" /\ j \in RunningIn(D)
                                 THEN "running" ELSE outcome[j]]
  BY DEF Finish
<1>3. /\ SlotsGood(D) /\ DOMAIN D = P /\ Len(D) = Len(slots) + Created(slots, waiting)
      /\ rest \in Seq(Jobs) /\ Len(rest) = Len(waiting) - t
      /\ \A n \in DOMAIN rest : rest[n] = waiting[t + n]
  BY <1>1, DrainedSeqs
<1>4. /\ t \in 0..Len(waiting) /\ Len(waiting) \in Nat
      /\ DOMAIN waiting = 1..Len(waiting) /\ DOMAIN rest = 1..(Len(waiting) - t)
  BY <1>1, <1>3, DrainNumbers
<1>5. ASSUME NEW i \in P
      PROVE  /\ gets(i) => /\ place(i) \in 1..t /\ D[i].job = waiting[place(i)]
                           /\ i \in DOMAIN slots => ~Busy(slots[i])
             /\ ~gets(i) => i \in DOMAIN slots /\ D[i] = slots[i]
  BY <1>1, DrainedAt, DrainNumbers
<1>6. /\ \A i, k \in P : gets(i) /\ gets(k) /\ place(i) = place(k) => i = k
      /\ \A n \in 1..t : \E i \in P : gets(i) /\ place(i) = n
  BY <1>1, DrainedPlaces
<1>7. \A j \in Jobs : j \in RunningIn(D) <=> \E i \in P : D[i].job = j
  BY <1>3, NoJobIsNone DEF RunningIn
<1>8. /\ \A m, n \in DOMAIN waiting : waiting[m] = waiting[n] => m = n
      /\ \A n \in DOMAIN waiting : waiting[n] \in Jobs /\ outcome[waiting[n]] = "queued"
      /\ \A j \in Jobs : outcome[j] = "queued" => \E n \in DOMAIN waiting : waiting[n] = j
      /\ \A i, k \in DOMAIN slots : Busy(slots[i]) /\ slots[i].job = slots[k].job => i = k
      /\ \A i \in DOMAIN slots : Busy(slots[i]) => slots[i].job \in Jobs /\ outcome[slots[i].job] = "running"
      /\ \A j \in Jobs : outcome[j] = "running" => \E i \in DOMAIN slots : slots[i].job = j
  <2>1. \A i \in DOMAIN slots : Busy(slots[i]) => slots[i].job \in Jobs
    <3>1. \A i \in DOMAIN slots : slots[i] \in Slots
      BY <1>1 DEF SlotsGood
    <3> QED
      BY <3>1 DEF Slots, Busy
  <2>2. \A n \in DOMAIN waiting : waiting[n] \in Jobs
    BY DEF Waits
  <2> QED
    BY <2>1, <2>2 DEF Waits, Works
<1>9. \A i \in P, j \in Jobs : D[i].job = j =>
        \/ gets(i) /\ outcome[j] = "queued" /\ waiting[place(i)] = j /\ place(i) \in 1..t
        \/ ~gets(i) /\ outcome[j] = "running" /\ i \in DOMAIN slots /\ slots[i].job = j
  <2> SUFFICES ASSUME NEW i \in P, NEW j \in Jobs, D[i].job = j
               PROVE \/ gets(i) /\ outcome[j] = "queued" /\ waiting[place(i)] = j /\ place(i) \in 1..t
                     \/ ~gets(i) /\ outcome[j] = "running" /\ i \in DOMAIN slots /\ slots[i].job = j
    OBVIOUS
  <2>1. CASE gets(i)
    <3>1. place(i) \in 1..t /\ waiting[place(i)] = j
      BY <1>5, <2>1
    <3>2. place(i) \in DOMAIN waiting
      BY <1>4, <3>1
    <3> QED
      BY <1>8, <2>1, <3>1, <3>2
  <2>2. CASE ~gets(i)
    <3>1. i \in DOMAIN slots /\ slots[i].job = j
      BY <1>5, <2>2
    <3>2. Busy(slots[i])
      BY <3>1, NoJobIsNone DEF Busy
    <3> QED
      BY <1>8, <2>2, <3>1, <3>2
  <2> QED
    BY <2>1, <2>2
<1> HIDE DEF D, t, P, gets, place, rest
<1>10. \A j \in Jobs : outcome[j] = "running" => \E i \in P : D[i].job = j
  <2> SUFFICES ASSUME NEW j \in Jobs, outcome[j] = "running" PROVE \E i \in P : D[i].job = j
    OBVIOUS
  <2>1. PICK i \in DOMAIN slots : slots[i].job = j
    BY <1>8
  <2>2. Busy(slots[i])
    BY <2>1, NoJobIsNone DEF Busy
  <2>3. i \in P
    <3>1. DOMAIN slots = 1..Len(slots) /\ Len(slots) \in Nat /\ Created(slots, waiting) \in Nat
      BY <1>1, DrainNumbers
    <3> QED
      BY <3>1 DEF P
  <2> QED
    BY <1>5, <2>1, <2>2, <2>3
<1>11. \A j \in Jobs : outcome[j] = "queued" /\ j \in RunningIn(D) <=>
         \E n \in 1..t : waiting[n] = j
  <2> SUFFICES ASSUME NEW j \in Jobs
               PROVE  outcome[j] = "queued" /\ j \in RunningIn(D) <=> \E n \in 1..t : waiting[n] = j
    OBVIOUS
  <2>1. ASSUME outcome[j] = "queued", j \in RunningIn(D)
        PROVE  \E n \in 1..t : waiting[n] = j
    BY <1>7, <1>9, <2>1
  <2>2. ASSUME NEW n \in 1..t, waiting[n] = j
        PROVE  outcome[j] = "queued" /\ j \in RunningIn(D)
    <3>1. n \in DOMAIN waiting
      BY <1>4
    <3>2. PICK i \in P : gets(i) /\ place(i) = n
      BY <1>6
    <3> QED
      BY <1>5, <1>7, <1>8, <2>2, <3>1, <3>2
  <2> QED
    BY <2>1, <2>2
<1>12. \A j \in Jobs : call'[j] = IF \E n \in 1..t : waiting[n] = j THEN "running" ELSE outcome[j]
  BY <1>2, <1>11
<1>13. call' \in [Jobs -> Outcomes]
  BY <1>2 DEF Outcomes
<1>14. Waits(queue', call')
  <2>1. \A m, n \in DOMAIN rest : rest[m] = rest[n] => m = n
    <3> SUFFICES ASSUME NEW m \in DOMAIN rest, NEW n \in DOMAIN rest, rest[m] = rest[n]
                 PROVE  m = n
      OBVIOUS
    <3>1. /\ t + m \in DOMAIN waiting /\ t + n \in DOMAIN waiting
          /\ waiting[t + m] = waiting[t + n]
      BY <1>3, <1>4
    <3>2. t + m = t + n
      BY <1>8, <3>1
    <3> QED
      BY <1>4, <3>2
  <2>2. ASSUME NEW j \in Jobs, call'[j] = "queued"
        PROVE  \E n \in DOMAIN rest : rest[n] = j
    <3>1. PICK m \in DOMAIN waiting : waiting[m] = j
      BY <1>8, <1>12, <2>2
    <3>2. m \notin 1..t
      BY <1>12, <2>2, <3>1
    <3>3. m - t \in DOMAIN rest /\ t + (m - t) = m
      BY <1>4, <3>1, <3>2
    <3> QED
      BY <1>3, <3>1, <3>3
  <2>3. ASSUME NEW j \in Jobs, NEW n \in DOMAIN rest, rest[n] = j
        PROVE  call'[j] = "queued"
    <3>1. t + n \in DOMAIN waiting /\ waiting[t + n] = j /\ t + n \notin 1..t
      BY <1>3, <1>4, <2>3
    <3>2. \A m \in 1..t : m \in DOMAIN waiting
      BY <1>4
    <3> QED
      BY <1>8, <1>12, <3>1, <3>2
  <2> QED
    BY <1>2, <1>3, <2>1, <2>2, <2>3 DEF Waits
<1>15. Works(workers', call')
  <2>1. ASSUME NEW i \in P, NEW k \in P, Busy(D[i]), D[i].job = D[k].job
        PROVE  i = k
    <3>1. D[i].job \in Jobs
      <4>1. D[i] \in Slots
        BY <1>3 DEF SlotsGood
      <4> QED
        BY <2>1, <4>1 DEF Slots, Busy
    <3>2. CASE gets(i) /\ gets(k)
      <4>1. /\ waiting[place(i)] = waiting[place(k)]
            /\ place(i) \in DOMAIN waiting /\ place(k) \in DOMAIN waiting
        BY <1>4, <1>5, <2>1, <3>2
      <4> QED
        BY <1>6, <1>8, <3>2, <4>1
    <3>3. CASE ~gets(i) /\ ~gets(k)
      BY <1>5, <1>8, <2>1, <3>3
    <3> QED
      BY <1>9, <2>1, <3>1, <3>2, <3>3
  <2>2. \A j \in Jobs : call'[j] = "running" <=> \E i \in P : D[i].job = j
    BY <1>7, <1>9, <1>10, <1>11, <1>12
  <2> QED
    BY <1>2, <1>3, <2>1, <2>2 DEF Works
<1>16. WaitsForWorkers'
  <2> SUFFICES ASSUME rest # <<>>
               PROVE  Len(D) = MaxWorkers /\ \A i \in P : Busy(D[i])
    BY <1>2, <1>3 DEF WaitsForWorkers
  <2>1. t < Len(waiting)
    BY <1>3, <1>4
  <2>2. /\ Cardinality(IdleIn(slots)) \in Nat /\ Len(slots) \in Nat /\ MaxWorkers \in Nat
        /\ Len(slots) <= MaxWorkers
        /\ t = Cardinality(IdleIn(slots)) + MaxWorkers - Len(slots)
        /\ Created(slots, waiting) = IF t > Cardinality(IdleIn(slots))
                                     THEN t - Cardinality(IdleIn(slots)) ELSE 0
        /\ IdleIn(slots) \in SUBSET (1..Len(slots))
    BY <1>1, <2>1, DrainNumbers DEF t, SlotsGood
  <2>3. Len(D) = MaxWorkers
    BY <1>3, <2>2
  <2>4. ASSUME NEW i \in P
        PROVE  Busy(D[i])
    <3>1. CASE gets(i)
      <4>1. D[i].job = waiting[place(i)] /\ place(i) \in DOMAIN waiting
        BY <1>4, <1>5, <3>1
      <4> QED
        BY <1>8, <4>1, NoJobIsNone DEF Busy
    <3>2. CASE ~gets(i)
      <4>1. i \in DOMAIN slots /\ D[i] = slots[i]
        BY <1>5, <3>2
      <4>2. i \notin IdleIn(slots)
        <5>1. \A k \in IdleIn(slots) : Rank(IdleIn(slots), k) \in 1..Cardinality(IdleIn(slots))
          BY <2>2, Ranks
        <5> QED
          BY <2>2, <3>2, <5>1 DEF gets, Gets, t
      <4> QED
        BY <4>1, <4>2 DEF IdleIn
    <3> QED
      BY <3>1, <3>2
  <2> QED
    BY <2>3, <2>4
<1>17. \A j \in Jobs : call'[j] = outcome[j] \/ (outcome[j] = "queued" /\ call'[j] = "running")
  BY <1>2
<1> QED
  BY <1>13, <1>14, <1>15, <1>16, <1>17

-----------------------------------------------------------------------------
(* What a callback leaves to drain.                                          *)

\* Calls leave the queue.
LEMMA WaitsKeep ==
  ASSUME NEW waiting, NEW outcome, Waits(waiting, outcome),
         NEW T \in SUBSET DOMAIN waiting, NEW after,
         \A j \in Jobs : after[j] = "queued" <=>
                           outcome[j] = "queued" /\ \E n \in T : waiting[n] = j
  PROVE  Waits(Keep(waiting, T), after)
<1> DEFINE K == Keep(waiting, T)
<1>1. /\ K \in Seq(Jobs)
      /\ \A n \in DOMAIN K : \E i \in T : K[n] = waiting[i] /\ Rank(T, i) = n
      /\ \A i \in T : \E n \in DOMAIN K : K[n] = waiting[i]
  BY Kept DEF Waits
<1> HIDE DEF K
<1>2. \A m, n \in DOMAIN K : K[m] = K[n] => m = n
  BY <1>1 DEF Waits
<1>3. \A j \in Jobs : (\E n \in DOMAIN K : K[n] = j) <=> \E i \in T : waiting[i] = j
  BY <1>1
<1>4. \A j \in Jobs : (\E i \in T : waiting[i] = j) => outcome[j] = "queued"
  BY DEF Waits
<1> QED
  BY <1>1, <1>2, <1>3, <1>4 DEF Waits, K

\* Workers leave the pool.
LEMMA WorksKeep ==
  ASSUME NEW slots, NEW outcome, Works(slots, outcome),
         NEW T \in SUBSET DOMAIN slots, NEW after,
         \A j \in Jobs : after[j] = "running" <=> \E i \in T : slots[i].job = j
  PROVE  Works(Keep(slots, T), after)
<1> DEFINE K == Keep(slots, T)
<1>1. slots \in Seq(Slots) /\ Len(slots) <= MaxWorkers /\ Len(slots) \in Nat
  BY DEF Works, SlotsGood
<1>2. /\ K \in Seq(Slots) /\ Len(K) <= Len(slots)
      /\ \A n \in DOMAIN K : \E i \in T : K[n] = slots[i] /\ Rank(T, i) = n
      /\ \A i \in T : \E n \in DOMAIN K : K[n] = slots[i]
  BY <1>1, Kept
<1> HIDE DEF K
<1>3. \A i, k \in DOMAIN K : Busy(K[i]) /\ K[i].job = K[k].job => i = k
  BY <1>2 DEF Works
<1>4. \A j \in Jobs : (\E n \in DOMAIN K : K[n].job = j) <=> \E i \in T : slots[i].job = j
  BY <1>2
<1>5. \A n \in DOMAIN K : K[n].at = "tool" => Busy(K[n])
  BY <1>2 DEF Works, SlotsGood
<1>6. Len(K) <= MaxWorkers
  BY <1>1, <1>2, PoolBounds
<1> QED
  BY <1>2, <1>3, <1>4, <1>5, <1>6 DEF Works, SlotsGood, K

\* A worker ends its job and stays or goes.
LEMMA EndsGood ==
  ASSUME PoolInv, NEW i \in DOMAIN workers, Busy(workers[i]), NEW how \in Settled
  PROVE  /\ workers[i].job \in Jobs /\ call[workers[i].job] = "running"
         /\ Ends(i, how) \in [Jobs -> Outcomes]
         /\ Ends(i, how)[workers[i].job] = how
         /\ \A j \in Jobs : j # workers[i].job => Ends(i, how)[j] = call[j]
         /\ Waits(queue, Ends(i, how))
         /\ Works(Discarded(workers, i), Ends(i, how))
         /\ Works(Freed(workers, i), Ends(i, how))
<1> DEFINE a == workers[i].job
           E == Ends(i, how)
<1>1. Works(workers, call) /\ Waits(queue, call) /\ call \in [Jobs -> Outcomes]
  BY DEF PoolInv
<1>2. workers \in Seq(Slots) /\ workers[i] \in Slots
  BY <1>1 DEF Works, SlotsGood
<1>3. a \in Jobs /\ call[a] = "running"
  BY <1>1, <1>2 DEF Works, Slots, Busy
<1>4. /\ E \in [Jobs -> Outcomes] /\ E[a] = how
      /\ \A j \in Jobs : j # a => E[j] = call[j]
  BY <1>1, <1>3 DEF Ends, Outcomes
<1>5. how # "queued" /\ how # "running"
  BY DEF Settled
<1> HIDE DEF E
<1>6. Waits(queue, E)
  BY <1>1, <1>3, <1>4, <1>5 DEF Waits
<1>7. \A k \in DOMAIN workers : k # i => workers[k].job # a
  BY <1>1 DEF Works
<1>8. \A j \in Jobs : E[j] = "running" <=> \E k \in DOMAIN workers \ {i} : workers[k].job = j
  BY <1>1, <1>3, <1>4, <1>5, <1>7 DEF Works
<1>9. Works(Discarded(workers, i), E)
  BY <1>1, <1>8, WorksKeep DEF Discarded
<1>10. Works(Freed(workers, i), E)
  <2> DEFINE F == Freed(workers, i)
  <2>1. IdleSlot \in Slots /\ ~Busy(IdleSlot) /\ IdleSlot.at = "idle"
    BY DEF IdleSlot, Slots, Busy
  <2>2. /\ F \in Seq(Slots) /\ Len(F) = Len(workers) /\ DOMAIN F = DOMAIN workers
        /\ \A k \in DOMAIN workers : F[k] = IF k = i THEN IdleSlot ELSE workers[k]
    BY <1>2, <2>1 DEF Freed
  <2> HIDE DEF F
  <2>3. SlotsGood(F)
    BY <1>1, <2>1, <2>2 DEF SlotsGood, Works
  <2>4. \A k, l \in DOMAIN F : Busy(F[k]) /\ F[k].job = F[l].job => k = l
    BY <1>1, <2>1, <2>2 DEF Works, Busy
  <2>5. \A j \in Jobs : (\E k \in DOMAIN F : F[k].job = j) <=>
                          \E k \in DOMAIN workers \ {i} : workers[k].job = j
    BY <2>1, <2>2, NoJobIsNone DEF Busy
  <2> QED
    BY <1>8, <2>3, <2>4, <2>5 DEF Works, F
<1> QED
  BY <1>3, <1>4, <1>6, <1>9, <1>10 DEF E

\* Promises that settle, or that pass from the queue to a worker, stay made.
LEMMA TogetherKept ==
  ASSUME PoolInv, UNCHANGED signal, \A j \in Jobs : call'[j] = "new" <=> call[j] = "new"
  PROVE  Together'
  BY DEF PoolInv, Together

LEMMA AnswerStep ==
  ASSUME PoolInv, NEW i \in DOMAIN workers, Answers(i) \/ Fails(i) \/ TimesOut(i)
  PROVE  /\ PoolInv'
         /\ \A j \in Jobs : call'[j] = "aborted" => call[j] = "aborted"
<1>1. Busy(workers[i])
  BY DEF Answers, Fails, TimesOut, Timed, PoolInv, Works, SlotsGood
<1>2. PICK how \in Settled \ {"aborted"}, slots \in {Discarded(workers, i), Freed(workers, i)} :
        Finish(slots, queue, Ends(i, how))
  BY DEF Answers, Fails, TimesOut, Settled
<1>3. /\ Ends(i, how) \in [Jobs -> Outcomes] /\ Waits(queue, Ends(i, how))
      /\ Works(slots, Ends(i, how))
  BY <1>1, EndsGood
<1>4. /\ call' \in [Jobs -> Outcomes] /\ Waits(queue', call') /\ Works(workers', call')
      /\ WaitsForWorkers'
      /\ \A j \in Jobs : \/ call'[j] = Ends(i, how)[j]
                         \/ Ends(i, how)[j] = "queued" /\ call'[j] = "running"
  BY <1>2, <1>3, FinishKeeps
<1>5. \A j \in Jobs : call'[j] = "new" <=> call[j] = "new"
  BY <1>1, <1>4, EndsGood DEF Settled
<1>6. UNCHANGED <<signal, downs>> /\ deaths' \in 0..MaxDeaths
  BY PoolBounds DEF Answers, Fails, TimesOut, PoolInv
<1>7. \A j \in Jobs : call'[j] = "aborted" => call[j] = "aborted"
  BY <1>1, <1>2, <1>4, EndsGood
<1> QED
  BY <1>4, <1>5, <1>6, <1>7, TogetherKept DEF PoolInv

LEMMA DieStep ==
  ASSUME PoolInv, NEW i \in DOMAIN workers, Dies(i)
  PROVE  PoolInv'
<1>1. workers \in Seq(Slots) /\ Works(workers, call)
  BY DEF PoolInv, Works, SlotsGood
<1>2. /\ workers' \in Seq(Slots) /\ Len(workers') = Len(workers)
      /\ DOMAIN workers' = DOMAIN workers
      /\ \A k \in DOMAIN workers : /\ workers'[k].job = workers[k].job
                                   /\ workers'[k].at \in {workers[k].at, "dead"}
  <2> DEFINE w == [workers[i] EXCEPT !.at = "dead"]
  <2>1. w \in Slots /\ w.job = workers[i].job /\ w.at = "dead"
    <3>1. workers[i] \in Slots
      BY <1>1
    <3> QED
      BY <3>1 DEF Slots
  <2>2. workers' = [workers EXCEPT ![i] = w]
    BY DEF Dies
  <2> HIDE DEF w
  <2> QED
    BY <1>1, <2>1, <2>2
<1>3. Works(workers', call')
  BY <1>1, <1>2 DEF Dies, Works, SlotsGood, Busy
<1>4. WaitsForWorkers'
  BY <1>2 DEF Dies, WaitsForWorkers, Busy, PoolInv
<1>5. deaths' \in 0..MaxDeaths
  BY PoolBounds DEF Dies, PoolInv
<1> QED
  BY <1>3, <1>4, <1>5, TogetherKept DEF Dies, PoolInv

LEMMA ShutdownStep ==
  ASSUME PoolInv, Shutdown
  PROVE  PoolInv'
<1>1. call \in [Jobs -> Outcomes] /\ workers' = <<>> /\ queue' = <<>> /\ MaxWorkers \in Nat
  BY PoolBounds DEF PoolInv, Shutdown
<1>2. /\ call' \in [Jobs -> Outcomes]
      /\ \A j \in Jobs : /\ call'[j] \notin {"queued", "running"}
                         /\ call'[j] = "new" <=> call[j] = "new"
  BY <1>1 DEF Shutdown, Outcomes, Settled
<1>3. Waits(queue', call') /\ Works(workers', call')
  BY <1>1, <1>2 DEF Waits, Works, SlotsGood
<1>4. WaitsForWorkers'
  BY <1>1 DEF WaitsForWorkers
<1>5. downs' \in 0..MaxDowns
  BY PoolBounds DEF Shutdown, PoolInv
<1> QED
  BY <1>2, <1>3, <1>4, <1>5, TogetherKept DEF Shutdown, PoolInv

-----------------------------------------------------------------------------
(* Batches.                                                                  *)

\* The calls of a batch, and what calling it makes of the promises.
LEMMA BatchCalls ==
  ASSUME NEW b \in Batches
  PROVE  /\ \A n \in 1..Size : <<b, n>> \in Jobs
         /\ \A j \in Jobs : j[1] = b => \E n \in 1..Size : j = <<b, n>>
         /\ \E j \in Jobs : j[1] = b
<1>1. 1 \in 1..Size
  BY PoolBounds
<1>2. <<b, 1>> \in Jobs /\ <<b, 1>>[1] = b
  BY <1>1 DEF Jobs
<1> QED
  BY <1>2 DEF Jobs

LEMMA ExecuteStep ==
  ASSUME PoolInv, NEW b \in Batches, ExecuteBatch(b)
  PROVE  PoolInv'
<1> DEFINE new == [n \in 1..Size |-> <<b, n>>]
           W == queue \o new
           out == [j \in Jobs |-> IF j[1] = b THEN "queued" ELSE call[j]]
<1>1. /\ call \in [Jobs -> Outcomes] /\ Waits(queue, call) /\ Works(workers, call)
      /\ queue \in Seq(Jobs)
  BY DEF PoolInv, Waits
<1>2. \A j \in Jobs : j[1] = b => call[j] = "new"
  BY DEF ExecuteBatch, IsNextBatch, Batches
<1>3. /\ new \in Seq(Jobs) /\ Len(new) = Size /\ Size \in Nat
      /\ \A n \in 1..Size : new[n] = <<b, n>>
  BY BatchCalls, PoolBounds
<1> HIDE DEF new
<1>4. /\ W \in Seq(Jobs) /\ Len(W) = Len(queue) + Size
      /\ \A n \in 1..(Len(queue) + Size) :
           W[n] = IF n <= Len(queue) THEN queue[n] ELSE <<b, n - Len(queue)>>
  <2>1. /\ W \in Seq(Jobs) /\ Len(W) = Len(queue) + Size
        /\ \A n \in 1..(Len(queue) + Size) :
             W[n] = IF n <= Len(queue) THEN queue[n] ELSE new[n - Len(queue)]
    BY <1>1, <1>3, ConcatProperties
  <2>2. \A n \in 1..(Len(queue) + Size) : ~(n <= Len(queue)) => n - Len(queue) \in 1..Size
    BY <1>1, <1>3
  <2> HIDE DEF W
  <2> QED
    BY <1>3, <2>1, <2>2
<1> HIDE DEF W
<1>5. \A n \in DOMAIN queue : queue[n] \in Jobs /\ queue[n][1] # b
  <2>1. \A n \in DOMAIN queue : queue[n] \in Jobs /\ call[queue[n]] = "queued"
    BY <1>1 DEF Waits
  <2> QED
    BY <1>2, <2>1
<1>6. out \in [Jobs -> Outcomes] /\ \A j \in Jobs : out[j] = IF j[1] = b THEN "queued" ELSE call[j]
  BY <1>1 DEF Outcomes
<1> HIDE DEF out
<1>7. Waits(W, out)
  <2>1. ASSUME NEW m \in DOMAIN W, NEW n \in DOMAIN W, W[m] = W[n]
        PROVE  m = n
    <3>1. m \in 1..(Len(queue) + Size) /\ n \in 1..(Len(queue) + Size) /\ Len(queue) \in Nat
      BY <1>1, <1>4
    <3>2. CASE m <= Len(queue) /\ n <= Len(queue)
      <4>1. m \in DOMAIN queue /\ n \in DOMAIN queue /\ queue[m] = queue[n]
        BY <1>1, <1>4, <2>1, <3>1, <3>2
      <4> QED
        BY <1>1, <4>1 DEF Waits
    <3>3. CASE ~(m <= Len(queue)) /\ ~(n <= Len(queue))
      <4>1. <<b, m - Len(queue)>> = <<b, n - Len(queue)>>
        BY <1>4, <2>1, <3>1, <3>3
      <4>2. m - Len(queue) = n - Len(queue)
        BY <4>1
      <4> QED
        BY <3>1, <4>2
    <3>4. ASSUME NEW x \in 1..(Len(queue) + Size), NEW y \in 1..(Len(queue) + Size),
                 x <= Len(queue), ~(y <= Len(queue))
          PROVE  W[x] # W[y]
      <4>1. x \in DOMAIN queue
        BY <1>1, <3>4
      <4>2. W[x][1] # b
        BY <1>4, <1>5, <3>4, <4>1
      <4>3. W[y] = <<b, y - Len(queue)>>
        BY <1>4, <3>4
      <4>4. W[y][1] = b
        BY <4>3
      <4> QED
        BY <4>2, <4>4
    <3> QED
      BY <2>1, <3>1, <3>2, <3>3, <3>4
  <2>2. ASSUME NEW j \in Jobs, out[j] = "queued"
        PROVE  \E n \in DOMAIN W : W[n] = j
    <3>1. CASE j[1] = b
      <4>1. PICK n \in 1..Size : j = <<b, n>>
        BY <3>1, BatchCalls
      <4>2. /\ Len(queue) + n \in 1..(Len(queue) + Size) /\ ~(Len(queue) + n <= Len(queue))
            /\ (Len(queue) + n) - Len(queue) = n
        BY <1>1, <1>3
      <4>3. Len(queue) + n \in DOMAIN W /\ W[Len(queue) + n] = j
        BY <1>4, <4>1, <4>2
      <4> QED
        BY <4>3
    <3>2. CASE j[1] # b
      <4>1. PICK n \in DOMAIN queue : queue[n] = j
        BY <1>1, <1>6, <2>2, <3>2 DEF Waits
      <4>2. n \in 1..(Len(queue) + Size) /\ n <= Len(queue)
        BY <1>1, <1>3
      <4>3. n \in DOMAIN W /\ W[n] = j
        BY <1>4, <4>1, <4>2
      <4> QED
        BY <4>3
    <3> QED
      BY <3>1, <3>2
  <2>3. ASSUME NEW j \in Jobs, NEW n \in DOMAIN W, W[n] = j
        PROVE  out[j] = "queued"
    <3>1. n \in 1..(Len(queue) + Size)
      BY <1>4
    <3>2. CASE n <= Len(queue)
      <4>1. n \in DOMAIN queue /\ queue[n] = j
        BY <1>1, <1>4, <2>3, <3>1, <3>2
      <4>2. call[j] = "queued"
        BY <1>1, <4>1 DEF Waits
      <4> QED
        BY <1>6, <4>2
    <3>3. CASE ~(n <= Len(queue))
      <4>1. j = <<b, n - Len(queue)>>
        BY <1>4, <2>3, <3>1, <3>3
      <4>2. j[1] = b
        BY <4>1
      <4> QED
        BY <1>6, <4>2
    <3> QED
      BY <3>2, <3>3
  <2> QED
    BY <1>4, <2>1, <2>2, <2>3 DEF Waits
<1>8. Works(workers, out)
  <2>1. \A j \in Jobs : out[j] = "running" <=> call[j] = "running"
    BY <1>2, <1>6
  <2> QED
    BY <1>1, <2>1 DEF Works
<1>9. Finish(workers, W, out)
  BY DEF ExecuteBatch, W, new, out
<1>10. /\ call' \in [Jobs -> Outcomes] /\ Waits(queue', call') /\ Works(workers', call')
       /\ WaitsForWorkers'
       /\ \A j \in Jobs : call'[j] = out[j] \/ (out[j] = "queued" /\ call'[j] = "running")
  BY <1>6, <1>7, <1>8, <1>9, FinishKeeps
<1>11. \A j \in Jobs : call'[j] = "new" <=> call[j] = "new" /\ j[1] # b
  BY <1>6, <1>10
<1>12. UNCHANGED <<signal, deaths, downs>>
  BY DEF ExecuteBatch
<1>13. Together'
  BY <1>11, <1>12 DEF PoolInv, Together
<1> QED
  BY <1>10, <1>12, <1>13 DEF PoolInv

LEMMA RefuseStep ==
  ASSUME PoolInv, NEW b \in Batches, RefuseBatch(b)
  PROVE  PoolInv'
<1>1. /\ call \in [Jobs -> Outcomes] /\ UNCHANGED <<queue, workers, deaths, downs>>
      /\ signal' = signal \union {b}
  BY DEF PoolInv, RefuseBatch
<1>2. \A j \in Jobs : j[1] = b => call[j] = "new"
  BY DEF RefuseBatch, IsNextBatch, Batches
<1>3. /\ call' \in [Jobs -> Outcomes]
      /\ \A j \in Jobs : call'[j] = IF j[1] = b THEN "aborted" ELSE call[j]
  BY <1>1 DEF RefuseBatch, Outcomes, Settled
<1>4. \A j \in Jobs : /\ call'[j] = "queued" <=> call[j] = "queued"
                      /\ call'[j] = "running" <=> call[j] = "running"
                      /\ call'[j] = "new" <=> call[j] = "new" /\ j[1] # b
  BY <1>2, <1>3
<1>5. Waits(queue', call') /\ Works(workers', call')
  BY <1>1, <1>4 DEF PoolInv, Waits, Works
<1>6. WaitsForWorkers'
  BY <1>1 DEF PoolInv, WaitsForWorkers
<1>7. Together'
  BY <1>1, <1>4 DEF PoolInv, Together
<1> QED
  BY <1>1, <1>3, <1>5, <1>6, <1>7 DEF PoolInv

\* The calls an abort ends: those of its batch that wait, and those of the workers
\* the walk reaches.
Reaches(b) == Reached(b, workers)
Ended(b) ==
  {j \in JobsOf(b) : call[j] = "queued"} \union {workers[i].job : i \in Reaches(b)}

LEMMA EndedIsOwn ==
  ASSUME PoolInv, NEW b \in Batches
  PROVE  /\ Reaches(b) \in SUBSET DOMAIN workers
         /\ \A j \in Ended(b) : j \in Jobs /\ j[1] = b /\ call[j] \in {"queued", "running"}
         /\ \A j \in Jobs : call[j] = "queued" /\ j[1] = b => j \in Ended(b)
         /\ \A j \in Jobs : call[j] = "running" =>
              (j \in Ended(b) <=> \E i \in Reaches(b) : workers[i].job = j)
<1>1. ASSUME NEW i \in Reaches(b)
      PROVE  i \in DOMAIN workers /\ Busy(workers[i]) /\ workers[i].job[1] = b
  <2>1. PICK f \in 1..i : \A k \in f..i : Busy(workers[k]) /\ workers[k].job[1] = b
    BY <1>1 DEF Reaches, Reached
  <2>2. i \in DOMAIN workers
    BY <1>1 DEF Reaches, Reached
  <2>3. i \in Nat
    BY <2>2 DEF PoolInv, Works, SlotsGood
  <2>4. i \in f..i
    BY <2>3
  <2> QED
    BY <2>1, <2>2, <2>4
<1>2. \A i \in DOMAIN workers : Busy(workers[i]) =>
        workers[i].job \in Jobs /\ call[workers[i].job] = "running"
  <2>1. \A i \in DOMAIN workers : workers[i] \in Slots
    BY DEF PoolInv, Works, SlotsGood
  <2>2. \A i \in DOMAIN workers : Busy(workers[i]) => workers[i].job \in Jobs
    BY <2>1 DEF Slots, Busy
  <2> QED
    BY <2>2 DEF PoolInv, Works
<1> QED
  BY <1>1, <1>2 DEF Ended, JobsOf

LEMMA AbortStep ==
  ASSUME PoolInv, NEW b \in Batches, AbortBatch(b)
  PROVE  /\ PoolInv'
         /\ \A j \in Jobs : call[j] # "aborted" /\ call'[j] = "aborted" =>
              j[1] \in signal' \ signal
<1> DEFINE T == DOMAIN workers \ Reaches(b)
           Q == {i \in DOMAIN queue : queue[i][1] # b}
           out == [j \in Jobs |-> IF j \in Ended(b) THEN "aborted" ELSE call[j]]
<1>1. /\ call \in [Jobs -> Outcomes] /\ Waits(queue, call) /\ Works(workers, call)
  BY DEF PoolInv
<1>2. /\ Reaches(b) \in SUBSET DOMAIN workers
      /\ \A j \in Ended(b) : j \in Jobs /\ j[1] = b /\ call[j] \in {"queued", "running"}
      /\ \A j \in Jobs : call[j] = "queued" /\ j[1] = b => j \in Ended(b)
      /\ \A j \in Jobs : call[j] = "running" =>
           (j \in Ended(b) <=> \E i \in Reaches(b) : workers[i].job = j)
  BY EndedIsOwn
<1>3. /\ Finish(Keep(workers, T), Keep(queue, Q), out)
      /\ b \notin signal /\ signal' = signal \union {b} /\ UNCHANGED <<deaths, downs>>
  BY DEF AbortBatch, NotOf, Ended, Reaches
<1>4. /\ out \in [Jobs -> Outcomes]
      /\ \A j \in Jobs : out[j] = IF j \in Ended(b) THEN "aborted" ELSE call[j]
  BY <1>1 DEF Outcomes, Settled
<1> HIDE DEF T, Q, out
<1>5. Waits(Keep(queue, Q), out)
  <2>1. \A j \in Jobs : out[j] = "queued" <=> call[j] = "queued" /\ j[1] # b
    BY <1>2, <1>4
  <2>2. \A j \in Jobs : (call[j] = "queued" /\ j[1] # b) <=>
                          (call[j] = "queued" /\ \E n \in Q : queue[n] = j)
    BY <1>1 DEF Waits, Q
  <2>3. Q \in SUBSET DOMAIN queue
    BY DEF Q
  <2> QED
    BY <1>1, <2>1, <2>2, <2>3, WaitsKeep
<1>6. Works(Keep(workers, T), out)
  <2>1. ASSUME NEW j \in Jobs
        PROVE  out[j] = "running" <=> \E i \in T : workers[i].job = j
    <3>1. ASSUME out[j] = "running"
          PROVE  \E i \in T : workers[i].job = j
      <4>1. call[j] = "running" /\ j \notin Ended(b)
        BY <1>4, <3>1
      <4>2. PICK i \in DOMAIN workers : workers[i].job = j
        BY <1>1, <4>1 DEF Works
      <4> QED
        BY <1>2, <4>1, <4>2 DEF T
    <3>2. ASSUME NEW i \in T, workers[i].job = j
          PROVE  out[j] = "running"
      <4>1. i \in DOMAIN workers /\ i \notin Reaches(b) /\ Busy(workers[i])
        BY <3>2, NoJobIsNone DEF T, Busy
      <4>2. call[j] = "running"
        BY <1>1, <3>2, <4>1 DEF Works
      <4>3. \A k \in Reaches(b) : workers[k].job # j
        BY <1>1, <1>2, <3>2, <4>1 DEF Works
      <4> QED
        BY <1>2, <1>4, <4>2, <4>3
    <3> QED
      BY <3>1, <3>2
  <2>2. T \in SUBSET DOMAIN workers
    BY DEF T
  <2> QED
    BY <1>1, <2>1, <2>2, WorksKeep
<1>7. /\ call' \in [Jobs -> Outcomes] /\ Waits(queue', call') /\ Works(workers', call')
      /\ WaitsForWorkers'
      /\ \A j \in Jobs : call'[j] = out[j] \/ (out[j] = "queued" /\ call'[j] = "running")
  BY <1>3, <1>4, <1>5, <1>6, FinishKeeps
<1>8. \A j \in Jobs : call'[j] = "new" <=> call[j] = "new"
  BY <1>2, <1>4, <1>7
<1>9. Together'
  <2>1. PICK k \in Jobs : k[1] = b /\ call[k] # "new"
    BY DEF AbortBatch, JobsOf
  <2> QED
    BY <1>3, <1>8, <2>1 DEF PoolInv, Together
<1>10. \A j \in Jobs : call[j] # "aborted" /\ call'[j] = "aborted" => j[1] \in signal' \ signal
  BY <1>2, <1>3, <1>4, <1>7
<1> QED
  BY <1>3, <1>7, <1>9, <1>10 DEF PoolInv

-----------------------------------------------------------------------------
(* Theorems.                                                                *)

\* Every step keeps the invariant and, unless it is the shutdown, ends by an abort
\* only calls of the batch whose signal it fires.
LEMMA NextPool ==
  ASSUME PoolInv, [Next]_vars
  PROVE  /\ PoolInv'
         /\ downs' = downs =>
              \A j \in Jobs : call[j] # "aborted" /\ call'[j] = "aborted" =>
                j[1] \in signal' \ signal
<1>1. ASSUME NEW b \in Batches, ExecuteBatch(b)
      PROVE  /\ PoolInv'
             /\ \A j \in Jobs : call'[j] = "aborted" => call[j] = "aborted"
  <2> DEFINE out == [j \in Jobs |-> IF j[1] = b THEN "queued" ELSE call[j]]
  <2>1. \E waiting : Finish(workers, waiting, out)
    BY <1>1 DEF ExecuteBatch
  <2>2. \A j \in Jobs : call'[j] \in {out[j], "running"}
    BY <2>1 DEF Finish
  <2> QED
    BY <1>1, <2>2, ExecuteStep
<1>2. ASSUME NEW b \in Batches, RefuseBatch(b)
      PROVE  /\ PoolInv'
             /\ \A j \in Jobs : call[j] # "aborted" /\ call'[j] = "aborted" =>
                  j[1] \in signal' \ signal
  <2>1. PICK k \in Jobs : k[1] = b
    BY BatchCalls
  <2>2. call[k] = "new"
    BY <1>2, <2>1 DEF RefuseBatch, IsNextBatch, Batches
  <2>3. b \notin signal
    BY <2>1, <2>2 DEF PoolInv, Together
  <2>4. \A j \in Jobs : call'[j] = IF j[1] = b THEN "aborted" ELSE call[j]
    BY <1>2 DEF RefuseBatch
  <2> QED
    BY <1>2, <2>3, <2>4, RefuseStep DEF RefuseBatch
<1>3. ASSUME NEW i \in DOMAIN workers, Dies(i)
      PROVE  PoolInv' /\ UNCHANGED call
  BY <1>3, DieStep DEF Dies
<1>4. ASSUME Shutdown
      PROVE  PoolInv' /\ downs' # downs
  BY <1>4, ShutdownStep DEF Shutdown, PoolInv
<1>5. ASSUME UNCHANGED vars
      PROVE  PoolInv' /\ UNCHANGED call
  BY <1>5 DEF vars, PoolInv, Waits, Works, SlotsGood, WaitsForWorkers, Together
<1> QED
  BY <1>1, <1>2, <1>3, <1>4, <1>5, AbortStep, AnswerStep DEF Next

\* The promises, the queue and the array of workers agree after every callback.
THEOREM PoolInvariant == Spec => []PoolInv
<1>1. PoolInv /\ [Next]_vars => PoolInv'
  BY NextPool
<1> QED
  BY InitPool, <1>1, PTL DEF Spec

\* Every variable stays in its type; the array never holds more than maxWorkers.
THEOREM PoolTypes == Spec => []TypeOK
<1>1. PoolInv => TypeOK
  BY DEF PoolInv, Waits, Works, SlotsGood, Outcomes, TypeOK
<1> QED
  BY <1>1, PoolInvariant, PTL

\* A promise that is not settled has its call once in the queue or once in a worker;
\* a settled one has left both, whatever answers, aborts, deaths and timers do.
THEOREM NoCallIsLost == Spec => []NoCallLost
<1>1. ASSUME NEW A, \A m, n \in A : m = n
      PROVE  Cardinality(A) = IF A # {} THEN 1 ELSE 0
  <2>1. CASE A # {}
    <3>1. PICK n \in A : A = {n}
      BY <1>1, <2>1
    <3> QED
      BY <2>1, <3>1, FS_Singleton
  <2>2. CASE A = {}
    BY <2>2, FS_EmptySet
  <2> QED
    BY <2>1, <2>2
<1>2. ASSUME PoolInv, NEW j \in Jobs
      PROVE  /\ Cardinality({n \in DOMAIN queue : queue[n] = j}) =
                  IF call[j] = "queued" THEN 1 ELSE 0
             /\ Cardinality({i \in DOMAIN workers : workers[i].job = j}) =
                  IF call[j] = "running" THEN 1 ELSE 0
  <2>1. /\ \A m, n \in DOMAIN queue : queue[m] = j /\ queue[n] = j => m = n
        /\ call[j] = "queued" <=> \E n \in DOMAIN queue : queue[n] = j
    BY <1>2 DEF PoolInv, Waits
  <2>2. /\ \A i, k \in DOMAIN workers : workers[i].job = j /\ workers[k].job = j => i = k
        /\ call[j] = "running" <=> \E i \in DOMAIN workers : workers[i].job = j
    BY <1>2, NoJobIsNone DEF PoolInv, Works, Busy
  <2> DEFINE A == {n \in DOMAIN queue : queue[n] = j}
             B == {i \in DOMAIN workers : workers[i].job = j}
  <2>3. /\ \A m, n \in A : m = n
        /\ \A i, k \in B : i = k
        /\ call[j] = "queued" <=> A # {}
        /\ call[j] = "running" <=> B # {}
    BY <2>1, <2>2
  <2> HIDE DEF A, B
  <2>4. /\ Cardinality(A) = IF A # {} THEN 1 ELSE 0
        /\ Cardinality(B) = IF B # {} THEN 1 ELSE 0
    BY <1>1, <2>3
  <2> QED
    BY <2>3, <2>4 DEF A, B
<1>3. PoolInv => NoCallLost
  BY <1>2 DEF NoCallLost
<1> QED
  BY <1>3, PoolInvariant, PTL

\* A call waits only while the pool has all its workers and each has a job.
THEOREM NoIdleWait == Spec => []WaitsForWorkers
<1>1. PoolInv => WaitsForWorkers
  BY DEF PoolInv
<1> QED
  BY <1>1, PoolInvariant, PTL

\* An abort ends calls of its own batch only, though the walk over the array goes on
\* while finishJob drains the queue into it.
THEOREM AbortsStayOwn == Spec => AbortIsOwn
<1>1. PoolInv /\ [Next]_vars =>
        [downs' = downs =>
           \A j \in Jobs : call[j] # "aborted" /\ call'[j] = "aborted" =>
             j[1] \in signal' \ signal]_vars
  BY NextPool
<1> QED
  BY <1>1, PoolInvariant, PTL DEF Spec, AbortIsOwn
=============================================================================
