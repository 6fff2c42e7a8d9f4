--------------------------- MODULE McpLeasesProofs ---------------------------
(***************************************************************************)
(* Proofs about McpLeases: no client called connected was closed, no       *)
(* reference lacks its holder, an idle lease has its timer, and outside    *)
(* the windows that raced records a delegation that runs has its client.   *)
(***************************************************************************)
EXTENDS McpLeases, FiniteSetTheorems, TLAPS

\* A call of connectServer under way is the only one its thread awaits.
Active(c) == conn[c].at \in {"connect", "discover", "listed"}
ConnInv ==
  \A c \in Conns :
    Active(c) /\ conn[c].by # NoOne =>
      /\ pc[conn[c].by] = "connecting"
      /\ \A e \in Conns : Active(e) /\ conn[e].by = conn[c].by => e = c

\* Outside the windows of LeaseKeepsClient the lease counts its holders exactly and its
\* client is open; nobody holds it while it closes or while a delegation connects.
CalmInv ==
  ~raced =>
    /\ \A a \in Admins : closing[a] = 0 /\ pc[a] # "closing"
    /\ lease.refs = Cardinality(Holders)
    /\ lease.held => server.client \in open
    /\ IsClosing => Holders = {} /\ \A d \in Tasks : pc[d] # "connecting"
    /\ \A d \in Tasks : pc[d] = "connecting" =>
         Holders = {} /\ ~lease.held /\ \A e \in Tasks : pc[e] = "connecting" => e = d
    /\ \A c \in Conns : conn[c].at \in {"discover", "listed"} /\ conn[c].by \in Tasks => server.client \in open

IInv == TypeOK /\ ConnInv /\ ConnectedIsNotClosed /\ IdleLeaseIsTimed /\ RefsHaveHolders /\ CalmInv

-----------------------------------------------------------------------------
(* Types of what the actions write.                                         *)

LEMMA Servers ==
  ASSUME TypeOK, NEW s \in {"disconnected", "connecting", "connected", "error"},
         NEW c \in Conns, NEW b \in BOOLEAN
  PROVE  /\ [server EXCEPT !.status = s] \in Server
         /\ [server EXCEPT !.status = s, !.client = c] \in Server
         /\ [server EXCEPT !.tools = b] \in Server
<1>1. server \in Server /\ c \in 0..MaxConns
  BY LeaseBounds DEF TypeOK, Conns
<1> QED BY <1>1 DEF Server

LEMMA ServerClosed ==
  ASSUME TypeOK
  PROVE  /\ Disconnected(server) \in Server
         /\ [Disconnected(server) EXCEPT !.status = "connecting"] \in Server
<1>1. server \in Server /\ 0 \in 0..MaxConns
  BY LeaseBounds DEF TypeOK
<1> QED BY <1>1 DEF Server, Disconnected

LEMMA Attempts ==
  ASSUME TypeOK, NEW c \in Conns, NEW at \in {"connect", "discover", "listed", "over"}
  PROVE  [conn EXCEPT ![c].at = at] \in [Conns -> Attempt]
<1>1. conn \in [Conns -> Attempt] /\ conn[c] \in Attempt
  BY DEF TypeOK
<1>2. [conn[c] EXCEPT !.at = at] \in Attempt
  BY <1>1 DEF Attempt
<1> QED BY <1>1, <1>2

\* What becomes of a lease is one, and its timer is one of those armed.
LeaseTyped ==
  /\ lease \in Lease /\ (lease.timer \/ lease.refs > 0 => lease.held)
  /\ timers \in Nat /\ timers >= One(lease.timer)

LEMMA LeaseSet ==
  ASSUME lease \in Lease, NEW n \in Nat, NEW b \in BOOLEAN
  PROVE  LET l == [lease EXCEPT !.refs = n, !.timer = b]
         IN  l \in Lease /\ l.held = lease.held /\ l.refs = n /\ l.timer = b
  BY DEF Lease

LEMMA LeaseReset ==
  ASSUME TypeOK, lease' \in {lease, NewLease, NoLease}, UNCHANGED timers
  PROVE  LeaseTyped'
<1>1. CASE UNCHANGED lease
  BY <1>1 DEF TypeOK, LeaseTyped
<1>2. CASE lease' = NewLease
  BY <1>2 DEF TypeOK, LeaseTyped, NewLease, Lease, One
<1>3. CASE lease' = NoLease
  BY <1>3 DEF TypeOK, LeaseTyped, NoLease, Lease, One
<1> QED BY <1>1, <1>2, <1>3

LEMMA LeaseTaken ==
  ASSUME TypeOK, lease.held, lease' = Taken(lease), timers' = timers - One(lease.timer)
  PROVE  LeaseTyped' /\ lease'.refs = lease.refs + 1 /\ lease'.held
<1>1. lease \in Lease /\ timers \in Nat /\ timers >= One(lease.timer)
  BY DEF TypeOK
<1> DEFINE n == lease.refs + 1
<1>2. n \in Nat /\ FALSE \in BOOLEAN
  BY <1>1 DEF Lease
<1>3. lease' \in Lease /\ lease'.held /\ lease'.refs = n /\ ~lease'.timer
  <2>1. lease' = [lease EXCEPT !.refs = n, !.timer = FALSE]
    BY DEF Taken
  <2> HIDE DEF n
  <2> QED BY <1>1, <1>2, <2>1, LeaseSet
<1>4. timers' \in Nat /\ timers' >= One(lease'.timer)
  BY <1>1, <1>3 DEF One
<1> QED BY <1>3, <1>4 DEF LeaseTyped

LEMMA LeaseReleased ==
  ASSUME TypeOK, lease.held, lease' = Released(lease),
         timers' = timers + One(lease'.refs = 0 /\ lease'.timer)
  PROVE  /\ LeaseTyped' /\ lease'.held
         /\ lease'.refs = IF lease.refs > 0 THEN lease.refs - 1 ELSE 0
         /\ lease'.refs = 0 => timers' > 0
<1>1. lease \in Lease /\ timers \in Nat /\ timers >= One(lease.timer)
  BY DEF TypeOK
<1> DEFINE n == IF lease.refs > 0 THEN lease.refs - 1 ELSE 0
           b == lease.timer \/ lease.refs <= 1
<1>2. n \in Nat /\ b \in BOOLEAN /\ (n = 0 => b) /\ (b => n = 0 \/ lease.timer)
  BY <1>1 DEF Lease
<1>3. lease' \in Lease /\ lease'.held /\ lease'.refs = n /\ lease'.timer = b
  <2>1. lease' = [lease EXCEPT !.refs = n, !.timer = b]
    BY DEF Released
  <2> HIDE DEF n, b
  <2>2. CASE b = TRUE
    BY <1>1, <1>2, <2>1, <2>2, LeaseSet
  <2>3. CASE b = FALSE
    BY <1>1, <1>2, <2>1, <2>3, LeaseSet
  <2> QED BY <1>2, <2>2, <2>3
<1> HIDE DEF b
<1>4. timers' \in Nat /\ (n = 0 => timers' > 0) /\ timers' >= One(b)
  <2>1. CASE n = 0
    BY <1>1, <1>2, <1>3, <2>1 DEF One
  <2>2. CASE n # 0
    <3> HIDE DEF n
    <3>1. timers' = timers /\ (b => lease.timer)
      BY <1>1, <1>2, <1>3, <2>2 DEF One
    <3> QED BY <1>1, <2>2, <3>1 DEF One
  <2> QED BY <2>1, <2>2
<1> QED BY <1>3, <1>4 DEF LeaseTyped

-----------------------------------------------------------------------------
(* Calls of connectServer.                                                  *)

Free(t) == \A c \in Conns : Active(c) => conn[c].by # t

\* A thread awaits a call only while it is connecting.
LEMMA OthersAreFree ==
  ASSUME ConnInv, NEW t \in Users, pc[t] # "connecting"
  PROVE  Free(t)
  BY ThreadSorts DEF ConnInv, Free

\* A thread that awaits no call and goes on.
LEMMA ConnKept ==
  ASSUME TypeOK, ConnInv, UNCHANGED conn, NEW t \in Users, Free(t), NEW s,
         pc' = [pc EXCEPT ![t] = s]
  PROVE  ConnInv'
  BY DEF TypeOK, ConnInv, Active, Free

LEMMA ConnStarts ==
  ASSUME TypeOK, ConnInv, NEW t \in Users, Free(t), StartConnect(t),
         pc' = [pc EXCEPT ![t] = "connecting"]
  PROVE  conn' \in [Conns -> Attempt] /\ ConnInv'
<1>1. PICK c \in Conns : conn[c].at = "none" /\ conn' = [conn EXCEPT ![c] = [at |-> "connect", by |-> t]]
  BY DEF StartConnect
<1>2. conn' \in [Conns -> Attempt]
  BY <1>1 DEF TypeOK, Attempt
<1>3. \A e \in Conns : e # c => (conn'[e] = conn[e] /\ (Active(e)' <=> Active(e)))
  BY <1>1 DEF TypeOK, Active
<1>4. conn'[c].by = t /\ pc'[t] = "connecting"
  BY <1>1 DEF TypeOK
<1>5. \A e \in Conns : e # c /\ Active(e)' => conn'[e].by # t
  BY <1>3 DEF Free
<1>6. \A u : pc[u] = "connecting" => pc'[u] = "connecting"
  BY DEF TypeOK
<1> QED BY <1>2, <1>3, <1>4, <1>5, <1>6 DEF ConnInv

\* A call that goes on to discover the tools, or has them, and one that ends.
LEMMA ConnMoves ==
  ASSUME TypeOK, ConnInv, NEW c \in Conns, Active(c), UNCHANGED pc,
         NEW at \in {"discover", "listed"}, conn' = [conn EXCEPT ![c].at = at]
  PROVE  ConnInv'
<1>1. \A e \in Conns : conn'[e].by = conn[e].by /\ (Active(e)' => Active(e))
  BY DEF TypeOK, Attempt, Active
<1> QED BY <1>1 DEF ConnInv

LEMMA ConnEnds ==
  ASSUME TypeOK, ConnInv, NEW c \in Conns, Active(c), NEW s,
         conn' = [conn EXCEPT ![c].at = "over"],
         pc' = IF conn[c].by = NoOne THEN pc ELSE [pc EXCEPT ![conn[c].by] = s]
  PROVE  ConnInv'
<1>1. \A e \in Conns : conn'[e].by = conn[e].by /\ (Active(e)' => Active(e) /\ e # c)
  BY DEF TypeOK, Attempt, Active
<1>2. \A e \in Conns : Active(e) /\ e # c /\ conn[e].by # NoOne => conn[e].by # conn[c].by
  BY DEF ConnInv
<1>3. \A u : u # conn[c].by => pc'[u] = pc[u]
  BY DEF TypeOK
<1> QED BY <1>1, <1>2, <1>3 DEF ConnInv

-----------------------------------------------------------------------------
(* Holders.                                                                 *)

LEMMA FiniteHolders ==
  IsFiniteSet(Holders) /\ Cardinality(Holders) \in Nat
<1>1. IsFiniteSet(1..MaxTasks)
  BY LeaseBounds, FS_Interval
<1> DEFINE name == [n \in 1..MaxTasks |-> <<"task", n>>]
<1>2. name \in Surjection(1..MaxTasks, Tasks)
  BY DEF Surjection, Tasks
<1>3. IsFiniteSet(Tasks)
  BY <1>1, <1>2, FS_Surjection
<1> QED BY <1>3, FS_Subset, FS_CardinalityType DEF Holders

LEMMA HoldersKept ==
  ASSUME \A d \in Tasks : pc'[d] \in {"running", "lost"} <=> pc[d] \in {"running", "lost"}
  PROVE  Holders' = Holders
  BY DEF Holders

LEMMA HolderAdded ==
  ASSUME TypeOK, NEW d \in Tasks, pc[d] \notin {"running", "lost"},
         pc' = [pc EXCEPT ![d] = "running"]
  PROVE  Holders' = Holders \union {d} /\ Cardinality(Holders') = Cardinality(Holders) + 1
<1>1. Holders' = Holders \union {d} /\ d \notin Holders
  BY DEF TypeOK, Holders, Users
<1> QED BY <1>1, FiniteHolders, FS_AddElement

LEMMA HolderGone ==
  ASSUME TypeOK, NEW d \in Tasks, pc[d] = "running", pc' = [pc EXCEPT ![d] = "ended"]
  PROVE  /\ Holders' = Holders \ {d} /\ d \in Holders
         /\ Cardinality(Holders') = Cardinality(Holders) - 1
<1>1. Holders' = Holders \ {d} /\ d \in Holders
  BY DEF TypeOK, Holders, Users
<1> QED BY <1>1, FiniteHolders, FS_RemoveElement

\* What is left of the invariant when no delegation, lease or disconnect is concerned.
LEMMA Bystanders ==
  ASSUME IInv, UNCHANGED <<lease, closing, raced>>,
         \A d \in Tasks : pc'[d] = pc[d],
         \A a \in Admins : pc'[a] = "closing" => pc[a] = "closing",
         server.client \in open => server'.client \in open',
         \A c \in Conns : conn'[c].at \in {"discover", "listed"} /\ conn'[c].by \in Tasks =>
           server'.client \in open' \/ (conn[c].at \in {"discover", "listed"} /\ conn[c].by \in Tasks)
  PROVE  RefsHaveHolders' /\ CalmInv'
<1>1. Holders' = Holders
  BY HoldersKept
<1>2. IsClosing' <=> IsClosing
  BY DEF IsClosing
<1> QED BY <1>1, <1>2 DEF IInv, RefsHaveHolders, CalmInv

LEMMA Connects ==
  ASSUME TypeOK, ConnInv, ConnectedIsNotClosed, IdleLeaseIsTimed,
         NEW t \in Users, pc[t] = "idle", Connect(t), UNCHANGED <<open, closing>>
  PROVE  /\ server' \in Server /\ conn' \in [Conns -> Attempt] /\ pc' \in [Users -> States]
         /\ LeaseTyped' /\ ConnInv' /\ ConnectedIsNotClosed' /\ IdleLeaseIsTimed'
<1>1. Free(t)
  BY OthersAreFree
<1>2. CASE server.status = "connected"
  <2>1. /\ pc' = [pc EXCEPT ![t] = Returned(t, server.tools)]
        /\ UNCHANGED <<server, conn, timers>> /\ lease' \in {lease, NewLease}
    BY <1>2 DEF Connect
  <2>2. Returned(t, server.tools) \in States
    BY DEF Returned, States
  <2>3. pc' \in [Users -> States] /\ LeaseTyped' /\ ConnInv'
    BY <1>1, <2>1, <2>2, LeaseReset, ConnKept DEF TypeOK
  <2> QED BY <2>1, <2>3 DEF TypeOK, ConnectedIsNotClosed, IdleLeaseIsTimed, IsIdle, NewLease
<1>3. CASE server.status # "connected"
  <2>1. /\ StartConnect(t) /\ UNCHANGED <<lease, timers>>
        /\ server' = [server EXCEPT !.status = "connecting"]
        /\ pc' = [pc EXCEPT ![t] = "connecting"]
    BY <1>3 DEF Connect
  <2>2. conn' \in [Conns -> Attempt] /\ ConnInv' /\ pc' \in [Users -> States]
    BY <1>1, <2>1, ConnStarts DEF TypeOK, States
  <2>3. server' \in Server /\ server'.status = "connecting"
    BY <2>1 DEF TypeOK, Server
  <2>4. LeaseTyped'
    BY <2>1, LeaseReset
  <2> QED BY <2>1, <2>2, <2>3, <2>4 DEF ConnectedIsNotClosed, IdleLeaseIsTimed, IsIdle
<1> QED BY <1>2, <1>3

-----------------------------------------------------------------------------
(* One lemma per action.                                                    *)

LEMMA ConnectOkStep ==
  ASSUME IInv, NEW c \in Conns, ConnectOk(c)
  PROVE  IInv'
<1>1. /\ TypeOK /\ Active(c) /\ server \in Server
      /\ UNCHANGED <<lease, timers, pc, closing, again, faults, dead, raced>>
      /\ conn' = [conn EXCEPT ![c].at = "discover"] /\ open' = open \union {c}
      /\ server' = [server EXCEPT !.status = "connected", !.client = c]
  BY DEF IInv, TypeOK, ConnectOk, Active
<1>2. server' \in Server /\ conn' \in [Conns -> Attempt]
  BY <1>1, Servers, Attempts
<1>3. server'.client = c
  BY <1>1 DEF Server
<1>4. TypeOK'
  BY <1>1, <1>2 DEF TypeOK
<1>5. ConnInv'
  BY <1>1, ConnMoves DEF IInv
<1>6. ConnectedIsNotClosed' /\ IdleLeaseIsTimed'
  BY <1>1, <1>3 DEF IInv, ConnectedIsNotClosed, IdleLeaseIsTimed, IsIdle
<1>7. RefsHaveHolders' /\ CalmInv'
  BY <1>1, <1>3, Bystanders
<1> QED BY <1>4, <1>5, <1>6, <1>7 DEF IInv

LEMMA ConnectFailsStep ==
  ASSUME IInv, NEW c \in Conns, ConnectFails(c)
  PROVE  IInv'
<1> DEFINE t == conn[c].by
<1>1. /\ TypeOK /\ Active(c) /\ server \in Server /\ t \in Users \union {NoOne}
      /\ UNCHANGED <<open, lease, timers, closing, again, faults, dead, raced>>
      /\ conn' = [conn EXCEPT ![c].at = "over"] /\ server' = [server EXCEPT !.status = "error"]
  BY DEF IInv, TypeOK, Attempt, ConnectFails, Active
<1>2. server' \in Server /\ conn' \in [Conns -> Attempt]
  BY <1>1, Servers, Attempts
<1>3. server'.client = server.client /\ server'.status = "error"
  BY <1>1 DEF Server
<1>4. PICK s \in {"failed", "cut", "done"} : pc' = IF t = NoOne THEN pc ELSE [pc EXCEPT ![t] = s]
  BY DEF ConnectFails
<1>5. TypeOK'
  BY <1>1, <1>2, <1>4 DEF TypeOK, States
<1>6. ConnInv'
  BY <1>1, <1>4, ConnEnds DEF IInv
<1>7. ConnectedIsNotClosed' /\ IdleLeaseIsTimed'
  BY <1>1, <1>3 DEF IInv, ConnectedIsNotClosed, IdleLeaseIsTimed, IsIdle
<1>8. t # NoOne => pc[t] = "connecting"
  BY <1>1 DEF IInv, ConnInv
<1>9. Holders' = Holders /\ \A u \in Users : pc'[u] \in {"connecting", "closing"} => pc'[u] = pc[u]
  BY <1>1, <1>4, <1>8, HoldersKept DEF TypeOK, Users
<1>10. RefsHaveHolders'
  BY <1>1, <1>9 DEF IInv, RefsHaveHolders
<1>11. CalmInv'
  <2>1. \A e \in Conns : conn'[e].at \in {"discover", "listed"} => conn[e].at \in {"discover", "listed"} /\ conn'[e].by = conn[e].by
    BY <1>1 DEF TypeOK, Attempt
  <2> QED BY <1>1, <1>3, <1>9, <2>1 DEF IInv, CalmInv, IsClosing, Users
<1> QED BY <1>5, <1>6, <1>7, <1>10, <1>11 DEF IInv

LEMMA ListToolsStep ==
  ASSUME IInv, NEW c \in Conns, ListTools(c)
  PROVE  IInv'
<1>1. /\ TypeOK /\ Active(c) /\ conn[c].at = "discover" /\ server \in Server
      /\ UNCHANGED <<open, lease, timers, pc, closing, again, faults, dead, raced>>
      /\ conn' = [conn EXCEPT ![c].at = "listed"]
      /\ server' \in {server, [server EXCEPT !.tools = server.tools \/ c \in open \ dead]}
  BY DEF IInv, TypeOK, ListTools, Active
<1>2. server' \in Server /\ server'.client = server.client /\ server'.status = server.status
  BY <1>1 DEF Server
<1>3. conn' \in [Conns -> Attempt]
  BY <1>1, Attempts
<1>4. TypeOK'
  BY <1>1, <1>2, <1>3 DEF TypeOK
<1>5. ConnInv'
  BY <1>1, ConnMoves DEF IInv
<1>6. ConnectedIsNotClosed' /\ IdleLeaseIsTimed'
  BY <1>1, <1>2 DEF IInv, ConnectedIsNotClosed, IdleLeaseIsTimed, IsIdle
<1>7. \A e \in Conns : conn'[e].at \in {"discover", "listed"} =>
        conn[e].at \in {"discover", "listed"} /\ conn'[e].by = conn[e].by
  BY <1>1 DEF TypeOK, Attempt
<1>8. RefsHaveHolders' /\ CalmInv'
  BY <1>1, <1>2, <1>7, Bystanders
<1> QED BY <1>4, <1>5, <1>6, <1>8 DEF IInv

LEMMA DiesStep ==
  ASSUME IInv, NEW c \in Conns, Dies(c)
  PROVE  IInv'
<1>1. /\ UNCHANGED <<server, open, conn, lease, timers, pc, closing, again, faults, raced>>
      /\ dead' \subseteq Conns
  BY DEF IInv, TypeOK, Dies
<1>2. TypeOK' /\ ConnInv'
  BY <1>1 DEF IInv, TypeOK, ConnInv, Active
<1>3. ConnectedIsNotClosed' /\ IdleLeaseIsTimed'
  BY <1>1 DEF IInv, ConnectedIsNotClosed, IdleLeaseIsTimed, IsIdle
<1>4. RefsHaveHolders' /\ CalmInv'
  BY <1>1, Bystanders
<1> QED BY <1>2, <1>3, <1>4 DEF IInv

LEMMA DiscoveredStep ==
  ASSUME IInv, NEW c \in Conns, Discovered(c)
  PROVE  IInv'
<1> DEFINE t == conn[c].by
<1>1. /\ pc' = IF t = NoOne THEN pc ELSE [pc EXCEPT ![t] = Returned(t, server.tools)]
      /\ conn[c].at = "listed" /\ conn' = [conn EXCEPT ![c].at = "over"]
      /\ lease' = IF t \in Tasks THEN NewLease ELSE lease
      /\ UNCHANGED <<server, open, timers, closing, again, faults, dead, raced>>
  BY DEF Discovered
<1>2. /\ TypeOK /\ Active(c) /\ server \in Server /\ t \in Users \union {NoOne}
  BY <1>1 DEF IInv, TypeOK, Attempt, Server, Active
<1>3. server' \in Server /\ conn' \in [Conns -> Attempt] /\ LeaseTyped'
  BY <1>1, <1>2, Attempts, LeaseReset
<1>4. server'.client = server.client /\ server'.status = server.status
  BY <1>1
<1>5. TypeOK'
  BY <1>1, <1>2, <1>3 DEF TypeOK, LeaseTyped, States, Returned
<1>6. ConnInv'
  BY <1>1, <1>2, ConnEnds DEF IInv
<1>7. ConnectedIsNotClosed' /\ IdleLeaseIsTimed'
  BY <1>1, <1>4 DEF IInv, ConnectedIsNotClosed, IdleLeaseIsTimed, IsIdle, NewLease
<1>8. \A e \in Conns : conn'[e].at \in {"discover", "listed"} => conn[e].at \in {"discover", "listed"} /\ conn'[e].by = conn[e].by
  BY <1>1, <1>2 DEF TypeOK, Attempt
<1>9. CASE t \notin Tasks
  <2>1. \A d \in Tasks : pc'[d] = pc[d]
    BY <1>1, <1>2, <1>9 DEF TypeOK, Users
  <2>2. \A a \in Admins : pc'[a] = "closing" => pc[a] = "closing"
    BY <1>1, <1>2, <1>9 DEF TypeOK, Returned, Users
  <2>3. RefsHaveHolders' /\ CalmInv'
    BY <1>1, <1>4, <1>8, <1>9, <2>1, <2>2, Bystanders
  <2> QED BY <1>5, <1>6, <1>7, <2>3 DEF IInv
<1>10. CASE t \in Tasks
  <2>1. pc[t] = "connecting" /\ pc' = [pc EXCEPT ![t] = "running"]
    BY <1>1, <1>2, <1>10, ThreadSorts DEF IInv, ConnInv, Returned, Users
  <2>2. Holders' = Holders \union {t} /\ Cardinality(Holders') = Cardinality(Holders) + 1
    BY <1>2, <1>10, <2>1, HolderAdded
  <2>3. lease'.refs = 1 /\ lease'.held
    BY <1>1, <1>10 DEF NewLease
  <2>4. RefsHaveHolders'
    BY <2>2, <2>3, FiniteHolders DEF RefsHaveHolders
  <2>5. ~raced => Holders = {} /\ server.client \in open /\ ~IsClosing
    BY <1>1, <1>2, <1>10, <2>1 DEF IInv, CalmInv
  <2>6. ~raced => Cardinality(Holders') = 1
    BY <2>2, <2>5, FS_EmptySet
  <2>7. \A d \in Tasks : ~raced => pc'[d] # "connecting"
    BY <1>2, <1>10, <2>1 DEF IInv, CalmInv, TypeOK, Users
  <2>8. \A a \in Admins : pc'[a] = pc[a]
    BY <1>2, <1>10, <2>1, ThreadSorts DEF TypeOK, Users
  <2>9. CalmInv'
    BY <1>1, <1>4, <2>3, <2>5, <2>6, <2>7, <2>8 DEF IInv, CalmInv, IsClosing
  <2> QED BY <1>5, <1>6, <1>7, <2>4, <2>9 DEF IInv
<1> QED BY <1>9, <1>10

LEMMA AcquireStep ==
  ASSUME IInv, NEW d \in Tasks, Acquire(d)
  PROVE  IInv'
<1>1. /\ TypeOK /\ pc[d] = "idle" /\ d \in Users
      /\ UNCHANGED <<open, closing, again, faults, dead>>
      /\ raced' = (raced \/ IsClosing \/ \E e \in Tasks \ {d} : pc[e] = "connecting")
  BY DEF IInv, Acquire, Users
<1>2. raced' \in BOOLEAN
  BY <1>1
<1>3. \A a \in Admins : a # d
  BY ThreadSorts
<1>4. ASSUME ~raced'
      PROVE  ~raced /\ ~IsClosing /\ \A e \in Tasks \ {d} : pc[e] # "connecting"
  BY <1>1, <1>4
<1>5. IsClosing' <=> IsClosing
  BY <1>1 DEF IsClosing
<1>6. CASE lease.held
  <2>1. /\ lease' = Taken(lease) /\ timers' = timers - One(lease.timer)
        /\ pc' = [pc EXCEPT ![d] = "running"] /\ UNCHANGED <<server, conn>>
    BY <1>6 DEF Acquire
  <2>2. LeaseTyped' /\ lease'.refs = lease.refs + 1 /\ lease'.held
    BY <1>1, <1>6, <2>1, LeaseTaken
  <2>3. TypeOK'
    BY <1>1, <1>2, <2>1, <2>2 DEF TypeOK, LeaseTyped, States
  <2>4. ConnInv'
    BY <1>1, <2>1, ConnKept, OthersAreFree DEF IInv
  <2>5. lease.refs \in Nat
    BY <1>1 DEF TypeOK, Lease
  <2>6. ConnectedIsNotClosed' /\ IdleLeaseIsTimed'
    BY <1>1, <2>1, <2>2, <2>5 DEF IInv, ConnectedIsNotClosed, IdleLeaseIsTimed, IsIdle
  <2>7. Cardinality(Holders') = Cardinality(Holders) + 1
    BY <1>1, <2>1, HolderAdded
  <2>8. RefsHaveHolders'
    BY <2>2, <2>5, <2>7, FiniteHolders DEF IInv, RefsHaveHolders
  <2>9. CalmInv'
    <3> SUFFICES ASSUME ~raced' PROVE CalmInv'
      BY DEF CalmInv
    <3>1. ~raced /\ ~IsClosing /\ ~IsClosing' /\ \A e \in Tasks : pc'[e] # "connecting"
      BY <1>1, <1>4, <1>5, <2>1 DEF TypeOK
    <3>2. \A a \in Admins : pc'[a] = pc[a] /\ closing'[a] = closing[a]
      BY <1>1, <1>3, <2>1 DEF TypeOK
    <3> QED BY <1>1, <1>6, <2>1, <2>2, <2>7, <3>1, <3>2 DEF IInv, CalmInv
  <2> QED BY <2>3, <2>4, <2>6, <2>8, <2>9 DEF IInv
<1>7. CASE ~lease.held
  <2>1. Connect(d)
    BY <1>7 DEF Acquire
  <2>2. /\ server' \in Server /\ conn' \in [Conns -> Attempt] /\ pc' \in [Users -> States]
        /\ LeaseTyped' /\ ConnInv' /\ ConnectedIsNotClosed' /\ IdleLeaseIsTimed'
    BY <1>1, <2>1, Connects DEF IInv
  <2>3. TypeOK'
    BY <1>1, <1>2, <2>2 DEF TypeOK, LeaseTyped
  <2>4. lease.refs = 0
    BY <1>1, <1>7 DEF TypeOK, Lease
  <2>5. ~raced => Holders = {}
    BY <2>4, FiniteHolders, FS_EmptySet DEF IInv, CalmInv
  <2>6. CASE server.status = "connected"
    <3>1. /\ pc' = [pc EXCEPT ![d] = "running"] /\ lease' = NewLease
          /\ UNCHANGED <<server, conn, timers>>
      BY <2>1, <2>6 DEF Connect, Returned
    <3>2. Cardinality(Holders') = Cardinality(Holders) + 1
      BY <1>1, <3>1, HolderAdded
    <3>3. RefsHaveHolders'
      BY <3>1, <3>2, FiniteHolders DEF RefsHaveHolders, NewLease
    <3>4. CalmInv'
      <4> SUFFICES ASSUME ~raced' PROVE CalmInv'
        BY DEF CalmInv
      <4>1. ~raced /\ ~IsClosing /\ ~IsClosing' /\ \A e \in Tasks : pc'[e] # "connecting"
        BY <1>1, <1>4, <1>5, <3>1 DEF TypeOK
      <4>2. \A a \in Admins : pc'[a] = pc[a] /\ closing'[a] = closing[a]
        BY <1>1, <1>3, <3>1 DEF TypeOK
      <4>3. Cardinality(Holders') = 1 /\ lease'.refs = 1
        BY <2>5, <3>1, <3>2, <4>1, FS_EmptySet DEF NewLease
      <4>4. server'.client \in open'
        BY <1>1, <2>6, <3>1 DEF IInv, ConnectedIsNotClosed
      <4> QED BY <4>1, <4>2, <4>3, <4>4 DEF IInv, CalmInv
    <3> QED BY <2>2, <2>3, <3>3, <3>4 DEF IInv
  <2>7. CASE server.status # "connected"
    <3>1. /\ pc' = [pc EXCEPT ![d] = "connecting"] /\ StartConnect(d)
          /\ server' = [server EXCEPT !.status = "connecting"] /\ UNCHANGED <<lease, timers>>
      BY <2>1, <2>7 DEF Connect
    <3>2. Holders' = Holders
      BY <1>1, <3>1, HoldersKept DEF TypeOK
    <3>3. RefsHaveHolders'
      BY <3>1, <3>2 DEF IInv, RefsHaveHolders
    <3>4. server'.client = server.client
      BY <1>1, <3>1 DEF TypeOK, Server
    <3>5. \A e \in Conns : conn'[e].at \in {"discover", "listed"} => conn'[e] = conn[e]
      BY <1>1, <3>1 DEF TypeOK, StartConnect
    <3>6. CalmInv'
      <4> SUFFICES ASSUME ~raced' PROVE CalmInv'
        BY DEF CalmInv
      <4>1. /\ ~raced /\ ~IsClosing /\ ~IsClosing'
            /\ \A e \in Tasks : pc'[e] = "connecting" => e = d
        BY <1>1, <1>4, <1>5, <3>1 DEF TypeOK
      <4>2. \A a \in Admins : pc'[a] = pc[a] /\ closing'[a] = closing[a]
        BY <1>1, <1>3, <3>1 DEF TypeOK
      <4> QED BY <1>1, <1>7, <2>5, <3>1, <3>2, <3>4, <3>5, <4>1, <4>2 DEF IInv, CalmInv
    <3> QED BY <2>2, <2>3, <3>3, <3>6 DEF IInv
  <2> QED BY <2>6, <2>7
<1> QED BY <1>6, <1>7

LEMMA PrepareThrowsStep ==
  ASSUME IInv, NEW d \in Tasks, PrepareThrows(d)
  PROVE  IInv'
<1>1. /\ TypeOK /\ pc[d] = "running" /\ d \in Users /\ pc' = [pc EXCEPT ![d] = "lost"]
      /\ faults' = faults + 1
      /\ UNCHANGED <<server, open, conn, lease, timers, closing, again, raced, dead>>
  BY DEF IInv, PrepareThrows, Users
<1>2. TypeOK'
  BY <1>1 DEF TypeOK, States
<1>3. ConnInv'
  BY <1>1, ConnKept, OthersAreFree DEF IInv
<1>4. ConnectedIsNotClosed' /\ IdleLeaseIsTimed'
  BY <1>1 DEF IInv, ConnectedIsNotClosed, IdleLeaseIsTimed, IsIdle
<1>5. Holders' = Holders
  BY <1>1, HoldersKept DEF TypeOK
<1>6. \A u \in Users : pc'[u] \in {"connecting", "closing"} <=> pc[u] \in {"connecting", "closing"}
  BY <1>1 DEF TypeOK
<1>7. \A u \in Users : pc'[u] # pc[u] => pc'[u] = "lost"
  BY <1>1 DEF TypeOK
<1>8. RefsHaveHolders' /\ CalmInv'
  BY <1>1, <1>5, <1>7 DEF IInv, RefsHaveHolders, CalmInv, IsClosing, Users
<1> QED BY <1>2, <1>3, <1>4, <1>8 DEF IInv

LEMMA ReleaseStep ==
  ASSUME IInv, NEW d \in Tasks, Release(d)
  PROVE  IInv'
<1>1. /\ TypeOK /\ pc[d] = "running" /\ d \in Users /\ pc' = [pc EXCEPT ![d] = "ended"]
      /\ UNCHANGED <<server, open, conn, closing, again, faults, dead, raced>>
  BY DEF IInv, Release, Users
<1>2. /\ Holders' = Holders \ {d} /\ d \in Holders
      /\ Cardinality(Holders') = Cardinality(Holders) - 1
  BY <1>1, HolderGone
<1>3. Cardinality(Holders) \in Nat /\ Cardinality(Holders) # 0 /\ lease.refs \in Nat
  BY <1>1, <1>2, FiniteHolders, FS_EmptySet DEF TypeOK, Lease
<1>4. /\ LeaseTyped' /\ (lease'.held <=> lease.held)
      /\ lease'.refs = IF lease.refs > 0 THEN lease.refs - 1 ELSE 0
      /\ IsIdle(lease') => timers' > 0
  <2>1. CASE lease.held
    <3>1. /\ lease' = Released(lease)
          /\ timers' = timers + One(lease'.refs = 0 /\ lease'.timer)
      BY <2>1 DEF Release
    <3> QED BY <1>1, <2>1, <3>1, LeaseReleased DEF IsIdle
  <2>2. CASE ~lease.held
    <3>1. UNCHANGED <<lease, timers>> /\ lease.refs = 0
      BY <1>1, <1>3, <2>2 DEF Release, TypeOK
    <3> QED BY <1>1, <2>2, <3>1, LeaseReset DEF IsIdle
  <2> QED BY <2>1, <2>2
<1>5. TypeOK'
  BY <1>1, <1>4 DEF TypeOK, LeaseTyped, States
<1>6. ConnInv'
  BY <1>1, ConnKept, OthersAreFree DEF IInv
<1>7. ConnectedIsNotClosed' /\ IdleLeaseIsTimed'
  BY <1>1, <1>4 DEF IInv, ConnectedIsNotClosed, IdleLeaseIsTimed
<1>8. RefsHaveHolders'
  BY <1>2, <1>3, <1>4 DEF IInv, RefsHaveHolders
<1>9. \A u \in Users : pc'[u] # pc[u] => pc'[u] = "ended"
  BY <1>1 DEF TypeOK
<1>10. CalmInv'
  BY <1>1, <1>2, <1>3, <1>4, <1>9 DEF IInv, CalmInv, IsClosing, Users
<1> QED BY <1>5, <1>6, <1>7, <1>8, <1>10 DEF IInv

LEMMA TimerFiresStep ==
  ASSUME IInv, NEW k \in Closers, TimerFires(k)
  PROVE  IInv'
<1>1. /\ TypeOK /\ lease \in Lease /\ server \in Server /\ timers \in Nat /\ timers > 0
      /\ timers' = timers - 1 /\ closing[k] = 0
      /\ closing' = IF IsIdle(lease) THEN [closing EXCEPT ![k] = server.client] ELSE closing
      /\ UNCHANGED <<open, conn, pc, again, faults, dead, raced>>
  BY DEF IInv, TypeOK, TimerFires
<1>2. PICK own \in BOOLEAN :
        /\ IF own THEN lease.timer ELSE timers > One(lease.timer)
        /\ IF IsIdle(lease) /\ server.client = 0
           THEN lease' = NoLease /\ server' = Disconnected(server)
           ELSE lease' = [lease EXCEPT !.timer = @ /\ ~own] /\ UNCHANGED server
  BY DEF TimerFires
<1>3. closing' \in [Admins \union Closers -> 0..MaxConns]
  BY <1>1 DEF TypeOK, Server
<1>4. Holders' = Holders
  BY <1>1, HoldersKept
<1>5. ~raced /\ IsIdle(lease) => Holders = {} /\ \A d \in Tasks : pc[d] # "connecting"
  BY FiniteHolders, FS_EmptySet DEF IInv, CalmInv, IsIdle
<1>6. \A a \in Admins : closing'[a] = closing[a]
  BY <1>1, ThreadSorts DEF TypeOK
<1>7. ConnInv'
  BY <1>1 DEF IInv, ConnInv, Active
<1>8. CASE IsIdle(lease) /\ server.client = 0
  <2>1. lease' = NoLease /\ server' = Disconnected(server)
    BY <1>2, <1>8
  <2>2. LeaseTyped'
    BY <1>1, <2>1 DEF NoLease, Lease, LeaseTyped, One
  <2>3. server' \in Server /\ server'.status = "disconnected" /\ server'.client = 0
    BY <1>1, <2>1, ServerClosed DEF Disconnected, Server
  <2>4. TypeOK'
    BY <1>1, <1>3, <2>2, <2>3 DEF TypeOK, LeaseTyped
  <2>5. ConnectedIsNotClosed' /\ IdleLeaseIsTimed' /\ RefsHaveHolders'
    BY <2>1, <2>3, <1>4, FiniteHolders DEF ConnectedIsNotClosed, IdleLeaseIsTimed, IsIdle, RefsHaveHolders, NoLease
  <2>6. ~raced => lease'.refs = Cardinality(Holders)
    BY <1>5, <1>8, <2>1, FS_EmptySet DEF NoLease
  <2>7. \A c \in Conns : ~raced => ~(conn[c].at \in {"discover", "listed"} /\ conn[c].by \in Tasks)
    BY <1>5, <1>8, ThreadSorts DEF IInv, ConnInv, Active, Users
  <2>8. CalmInv'
    BY <1>1, <1>4, <1>5, <1>6, <1>8, <2>1, <2>6, <2>7 DEF IInv, CalmInv, NoLease
  <2> QED BY <1>7, <2>4, <2>5, <2>8 DEF IInv
<1>9. CASE ~(IsIdle(lease) /\ server.client = 0)
  <2> DEFINE b == lease.timer /\ ~own
  <2>1. lease' = [lease EXCEPT !.timer = b] /\ UNCHANGED server
    BY <1>2, <1>9
  <2>2. lease' \in Lease /\ lease'.refs = lease.refs /\ lease'.held = lease.held /\ lease'.timer = b
    BY <1>1, <2>1 DEF Lease
  <2>3. timers' \in Nat /\ timers' >= One(b)
    BY <1>1, <1>2 DEF One
  <2>4. TypeOK'
    BY <1>1, <1>3, <2>1, <2>2, <2>3 DEF TypeOK
  <2>5. ConnectedIsNotClosed' /\ RefsHaveHolders'
    BY <1>1, <1>4, <2>1, <2>2 DEF IInv, ConnectedIsNotClosed, RefsHaveHolders
  <2>6. IdleLeaseIsTimed'
    <3>1. IsIdle(lease') => IsIdle(lease) /\ server.client # 0
      BY <1>9, <2>2 DEF IsIdle
    <3>2. IsIdle(lease) => closing'[k] = server.client
      BY <1>1 DEF TypeOK
    <3> QED BY <3>1, <3>2 DEF IdleLeaseIsTimed
  <2>7. IsClosing' => IsClosing \/ IsIdle(lease)
    BY <1>1 DEF IsClosing
  <2>8. CalmInv'
    BY <1>1, <1>4, <1>5, <1>6, <2>1, <2>2, <2>7 DEF IInv, CalmInv
  <2> QED BY <1>7, <2>4, <2>5, <2>6, <2>8 DEF IInv
<1> QED BY <1>8, <1>9

LEMMA LeaseClosesStep ==
  ASSUME IInv, NEW k \in Closers, LeaseCloses(k)
  PROVE  IInv'
<1>1. /\ TypeOK /\ closing[k] # 0 /\ closing' = [closing EXCEPT ![k] = 0]
      /\ open' = open \ {closing[k]} /\ server' = Disconnected(server) /\ lease' = NoLease
      /\ UNCHANGED <<conn, timers, pc, again, faults, dead, raced>>
  BY DEF IInv, LeaseCloses, AfterClose
<1>2. server' \in Server /\ server'.status = "disconnected"
  BY <1>1, ServerClosed DEF TypeOK, Disconnected, Server
<1>3. LeaseTyped'
  BY <1>1, LeaseReset
<1>4. closing' \in [Admins \union Closers -> 0..MaxConns]
  BY <1>1, LeaseBounds DEF TypeOK
<1>5. TypeOK'
  BY <1>1, <1>2, <1>3, <1>4 DEF TypeOK, LeaseTyped
<1>6. ConnInv'
  BY <1>1 DEF IInv, ConnInv, Active
<1>7. Holders' = Holders
  BY <1>1, HoldersKept
<1>8. ConnectedIsNotClosed' /\ IdleLeaseIsTimed' /\ RefsHaveHolders'
  BY <1>1, <1>2, <1>7, FiniteHolders
     DEF ConnectedIsNotClosed, IdleLeaseIsTimed, IsIdle, RefsHaveHolders, NoLease
<1>9. ~raced => Holders = {} /\ \A d \in Tasks : pc[d] # "connecting"
  BY <1>1 DEF IInv, CalmInv, IsClosing
<1>10. ~raced => lease'.refs = Cardinality(Holders')
  BY <1>1, <1>7, <1>9, FS_EmptySet DEF NoLease
<1>11. \A c \in Conns : ~raced => ~(conn[c].at \in {"discover", "listed"} /\ conn[c].by \in Tasks)
  BY <1>9, ThreadSorts DEF IInv, ConnInv, Active, Users
<1>12. \A a \in Admins : closing'[a] = closing[a]
  BY <1>1, ThreadSorts DEF TypeOK
<1>13. CalmInv'
  BY <1>1, <1>7, <1>9, <1>10, <1>11, <1>12 DEF IInv, CalmInv, NoLease
<1> QED BY <1>5, <1>6, <1>8, <1>13 DEF IInv

\* A turn or a user of the API that connects: no delegation is concerned.
LEMMA OthersConnect ==
  ASSUME IInv, NEW t \in Turns \union Admins, pc[t] = "idle", Connect(t),
         UNCHANGED <<open, closing, again, faults, dead, raced>>
  PROVE  IInv'
<1>1. TypeOK /\ t \in Users /\ t \notin Tasks
  BY ThreadSorts DEF IInv, Users
<1>2. /\ server' \in Server /\ conn' \in [Conns -> Attempt] /\ pc' \in [Users -> States]
      /\ LeaseTyped' /\ ConnInv' /\ ConnectedIsNotClosed' /\ IdleLeaseIsTimed'
  BY <1>1, Connects DEF IInv
<1>3. TypeOK'
  BY <1>1, <1>2 DEF TypeOK, LeaseTyped
<1>4. /\ UNCHANGED lease /\ server'.client = server.client
      /\ \E s \in {"done", "offers", "cut", "connecting"} : pc' = [pc EXCEPT ![t] = s]
      /\ \A c \in Conns : conn'[c].at \in {"discover", "listed"} => conn'[c] = conn[c]
  BY <1>1 DEF Connect, StartConnect, Returned, TypeOK, Server
<1>5. /\ \A d \in Tasks : pc'[d] = pc[d]
      /\ \A a \in Admins : pc'[a] = "closing" => pc[a] = "closing"
  BY <1>1, <1>4 DEF TypeOK, Users
<1>6. RefsHaveHolders' /\ CalmInv'
  BY <1>4, <1>5, Bystanders
<1> QED BY <1>2, <1>3, <1>6 DEF IInv

LEMMA CompileStep ==
  ASSUME IInv, NEW t \in Turns, Compile(t)
  PROVE  IInv'
<1>1. TypeOK /\ t \in Users /\ t \notin Tasks /\ pc[t] = "idle"
  BY ThreadSorts DEF IInv, Users, Compile
<1>2. CASE Connect(t)
  BY <1>1, <1>2, OthersConnect DEF Compile
<1>3. CASE ~Connect(t)
  <2>1. pc' = [pc EXCEPT ![t] = "offers"]
        /\ UNCHANGED <<server, conn, lease, timers, open, closing, again, faults, dead, raced>>
    BY <1>3 DEF Compile
  <2>2. TypeOK' /\ ConnInv'
    BY <1>1, <2>1, ConnKept, OthersAreFree DEF IInv, TypeOK, States
  <2>3. ConnectedIsNotClosed' /\ IdleLeaseIsTimed'
    BY <2>1 DEF IInv, ConnectedIsNotClosed, IdleLeaseIsTimed, IsIdle
  <2>4. RefsHaveHolders' /\ CalmInv'
    BY <1>1, <2>1, Bystanders DEF TypeOK, Users
  <2> QED BY <2>2, <2>3, <2>4 DEF IInv
<1> QED BY <1>2, <1>3

LEMMA GiveUpStep ==
  ASSUME IInv, NEW t \in Turns, GiveUp(t)
  PROVE  IInv'
<1>1. /\ TypeOK /\ t \in Users /\ t \notin Tasks /\ pc' = [pc EXCEPT ![t] = "cut"]
      /\ conn' = [c \in Conns |-> IF conn[c].by = t THEN [conn[c] EXCEPT !.by = NoOne] ELSE conn[c]]
      /\ UNCHANGED <<server, open, lease, timers, closing, again, faults, dead, raced>>
  BY ThreadSorts DEF IInv, Users, GiveUp
<1>2. ASSUME NEW c \in Conns
      PROVE  /\ conn'[c] \in Attempt /\ conn'[c].at = conn[c].at
             /\ conn'[c].by = IF conn[c].by = t THEN NoOne ELSE conn[c].by
  <2>1. conn[c] \in Attempt
    BY <1>1 DEF TypeOK
  <2>2. conn'[c] = IF conn[c].by = t THEN [conn[c] EXCEPT !.by = NoOne] ELSE conn[c]
    BY <1>1
  <2> QED BY <2>1, <2>2 DEF Attempt
<1>3. TypeOK'
  <2>1. conn' \in [Conns -> Attempt]
    BY <1>1, <1>2
  <2> QED BY <1>1, <2>1 DEF TypeOK, States
<1>4. ConnInv'
  BY <1>1, <1>2 DEF IInv, ConnInv, Active, TypeOK
<1>5. ConnectedIsNotClosed' /\ IdleLeaseIsTimed'
  BY <1>1 DEF IInv, ConnectedIsNotClosed, IdleLeaseIsTimed, IsIdle
<1>6. RefsHaveHolders' /\ CalmInv'
  <2>1. \A c \in Conns : conn'[c].by \in Tasks => conn'[c].by = conn[c].by
    BY <1>2, ThreadSorts DEF Users
  <2>2. /\ \A d \in Tasks : pc'[d] = pc[d]
        /\ \A a \in Admins : pc'[a] = "closing" => pc[a] = "closing"
    BY <1>1 DEF TypeOK, Users
  <2> QED BY <1>1, <1>2, <2>1, <2>2, Bystanders
<1> QED BY <1>3, <1>4, <1>5, <1>6 DEF IInv

LEMMA CallToolStep ==
  ASSUME IInv, NEW t \in Turns, CallTool(t)
  PROVE  IInv'
<1>1. /\ TypeOK /\ t \in Users /\ t \notin Tasks /\ pc[t] = "offers"
      /\ UNCHANGED <<server, open, conn, lease, timers, closing, again, faults, dead, raced>>
  BY ThreadSorts DEF IInv, Users, CallTool
<1>2. PICK s \in {"refused", "failed", "served"} : pc' = [pc EXCEPT ![t] = s]
  BY DEF CallTool
<1>3. TypeOK' /\ ConnInv'
  BY <1>1, <1>2, ConnKept, OthersAreFree DEF IInv, TypeOK, States
<1>4. ConnectedIsNotClosed' /\ IdleLeaseIsTimed'
  BY <1>1 DEF IInv, ConnectedIsNotClosed, IdleLeaseIsTimed, IsIdle
<1>5. RefsHaveHolders' /\ CalmInv'
  BY <1>1, <1>2, Bystanders DEF TypeOK, Users
<1> QED BY <1>3, <1>4, <1>5 DEF IInv

\* The end of a disconnect, and the connect that may follow it.
LEMMA AfterDisconnects ==
  ASSUME TypeOK, ConnInv, NEW a \in Admins, pc[a] # "connecting",
         NEW reconnects, AfterDisconnect(a, reconnects)
  PROVE  /\ server' \in Server /\ server'.status # "connected"
         /\ conn' \in [Conns -> Attempt] /\ ConnInv' /\ pc' \in [Users -> States]
         /\ \A d \in Tasks : pc'[d] = pc[d]
<1>1. a \in Users /\ a \notin Tasks /\ Free(a)
  BY OthersAreFree, ThreadSorts DEF Users
<1>2. server' \in {Disconnected(server), [Disconnected(server) EXCEPT !.status = "connecting"]}
  BY DEF AfterDisconnect
<1>3. server' \in Server /\ server'.status # "connected"
  BY <1>2, ServerClosed DEF TypeOK, Disconnected, Server
<1>4. \/ pc' = [pc EXCEPT ![a] = "done"] /\ UNCHANGED conn
      \/ pc' = [pc EXCEPT ![a] = "connecting"] /\ StartConnect(a)
  BY DEF AfterDisconnect
<1>5. conn' \in [Conns -> Attempt] /\ ConnInv'
  BY <1>1, <1>4, ConnStarts, ConnKept DEF TypeOK
<1> QED BY <1>1, <1>3, <1>4, <1>5 DEF TypeOK, States, Users

LEMMA DisconnectStep ==
  ASSUME IInv, NEW a \in Admins, NEW reconnects \in BOOLEAN, Disconnect(a, reconnects)
  PROVE  IInv'
<1>1. /\ TypeOK /\ ConnInv /\ a \in Users /\ a \notin Tasks /\ pc[a] = "idle" /\ raced' = TRUE
      /\ again' = [again EXCEPT ![a] = reconnects]
      /\ UNCHANGED <<open, lease, timers, faults, dead>>
  BY ThreadSorts DEF IInv, Users, Disconnect
<1>2. /\ server' \in Server /\ (server'.status = "connected" => UNCHANGED server)
      /\ conn' \in [Conns -> Attempt] /\ ConnInv' /\ pc' \in [Users -> States]
      /\ \A d \in Tasks : pc'[d] = pc[d]
      /\ closing' \in [Admins \union Closers -> 0..MaxConns]
      /\ \A k \in Closers : closing'[k] = closing[k]
  <2>1. CASE server.client # 0
    <3>1. /\ closing' = [closing EXCEPT ![a] = server.client]
          /\ pc' = [pc EXCEPT ![a] = "closing"] /\ UNCHANGED <<server, conn>>
      BY <2>1 DEF Disconnect
    <3>2. ConnInv'
      BY <1>1, <3>1, ConnKept, OthersAreFree
    <3> QED BY <1>1, <3>1, <3>2, ThreadSorts DEF TypeOK, Server, States, Users
  <2>2. CASE server.client = 0
    <3>1. AfterDisconnect(a, reconnects) /\ UNCHANGED closing
      BY <2>2 DEF Disconnect
    <3> QED BY <1>1, <3>1, AfterDisconnects DEF TypeOK
  <2> QED BY <2>1, <2>2
<1>3. TypeOK'
  BY <1>1, <1>2 DEF TypeOK
<1>4. ConnectedIsNotClosed'
  BY <1>1, <1>2 DEF IInv, ConnectedIsNotClosed
<1>5. IdleLeaseIsTimed'
  BY <1>1, <1>2 DEF IInv, IdleLeaseIsTimed, IsIdle
<1>6. RefsHaveHolders' /\ CalmInv'
  <2>1. Holders' = Holders
    BY <1>2, HoldersKept
  <2> QED BY <1>1, <2>1 DEF IInv, RefsHaveHolders, CalmInv
<1> QED BY <1>2, <1>3, <1>4, <1>5, <1>6 DEF IInv

LEMMA ClosedStep ==
  ASSUME IInv, NEW a \in Admins, Closed(a)
  PROVE  IInv'
<1>1. /\ TypeOK /\ ConnInv /\ pc[a] = "closing" /\ AfterDisconnect(a, again[a])
      /\ open' = open \ {closing[a]} /\ closing' = [closing EXCEPT ![a] = 0]
      /\ UNCHANGED <<lease, timers, again, faults, dead, raced>>
  BY DEF IInv, Closed
<1>2. raced
  BY <1>1 DEF IInv, CalmInv
<1>3. /\ server' \in Server /\ server'.status # "connected"
      /\ conn' \in [Conns -> Attempt] /\ ConnInv' /\ pc' \in [Users -> States]
      /\ \A d \in Tasks : pc'[d] = pc[d]
  BY <1>1, AfterDisconnects
<1>4. closing' \in [Admins \union Closers -> 0..MaxConns]
  BY <1>1, LeaseBounds DEF TypeOK
<1>5. TypeOK'
  BY <1>1, <1>3, <1>4 DEF TypeOK
<1>6. ConnectedIsNotClosed' /\ IdleLeaseIsTimed'
  BY <1>1, <1>3, ThreadSorts DEF IInv, ConnectedIsNotClosed, IdleLeaseIsTimed, IsIdle, TypeOK
<1>7. RefsHaveHolders' /\ CalmInv'
  <2>1. Holders' = Holders
    BY <1>3, HoldersKept
  <2> QED BY <1>1, <1>2, <2>1 DEF IInv, RefsHaveHolders, CalmInv
<1> QED BY <1>3, <1>5, <1>6, <1>7 DEF IInv

-----------------------------------------------------------------------------
(* The theorems.                                                            *)

LEMMA InitIInv == Init => IInv
<1> SUFFICES ASSUME Init PROVE IInv
  OBVIOUS
<1>1. /\ server \in Server /\ server.status = "disconnected"
      /\ conn \in [Conns -> Attempt] /\ \A c \in Conns : ~Active(c) /\ conn[c].at \notin {"discover", "listed"}
  BY LeaseBounds DEF Init, Server, Attempt, Active
<1>2. /\ lease \in Lease /\ lease.refs = 0 /\ ~lease.held /\ ~lease.timer /\ timers = 0
      /\ \A t \in Users : pc[t] = "idle"
  BY DEF Init, Lease, NoLease
<1>3. TypeOK
  <2>1. pc \in [Users -> States] /\ closing \in [Admins \union Closers -> 0..MaxConns]
    BY LeaseBounds DEF Init, States
  <2>2. timers \in Nat /\ timers >= One(lease.timer)
    BY <1>2 DEF One
  <2>3. again \in [Admins -> BOOLEAN] /\ open \subseteq Conns /\ dead \subseteq Conns /\ faults \in Nat /\ raced \in BOOLEAN
    BY DEF Init
  <2> QED BY <1>1, <1>2, <2>1, <2>2, <2>3 DEF TypeOK
<1>4. Holders = {}
  BY <1>2 DEF Holders, Users
<1>5. ConnInv /\ ConnectedIsNotClosed /\ IdleLeaseIsTimed
  BY <1>1, <1>2 DEF ConnInv, ConnectedIsNotClosed, IdleLeaseIsTimed, IsIdle
<1>6. RefsHaveHolders /\ CalmInv
  BY <1>1, <1>2, <1>4, FS_EmptySet DEF Init, RefsHaveHolders, CalmInv, IsClosing, Users
<1> QED BY <1>3, <1>5, <1>6 DEF IInv

LEMMA NextIInv == IInv /\ [Next]_vars => IInv'
<1> SUFFICES ASSUME IInv, [Next]_vars PROVE IInv'
  OBVIOUS
<1>1. ASSUME NEW a \in Admins,
             Reload(a) \/ Reconnect(a) \/ Disable(a) \/ Closed(a) \/ ConnectNow(a)
      PROVE  IInv'
  <2>1. (server.status = "connected") \in BOOLEAN
    OBVIOUS
  <2>2. CASE ConnectNow(a)
    BY <2>2, OthersConnect DEF ConnectNow
  <2> QED BY <1>1, <2>1, <2>2, DisconnectStep, ClosedStep DEF Reload, Reconnect, Disable
<1>2. CASE UNCHANGED vars
  <2>1. TypeOK' /\ ConnInv'
    BY <1>2 DEF IInv, TypeOK, ConnInv, Active, vars
  <2>2. ConnectedIsNotClosed' /\ IdleLeaseIsTimed' /\ RefsHaveHolders' /\ CalmInv'
    BY <1>2 DEF IInv, ConnectedIsNotClosed, IdleLeaseIsTimed, IsIdle, RefsHaveHolders, CalmInv,
                Holders, IsClosing, vars
  <2> QED BY <2>1, <2>2 DEF IInv
<1> QED BY <1>1, <1>2, ConnectOkStep, ConnectFailsStep, ListToolsStep,
           DiscoveredStep, DiesStep, AcquireStep,
           PrepareThrowsStep, ReleaseStep, TimerFiresStep, LeaseClosesStep, CompileStep,
           GiveUpStep, CallToolStep DEF Next

\* The inductive invariant: types, the attempts and who awaits them, and what holds of
\* the lease outside the windows.
THEOREM LeasesInvariant == Spec => []IInv
  BY InitIInv, NextIInv, PTL DEF Spec

\* Every variable keeps its type; a lease with a timer or a reference is held, and the
\* timers armed include its own.
THEOREM LeaseTypes == Spec => []TypeOK
<1>1. IInv => TypeOK
  BY DEF IInv
<1> QED BY <1>1, LeasesInvariant, PTL

\* A server called connected has a client, and none that a disconnect has closed: for
\* any number of attempts, turns, disconnects and delegations, and whatever
\* connections the server itself ends meanwhile.
THEOREM ConnectedHasClient == Spec => []ConnectedIsNotClosed
<1>1. IInv => ConnectedIsNotClosed
  BY DEF IInv
<1> QED BY <1>1, LeasesInvariant, PTL

\* The references of the lease never outnumber the delegations that hold it, so none
\* keeps the server connected for nobody.
THEOREM ReferencesHaveHolders == Spec => []RefsHaveHolders
<1>1. IInv => RefsHaveHolders
  BY DEF IInv
<1> QED BY <1>1, LeasesInvariant, PTL

\* A lease without references always has a timer that will look at it, or a disconnect
\* on its way.
THEOREM IdleLeasesAreTimed == Spec => []IdleLeaseIsTimed
<1>1. IInv => IdleLeaseIsTimed
  BY DEF IInv
<1> QED BY <1>1, LeasesInvariant, PTL

\* Outside the three windows no delegation that runs has its client closed, however many
\* delegations share the lease and whatever turns connect meanwhile.
THEOREM LeasesKeepClients == Spec => []LeaseKeepsClient
<1>1. IInv => LeaseKeepsClient
  <2> SUFFICES ASSUME IInv, ~raced, NEW d \in Tasks, pc[d] = "running"
               PROVE  server.client \in open
    BY DEF LeaseKeepsClient
  <2>1. Holders # {} /\ lease.refs = Cardinality(Holders) /\ lease.refs \in Nat
    BY DEF IInv, CalmInv, Holders, TypeOK, Lease
  <2>2. lease.refs > 0
    BY <2>1, FiniteHolders, FS_EmptySet
  <2> QED BY <2>2 DEF IInv, CalmInv, TypeOK
<1> QED BY <1>1, LeasesInvariant, PTL
==============================================================================
