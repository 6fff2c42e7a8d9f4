----------------------------- MODULE McpLeases ------------------------------
(***************************************************************************)
(* Who keeps an MCP server connected: the leases of delegations            *)
(* (acquireMcpLease and releaseMcpLease of core/src/agent/                 *)
(* delegation-runtime.ts), the lazy wake of context-compiler.ts, the       *)
(* reloads and the API, over the connections of mcp/src/manager.ts.        *)
(*                                                                         *)
(* One server. An action goes from one await to the next: opening a        *)
(* connection, discovering its tools and closing a client take time, and   *)
(* everything may run in between. A connection may stay open at the other  *)
(* end after the manager has lost its client: open holds those the manager *)
(* never closed. One may also end at the other end, with the manager none  *)
(* the wiser, since it installs no onclose: dead holds these.              *)
(***************************************************************************)
EXTENDS Integers, FiniteSets

CONSTANTS
  MaxTasks,  \* bound: delegations, numbered in the order they ask for the server
  Turns,     \* turns of an agent that may use it, each once
  Admins,    \* reloads, reconnects and API calls, each once
  Closers,   \* bound: disconnects of expired leases at one time
  MaxConns,  \* bound: connections attempted
  MaxFaults, \* bound: store errors in prepareDelegation
  NoOne      \* stands for no thread


Conns == 1..MaxConns
Tasks == {<<"task", n>> : n \in 1..MaxTasks}
Users == Tasks \union Turns \union Admins

ASSUME LeaseBounds == {MaxTasks, MaxConns, MaxFaults} \subseteq Nat

\* A thread is of one sort, and no thread is "no thread".
ASSUME ThreadSorts ==
  /\ Tasks \intersect (Turns \union Admins) = {}
  /\ Admins \intersect (Turns \union Closers) = {}
  /\ NoOne \notin Users

VARIABLES
  server,  \* MCPServerState: status, client (0 for null) and whether it has tools
  open,    \* connections opened and not closed by disconnectServer
  dead,    \* connections the server has ended, or whose session it has lost
  conn,    \* calls of connectServer: how far, and who awaits them
  lease,   \* the entry of mcpLeases: refs and whether its timer is armed
  timers,  \* idle timers that are armed, those the lease has lost included
  pc,      \* threads
  closing, \* what a disconnectServer under way closes, 0 when none is
  again,   \* whether the thread connects after it has disconnected
  faults,
  raced    \* history: one of the windows of LeaseKeepsClient was met

vars == <<server, open, dead, conn, lease, timers, pc, closing, again, faults, raced>>

NoLease == [held |-> FALSE, refs |-> 0, timer |-> FALSE]
One(b) == IF b THEN 1 ELSE 0

Init ==
  /\ server = [status |-> "disconnected", client |-> 0, tools |-> FALSE]
  /\ open = {} /\ dead = {}
  /\ conn = [c \in Conns |-> [at |-> "none", by |-> NoOne]]
  /\ lease = NoLease /\ timers = 0
  /\ pc = [t \in Users |-> "idle"]
  /\ closing = [t \in Admins \union Closers |-> 0]
  /\ again = [a \in Admins |-> FALSE]
  /\ faults = 0
  /\ raced = FALSE

-----------------------------------------------------------------------------
(* connectServer and disconnectServer.                                      *)

Holders == {d \in Tasks : pc[d] \in {"running", "lost"}}
IsClosing == \E t \in Admins \union Closers : closing[t] # 0

\* What the thread does when connectServer returns: a delegation records a new
\* lease, a turn offers the tools there are.
NewLease == [held |-> TRUE, refs |-> 1, timer |-> FALSE]

Returned(t, tools) ==
  IF t \in Tasks THEN "running"
  ELSE IF t \in Admins THEN "done"
  ELSE IF tools THEN "offers" ELSE "cut"

\* The status is looked at for "connected" only: another attempt may be under way.
StartConnect(t) ==
  \E c \in Conns :
    /\ conn[c].at = "none" /\ \A e \in 1..(c - 1) : conn[e].at # "none"
    /\ conn' = [conn EXCEPT ![c] = [at |-> "connect", by |-> t]]

Connect(t) ==
  \/ /\ server.status = "connected"
     /\ pc' = [pc EXCEPT ![t] = Returned(t, server.tools)]
     /\ lease' = IF t \in Tasks THEN NewLease ELSE lease
     /\ UNCHANGED <<server, conn, timers>>
  \/ /\ server.status # "connected"
     /\ StartConnect(t)
     /\ server' = [server EXCEPT !.status = "connecting"]
     /\ pc' = [pc EXCEPT ![t] = "connecting"]
     /\ UNCHANGED <<lease, timers>>

\* client.connect succeeds: the new client replaces whatever was there.
ConnectOk(c) ==
  /\ conn[c].at = "connect"
  /\ conn' = [conn EXCEPT ![c].at = "discover"]
  /\ open' = open \union {c}
  /\ server' = [server EXCEPT !.status = "connected", !.client = c]
  /\ UNCHANGED <<lease, timers, pc, closing, again, faults, dead, raced>>

ConnectFails(c) ==
  /\ conn[c].at = "connect"
  /\ conn' = [conn EXCEPT ![c].at = "over"]
  /\ server' = [server EXCEPT !.status = "error"]
  /\ pc' = IF conn[c].by = NoOne THEN pc
           ELSE [pc EXCEPT ![conn[c].by] =
                   IF conn[c].by \in Tasks THEN "failed" ELSE IF conn[c].by \in Turns THEN "cut" ELSE "done"]
  /\ UNCHANGED <<open, lease, timers, closing, again, faults, dead, raced>>

\* The first await of discoverCapabilities: the tools are those listed, or those
\* of before when the listing fails, as it does on a connection that has ended.
ListTools(c) ==
  /\ conn[c].at = "discover"
  /\ conn' = [conn EXCEPT ![c].at = "listed"]
  /\ server' \in {server, [server EXCEPT !.tools = @ \/ c \in open \ dead]}
  /\ UNCHANGED <<open, lease, timers, pc, closing, again, faults, dead, raced>>

\* The resources and prompts are listed too, or not, and connectServer returns.
Discovered(c) ==
  LET t == conn[c].by
  IN /\ conn[c].at = "listed"
     /\ conn' = [conn EXCEPT ![c].at = "over"]
     /\ pc' = IF t = NoOne THEN pc ELSE [pc EXCEPT ![t] = Returned(t, server.tools)]
     /\ lease' = IF t \in Tasks THEN NewLease ELSE lease
     /\ UNCHANGED <<server, open, timers, closing, again, faults, dead, raced>>

\* The server dies, restarts or drops the connection: the status stays "connected".
Dies(c) ==
  /\ c \in open \ dead
  /\ dead' = dead \union {c}
  /\ UNCHANGED <<server, open, conn, lease, timers, pc, closing, again, faults, raced>>

\* The end of disconnectServer. The tools stay. StaysConnected is a mistake.
StaysConnected(s) == [s EXCEPT !.client = 0]
Disconnected(s) == [s EXCEPT !.status = "disconnected", !.client = 0]

-----------------------------------------------------------------------------
(* Delegations: prepareDelegation and its release.                          *)

\* The first holder connects; the next one takes the lease there is. TakenUncounted
\* is a mistake.
TakenUncounted(l) == [l EXCEPT !.timer = FALSE]
Taken(l) == [l EXCEPT !.refs = @ + 1, !.timer = FALSE]

Acquire(d) ==
  /\ pc[d] = "idle" /\ \A e \in Tasks : e[2] < d[2] => pc[e] # "idle"
  /\ IF lease.held
     THEN /\ lease' = Taken(lease)
          /\ timers' = timers - One(lease.timer)
          /\ pc' = [pc EXCEPT ![d] = "running"]
          /\ UNCHANGED <<server, conn>>
     ELSE Connect(d)
  /\ raced' = (raced \/ IsClosing \/ \E e \in Tasks \ {d} : pc[e] = "connecting")
  /\ UNCHANGED <<open, closing, again, faults, dead>>

\* What comes after the leases throws: nobody gives them back.
PrepareThrows(d) ==
  /\ pc[d] = "running" /\ faults < MaxFaults
  /\ faults' = faults + 1
  /\ pc' = [pc EXCEPT ![d] = "lost"]
  /\ UNCHANGED <<server, open, conn, lease, timers, closing, again, raced, dead>>

\* One reference less, never below none, and a timer after the last.
\* ReleasedAboveOne keeps one reference and ReleasedEarly looks at the count too
\* early.
ReleasedAboveOne(l) == [l EXCEPT !.refs = IF @ > 1 THEN @ - 1 ELSE 1, !.timer = @]
ReleasedEarly(l) == [l EXCEPT !.refs = IF @ > 0 THEN @ - 1 ELSE 0, !.timer = @ \/ l.refs = 0]
Released(l) == [l EXCEPT !.refs = IF @ > 0 THEN @ - 1 ELSE 0, !.timer = @ \/ l.refs <= 1]

Release(d) ==
  /\ pc[d] = "running"
  /\ pc' = [pc EXCEPT ![d] = "ended"]
  /\ IF lease.held
     THEN lease' = Released(lease) /\ timers' = timers + One(lease'.refs = 0 /\ lease'.timer)
     ELSE UNCHANGED <<lease, timers>>
  /\ UNCHANGED <<server, open, conn, closing, again, faults, dead, raced>>

\* A timer, that of the lease or one it has lost, after MCP_IDLE_TTL_MS. It looks
\* at the count before it disconnects.
IsIdle(l) == l.held /\ l.refs = 0

TimerFires(k) ==
  /\ closing[k] = 0 /\ timers > 0
  /\ timers' = timers - 1
  /\ \E own \in BOOLEAN :
       /\ IF own THEN lease.timer ELSE timers > One(lease.timer)
       /\ IF IsIdle(lease) /\ server.client = 0
          THEN lease' = NoLease /\ server' = Disconnected(server)
          ELSE lease' = [lease EXCEPT !.timer = @ /\ ~own] /\ UNCHANGED server
  /\ closing' = IF IsIdle(lease) THEN [closing EXCEPT ![k] = server.client] ELSE closing
  /\ UNCHANGED <<open, conn, pc, again, faults, dead, raced>>

\* disconnectServer returns; its finally removes the lease, whoever holds it now.
\* KeepsLease is a mistake.
KeepsLease(l) == l
AfterClose(l) == NoLease

LeaseCloses(k) ==
  /\ closing[k] # 0
  /\ open' = open \ {closing[k]}
  /\ server' = Disconnected(server)
  /\ closing' = [closing EXCEPT ![k] = 0]
  /\ lease' = AfterClose(lease)
  /\ UNCHANGED <<conn, timers, pc, again, faults, dead, raced>>

-----------------------------------------------------------------------------
(* Turns: the lazy wake of STEP-3c and the calls of its executors.          *)

\* A server with tools counts as awake.
Compile(t) ==
  /\ pc[t] = "idle"
  /\ IF server.tools
     THEN pc' = [pc EXCEPT ![t] = "offers"] /\ UNCHANGED <<server, conn, lease, timers>>
     ELSE Connect(t)
  /\ UNCHANGED <<open, closing, again, faults, dead, raced>>

\* MCP_LAZY_CONNECT_TIMEOUT_MS: the turn goes on, the attempt too.
GiveUp(t) ==
  /\ pc[t] = "connecting"
  /\ pc' = [pc EXCEPT ![t] = "cut"]
  /\ conn' = [c \in Conns |-> IF conn[c].by = t THEN [conn[c] EXCEPT !.by = NoOne] ELSE conn[c]]
  /\ UNCHANGED <<server, open, lease, timers, closing, again, faults, dead, raced>>

\* callTool: an error when there is no client, and one from a client whose
\* connection has ended.
CallTool(t) ==
  /\ pc[t] = "offers"
  /\ pc' = [pc EXCEPT ![t] = IF server.client = 0 THEN "refused"
                            ELSE IF server.client \in dead THEN "failed" ELSE "served"]
  /\ UNCHANGED <<server, open, conn, lease, timers, closing, again, faults, dead, raced>>

-----------------------------------------------------------------------------
(* Reloads, reconnects and the API, which know nothing of leases.           *)

\* What disconnectServer does once the client, if any, is closed, and the connect
\* that its caller makes of it.
AfterDisconnect(a, reconnects) ==
  IF reconnects
  THEN /\ StartConnect(a)
       /\ server' = [Disconnected(server) EXCEPT !.status = "connecting"]
       /\ pc' = [pc EXCEPT ![a] = "connecting"]
  ELSE /\ server' = Disconnected(server)
       /\ pc' = [pc EXCEPT ![a] = "done"]
       /\ UNCHANGED conn

Disconnect(a, reconnects) ==
  /\ pc[a] = "idle" /\ raced' = TRUE
  /\ again' = [again EXCEPT ![a] = reconnects]
  /\ IF server.client # 0
     THEN /\ closing' = [closing EXCEPT ![a] = server.client]
          /\ pc' = [pc EXCEPT ![a] = "closing"]
          /\ UNCHANGED <<server, conn>>
     ELSE AfterDisconnect(a, reconnects) /\ UNCHANGED closing
  /\ UNCHANGED <<open, lease, timers, faults, dead>>

\* updateConfig with another configuration: it connects if it was connected.
Reload(a) == Disconnect(a, server.status = "connected")

\* callTool of a delegation or a turn, after the session error of an old server whose
\* connection has ended: reconnectServer, whoever has reconnected meanwhile.
Reconnect(a) ==
  /\ dead # {}
  /\ \E t \in Tasks \union Turns : pc[t] \in {"running", "offers", "failed"}
  /\ Disconnect(a, TRUE)

\* The API disconnects, or the server is disabled or removed.
Disable(a) == Disconnect(a, FALSE)

Closed(a) ==
  /\ pc[a] = "closing"
  /\ open' = open \ {closing[a]}
  /\ closing' = [closing EXCEPT ![a] = 0]
  /\ AfterDisconnect(a, again[a])
  /\ UNCHANGED <<lease, timers, again, faults, dead, raced>>

\* A new server, and the API: connectServer.
ConnectNow(a) ==
  /\ pc[a] = "idle" /\ Connect(a)
  /\ UNCHANGED <<open, closing, again, faults, dead, raced>>

Next ==
  \/ \E c \in Conns : ConnectOk(c) \/ ConnectFails(c) \/ ListTools(c) \/ Discovered(c) \/ Dies(c)
  \/ \E d \in Tasks : Acquire(d) \/ PrepareThrows(d) \/ Release(d)
  \/ \E k \in Closers : TimerFires(k) \/ LeaseCloses(k)
  \/ \E t \in Turns : Compile(t) \/ GiveUp(t) \/ CallTool(t)
  \/ \E a \in Admins : Reload(a) \/ Reconnect(a) \/ Disable(a) \/ Closed(a) \/ ConnectNow(a)

\* Timers fire and clients close. Connecting may take for ever.
Fairness ==
  /\ WF_vars(\E k \in Closers : TimerFires(k))
  /\ \A k \in Closers : WF_vars(LeaseCloses(k))

Spec == Init /\ [][Next]_vars /\ Fairness

-----------------------------------------------------------------------------
\* Every variable keeps its type, a lease that has a timer or a holder is held, and
\* the timer it has is one of those armed.
Server == [status : {"disconnected", "connecting", "connected", "error"},
           client : 0..MaxConns, tools : BOOLEAN]
Attempt == [at : {"none", "connect", "discover", "listed", "over"}, by : Users \union {NoOne}]
Lease == [held : BOOLEAN, refs : Nat, timer : BOOLEAN]
States == {"idle", "connecting", "running", "lost", "ended", "failed",
           "offers", "cut", "refused", "served", "closing", "done"}
TypeOK ==
  /\ server \in Server /\ open \subseteq Conns /\ dead \subseteq Conns
  /\ conn \in [Conns -> Attempt]
  /\ lease \in Lease /\ (lease.timer \/ lease.refs > 0 => lease.held)
  /\ timers \in Nat /\ timers >= One(lease.timer)
  /\ pc \in [Users -> States]
  /\ closing \in [Admins \union Closers -> 0..MaxConns]
  /\ again \in [Admins -> BOOLEAN]
  /\ faults \in Nat /\ raced \in BOOLEAN

\* A lease counts no more holders than there are: those that run and those whose
\* preparation failed after it took the lease. More, and the server would stay
\* connected for nobody.
RefsHaveHolders == lease.refs <= Cardinality(Holders)

\* A lease nobody counts on is about to end: a timer is armed or its disconnect is
\* under way.
IdleLeaseIsTimed ==
  IsIdle(lease) => timers > 0 \/ \E k \in Closers : closing[k] # 0

\* And it does end, or is taken again.
IdleLeaseEnds == IsIdle(lease) ~> ~IsIdle(lease)

\* What the manager calls connected has a client, and none that a disconnect has
\* closed, however connects, failures and disconnects overlap. (That client may be
\* dead: only a server that ends the connection by itself goes unnoticed.)
ConnectedIsNotClosed == server.status = "connected" => server.client \in open

\* Nobody in the gateway takes the client from under a delegation that runs, outside
\* the windows the leases do not close: a first lease taken while another delegation
\* is connecting, a lease taken while the last one closes, and a disconnect that asks
\* no lease. (The server may still end the connection.)
LeaseKeepsClient == raced \/ \A d \in Tasks : pc[d] = "running" => server.client \in open

\* context-compiler.ts:263 "Connect on demand so the coordinator isn't permanently
\* cut off": a turn that is offered the tools of the server finds it connected. The
\* code does not promise it and no run checks it: tools outlive their client.
OffersAreConnected ==
  [][\A t \in Turns : pc[t] # "offers" /\ pc'[t] = "offers" => server'.client # 0]_vars
=============================================================================
