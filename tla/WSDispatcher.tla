---------------------------- MODULE WSDispatcher -----------------------------
(***************************************************************************)
(* The WebSocket path (core/ws_server.py) and the exec-servers at the other *)
(* end of it (execution_server/ws_client.py, task_runner.py), composed with *)
(* the CentralDispatcher: a row whose context selects a server is forwarded *)
(* over that server's connection and its result awaited, or parked until    *)
(* the server reconnects.                                                   *)
(*                                                                          *)
(* forward_task, the connection handlers and finalize_task run on one       *)
(* asyncio loop: between two awaits they exclude each other (LoopFree), but *)
(* not the consumer, the workers or the task API.  TCP connections break at *)
(* any time, each end notices on its own, frames on the way are lost.       *)
(***************************************************************************)
EXTENDS CentralDispatcher

CONSTANTS
  Sockets,      \* bound: the connections ever made, numbered in that order
  SocketServer  \* the exec-server that makes each of them

ASSUME SocketsAssumption ==
  /\ Sockets \subseteq Nat \ {0}
  /\ SocketServer \in [Sockets -> Servers]

VARIABLES
  connections,  \* WSDispatcher.connections: socket by server, 0 for none
  pending,      \* .pending: the row whose future awaits the task, 0 for none
  taskServer,   \* .task_server: server by task, or None
  via,          \* the socket forward_task captured for a row (its local ws)
  phase,        \* of the handler of each socket (see Phases)
  open,         \* sockets over which frames pass
  downlink,     \* task frames on their way to the server, by socket
  uplink,       \* task_result frames on their way to the backend, by socket
  client,       \* WSClient._ws of each exec-server, 0 for None
  work          \* number of runs of a task in the TaskRunner of a server

backVars == <<connections, pending, taskServer, via, phase>>
netVars  == <<open, downlink, uplink>>
exVars   == <<client, work>>
wsVars   == <<backVars, netVars, exVars>>
vars     == <<cdVars, wsVars>>

\* connecting: no register frame handled yet; acking: the slot is taken and
\* the ack is being sent; serving: the handler knows its server_id.
Phases == {"unused", "connecting", "acking", "serving", "ended"}

\* The stages in which a coroutine has control of the loop.
LoopStages == {"sending", "succeeded", "errored"} \cup Reporting
LoopFree   == \A r \in Rows : ~IsLocal(r) => stage[r] \notin LoopStages

KeepEntries(r) ==
  /\ UNCHANGED <<pending, taskServer>>
  /\ via' = [via EXCEPT ![r] = 0]

\* Pop the task's entries; the coroutine's own ws is of no use any more.
Forget(r) ==
  /\ pending' = [pending EXCEPT ![RowTask[r]] = 0]
  /\ taskServer' = [taskServer EXCEPT ![RowTask[r]] = None]
  /\ via' = [via EXCEPT ![r] = 0]

-----------------------------------------------------------------------------
(* _dispatch_one, on a worker: is_connected takes and drops the lock, and  *)
(* the job is scheduled on the loop, or deferred in a later step.          *)
Route(r) ==
  /\ stage[r] = "queued" /\ ~IsLocal(r) /\ FreeWorker
  /\ SetStage(r, IF connections[RowServer[r]] # 0 THEN "scheduled" ELSE "routing")
  /\ UNCHANGED <<dbVars, up, batch, inFlight, faults, wsVars>>

Defer(r) ==
  /\ stage[r] = "routing"
  /\ SetStage(r, "parked")
  /\ UNCHANGED <<dbVars, up, batch, inFlight, faults, wsVars>>

(* forward_task, up to mark_as_started: skip a terminal task, register the *)
(* future, park again if the connection is gone.  An error of the read     *)
(* ends the coroutine, and the job with it.                                *)
ForwardBegin(r) ==
  LET t == RowTask[r]
      k == connections[RowServer[r]]
  IN  /\ stage[r] = "scheduled" /\ LoopFree
      /\ \/ /\ AlreadyDone(r) /\ DbOk
            /\ SetStage(r, "acking")
            /\ UNCHANGED <<pending, taskServer, via>>
         \/ /\ ~AlreadyDone(r) /\ DbOk
            /\ k # 0
            /\ SetStage(r, "sending")
            /\ pending' = [pending EXCEPT ![t] = r]
            /\ taskServer' = [taskServer EXCEPT ![t] = RowServer[r]]
            /\ via' = [via EXCEPT ![r] = k]
         \/ /\ ~AlreadyDone(r) /\ DbOk
            /\ k = 0
            /\ SetStage(r, "parked")
            /\ Forget(r)
         \/ /\ DbRaise
            /\ SetStage(r, "dead")
            /\ UNCHANGED <<pending, taskServer, via>>
      /\ UNCHANGED <<dbVars, up, batch, inFlight, connections, phase, netVars, exVars>>

\* mark_as_started and the send.  The frame passes if the socket is open; on
\* a broken socket the send raises, or succeeds in vain as long as the loop
\* has not noticed.  When either raises, the task is parked.
ForwardSend(r) ==
  LET t == RowTask[r]
      k == via[r]
      started == taskState' = [taskState EXCEPT ![t] = "running"]
  IN  /\ stage[r] = "sending"
      /\ \/ /\ started /\ DbOk
            /\ k \in open \/ phase[k] # "ended"
            /\ SetStage(r, "awaiting")
            /\ downlink' = [downlink EXCEPT ![k] = IF k \in open THEN @ \cup {t} ELSE @]
            /\ UNCHANGED <<pending, taskServer, via>>
         \/ /\ started /\ DbOk
            /\ k \notin open
            /\ SetStage(r, "parked") /\ Forget(r)
            /\ UNCHANGED downlink
         \/ /\ DbRaise
            /\ SetStage(r, "parked") /\ Forget(r)
            /\ UNCHANGED <<taskState, downlink>>
      /\ UNCHANGED <<written, acked, replies, up, batch, inFlight, connections,
                     phase, open, uplink, exVars>>

\* The future failed with ConnectionLost: the coroutine wakes up and parks.
ForwardLost(r) ==
  /\ stage[r] = "lost" /\ LoopFree
  /\ SetStage(r, "parked")
  /\ Forget(r)
  /\ UNCHANGED <<dbVars, up, batch, inFlight, faults, connections, phase,
                 netVars, exVars>>

\* The future has a result: the coroutine wakes up and goes on to finalize.
ForwardResume(r) ==
  /\ stage[r] = "resolved" /\ LoopFree
  /\ \E outcome \in {"succeeded", "errored"} : SetStage(r, outcome)
  /\ Forget(r)
  /\ UNCHANGED <<dbVars, up, batch, inFlight, faults, connections, phase,
                 netVars, exVars>>

-----------------------------------------------------------------------------
(* The connection handlers, on the loop.                                   *)

\* _on_register up to the ack: take the slot, kick the socket that had it.
Register(k) ==
  LET s   == SocketServer[k]
      old == connections[s]
  IN  /\ phase[k] = "connecting" /\ LoopFree
      /\ phase' = [phase EXCEPT ![k] = "acking"]
      /\ connections' = [connections EXCEPT ![s] = k]
      /\ open' = open \ {old}
      /\ UNCHANGED <<cdVars, pending, taskServer, via, downlink, uplink, exVars>>

\* The rows parked for a server, and the rows drained by _drain_deferred.
Parked(s) == {r \in Rows : RowServer[r] = s /\ stage[r] = "parked"}

\* The ack is sent and the parked tasks are scheduled again.
RegisterAck(k) ==
  /\ phase[k] = "acking" /\ LoopFree
  /\ phase' = [phase EXCEPT ![k] = "serving"]
  /\ stage' = [r \in Rows |-> IF r \in Parked(SocketServer[k])
                              THEN "scheduled" ELSE stage[r]]
  /\ UNCHANGED <<dbVars, up, batch, inFlight, faults, connections, pending,
                 taskServer, via, netVars, exVars>>

\* The ack or the upsert raises: the handler ends before it has learned its
\* server_id, so nothing is drained and _on_disconnect is not called.
RegisterFails(k) ==
  /\ phase[k] = "acking" /\ LoopFree
  /\ (k \notin open /\ DbOk) \/ DbRaise
  /\ phase' = [phase EXCEPT ![k] = "ended"]
  /\ open' = open \ {k}
  /\ uplink' = [uplink EXCEPT ![k] = {}]
  /\ downlink' = [downlink EXCEPT ![k] = {}]
  /\ UNCHANGED <<dbVars, procVars, connections, pending, taskServer, via, exVars>>

AwaitsNot(r) == r # 0 /\ stage[r] # "awaiting"
Awaits(r)    == r # 0 /\ stage[r] = "awaiting"

\* _on_task_result: resolve the future that awaits the task, if there is one,
\* whichever server answers.
TaskResult(k, t) ==
  LET r == pending[t]
  IN  /\ phase[k] = "serving" /\ LoopFree
      /\ t \in uplink[k]
      /\ uplink' = [uplink EXCEPT ![k] = @ \ {t}]
      /\ taskServer' = [taskServer EXCEPT ![t] = None]
      /\ IF Awaits(r)
         THEN SetStage(r, "resolved") /\ pending' = [pending EXCEPT ![t] = 0]
         ELSE UNCHANGED <<stage, pending>>
      /\ UNCHANGED <<dbVars, up, batch, inFlight, faults, connections, via, phase,
                     open, downlink, exVars>>

KnowsServer(k) == phase[k] = "serving"
OwnsSlot(k)    == phase[k] = "serving" /\ connections[SocketServer[k]] = k

\* The loop notices that a socket is broken and its handler ends.  If the
\* socket still owns its server's slot, _on_disconnect frees the slot and
\* fails the futures of the tasks sent to that server.
HandlerEnds(k) ==
  LET s == SocketServer[k]
  IN  /\ phase[k] \in {"connecting", "serving"} /\ k \notin open /\ LoopFree
      /\ phase' = [phase EXCEPT ![k] = "ended"]
      /\ uplink' = [uplink EXCEPT ![k] = {}]
      /\ connections' = [connections EXCEPT ![s] = IF OwnsSlot(k) THEN 0 ELSE @]
      /\ stage' = [r \in Rows |->
                     IF /\ OwnsSlot(k) /\ stage[r] = "awaiting"
                        /\ pending[RowTask[r]] = r /\ taskServer[RowTask[r]] = s
                     THEN "lost" ELSE stage[r]]
      /\ UNCHANGED <<dbVars, up, batch, inFlight, faults, pending, taskServer, via,
                     open, downlink, exVars>>

-----------------------------------------------------------------------------
(* The network and the exec-servers (WSClient, TaskRunner).                *)

\* A connection breaks: the task frames on it are lost, and any of the
\* result frames that the backend has not buffered yet.
LinkDown(k) ==
  /\ k \in open
  /\ open' = open \ {k}
  /\ downlink' = [downlink EXCEPT ![k] = {}]
  /\ \E kept \in SUBSET uplink[k] : uplink' = [uplink EXCEPT ![k] = kept]
  /\ UNCHANGED <<cdVars, backVars, exVars>>

\* The client connects (after its backoff) and sends its register frame.
Connect(k) ==
  LET s == SocketServer[k]
  IN  /\ up /\ client[s] = 0 /\ phase[k] = "unused"
      /\ \A j \in Sockets : j < k /\ SocketServer[j] = s => phase[j] # "unused"
      /\ client' = [client EXCEPT ![s] = k]
      /\ phase' = [phase EXCEPT ![k] = "connecting"]
      /\ open' = open \cup {k}
      /\ UNCHANGED <<cdVars, connections, pending, taskServer, via, downlink,
                     uplink, work>>

\* The client notices that its connection is gone.
ClientNotices(s) ==
  /\ client[s] # 0 /\ client[s] \notin open
  /\ client' = [client EXCEPT ![s] = 0]
  /\ UNCHANGED <<cdVars, backVars, netVars, work>>

\* _recv_loop hands a task frame to the TaskRunner.
Receive(s, t) ==
  LET k == client[s]
  IN  /\ k # 0 /\ t \in downlink[k]
      /\ downlink' = [downlink EXCEPT ![k] = @ \ {t}]
      /\ work' = [work EXCEPT ![s][t] = @ + 1]
      /\ UNCHANGED <<cdVars, backVars, open, uplink, client>>

\* A run ends; its result goes out on whatever connection the client has
\* now, and nowhere if it has none.
FinishWork(s, t) ==
  LET k == client[s]
  IN  /\ work[s][t] > 0
      /\ work' = [work EXCEPT ![s][t] = @ - 1]
      /\ uplink' = IF k # 0 /\ k \in open
                   THEN [uplink EXCEPT ![k] = @ \cup {t}] ELSE uplink
      /\ UNCHANGED <<cdVars, backVars, open, downlink, client>>

\* The exec-server process is restarted: its runs are gone.
ServerRestart(s) ==
  LET k == client[s]
  IN  /\ k # 0 \/ \E t \in Tasks : work[s][t] > 0
      /\ work' = [work EXCEPT ![s] = [t \in Tasks |-> 0]]
      /\ client' = [client EXCEPT ![s] = 0]
      /\ open' = open \ {k}
      /\ downlink' = IF k # 0 THEN [downlink EXCEPT ![k] = {}] ELSE downlink
      /\ UNCHANGED <<cdVars, backVars, uplink>>

\* The backend process dies with every connection.
BackendCrash ==
  /\ Crash
  /\ connections' = [s \in Servers |-> 0]
  /\ pending' = [t \in Tasks |-> 0]
  /\ taskServer' = [t \in Tasks |-> None]
  /\ via' = [r \in Rows |-> 0]
  /\ phase' = [k \in Sockets |-> IF phase[k] = "unused" THEN "unused" ELSE "ended"]
  /\ open' = {}
  /\ downlink' = [k \in Sockets |-> {}]
  /\ uplink' = [k \in Sockets |-> {}]
  /\ UNCHANGED exVars

-----------------------------------------------------------------------------
Init ==
  /\ CDInit
  /\ connections = [s \in Servers |-> 0]
  /\ pending = [t \in Tasks |-> 0]
  /\ taskServer = [t \in Tasks |-> None]
  /\ via = [r \in Rows |-> 0]
  /\ phase = [k \in Sockets |-> "unused"]
  /\ open = {}
  /\ downlink = [k \in Sockets |-> {}]
  /\ uplink = [k \in Sockets |-> {}]
  /\ client = [s \in Servers |-> 0]
  /\ work = [s \in Servers |-> [t \in Tasks |-> 0]]

DispatcherStep ==
  \/ \E r \in Rows : WriteRow(r) \/ LocalJob(r) \/ ReportJob(r)
  \/ Consumer
  \/ \E t \in Tasks : Cancel(t)
  \/ Restart

ForwardJob(r) == ForwardBegin(r) \/ ForwardSend(r) \/ ForwardLost(r) \/ ForwardResume(r)

Handler(k) ==
  \/ Register(k) \/ RegisterAck(k) \/ RegisterFails(k) \/ HandlerEnds(k)
  \/ \E t \in Tasks : TaskResult(k, t)

ExecServer(s) ==
  \/ ClientNotices(s) \/ ServerRestart(s)
  \/ \E t \in Tasks : Receive(s, t) \/ FinishWork(s, t)

Next ==
  \/ DispatcherStep /\ UNCHANGED wsVars
  \/ \E r \in Rows : Route(r) \/ Defer(r) \/ ForwardJob(r)
  \/ \E k \in Sockets : Handler(k) \/ LinkDown(k) \/ Connect(k)
  \/ \E s \in Servers : ExecServer(s)
  \/ BackendCrash

Spec == Init /\ [][Next]_vars

\* The rows whose task runs in-process; only the others are routed.
LocalRows == {r \in Rows : IsLocal(r)}

\* Threads, coroutines that are ready, runs and frames on an open connection
\* make progress; asyncio and the pool serve their ready queues in FIFO order,
\* so what is ready again and again gets its turn.  Nothing makes an
\* exec-server connect, a link break or a process crash.
Fairness ==
  /\ WF_vars(Consumer /\ UNCHANGED wsVars)
  /\ WF_vars(Restart /\ UNCHANGED wsVars)
  /\ \A r \in Rows : WF_vars(ReportJob(r) /\ UNCHANGED wsVars)
  /\ \A r \in LocalRows :
       /\ SF_vars(BeginLocal(r) /\ UNCHANGED wsVars)
       /\ WF_vars((StartLocal(r) \/ FinishLocal(r)) /\ UNCHANGED wsVars)
  /\ \A r \in Rows \ LocalRows :
       /\ SF_vars(Route(r))
       /\ WF_vars(Defer(r))
       /\ SF_vars(ForwardJob(r))
  /\ \A k \in Sockets :
       /\ SF_vars(Register(k))
       /\ SF_vars(RegisterAck(k))
       /\ SF_vars(HandlerEnds(k))
       /\ SF_vars(\E t \in Tasks : TaskResult(k, t))
  /\ \A s \in Servers :
       /\ WF_vars(ClientNotices(s))
       /\ \A t \in Tasks : WF_vars(Receive(s, t)) /\ WF_vars(FinishWork(s, t))

FairSpec == Spec /\ Fairness

-----------------------------------------------------------------------------
TypeOK ==
  /\ CDTypeOK
  /\ connections \in [Servers -> Sockets \cup {0}]
  /\ pending \in [Tasks -> Rows \cup {0}]
  /\ taskServer \in [Tasks -> Servers \cup {None}]
  /\ via \in [Rows -> Sockets \cup {0}]
  /\ phase \in [Sockets -> Phases]
  /\ open \subseteq Sockets
  /\ downlink \in [Sockets -> SUBSET Tasks]
  /\ uplink \in [Sockets -> SUBSET Tasks]
  /\ client \in [Servers -> Sockets \cup {0}]
  /\ work \in [Servers -> [Tasks -> Nat]]

\* Reply correlation: the future of a task belongs to the one coroutine that
\* awaits it, and as long as that coroutine waits both maps lead a result or
\* a disconnect to it.  "forward_task holds its own reference and its later
\* pop is idempotent": the pop never removes another forward's entries.
FutureOwned ==
  /\ \A t \in Tasks : pending[t] # 0 =>
       RowTask[pending[t]] = t /\ stage[pending[t]] \in {"sending", "awaiting", "lost"}
  /\ \A r \in Rows : stage[r] \in {"sending", "awaiting"} =>
       pending[RowTask[r]] = r /\ taskServer[RowTask[r]] = RowServer[r]

\* A connection that lives and is being served is the one the registry leads
\* to: a takeover leaves no exec-server connected but unreachable, and the
\* disconnect handler of the socket it kicked cannot evict the new one.
ServedIsReachable ==
  \A k \in Sockets :
    phase[k] = "serving" /\ k \in open => connections[SocketServer[k]] = k

\* An exec-server the backend can talk to, both ends agreeing on the socket.
Online(s) ==
  LET k == connections[s]
  IN  k # 0 /\ k \in open /\ phase[k] = "serving" /\ client[s] = k

\* "an in-flight task is deferred and re-dispatched on reconnect - no silent
\* loss": a forward over a connection whose registration was complete does
\* not wait for ever once its server is connected for good.
SentWhenServed(r) == stage[r] = "awaiting" => phase[via[r]] \notin {"connecting", "acking"}
AwaitedComesBack ==
  \A r \in Rows : ~IsLocal(r) =>
    ([]SentWhenServed(r) /\ <>[]Online(RowServer[r]) => []<>(stage[r] # "awaiting"))

\* "if no server is selected, execution falls back to the backend": a task
\* without a server is executed, whatever the exec-servers do, once its row is
\* among the oldest unacked ones that a poll returns.  It may never get there:
\* the rows parked for servers that stay away are unacked too, and PollLimit
\* of them hide every later row.
LocalRowsAcked ==
  \A r \in Rows : IsLocal(r) => ((r \in FirstUnacked) ~> (r \in acked))

\* A task routed while its server is connected, and stays so, is executed
\* there and acked: no step of the forward, the run and the result strands it.
OnlineServerExecutes ==
  \A r \in Rows : ~IsLocal(r) =>
    [](stage[r] = "queued" /\ []Online(RowServer[r]) => <>(r \in acked))
=============================================================================
