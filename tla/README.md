# A TLA+ verification of agent-server-platform

The platform decomposes a goal into subtasks, writes them as *dispatch rows* of
the `messages` table, and executes each one in the backend process or on an
exec-server connected over WebSocket; scenarios are started, stopped and edited
from two processes. This project models the parts where
threads, coroutines, sockets, crashes and a shared database meet, checks them with
TLC on small instances, and proves the main results with TLAPS for every value
of the constants. Paths below are relative to the repository.

## Inventory

| Component | Source | State | Operations | Hard behaviour | What makes it correct |
|---|---|---|---|---|---|
| CentralDispatcher | `src/core/central_dispatcher.py` | unacked rows, `_in_flight`, worker pool | poll, submit, run locally, finalize, reply, ack | stale polls, two rows of one task, crash between two transactions, errors swallowed one by one | one job per task; ack only after the task is terminal; at most one reply; every row acked |
| WSDispatcher | `src/core/ws_server.py` | `connections`, `pending`, `task_server`, `deferred` | forward, defer, register, task result, disconnect, drain | worker threads against the asyncio loop, takeover of a server id, late and duplicate results | a result reaches the coroutine that waits; the registry leads to the live socket; nothing parked or awaited for ever |
| Exec-server | `src/execution_server/` | `WSClient._ws`, runs of the TaskRunner | connect, register, receive, run, answer | reconnect with a run under way, results with no connection | as seen by the dispatcher |
| Message queue | `src/core/message_queue.py` | `messages`, `consumer_offsets` | dispatch_subtasks, collect_replies | replies of an earlier wave, timeout | a wave gets its own replies |
| SchedulingAgent | `src/core/agents/scheduling_agent.py` | subtasks, waves, failed set | decompose, build waves, dispatch, collect, propagate failure | wave timeout, ids that are not unique, cyclic dependencies, same goal twice | a task starts after its predecessors answered; dependents of a failed task do not run |
| ScenarioManager, BaseScenario | `src/scenarios/` | scenario rows, `active_scenarios`, running threads | create, update, start, stop, release, recover orphans | check-then-act in start, two processes, stop while the thread runs, recovery while another process works | who says running has a thread; nothing of a run outlives it; no open task without a worker |
| AgentManager | `src/agents/agent_manager.py` | agent runs | submit, execute | runs taken away while they execute | runs and tasks end with their scenario |
| Watchdog | `src/core/watchdog.py` | list of overdue tasks | scan, retry, give up | stale list, stale row | a retried task is executed again, never twice at a time |
| TaskRepository | `src/database/repositories/task_repository.py` | `tasks` | mark_as_*, update state, retry count | read-modify-write of whole rows | no lost update |
| State machine | `src/core/state_machine.py` | shared current state | initialize, transition | one shared object for all tasks | terminal states are terminal |
| EventBus | `src/core/event_bus.py` | queue, subscribers | emit, subscribe, unsubscribe, stop | subscribers changed during delivery | every event delivered once to its subscribers |
| A2A protocol | `src/core/a2a_protocol.py` | queues by agent | register, send, receive, broadcast | blocking receive under a lock | no deadlock |
| FlowDefinition | `src/scenarios/flow_definition.py` | steps | execution order, ready steps | unknown dependency, cycle | order respects dependencies |
| Server registry | `src/database/repositories/execution_server_repository.py` | `execution_servers` | upsert, status, offline, sweep | rows written by stale sockets and sweeps | mirrors `connections` |
| HTTP API | `src/api/` | – | cancel, submit, start, stop | cancel of an executing task | – |
| Home assistant page | `src/pages/home/` | draft, dirty flag, row it is bound to | send, confirm, discard, clear | handlers of a session overlap | what is shown as saved was saved; one row per conversation |
| Repositories, connections | `src/database/` | tables, one sqlite connection or a pool | find, create, update | whole rows written back, commits that raise | no write is lost |
| LLM client, sandbox, dashboards, auth, logger | `src/core/`, `src/pages/`, `src/auth/` | – | I/O and presentation | – | – |

The scheduling agent (Flask or main process) and the dispatcher (WS process)
share only the SQLite tables. A row goes from `dispatch_subtasks` to the
consumer's poll; a worker asks the WSDispatcher whether the row's server is
connected and schedules a coroutine on its loop, or parks the row; a
registration drains the parked rows; the result frame resolves a future, whose
coroutine writes the task row, the reply row and the ack. The task API and the
watchdog write `tasks.state` at any time. Flask and Gradio are processes of their
own with a ScenarioManager, an AgentManager and an EventBus each: the API and the
dashboard start and stop scenarios through the shared rows, and every process
that boots fails what it takes for orphans. The assistant page creates and edits
the rows that are started elsewhere. The ws process mirrors its connections in
`execution_servers`, which the pages show.

## Modules

| Module | Models |
|---|---|
| `AckDelivery` | the abstract promise: tasks are finished, then answered at most once, then acked |
| `TaskGraph` | what becomes of the ids and dependencies of a decomposition (pure operators) |
| `WaveScheduler` | `SchedulingAgent.run` with `collect_replies`, over a dispatcher that does what `AckDelivery` promises |
| `CentralDispatcher` | rows, consumer, in-flight guard, pool, local path, finalize/ack, cancel, crash and restart; its properties; the refinement mapping to `AckDelivery` |
| `WSDispatcher` | extends it with `ws_server.py`, the network and the exec-servers |
| `Watchdog` | extends it with the watchdog's scan, retry and give-up |
| `FlowDefinition` | the steps of a flow, the depth-first search of `get_execution_order` call by call, and the ready steps |
| `ScenarioLifecycle` | start, run, end, release and stop of scenarios in two processes, the tasks and agent runs they make, the watchdog, cancels and errors that write these, crash and orphan recovery |
| `EventBus` | emit, the bounded queue, subscribers that change without a lock while the worker walks them |
| `ServerRegistry` | the registry rows against `connections`: register, ack, heartbeats, disconnect, sweeper, crash and boot |
| `Database` | what a repository call does to a table: one shared sqlite connection per process, or a pool; statements and commits that raise |
| `AssistantSession` | the home page's drafts over `Database`: send, confirm, discard, clear, and `start_scenario` as the row's other writer |
| `MCCentralDispatcher`, `MCWSDispatcher`, `MCWatchdog`, `MCWaveScheduler`, `MCFlowDefinition`, `MCScenarioLifecycle`, `MCEventBus`, `MCServerRegistry`, `MCAssistantSession` | the instances TLC checks |
| `CentralDispatcherProofs`, `WSDispatcherProofs`, `WatchdogProofs`, `WaveSchedulerProofs`, `ScenarioLifecycleProofs`, `ServerRegistryProofs`, `AssistantSessionProofs`, `EventBusProofs` | theorems and proofs |

### How state and actions correspond to the code

`taskState`, `written`, `acked`, `replies` are the database: `tasks.state`, the
dispatch rows, their `acked` flag and the number of reply rows. `batch` is the
list `pending` that `_run` iterates over. `stage[r]` is the program counter of
the job that carries row `r`, in a worker or a coroutine: `queued` in the pool,
`routing` between `is_connected` and `defer`, `scheduled` on the loop, `parked`
in `deferred`, `sending`/`awaiting`/`resolved`/`lost` in `forward_task`,
`starting`/`running` in `run_task_locally`, `replying`/`acking`/`releasing` in
`finalize_task` and `_ack`, and `dead` when the coroutine has raised outside its
`try`. A future with a result or an exception is the stage `resolved` or `lost`
until its coroutine gets the loop again.

An action ends where another thread can intervene: at a database statement, a
lock, or an `await`. The read and the write of `mark_as_*` are one action: every
writer of this model sets `state` unconditionally, so a write between the two
halves has the same effect as one before them. (The watchdog's
`increment_retry_count` writes back the state it read, so it has two.) Code on
the asyncio loop runs to its next `await` undisturbed by other coroutines
(`LoopFree`), but not by other threads. `await send(ack)` in `_on_register` is
a point of suspension; sends to a peer that does not read (full buffers) are
taken to complete.

The network: `open` is the set of sockets over which frames pass; `LinkDown`
breaks one, with the frames on it that are not yet buffered by the backend; each
end notices in a step of its own (`HandlerEnds`, `ClientNotices`). The client
answers on the connection it has when a run ends, and drops the result when it
has none.

`WaveScheduler` is one run of the scheduling agent. `PlaceWave` is one round of
`_build_waves`, `StartWave` the body of the wave loop up to `collect_replies`,
`Collect` one poll, `EndWave` what follows it, `_propagate_failure` included.
`base`, `offset` and `expected` are the consumer offset before and after the
polls of a wave and the number of its messages; `log` is the reply rows by id.
The dispatcher's steps are those of `AckDelivery` (`Delivery!Finish`, `Answer`,
`Acknowledge`), at any time and in any order, or never. The clock ticks twice a
second, so that `max(int(remaining), 1)` can be seen to round. The rows of one
wave are written in one step: nothing is read before the last of them. A task is
named by its goal, its idempotency key under one parent. Where two subtasks of
one wave share a task, the order in which the loop takes them could matter to
`failed_ids`, and to the pass of `_propagate_failure`; they are taken to see those of
the wave's start. Cancel, the watchdog
and the release of the scenario do not touch the tasks of this model.

`FlowDefinition` has the recursion of `visit` as a stack: `frames` is the calls under
way, each with its step and how many dependencies it has `taken`, so `in_progress`
is the steps of `frames`; `result` is the list, `visited` its set. `VisitStep` and
`VisitDependency` are a call of `visit` by the loop and by another call, up to its own
loop, and `EndVisit` is what follows that loop. Nothing runs beside a search, so the
steps are apart only to say what holds within it. `add_step` forgets the earlier list,
which is its caller's and no longer the flow's. Python's limit of the recursion is left
out; `WorkBounded` says how deep it gets.

`ScenarioLifecycle` has two processes that share the tables. `pc[c]` is the
program counter of a call of `start_scenario` or `stop_scenario`: `asked`
(`start_guard` of the dashboard), `checking`, `updating`, `entering`,
`declaring` in the caller's thread, `running`, `submitting`, `completing` or
`failing` in the scenario's thread, `releasing`, `listing`, `sweeping`, `finishing` in
`_release_scenario_agents` and the `finally`. A call is `raised` where an exception
ends it: `start_scenario` after the row is running (`StartRaises`, of a `Malformed`
scenario), or the release at its query or one of its marks (`ReleaseRaises`), which
skips what is left of it and of the thread. `machine[p]` is the one
`current_state` of `SCENARIO_STATE_MACHINE` that all calls of a process
initialize and read. The scenario classes differ in when `run()` waits: `WaitPoints`
gives, per scenario, the numbers of submitted tasks after which it waits for all of
them; an `Incomplete` one fails in `initialize`. `coro[t]` is the coroutine
`_execute_task`; `boot[p]` is how far `recover_orphans_on_startup` of a process that
was started again has come, and `orphans[p]` what is left of the rows its last query
returned: scenarios, then pending tasks, then running ones. `watch` is the overdue
tasks a watchdog has listed, each with how far it is: to be retried or given up from
that list, whatever became of the task, and in `increment_retry_count` with the state
that was read. The other updates of a task's state are one step each, as these writers
set it unconditionally.

A repository call that raises is a step of its own (`StartRefused`, `RunRaises`,
`CompletionRaises`, `FailureRaises`, `ReleaseRaises`, `TaskRaises`, `RecoveryRaises`) or an
alternative of the step (`DeclareAndSpawn`, `DeleteAgents`, `EndTask`, `ExceptTask`).
`lostScenarios`, `lostTasks` and `lostAgents` are history: the rows whose last write
was left out because of that, or was a watchdog's. The properties name them as their
exceptions, and no action reads them; a later write of the row takes it out again.

`EventBus` keeps Python's objects apart: `lists` are list objects in the order of
creation and `listOf` says which of them the dict holds, so the worker may walk a
list that a racing `subscribe` has replaced; its walk of the keys ends when the dict
has grown, as the `RuntimeError` is swallowed by the bare `except`. `Places(h, type)`
is where a handler is listed for a type, `Calls` their number. `hist` and
`raced` are history variables for the premises of the properties.

`ServerRegistry` counts time in sweep intervals: `row[s].age` is the age of
`last_heartbeat`, `idle[k]` the intervals since the handler of socket `k` last
handled a frame. `WSDispatcher` has the same handlers as far as tasks are
concerned; there a registration has more steps and no time passes.

In `Database`, `tx[p]` is the open transaction of the shared sqlite connection of
process `p`: a commit that raises leaves the row in it, for the threads of the process
to see and for their next commit to publish, and it keeps other processes from
writing. In `AssistantSession` a handler has its inputs (`in`, the session state at
its begin) and writes what it returns (`out`) at its end. What the language
model answers is any draft, valid or not.

Abstracted: the goal, context and result of a task, except for the server it
selects and whether its run succeeded; time (polling, backoff, the overdue
test of the watchdog); the FIFO order of the pool and the loop, replaced by
strong fairness; the bounded pool of an exec-server; telemetry frames and
events. Left out because the program cannot get there: rows whose content is not
JSON (only `dispatch_subtasks` writes them), a dispatcher without a WS subsystem
(`start_ws_server` always sets one). `agent.initialize` raising before the `try`
of `run_task_locally` has the effect of an error of the read before it, which is
modelled.

## Runs

| Run | Module, cfg | Shows |
|---|---|---|
| local | MCCentralDispatcher, Local | with a crash and a cancel: exclusive in-flight guard, ack after execute, a reply for every row acked before any crash or cancel, implements `AckDelivery`, every row acked in the end |
| ws_faults | MCWSDispatcher, WsFaults | two rows of one task, with links, takeovers, restarts, a crash, a cancel and a database error anywhere, registration included: types, ack after execute, one reply and `AckDelivery` until the error (`SafeUntilError`, `DeliveryUntilError`); what the guard leaks (`NoInFlightLeak`: the task of a coroutine that died at `ws_server.py:106`, and nothing else), reply correlation (`FutureOwned`) and the connections (`ServedIsReachable`) even after it |
| ws_live | MCWSDispatcher, WsLive | a local row that a poll returns is executed and acked though its pool is shared with jobs that wait for an exec-server or park (`LocalRowsAcked`); a task routed to a server that stays connected is executed and acked |
| ws_awaited | MCWSDispatcher, WsAwaited | **violated**: see below |
| watchdog | MCWatchdog, Watchdog | although the watchdog reopens tasks under execution, with a crash, a cancel and a database error, every row is acked |
| waves | MCWaveScheduler, Waves | waves are depths and cycles are rejected; results are passed on; a known failure stops what depends on it; what is marked as skipped is not dispatched; every task has an outcome; a reply stays what its task's row says; `run` returns. With timeouts, lost, late and old replies and a database error |
| flow | MCFlowDefinition, Flow | every flow of up to three steps: in the list of `get_execution_order` each step is ready in its turn; it raises on circular dependencies and on nothing else; no step is entered twice |
| scenarios | MCScenarioLifecycle, Scenarios | two processes start, one stops, calls raise, a task is cancelled or overdue, a process dies and recovers: a running row has a runner, an open task a worker, nothing outlives its run, but for the exceptions each property names; success is an agent's |
| events | MCEventBus, Events | two emitters, a queue of two, two subscribers of one type and a wild one, one of which leaves: who is called, in which order, and that the worker goes on |
| registry | MCServerRegistry, Registry | three connections of a server, two faults: who is heard of is online and has the slot, who is gone is offline in the end |
| assistant | MCAssistantSession, Assistant | two users, two rows, two messages, one error: clean drafts were saved, one row per conversation, no write is lost |
| edit_state | MCAssistantSession, EditState | **violated**: see below |

Bounds are constants: `PollLimit`, `MaxWorkers`, `MaxCrashes`, `MaxCancels`,
`MaxDbErrors`, `MaxScans`, `MaxOldReplies`, `TotalSeconds`, `Sockets`, `Starts`,
`Stops`, `Plans`, `MaxBusy`, `MaxFaults`, `Emits`, `Subs`, `QueueSize`, `MaxSends`,
`Keys`. Why they are enough:

- Dispatcher: two tasks and three dispatch rows in the local instances, where the
  first and the last carry the same task (what dispatching a goal again leaves);
  two rows in the others, of one task in ws_faults. In ws_live two rows of one remote task can fill the poll's window of two while they are parked, with the local row behind them; whether they do is up to the exec-server. The guard, the idempotency check and the poll window
  all concern two rows that compete. Three sockets of one server are a connection,
  its takeover and a third registration while the first handler has not ended.
- Scheduler: three subtasks: a chain, a triangle, a join, cyclic graphs and
  ill-formed decompositions, and the heuristic one. Three waves are the first length
  at which a failure can be two steps away, and two seconds the first timeout after
  which a wave that timed out leaves time for another.
- Flows: three steps with up to two dependencies each, in any order of adding them, have
  all that a search can meet: a chain, a join, a dependency given twice, a circle of
  one, two or three, one reached only through another step, and ids that are no steps.
- Scenarios: a question (one task) that is started by the API, by the page in the other
  process, and stopped, or two of these; a scenario that cannot be initialized and one
  whose start raises, each with all three; and a debate (two tasks, then a third) that
  nobody stops. Two calls are at work at a time, so that any two steps of two calls
  meet, and the third call comes before, between or after them. A fault is a crash, a
  call that raises, a cancel or an overdue task: none where a question has all three
  calls, one with both starts or in the debate, two in the others (`MCMaxFaults`), as
  `mark_as_completed` and then `mark_as_failed`, or an error during a recovery.
- Events: one emitter of two events and one of a third overflow a queue of two;
  three subscriptions are the fewest with two of one type and a wild one.
- Registry: the last heartbeat is stale after three intervals, as in the code.
- Assistant: the second user and `start_scenario` are the other writers of a
  row; two messages are the fewest for a draft to change after a save.

Deadlock is not checked: each instance stops once its bounded calls are made.

### Where the code does not do what it says

Two runs end in a counterexample:

| Run | Says | Does |
|---|---|---|
| ws_awaited (`AwaitedComesBack`) | `README.md:29` an in-flight task is "deferred and re-dispatched on reconnect" | a takeover makes `_on_disconnect` of the old socket return early; the future of a task sent over it is never failed. The premise excludes forwards sent while the registration was not complete. The watchdog's timeout changes `tasks.state` but wakes no future. |
| edit_state (`EditKeepsState`) | `scenario_manager.py:78` an update does not change the state | `update_scenario` writes back the state it read; a scenario that was started meanwhile is `initializing` again while it runs, and can be started twice |

Others were met while modelling. They are why some properties have premises
or are not stated, and no run is kept for them:

- A server that registers and drains between `is_connected` and `defer` leaves
  the task parked while it is connected, against `central_dispatcher.py:250`
  ("on reconnect _drain_deferred re-forwards").
- The poll returns the oldest ten unacked rows, also those that are parked; once
  they fill it, no later row is seen. `LocalRowsAcked` therefore begins where a poll
  returns the row.
- `find_by_task_id` of `forward_task` (`ws_server.py:106`) is outside its `try`: when it
  raises the coroutine ends without parking or acking, and the task stays in
  `_in_flight`, not dispatched again, until a restart. `NoInFlightLeak` names it.
- `mark_as_started` after a cancel sets the task running again, against
  `state_machine.py:68` ("no transitions out"); and the watchdog, from a stale list
  or row, makes a finished and acked task pending, which nobody takes. The task of a run
  that ended meanwhile stays open too, until the next recovery: `lostTasks`.
- `_register_declared_agents` says that "failures log but do not block scenario start"
  (`scenario_manager.py:184`); only those of the insert do not. A configuration or
  `agent_roles` of another shape raises in `start_scenario` (148-162) after the row
  is running: no thread, and its entry in `active_scenarios` stays.
- A `mark_as_failed` that raises leaves the scenario or the task as it is; one in
  `_release_scenario_agents`, or its query, skips the other tasks, their runs and the
  `del` of the `active_scenarios` entry. A delete of the agent rows that raises is
  logged, and they stay.
- Stopping a scenario deletes its consumer offset and replies are counted whatever
  they answer: after a restart those of the earlier run complete the first
  waves. `ResultsPassedOn` therefore speaks of the replies of the run.
- Errors of `find_by_task_id` and `mark_as_*` are swallowed and the row is acked
  all the same, against `README.md:35` ("acks only after the task reaches a terminal
  state"). Hence `MaxDbErrors = 0` in the local run, `SafeUntilError` and
  `DeliveryUntilError` in ws_faults, and `faults.dbErrors = 0` in the theorems.
- After a wave has timed out, up to a second is left and the next wave is dispatched
  in it without its predecessors' results, hence `left < Second` in `WaveScheduler`.
- Subtasks with one goal share a task (`_create_subtask` finds it again): it is
  answered once where two replies are expected, and a skip of the later one marks
  the finished task as failed, hence `DistinctGoals`. It stays finished
  (`SchedulerDelivers`), but its reply and its row then differ.
- Ids given twice survive `_normalize_subtasks` when the positional id is taken too
  (`t2`, `t2`), although `scheduling_agent.py:254` says "Ensure each subtask has a
  unique id"; the earlier subtask's task is created and never dispatched, hence
  `EveryTaskKept`. `TasksKept` says which lists are safe: those in which no subtask has
  the id of a later position.
- A scenario is marked as completed whatever its `run()` returns; two processes
  can run the same scenario; and the recovery of one process fails scenarios and
  tasks the other works on. `ScenarioLifecycle` has all three; its properties
  say what holds nevertheless.
- A sqlite commit that raises is not rolled back although `connection.py:141` says
  so: `clash` in `AssistantSession`.
- A dependency on a step that is not in the flow is "treated as satisfied"
  (`tests/test_flow_definition.py:173`) by `get_execution_order`, which passes it over;
  `get_ready_steps` never returns the step that has it, hence `Unknown` in `OrderIsReady`.
- A subtask that depends on itself is scheduled by `_build_waves`, which drops that
  dependency, and rejected by `get_execution_order`: the premise `NoSelves` of `OrdersAgree`.
- Two first subscribers of a type can lose one, an unsubscribe during a delivery
  makes the worker skip a handler, and a new type ends the walk of the wild types:
  `raced` and `hist` in `EventBus`.

`AckedIsTerminal`, `AnsweredOnce`, `AckedIsAnswered`, `AckedStaysDone` and
`ImplementsDelivery` are therefore claimed as long as no repository call has raised and
no task exceeds its timeout (`CentralDispatcher` and `WSDispatcher` have no watchdog).
`InFlightExclusive`, the reply correlation and the connections need neither, and
`NoInFlightLeak` names the one error that matters to it.

### Fairness

Weak fairness for what a thread or a ready coroutine does next, for the runs of
agents (every run ends: the sandbox and the LLM client have timeouts), for frames
on an open connection, and for the restart of a crashed program. Strong fairness
where a step competes for something handed out in FIFO order: a worker of the
pool, the asyncio loop; a row has the steps of the path it takes, `LocalRows` those of
the pool only. Nothing is assumed to connect, break, crash, cancel, write
a row or raise. The scheduling agent needs weak fairness of its thread and of
the clock, nothing of the dispatcher. `OnlineServerExecutes` and `AwaitedComesBack`
take "connected for good" as a premise instead of assuming it.

The event bus needs weak fairness of its worker thread; nobody has to emit,
subscribe or stop. The registry needs that time passes, that the sweeper's task and
the handlers get the loop, and that a ws process that died is started again. An
exec-server need not beat, and a write may fail each time within its bound.
Scenarios and the assistant are checked for safety only: a run waits for an agent,
a user for a model.

### Wrong variants

In each module the operators whose comment begins with "Mutant:" are used by no
action. Each is a mistake that could be made in the operator after it: a guard that
is dropped, an entry that is kept, a list that is served from the wrong end, a state
that is read once instead of awaited. Put in that operator's place, it makes the
properties listed with it in `PROJECT.json` fail.

## Proofs

All theorems are for any sets of tasks, rows, exec-servers, sockets, scenarios and
processes and any bounds, under `RowsAssumption`, `BoundsAssumption`,
`SocketsAssumption`, `WatchdogAssumption`, `PlansAssumption`, `SchedulerBounds`,
`LifecycleAssumption`, `RegistryAssumption`, `DatabaseAssumption`,
`SessionAssumption`, `EventBusAssumption` and `FlowAssumption`, which only type the constants (and take
the set of ids to be finite, and an event to be emitted once).

| Theorem | Statement | Argument |
|---|---|---|
| LocalTyping, WDTyping, Typing | type correctness | one step per action. `Typing` carries `RemoteIsRemote` along: only rows that select an exec-server are in the stages of the WebSocket path. |
| LocalGuard, WDGuard, Guard | `InFlightExclusive`; `NoInFlightLeak` | inductive together: a job enters the set when it takes a row and leaves it when it gives the row up, so each task of the set has a row that claims it (`Claimed`); the only claim without a job is that of a coroutine that died, and one dies of an error only (`DeadByError`) |
| LocalAckAfterExecute, AckAfterExecute | `AckedIsTerminal`, `AnsweredOnce`, as long as `faults.dbErrors = 0` | inductive invariant `DeliveryInv`. The two alone are not inductive: it adds that a reporting job's task is done, and that an executing job's task has no acked row and no reply. |
| LocalAnswered, Answered | `AckedIsAnswered`, as long as `faults.dbErrors = 0` | `AnswerInv`, with `DeliveryInv`: a finished task was answered or its job is about to answer, and a job that finds its task finished is alone with it |
| LocalAckedStays, AckedStays | `AckedStaysDone`, if `[](faults.dbErrors = 0)` | from `DeliveryInv` on both sides of a step |
| LocalDeliversUntilError, DeliversUntilError | `DeliveryUntilError`: every step until the first repository call raises is one of `AckDelivery` | a task is finished when its row is terminal and no job executes it; every step adds to the finished tasks, answers, acks or stutters |
| LocalImplementsDelivery, Implements | refinement of `AckDelivery` (`ImplementsDelivery`), if `[](faults.dbErrors = 0)` | the same steps |
| Correlation | `FutureOwned` | with the in-flight guard: two coroutines never have the same task, so a pop removes only its own entries |
| Reachable | `ServedIsReachable` | from the step that takes the slot on: `OpenOwnsSlot` |
| SchedTyping | `SchedTypeOK` | one step per action |
| WavesRespectNeeds | `WavesInOrder` (a conjunct of `WavesAreDepths`), any graph | inductive: a wave is placed on what it needs |
| DepthsOfGraph | `WavesAreDepths`, any graph | `DepthInv`: what is not placed yet needs something of the last wave, or something placed in none. A rejected run has a set of subtasks each of which needs another of the set, so a cycle (`CycleInside`); a planned run has none, as a dependency is always in an earlier wave |
| ResultsPassed | `ResultsPassedOn`, any graph, timeouts, replies and errors | `OnTimeInv`: while there is time, everything of the earlier waves has answered or failed and their replies are read; of the wave under way the log holds replies of its own tasks only, one of each at most. So as many replies as rows are the replies of all of them (`CompleteWave`, by counting) |
| NothingLost | `NothingForgotten`, any graph | `OutcomeInv`: what the run counts as an outcome, and what is answered, is finished and stays so; with `OnTimeInv` and `DepthInv` that is all of it at the end |
| SkippedStays | `SkippedIsNotDispatched`, any graph, timeouts, replies and errors | `SkipInv`: what is marked ahead of its wave is in `Doomed(Upcoming, failed)`, the set `_propagate_failure` would mark now; so its dependency is in `failed_ids` when the loop gets to it (`DoomedIsHindered`), and what is further ahead stays in the set (`DoomedLater`) |
| FailuresContained | `FailureContained`, any graph with distinct goals | `ContainInv`, with `SkipInv`: everything of the earlier waves was dispatched or failed, so the dependency of a subtask that is not hindered was dispatched, untainted itself by induction along the waves, and has not failed |
| TrueReplies | `RepliesAreTrue`, any graph with distinct goals | `TrueInv`, with `SkipInv`: a task that was answered was dispatched, so it is of an earlier wave than anything that is marked (`MarksAhead`) |
| SchedulerDelivers | `Delivery!ADSpec`, any graph, timeouts, replies and errors | the agent relies on `AckDelivery` and writes `tasks.state` itself: its steps are steps of `AckDelivery` too, as nothing finished is taken back (`FinishedStays`) and nothing is finished while tasks are created |
| DecompositionsArePlans | `IsPlan` of what `FromLLM` and `Heuristic` lead to: the decompositions are what `PlansAssumption` takes them for | `IdsOfList`, by induction over the list: each id comes from its subtask, its position and the ids before it |
| TasksKept, GoalsDistinct, NoneNeedsItself | `EveryTaskKept`, `DistinctGoals` and `NoSelves` of lists without an id ahead of its position, with distinct goals, with distinct ids | `IdsDiffer`: a position is given as an id only where nothing before has it; of a list whose ids differ the dictionaries lose nothing (`PlanOfList`) |
| FlowOrder, FlowCycles | `OrderIsReady`, `RaisesOnCycle`, any flow | `FlowInv`: the calls of `visit` under way are a path of dependencies, so a step met again closes a circle; their other dependencies are visited as far as they have come, so a step follows what it depends on. A list of all steps in this order leaves no room for a circle: its first step would follow another of it |
| FlowWork | `WorkBounded`, any flow | what is visited and what is under way are different steps, by counting |
| OrdersAgree | where a flow has the subtasks and dependencies of a plan: `get_execution_order` returns nothing that `_build_waves` rejects, raises on nothing else but self-dependencies, and `get_ready_steps` returns the next wave | from `FlowCycles`, `DepthsOfGraph` and `CycleInside`: both reject on a set of which each needs another |
| Typing (`ScenarioLifecycleProofs`) | `TypeOK` of the scenarios | one step per action, with `CallsOK`: a call that has begun is of a process and a scenario |
| NoRunningOrphan | `RunningHasRunner` | `RunnerInv`: a row that says running has a call that has yet to write its end, or a process is down or has the row in its recovery list, or its last write was left out. A step that takes one of these away writes the row or adds it to `lostScenarios` |
| NoOpenOrphan | `OpenHasWorker` | `WorkerInv`: the same of an open task and its coroutine, its run's release, and the three queries of a recovery: a running task is safe until the third has listed it, a pending one, which only the run itself or a watchdog writes, until the second |
| NothingLeft | `NothingOutlives` | `ActiveInv`, `AgentsInv`, `RunsInv`: what a call registers stays registered under its scenario until the call's own release has swept its list, or raised, whatever other calls of the scenario do |
| EarnedSuccess | `SuccessIsEarned` | `EarnedInv`: only the coroutine writes success, and a task that was not submitted has none |
| Typing (`ServerRegistryProofs`) | `TypeOK` of the registry | one step per action |
| OnlineWhileHeard | `HeardIsOnline` | `OwnerInv`: the owner of a server's slot finds its row no older than the last frame it was heard with, so the sweeper's cutoff cannot fall on it |
| Typing (`AssistantSessionProofs`) | `TypeOK` of the page and the table | `ShapeInv`: with the types, that no step takes a row out of a process's sight (`RowsStay`), hence the row a draft is bound to can be found |
| CleanDrafts | `CleanWasSaved` | `SeenInv`, `GoodInv`: what anybody sees of a row, an open transaction included, was written into it; not only the drafts at rest are good but those in the hands of a handler |
| OneRowEach | `OneDraftOneRow` | `OneRowInv`: while handlers do not overlap, the one at work has the session as it is, and a conversation that has a row is bound to it |
| NoLostWrite | `EveryWriteLasts` | `LastInv`: of a row without a clash all processes see what is committed, and whoever has it in hand has it as it is |
| EventsInOrder | `InOrder` | `OrderInv`: the log of a handler, the event under delivery and the queue, one after the other, are in order, and all of it was put before what its threads are about to put |
| SubscribersListed | `SubscribedIsListed` | `BusInv`: while no two creators raced, each key has a list of its own, who is creating one is alone with its type, and a list holds each handler as often as there are subscriptions of it (`Balanced`). The last is needed because an unsubscribe removes one entry by its handler, perhaps the one another subscription made |
| HandlersCalled | `EveryHandlerCalled` | `WalkInv`: the calls made for the event and the places the worker has yet to come to are together as many as the handler's places were when the delivery began, and no more than they are now. `FreshInv` gives that no handler had the event before |

The two halves fit: `Implements` says that the dispatcher does what `AckDelivery`
promises as long as no repository call raises, `WaveScheduler` takes a dispatcher that
does no more than that, and `SchedulerDelivers` says that the agent, writing the same
rows, does not undo it.

For the WebSocket path, the lemma `WsStepEffect` says once what any of its steps
does to the dispatcher's state (`Effect`: which stages a job moves between, when
a task starts); the guard, `DeliveryInv` and the refinement follow from that
without looking at sockets again.

The scheduler's proofs argue by induction over the number of a wave and along
`Ancestors`, a recursive function over the numbers. TLAPS cannot use an induction rule
that takes an operator here, so `SmallestNumber` gives the least number of a non-empty
set, `InductiveSet` the induction over a set of numbers, and `Iterated` what such a
function is at 0 and at the next number (`IdsOf` is taken apart in the same way); the three are proved from the library's
well-foundedness of the natural numbers.

Model-checked only: the liveness properties (`EveryRowAcked`, `RowsAckedAnyway`,
`LocalRowsAcked`, `OnlineServerExecutes`, `Terminates`, `EveryEventTaken`,
`GoneIsShownOffline`): TLAPS has no rules for fairness and ENABLED here. Two type
invariants are proved only (`SchedTypeOK`, `WDTypeOK`); every other invariant and
action property is both checked and proved.

## Not modelled, and what is left

Next: the other columns of a task row with their read-modify-writes (retry count,
result, duration), on top of `Database`.

Not planned: the A2A protocol, which only tests use (by reading, its `receive`
waits under the lock that `send` needs); `ScenarioManager.shutdown`, which nobody
calls and which would wait for its own lock; `AgentManager`'s topics, which no
submit sets; the LLM client, the sandbox and the agents' inside (I/O; a run is one
step); the reading side of the Gradio pages and routes, authentication, logging and
configuration (no state that interacts with execution).
