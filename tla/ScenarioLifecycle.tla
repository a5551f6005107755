-------------------------- MODULE ScenarioLifecycle --------------------------
(***************************************************************************)
(* The life of scenarios: ScenarioManager (scenarios/scenario_manager.py),  *)
(* the scenario classes, the AgentManager that runs their tasks, and the    *)
(* pages and routes that start and stop them.                               *)
(*                                                                          *)
(* Flask and Gradio are processes of their own: each has its own            *)
(* scenario_manager, agent_manager and SCENARIO_STATE_MACHINE, and they     *)
(* share the tables.  start_scenario runs in the caller's thread up to      *)
(* thread.start() and goes on in a thread of its own: one call here is both.*)
(* A repository method that finds a row and writes all of it back is one    *)
(* step here, as these methods set the state whatever they found; what an   *)
(* edit of a scenario can lose is in AssistantSession.  Any such call may   *)
(* raise instead: the steps say who catches it and what is skipped.         *)
(***************************************************************************)
EXTENDS Naturals, FiniteSets

CONSTANTS
  Procs,         \* processes that hold a scenario_manager
  Scenarios,
  Starts,        \* bound: the calls of start_scenario
  Stops,         \* bound: the calls of stop_scenario
  Guarded,       \* the starts from the dashboard, which call start_guard
  CallProc,      \* the process of a call
  Plans,         \* bound: the scenario of each call; None: it is not made
  None,
  Incomplete,    \* scenarios whose configuration lacks what they need
  Malformed,     \* those whose configuration or agent_roles are no objects
  WaitPoints,    \* run() of each scenario waits after submitting these many
  MaxTasks,      \* the most tasks a run submits
  MaxBusy,       \* bound: calls at work at the same time
  Mortal,        \* bound: the processes that may die
  MaxFaults      \* bound, by plan: crashes, calls that raise, cancels, overdue tasks

Calls == Starts \cup Stops

ASSUME LifecycleAssumption ==
  /\ Starts \cap Stops = {}
  /\ Guarded \subseteq Starts
  /\ CallProc \in [Calls -> Procs]
  /\ Plans \subseteq [Calls -> Scenarios \cup {None}] /\ None \notin Scenarios
  /\ WaitPoints \in [Scenarios -> (SUBSET (1..MaxTasks)) \ {{}}]
  /\ Incomplete \subseteq Scenarios /\ Malformed \subseteq Scenarios
  /\ MaxTasks \in Nat
  /\ Mortal \subseteq Procs
  /\ MaxBusy \in Nat /\ MaxFaults \in [Plans -> Nat]

\* The i-th task of a run.
Tasks == Starts \X (1..MaxTasks)
TaskProc(t) == CallProc[t[1]]

Terminal == {"success", "failed", "timeout", "cancelled"}

VARIABLES
  target,    \* the scenario a call is for
  row,       \* the state of each scenario in the scenarios table
  task,      \* the state in the tasks table, "none" before submit_task
  agents,    \* the agents table: the starts whose declared agents it holds
  machine,   \* SCENARIO_STATE_MACHINE.current_state of each process
  active,    \* active_scenarios of each process, as scenarios
  runs,      \* agent_runs of each process, as tasks
  coro,      \* where _execute_task of a task is
  returned,  \* what the agent of a task returned and its coroutine wrote
  pc,        \* where a call is
  sent, got, \* tasks a run has submitted, and waited for
  outcome,   \* the state wait_for_task returned last, failed once run() raised
  todo,      \* tasks a release still handles, each with: was it open?
  boot,      \* up, down, or how far main() is with the recovery
  orphans,   \* rows of the recovery's last query it has not marked yet
  watch,     \* overdue tasks of the watchdogs, each with how far they are
  faults     \* crashes, raises, cancels and overdue tasks so far

\* History, read by no action: the rows whose last write was left out, because
\* the call that had to make it raised, or made by a watchdog.
VARIABLES lostScenarios, lostTasks, lostAgents

scenarioTable == <<row, lostScenarios>>
taskTable     == <<task, lostTasks>>
agentTable    == <<agents, lostAgents>>

tables  == <<target, scenarioTable, taskTable, agentTable>>
memory  == <<machine, active, runs, coro, returned>>
locals  == <<sent, got, outcome, todo>>
outside == <<boot, orphans, watch>>
vars    == <<tables, memory, pc, locals, outside, faults>>

SetRow(s, state) ==
  /\ row' = [row EXCEPT ![s] = state]
  /\ lostScenarios' = lostScenarios \ {s}

SetTask(t, state) ==
  /\ task' = [task EXCEPT ![t] = state]
  /\ lostTasks' = lostTasks \ {t}

Fault   == faults < MaxFaults[target] /\ faults' = faults + 1
NoFault == UNCHANGED faults

Goto(c, next) == pc' = [pc EXCEPT ![c] = next]
Up(c) == boot[CallProc[c]] = "up"

\* A call that is not at work; one that has raised left its last steps out.
Gone(c) == pc[c] \in {"idle", "refused", "ended", "stopped", "raised", "dead"}
CanCall(c) ==
  /\ pc[c] = "idle" /\ target[c] # None
  /\ Cardinality({d \in Calls : ~Gone(d)}) < MaxBusy

\* A start call between its write of "running" and that of the end ...
Working == {"entering", "declaring", "running", "submitting", "completing", "failing"}
\* ... and up to its last step.
Live == Working \cup {"releasing", "listing", "sweeping", "finishing"}

Init ==
  /\ target \in Plans
  /\ row = [s \in Scenarios |-> "initializing"]
  /\ task = [t \in Tasks |-> "none"]
  /\ agents = {}
  /\ lostScenarios = {} /\ lostTasks = {} /\ lostAgents = {}
  /\ machine = [p \in Procs |-> "none"]
  /\ active = [p \in Procs |-> {}]
  /\ runs = [p \in Procs |-> {}]
  /\ coro = [t \in Tasks |-> "none"]
  /\ returned = [t \in Tasks |-> "none"]
  /\ pc = [c \in Calls |-> "idle"]
  /\ sent = [c \in Starts |-> 0]
  /\ got = [c \in Starts |-> 0]
  /\ outcome = [c \in Starts |-> "none"]
  /\ todo = [c \in Calls |-> {}]
  /\ boot = [p \in Procs |-> "up"]
  /\ orphans = [p \in Procs |-> {}]
  /\ watch = {}
  /\ faults = 0

-----------------------------------------------------------------------------
(* start_scenario, in the thread of the route or the page.                  *)

\* start_guard of the dashboard; the route only asks that the row exists.
Startable == {"initializing", "cancelled"}

Guard(c) ==
  /\ Up(c) /\ c \in Guarded /\ CanCall(c)
  /\ Goto(c, IF row[target[c]] \in Startable THEN "asked" ELSE "refused")
  /\ UNCHANGED <<tables, memory, locals, outside>> /\ NoFault

\* find_by_scenario_id, and initialize of the shared state machine.
ReadState(c) ==
  /\ Up(c)
  /\ IF c \in Guarded THEN pc[c] = "asked" ELSE CanCall(c)
  /\ machine' = [machine EXCEPT ![CallProc[c]] = row[target[c]]]
  /\ Goto(c, "checking")
  /\ UNCHANGED <<tables, active, runs, coro, returned, locals, outside>> /\ NoFault

\* The transitions to RUNNING in the table of SCENARIO_STATE_MACHINE.
CanTransition(state) == state \in {"initializing", "cancelled"}

CheckTransition(c) ==
  /\ Up(c) /\ pc[c] = "checking"
  /\ Goto(c, IF CanTransition(machine[CallProc[c]]) THEN "updating" ELSE "refused")
  /\ UNCHANGED <<tables, memory, locals, outside>> /\ NoFault

SetRunning(c) ==
  /\ Up(c) /\ pc[c] = "updating"
  /\ SetRow(target[c], "running")
  /\ Goto(c, "entering")
  /\ UNCHANGED <<target, taskTable, agentTable, memory, locals, outside>> /\ NoFault

\* A find or an update that raises before the row is running ends the call.
StartRefused(c) ==
  /\ Up(c) /\ pc[c] \in {"asked", "updating"}
  /\ Goto(c, "refused")
  /\ UNCHANGED <<tables, memory, locals, outside>> /\ Fault

Activate(c) ==
  /\ Up(c) /\ pc[c] = "entering"
  /\ active' = [active EXCEPT ![CallProc[c]] = @ \cup {target[c]}]
  /\ Goto(c, "declaring")
  /\ UNCHANGED <<tables, machine, runs, coro, returned, locals, outside>> /\ NoFault

\* BaseScenario.start: initialize raises when the configuration lacks what the
\* scenario needs, and run() is not reached.
AfterInitialize(c) == IF target[c] \in Incomplete THEN "failing" ELSE "running"

\* _register_declared_agents, which logs an insert that raises and goes on, then
\* thread.start().
DeclareAndSpawn(c) ==
  /\ Up(c) /\ pc[c] = "declaring" /\ target[c] \notin Malformed
  /\ \/ agents' = agents \cup {c} /\ NoFault
     \/ agents' = agents /\ Fault
  /\ Goto(c, AfterInitialize(c))
  /\ UNCHANGED <<target, scenarioTable, taskTable, lostAgents, memory, locals, outside>>

\* A configuration that is no object, or agent_roles of another shape, raises
\* before thread.start(): at once or after the scheduling agent's row.
StartRaises(c) ==
  /\ Up(c) /\ pc[c] = "declaring" /\ target[c] \in Malformed
  /\ agents' \in {agents, agents \cup {c}}
  /\ lostScenarios' = lostScenarios \cup {target[c]}
  /\ Goto(c, "raised")
  /\ UNCHANGED <<target, row, taskTable, lostAgents, memory, locals, outside>> /\ NoFault

-----------------------------------------------------------------------------
(* _execute_scenario: the thread of a run, and the scenario's run().        *)

\* Does run() submit more than n tasks?
More(c, n)     == \E i \in WaitPoints[target[c]] : n < i
NextTask(c)    == <<c, sent[c] + 1>>
AtWaitPoint(c) == sent[c] \in WaitPoints[target[c]]

\* AgentManager.submit_task creates the row ...
SubmitTask(c) ==
  /\ Up(c) /\ pc[c] = "running" /\ More(c, sent[c])
  /\ got[c] = sent[c] \/ ~AtWaitPoint(c)
  /\ SetTask(NextTask(c), "pending")
  /\ Goto(c, "submitting")
  /\ UNCHANGED <<target, scenarioTable, agentTable, memory, locals, outside>> /\ NoFault

\* ... then registers the run and schedules _execute_task.
RegisterRun(c) ==
  /\ Up(c) /\ pc[c] = "submitting"
  /\ runs' = [runs EXCEPT ![CallProc[c]] = @ \cup {NextTask(c)}]
  /\ coro' = [coro EXCEPT ![NextTask(c)] = "scheduled"]
  /\ sent' = [sent EXCEPT ![c] = @ + 1]
  /\ Goto(c, "running")
  /\ UNCHANGED <<tables, machine, active, returned, got, outcome, todo, outside>>
  /\ NoFault

\* Mutant: a task that no longer runs counts as done.
PolledLoosely(t) == IF task[t] = "running" THEN {"timeout"} ELSE {"success"}
\* Mutant: the first state that is read is returned.
PolledOnce(t) == {task[t]}
\* wait_for_task returns on a terminal state, or when its time is up.
Polled(t) == ({task[t]} \cap Terminal) \cup {"timeout"}

\* After the last answer run() returns, with success or without, and the
\* scenario is to be marked as completed in both cases.
WaitForTask(c) ==
  /\ Up(c) /\ pc[c] = "running" /\ AtWaitPoint(c) /\ got[c] < sent[c]
  /\ \E state \in Polled(<<c, got[c] + 1>>) :
       outcome' = [outcome EXCEPT ![c] = state]
  /\ got' = [got EXCEPT ![c] = @ + 1]
  /\ Goto(c, IF More(c, got[c] + 1) THEN "running" ELSE "completing")
  /\ UNCHANGED <<tables, memory, sent, todo, outside>> /\ NoFault

\* submit_task, before or after its row is there, or wait_for_task raises: each
\* run() catches that and returns without success.
RunRaises(c) ==
  /\ Up(c) /\ pc[c] \in {"running", "submitting"}
  /\ outcome' = [outcome EXCEPT ![c] = "failed"]
  /\ Goto(c, "completing")
  /\ UNCHANGED <<tables, memory, sent, got, todo, outside>> /\ Fault

\* Mutant: an exception is logged and the row left as it is.
NotMarked(c) == IF pc[c] = "completing" THEN "completed" ELSE row[target[c]]
\* mark_as_completed, or mark_as_failed if something raised.
EndState(c) == IF pc[c] = "completing" THEN "completed" ELSE "failed"

\* The finally of _execute_scenario.
Release(c) ==
  /\ sent' = [sent EXCEPT ![c] = 0]
  /\ got' = [got EXCEPT ![c] = 0]
  /\ outcome' = [outcome EXCEPT ![c] = "none"]
  /\ Goto(c, "releasing")

MarkEnd(c) ==
  /\ Up(c) /\ pc[c] \in {"completing", "failing"}
  /\ SetRow(target[c], EndState(c))
  /\ Release(c)
  /\ UNCHANGED <<target, taskTable, agentTable, memory, todo, outside>> /\ NoFault

\* mark_as_completed raises: the row is to be marked as failed.
CompletionRaises(c) ==
  /\ Up(c) /\ pc[c] = "completing"
  /\ Goto(c, "failing")
  /\ UNCHANGED <<tables, memory, locals, outside>> /\ Fault

\* mark_as_failed raises: the row keeps its state.
FailureRaises(c) ==
  /\ Up(c) /\ pc[c] = "failing"
  /\ lostScenarios' = lostScenarios \cup {target[c]}
  /\ Release(c)
  /\ UNCHANGED <<target, row, taskTable, agentTable, memory, todo, outside>> /\ Fault

\* The last step of the thread: del active_scenarios[scenario_id].
Finish(c) ==
  /\ Up(c) /\ pc[c] = "finishing"
  /\ active' = [active EXCEPT ![CallProc[c]] = @ \ {target[c]}]
  /\ Goto(c, "ended")
  /\ UNCHANGED <<tables, machine, runs, coro, returned, locals, outside>> /\ NoFault

-----------------------------------------------------------------------------
(* _release_scenario_agents, by the thread of a run or by stop_scenario.    *)

\* Consumer offsets (see WaveScheduler) and agent rows of the scenario are
\* deleted; what that raises is logged and the rows stay.
DeleteAgents(c) ==
  LET mine == {a \in agents : target[a] = target[c]} IN
  /\ Up(c) /\ pc[c] = "releasing"
  /\ \/ agents' = agents \ mine /\ lostAgents' = lostAgents \ mine /\ NoFault
     \/ agents' = agents /\ lostAgents' = lostAgents \cup mine /\ Fault
  /\ Goto(c, "listing")
  /\ UNCHANGED <<target, scenarioTable, taskTable, memory, locals, outside>>

\* Where a release goes on while it still has these tasks to handle.
AfterSweep(c, tasks) ==
  IF tasks # {} THEN "sweeping" ELSE IF c \in Starts THEN "finishing" ELSE "stopped"

\* find_by_scenario_id.
ListTasks(c) ==
  /\ Up(c) /\ pc[c] = "listing"
  /\ todo' = [todo EXCEPT ![c] =
       {<<t, task[t] \notin Terminal>> :
          t \in {u \in Tasks : target[u[1]] = target[c] /\ task[u] # "none"}}]
  /\ Goto(c, AfterSweep(c, todo'[c]))
  /\ UNCHANGED <<tables, memory, sent, got, outcome, outside>> /\ NoFault

\* Mutant: only the runs of the tasks marked as failed are removed.
PoppedIfOpen(c, t) == IF <<t, TRUE>> \in todo[c] THEN {t} ELSE {}
Popped(c, t) == {t}

\* A task that was open in the list is marked as failed, whatever it is now,
\* and its run leaves the registry of this process.
SweepTask(c) ==
  /\ Up(c) /\ pc[c] = "sweeping"
  /\ \E t \in Tasks, open \in BOOLEAN :
       /\ <<t, open>> \in todo[c]
       /\ IF open THEN SetTask(t, "failed") ELSE UNCHANGED taskTable
       /\ runs' = [runs EXCEPT ![CallProc[c]] = @ \ Popped(c, t)]
       /\ todo' = [todo EXCEPT ![c] = @ \ {<<t, open>>}]
       /\ Goto(c, AfterSweep(c, todo'[c]))
  /\ UNCHANGED <<target, scenarioTable, agentTable, machine, active, coro, returned,
                 sent, got, outcome, outside>>
  /\ NoFault

Open(t) == task[t] \in {"pending", "running"}

\* The query, or the mark of a task that was open, raises: the rest of the
\* release, and of the thread, is skipped.
ReleaseRaises(c) ==
  /\ Up(c)
  /\ \/ pc[c] = "listing"
     \/ pc[c] = "sweeping" /\ \E t \in Tasks : <<t, TRUE>> \in todo[c]
  /\ todo' = [todo EXCEPT ![c] = {}]
  /\ lostTasks' = lostTasks \cup {t \in Tasks : t[1] = c /\ Open(t)}
  /\ Goto(c, "raised")
  /\ UNCHANGED <<target, scenarioTable, task, agentTable, memory, sent, got, outcome,
                 outside>>
  /\ Fault

-----------------------------------------------------------------------------
(* stop_scenario.                                                           *)

\* No state is asked for: the row is set to cancelled.
Stop(c) ==
  /\ Up(c) /\ CanCall(c)
  /\ SetRow(target[c], "cancelled")
  /\ Goto(c, "stopping")
  /\ UNCHANGED <<target, taskTable, agentTable, memory, locals, outside>> /\ NoFault

Deactivate(c) ==
  /\ Up(c) /\ pc[c] = "stopping"
  /\ active' = [active EXCEPT ![CallProc[c]] = @ \ {target[c]}]
  /\ Goto(c, "releasing")
  /\ UNCHANGED <<tables, machine, runs, coro, returned, locals, outside>> /\ NoFault

-----------------------------------------------------------------------------
(* _execute_task: the coroutine of a task on a work loop of its process.    *)

CoroUp(t) == boot[TaskProc(t)] = "up"
ResumeAt(t, next) == coro' = [coro EXCEPT ![t] = next]

\* What a step of a coroutine leaves alone.
OnlyTask == UNCHANGED <<target, scenarioTable, agentTable, machine, active, runs, pc,
                        locals, outside>>

\* mark_as_started sets running whatever the state is.
BeginTask(t) ==
  /\ CoroUp(t) /\ coro[t] = "scheduled"
  /\ SetTask(t, "running")
  /\ ResumeAt(t, "executing")
  /\ UNCHANGED returned /\ OnlyTask /\ NoFault

\* What ExecutionAgent.run returns, or makes of what its model raises.
AgentResults == {"success", "failed"}

\* The agent has run; mark_as_completed or mark_as_failed, and then
\* _check_topic_completion, which may raise.
EndTask(t) ==
  /\ CoroUp(t) /\ coro[t] = "executing"
  /\ \E result \in AgentResults :
       SetTask(t, result) /\ returned' = [returned EXCEPT ![t] = result]
  /\ \/ ResumeAt(t, "ended") /\ NoFault
     \/ ResumeAt(t, "excepting") /\ Fault
  /\ OnlyTask

\* A read or a write of the row raises.
TaskRaises(t) ==
  /\ CoroUp(t) /\ coro[t] \in {"scheduled", "executing"}
  /\ ResumeAt(t, "excepting")
  /\ UNCHANGED <<taskTable, returned>> /\ OnlyTask /\ Fault

\* The except clause: mark_as_failed, which may raise.
ExceptTask(t) ==
  /\ CoroUp(t) /\ coro[t] = "excepting"
  /\ \/ SetTask(t, "failed") /\ NoFault
     \/ task' = task /\ lostTasks' = lostTasks \cup {t} /\ Fault
  /\ ResumeAt(t, "ended")
  /\ UNCHANGED returned /\ OnlyTask

-----------------------------------------------------------------------------
(* The task route, and the watchdogs: every main process has one, and so    *)
(* has that of the WS server.  One that raises or dies goes no further.     *)

\* What somebody else's step in the tasks table leaves alone.
Meddle == UNCHANGED <<target, scenarioTable, agentTable, memory, pc, locals, boot, orphans>>

\* DELETE /api/task/<id>: any task, whatever its state.
CancelTask(t) ==
  /\ task[t] # "none"
  /\ SetTask(t, "cancelled")
  /\ UNCHANGED watch /\ Meddle /\ Fault

\* A task that is running is found to run for too long.
Overdue(t) ==
  /\ task[t] = "running"
  /\ watch' = watch \cup {<<t, "overdue">>}
  /\ UNCHANGED taskTable /\ Meddle /\ Fault

Watched(t, from, to) ==
  /\ <<t, from>> \in watch
  /\ watch' = (watch \ {<<t, from>>}) \cup to

\* update_task_state(pending), whatever the state is by now ...
RetryTask(t) ==
  /\ Watched(t, "overdue", {<<t, "retried">>})
  /\ task' = [task EXCEPT ![t] = "pending"]
  /\ lostTasks' = lostTasks \cup {t}
  /\ Meddle /\ NoFault

\* ... then increment_retry_count: the row is read ...
ReadRetryCount(t) ==
  /\ Watched(t, "retried", {<<t, task[t]>>})
  /\ UNCHANGED taskTable /\ Meddle /\ NoFault

\* ... and written back.
WriteRetryCount(t) ==
  /\ \E state \in {"pending", "running"} \cup Terminal :
       /\ Watched(t, state, {})
       /\ task' = [task EXCEPT ![t] = state]
  /\ lostTasks' = lostTasks \cup {t}
  /\ Meddle /\ NoFault

\* Out of retries: update_task_state(timeout).
GiveUpTask(t) ==
  /\ Watched(t, "overdue", {})
  /\ SetTask(t, "timeout")
  /\ Meddle /\ NoFault

-----------------------------------------------------------------------------
(* A process dies with its threads, and main() of the next one first runs   *)
(* recover_orphans_on_startup while the other process works on.             *)

Crash(p) ==
  /\ boot[p] = "up" /\ Fault
  /\ boot' = [boot EXCEPT ![p] = "down"]
  /\ machine' = [machine EXCEPT ![p] = "none"]
  /\ active' = [active EXCEPT ![p] = {}]
  /\ runs' = [runs EXCEPT ![p] = {}]
  /\ coro' = [t \in Tasks |->
       IF TaskProc(t) = p /\ coro[t] \in {"scheduled", "executing", "excepting"}
       THEN "dead" ELSE coro[t]]
  /\ pc' = [c \in Calls |-> IF CallProc[c] = p /\ ~Gone(c) THEN "dead" ELSE pc[c]]
  /\ todo' = [c \in Calls |-> IF CallProc[c] = p THEN {} ELSE todo[c]]
  /\ UNCHANGED <<tables, returned, sent, got, outcome, orphans, watch>>

\* What a step of a recovery leaves alone.
Recovers == UNCHANGED <<target, agentTable, memory, pc, locals, watch>>

ListScenarios(p) ==
  /\ boot[p] = "down"
  /\ boot' = [boot EXCEPT ![p] = "scenarios"]
  /\ orphans' = [orphans EXCEPT ![p] = {s \in Scenarios : row[s] = "running"}]
  /\ UNCHANGED <<scenarioTable, taskTable>> /\ Recovers /\ NoFault

FailScenario(p) ==
  /\ boot[p] = "scenarios"
  /\ \E s \in orphans[p] :
       /\ SetRow(s, "failed")
       /\ orphans' = [orphans EXCEPT ![p] = @ \ {s}]
  /\ UNCHANGED <<taskTable, boot>> /\ Recovers /\ NoFault

\* Mutant: tasks that nobody has started yet are left alone.
StartedTasks(state) == {t \in Tasks : task[t] = "running"}
\* find_by_state; nobody sets the third state that is asked for, waiting.
OpenTasks(state) == {t \in Tasks : task[t] = state}

\* The tasks of each state are listed once those of the last are marked.
ListOpenTasks(p) ==
  /\ boot[p] \in {"scenarios", "pending"} /\ orphans[p] = {}
  /\ LET next == IF boot[p] = "scenarios" THEN "pending" ELSE "running" IN
       /\ boot' = [boot EXCEPT ![p] = next]
       /\ orphans' = [orphans EXCEPT ![p] = OpenTasks(next)]
  /\ UNCHANGED <<scenarioTable, taskTable>> /\ Recovers /\ NoFault

FailTask(p) ==
  /\ boot[p] \in {"pending", "running"}
  /\ \E t \in orphans[p] :
       /\ SetTask(t, "failed")
       /\ orphans' = [orphans EXCEPT ![p] = @ \ {t}]
  /\ UNCHANGED <<scenarioTable, boot>> /\ Recovers /\ NoFault

\* A query or a mark raises: main() ends before it serves.
RecoveryRaises(p) ==
  /\ boot[p] \in {"scenarios", "pending", "running"}
  /\ boot' = [boot EXCEPT ![p] = "down"]
  /\ orphans' = [orphans EXCEPT ![p] = {}]
  /\ UNCHANGED <<scenarioTable, taskTable>> /\ Recovers /\ Fault

Serve(p) ==
  /\ boot[p] = "running" /\ orphans[p] = {}
  /\ boot' = [boot EXCEPT ![p] = "up"]
  /\ UNCHANGED <<scenarioTable, taskTable, orphans>> /\ Recovers /\ NoFault

-----------------------------------------------------------------------------
StartStep(c) ==
  \/ ReadState(c) \/ CheckTransition(c) \/ SetRunning(c) \/ StartRefused(c)
  \/ Activate(c) \/ DeclareAndSpawn(c) \/ StartRaises(c)

RunStep(c) ==
  \/ SubmitTask(c) \/ RegisterRun(c) \/ WaitForTask(c) \/ RunRaises(c)
  \/ MarkEnd(c) \/ CompletionRaises(c) \/ FailureRaises(c) \/ Finish(c)

ReleaseStep(c)  == DeleteAgents(c) \/ ListTasks(c) \/ SweepTask(c) \/ ReleaseRaises(c)
TaskStep(t)     == BeginTask(t) \/ EndTask(t) \/ TaskRaises(t) \/ ExceptTask(t)
WatchdogStep(t) == \/ Overdue(t) \/ RetryTask(t) \/ ReadRetryCount(t)
                   \/ WriteRetryCount(t) \/ GiveUpTask(t)
BootStep(p)     == \/ ListScenarios(p) \/ FailScenario(p) \/ ListOpenTasks(p)
                   \/ FailTask(p) \/ RecoveryRaises(p) \/ Serve(p)

Next ==
  \/ \E c \in Starts : Guard(c) \/ StartStep(c) \/ RunStep(c)
  \/ \E c \in Stops : Stop(c) \/ Deactivate(c)
  \/ \E c \in Calls : ReleaseStep(c)
  \/ \E t \in Tasks : TaskStep(t) \/ CancelTask(t) \/ WatchdogStep(t)
  \/ \E p \in Mortal : Crash(p) \/ BootStep(p)

Spec == Init /\ [][Next]_vars

-----------------------------------------------------------------------------
(* Properties.                                                              *)

\* Every variable stays in its range.
TypeOK ==
  /\ target \in Plans
  /\ row \in [Scenarios -> {"initializing", "running", "completed", "failed", "cancelled"}]
  /\ task \in [Tasks -> {"none", "pending", "running"} \cup Terminal]
  /\ agents \subseteq Starts
  /\ lostScenarios \subseteq Scenarios
  /\ lostTasks \subseteq Tasks /\ lostAgents \subseteq Starts
  /\ machine \in [Procs -> {"none", "initializing", "running", "completed",
                            "failed", "cancelled"}]
  /\ active \in [Procs -> SUBSET Scenarios]
  /\ runs \in [Procs -> SUBSET Tasks]
  /\ coro \in [Tasks -> {"none", "scheduled", "executing", "excepting", "ended", "dead"}]
  /\ returned \in [Tasks -> AgentResults \cup {"none"}]
  /\ pc \in [Calls -> Live \cup {"idle", "asked", "refused", "checking", "updating",
                                 "raised", "ended", "stopping", "stopped", "dead"}]
  /\ sent \in [Starts -> Nat] /\ got \in [Starts -> Nat]
  /\ outcome \in [Starts -> Terminal \cup {"none"}]
  /\ todo \in [Calls -> SUBSET (Tasks \X BOOLEAN)]
  /\ boot \in [Procs -> {"up", "down", "scenarios", "pending", "running"}]
  /\ orphans \in [Procs -> SUBSET (Scenarios \cup Tasks)]
  /\ watch \subseteq Tasks \X ({"overdue", "retried", "pending", "running"} \cup Terminal)
  /\ faults \in 0..MaxFaults[target]

\* A scenario whose row says running has a thread that will write its end, or
\* waits for a recovery, however starts, stops and crashes of two processes
\* interleave.  The exceptions are the rows whose thread was never started
\* because start_scenario raised after it had set them to running, and those
\* whose mark_as_failed raised.
RunningHasRunner ==
  \A s \in Scenarios : row[s] = "running" =>
    \/ \E c \in Starts : target[c] = s /\ pc[c] \in Working
    \/ \E p \in Procs : boot[p] = "down" \/ s \in orphans[p]
    \/ s \in lostScenarios

\* What a run takes it gives back: an entry of active_scenarios and an agent
\* run are there only while a start call that made them is at work in that
\* process, or if its thread has raised, before it was started or in the
\* release.  Declared agents stay, besides, after a crash of that process and
\* where the release could not delete them.
NothingOutlives ==
  /\ \A p \in Procs, s \in Scenarios : s \in active[p] =>
       \E c \in Starts : CallProc[c] = p /\ target[c] = s /\ pc[c] \in Live \cup {"raised"}
  /\ \A p \in Procs : \A t \in runs[p] :
       TaskProc(t) = p /\ pc[t[1]] \in Live \cup {"raised"}
  /\ \A c \in agents : pc[c] \in Live \cup {"raised", "dead"} \/ c \in lostAgents

\* A run that reports success got it from the agent of its last task, which
\* returned success: neither the watchdog, nor a cancel, nor the release of
\* another run, nor a recovery can make wait_for_task report it.
SuccessIsEarned ==
  \A c \in Starts : outcome[c] = "success" => returned[<<c, got[c]>>] = "success"

\* A task that is open has a coroutine that will end it, or a thread about to
\* schedule one or to release it, or a recovery that will mark it, though
\* releases, recoveries and cancels write states under a coroutine that still
\* works.  The exceptions are the tasks a watchdog wrote last, which reopens
\* what has ended in the meantime, and those whose mark_as_failed, or whose
\* release, raised.
OpenHasWorker ==
  \A t \in Tasks : Open(t) =>
    \/ coro[t] \in {"scheduled", "executing", "excepting"}
    \/ pc[t[1]] \in {"submitting", "completing", "failing", "releasing", "listing"}
    \/ <<t, TRUE>> \in todo[t[1]]
    \/ boot[TaskProc(t)] \in {"down", "scenarios"}
    \/ boot[TaskProc(t)] = "pending" /\ task[t] = "running"
    \/ t \in orphans[TaskProc(t)]
    \/ t \in lostTasks
=============================================================================
