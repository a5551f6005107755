----------------------- MODULE ScenarioLifecycleProofs ----------------------
(***************************************************************************)
(* Theorems about ScenarioLifecycle, for any processes, scenarios, calls    *)
(* and numbers of tasks and faults.                                         *)
(***************************************************************************)
EXTENDS ScenarioLifecycle, TLAPS

ScenarioStates == {"initializing", "running", "completed", "failed", "cancelled"}
OpenedStates   == {"pending", "running"} \cup Terminal
TaskStates     == {"none", "pending", "running"} \cup Terminal
Coros          == {"none", "scheduled", "executing", "excepting", "ended", "dead"}
Places         == Live \cup {"idle", "asked", "refused", "checking", "updating",
                             "raised", "ended", "stopping", "stopped", "dead"}
Boots          == {"up", "down", "scenarios", "pending", "running"}

\* TypeOK by the groups of variables that actions change together.
TablesOK ==
  /\ target \in Plans
  /\ row \in [Scenarios -> ScenarioStates]
  /\ task \in [Tasks -> TaskStates]
  /\ agents \subseteq Starts

LostOK ==
  /\ lostScenarios \subseteq Scenarios
  /\ lostTasks \subseteq Tasks /\ lostAgents \subseteq Starts

MemoryOK ==
  /\ machine \in [Procs -> ScenarioStates \cup {"none"}]
  /\ active \in [Procs -> SUBSET Scenarios]
  /\ runs \in [Procs -> SUBSET Tasks]
  /\ coro \in [Tasks -> Coros]
  /\ returned \in [Tasks -> AgentResults \cup {"none"}]

LocalsOK ==
  /\ sent \in [Starts -> Nat] /\ got \in [Starts -> Nat]
  /\ outcome \in [Starts -> Terminal \cup {"none"}]
  /\ todo \in [Calls -> SUBSET (Tasks \X BOOLEAN)]

OutsideOK ==
  /\ boot \in [Procs -> Boots]
  /\ orphans \in [Procs -> SUBSET (Scenarios \cup Tasks)]
  /\ watch \subseteq Tasks \X ({"overdue", "retried"} \cup OpenedStates)
  /\ faults \in 0..MaxFaults[target]

PcOK == pc \in [Calls -> Places]

LEMMA TypeParts ==
  TypeOK <=> TablesOK /\ LostOK /\ MemoryOK /\ LocalsOK /\ OutsideOK /\ PcOK
<1>1. {"overdue", "retried"} \cup OpenedStates
        = {"overdue", "retried", "pending", "running"} \cup Terminal
  BY DEF OpenedStates
<1>2. QED
  BY <1>1 DEF TypeOK, TablesOK, LostOK, MemoryOK, LocalsOK, OutsideOK, PcOK,
       ScenarioStates, TaskStates, Coros, Places, Boots

\* A call is only made for a scenario, a run does not submit more tasks than
\* there are, and a task that a watchdog has listed has a row.
CallsOK ==
  /\ \A c \in Calls : pc[c] # "idle" => target[c] \in Scenarios
  /\ \A c \in Starts : pc[c] = "submitting" => sent[c] < MaxTasks
  /\ \A w \in watch : task[w[1]] # "none"

LEMMA Typed ==
  ASSUME TypeOK
  PROVE  /\ target \in [Calls -> Scenarios \cup {None}]
         /\ Starts \subseteq Calls /\ CallProc \in [Calls -> Procs]
         /\ \A t \in Tasks : t[1] \in Starts /\ TaskProc(t) \in Procs
         /\ \A c \in Starts : c \notin Stops
         /\ Mortal \subseteq Procs
BY LifecycleAssumption DEF TypeOK, Calls, Tasks, TaskProc

-----------------------------------------------------------------------------
(* Which actions write which variables.                                     *)

LEMMA ScenarioWriters ==
  ASSUME Next
  PROVE  \/ UNCHANGED scenarioTable
         \/ \E c \in Starts : \/ SetRunning(c) \/ StartRaises(c) \/ MarkEnd(c)
                              \/ FailureRaises(c)
         \/ \E c \in Stops : Stop(c)
         \/ \E p \in Mortal : FailScenario(p)
BY ZenonT(40) DEF Next, StartStep, RunStep, ReleaseStep, TaskStep, WatchdogStep, BootStep, Guard,
       ReadState, CheckTransition, StartRefused, Activate, DeclareAndSpawn, SubmitTask,
       RegisterRun, WaitForTask, RunRaises, CompletionRaises, Finish, Deactivate,
       DeleteAgents, ListTasks, SweepTask, ReleaseRaises, BeginTask, EndTask,
       TaskRaises, ExceptTask, CancelTask, Overdue, RetryTask, ReadRetryCount,
       WriteRetryCount, GiveUpTask, Crash, ListScenarios, ListOpenTasks, FailTask,
       RecoveryRaises, Serve, Release, OnlyTask, Meddle, Recovers, tables, scenarioTable

LEMMA TaskWriters ==
  ASSUME Next
  PROVE  \/ UNCHANGED taskTable
         \/ \E c \in Starts : SubmitTask(c)
         \/ \E c \in Calls : SweepTask(c) \/ ReleaseRaises(c)
         \/ \E t \in Tasks : \/ BeginTask(t) \/ EndTask(t) \/ ExceptTask(t)
                             \/ CancelTask(t) \/ RetryTask(t) \/ WriteRetryCount(t)
                             \/ GiveUpTask(t)
         \/ \E p \in Mortal : FailTask(p)
BY ZenonT(40) DEF Next, StartStep, RunStep, ReleaseStep, TaskStep, WatchdogStep, BootStep, Guard,
       ReadState, CheckTransition, SetRunning, StartRefused, Activate, DeclareAndSpawn,
       StartRaises, RegisterRun, WaitForTask, RunRaises, MarkEnd, CompletionRaises,
       FailureRaises, Finish, Stop, Deactivate, DeleteAgents, ListTasks, TaskRaises,
       Overdue, ReadRetryCount, Crash, ListScenarios, FailScenario, ListOpenTasks,
       RecoveryRaises, Serve, Release, OnlyTask, Meddle, Recovers, tables, taskTable

LEMMA AgentWriters ==
  ASSUME Next
  PROVE  \/ UNCHANGED agentTable
         \/ \E c \in Starts : DeclareAndSpawn(c) \/ StartRaises(c)
         \/ \E c \in Calls : DeleteAgents(c)
BY ZenonT(40) DEF Next, StartStep, RunStep, ReleaseStep, TaskStep, WatchdogStep, BootStep, Guard,
       ReadState, CheckTransition, SetRunning, StartRefused, Activate, SubmitTask,
       RegisterRun, WaitForTask, RunRaises, MarkEnd, CompletionRaises, FailureRaises,
       Finish, Stop, Deactivate, ListTasks, SweepTask, ReleaseRaises, BeginTask,
       EndTask, TaskRaises, ExceptTask, CancelTask, Overdue, RetryTask, ReadRetryCount,
       WriteRetryCount, GiveUpTask, Crash, ListScenarios, FailScenario, ListOpenTasks,
       FailTask, RecoveryRaises, Serve, Release, OnlyTask, Meddle, Recovers, tables,
       agentTable

LEMMA TargetWriters ==
  ASSUME Next
  PROVE  UNCHANGED target
BY ZenonT(40) DEF Next, StartStep, RunStep, ReleaseStep, TaskStep, WatchdogStep, BootStep, Guard,
       ReadState, CheckTransition, SetRunning, StartRefused, Activate, DeclareAndSpawn,
       StartRaises, SubmitTask, RegisterRun, WaitForTask, RunRaises, MarkEnd,
       CompletionRaises, FailureRaises, Finish, Stop, Deactivate, DeleteAgents,
       ListTasks, SweepTask, ReleaseRaises, BeginTask, EndTask, TaskRaises, ExceptTask,
       CancelTask, Overdue, RetryTask, ReadRetryCount, WriteRetryCount, GiveUpTask,
       Crash, ListScenarios, FailScenario, ListOpenTasks, FailTask, RecoveryRaises,
       Serve, Release, OnlyTask, Meddle, Recovers, tables

LEMMA MachineWriters ==
  ASSUME Next
  PROVE  \/ UNCHANGED machine
         \/ \E c \in Starts : ReadState(c)
         \/ \E p \in Mortal : Crash(p)
BY ZenonT(40) DEF Next, StartStep, RunStep, ReleaseStep, TaskStep, WatchdogStep, BootStep, Guard,
       CheckTransition, SetRunning, StartRefused, Activate, DeclareAndSpawn,
       StartRaises, SubmitTask, RegisterRun, WaitForTask, RunRaises, MarkEnd,
       CompletionRaises, FailureRaises, Finish, Stop, Deactivate, DeleteAgents,
       ListTasks, SweepTask, ReleaseRaises, BeginTask, EndTask, TaskRaises, ExceptTask,
       CancelTask, Overdue, RetryTask, ReadRetryCount, WriteRetryCount, GiveUpTask,
       ListScenarios, FailScenario, ListOpenTasks, FailTask, RecoveryRaises, Serve,
       Release, OnlyTask, Meddle, Recovers, memory

LEMMA ActiveWriters ==
  ASSUME Next
  PROVE  \/ UNCHANGED active
         \/ \E c \in Starts : Activate(c) \/ Finish(c)
         \/ \E c \in Stops : Deactivate(c)
         \/ \E p \in Mortal : Crash(p)
BY ZenonT(40) DEF Next, StartStep, RunStep, ReleaseStep, TaskStep, WatchdogStep, BootStep, Guard,
       ReadState, CheckTransition, SetRunning, StartRefused, DeclareAndSpawn,
       StartRaises, SubmitTask, RegisterRun, WaitForTask, RunRaises, MarkEnd,
       CompletionRaises, FailureRaises, Stop, DeleteAgents, ListTasks, SweepTask,
       ReleaseRaises, BeginTask, EndTask, TaskRaises, ExceptTask, CancelTask, Overdue,
       RetryTask, ReadRetryCount, WriteRetryCount, GiveUpTask, ListScenarios,
       FailScenario, ListOpenTasks, FailTask, RecoveryRaises, Serve, Release, OnlyTask,
       Meddle, Recovers, memory

LEMMA RunsWriters ==
  ASSUME Next
  PROVE  \/ UNCHANGED runs
         \/ \E c \in Starts : RegisterRun(c)
         \/ \E c \in Calls : SweepTask(c)
         \/ \E p \in Mortal : Crash(p)
BY ZenonT(40) DEF Next, StartStep, RunStep, ReleaseStep, TaskStep, WatchdogStep, BootStep, Guard,
       ReadState, CheckTransition, SetRunning, StartRefused, Activate, DeclareAndSpawn,
       StartRaises, SubmitTask, WaitForTask, RunRaises, MarkEnd, CompletionRaises,
       FailureRaises, Finish, Stop, Deactivate, DeleteAgents, ListTasks, ReleaseRaises,
       BeginTask, EndTask, TaskRaises, ExceptTask, CancelTask, Overdue, RetryTask,
       ReadRetryCount, WriteRetryCount, GiveUpTask, ListScenarios, FailScenario,
       ListOpenTasks, FailTask, RecoveryRaises, Serve, Release, OnlyTask, Meddle,
       Recovers, memory

LEMMA CoroWriters ==
  ASSUME Next
  PROVE  \/ UNCHANGED coro
         \/ \E c \in Starts : RegisterRun(c)
         \/ \E t \in Tasks : \/ BeginTask(t) \/ EndTask(t) \/ TaskRaises(t)
                             \/ ExceptTask(t)
         \/ \E p \in Mortal : Crash(p)
BY ZenonT(40) DEF Next, StartStep, RunStep, ReleaseStep, TaskStep, WatchdogStep, BootStep, Guard,
       ReadState, CheckTransition, SetRunning, StartRefused, Activate, DeclareAndSpawn,
       StartRaises, SubmitTask, WaitForTask, RunRaises, MarkEnd, CompletionRaises,
       FailureRaises, Finish, Stop, Deactivate, DeleteAgents, ListTasks, SweepTask,
       ReleaseRaises, CancelTask, Overdue, RetryTask, ReadRetryCount, WriteRetryCount,
       GiveUpTask, ListScenarios, FailScenario, ListOpenTasks, FailTask, RecoveryRaises,
       Serve, Release, OnlyTask, Meddle, Recovers, memory

LEMMA ReturnedWriters ==
  ASSUME Next
  PROVE  \/ UNCHANGED returned
         \/ \E t \in Tasks : EndTask(t)
BY ZenonT(40) DEF Next, StartStep, RunStep, ReleaseStep, TaskStep, WatchdogStep, BootStep, Guard,
       ReadState, CheckTransition, SetRunning, StartRefused, Activate, DeclareAndSpawn,
       StartRaises, SubmitTask, RegisterRun, WaitForTask, RunRaises, MarkEnd,
       CompletionRaises, FailureRaises, Finish, Stop, Deactivate, DeleteAgents,
       ListTasks, SweepTask, ReleaseRaises, BeginTask, TaskRaises, ExceptTask,
       CancelTask, Overdue, RetryTask, ReadRetryCount, WriteRetryCount, GiveUpTask,
       Crash, ListScenarios, FailScenario, ListOpenTasks, FailTask, RecoveryRaises,
       Serve, Release, OnlyTask, Meddle, Recovers, memory

LEMMA LocalsWriters ==
  ASSUME Next
  PROVE  \/ UNCHANGED <<sent, got, outcome>>
         \/ \E c \in Starts : \/ RegisterRun(c) \/ WaitForTask(c) \/ RunRaises(c)
                              \/ MarkEnd(c) \/ FailureRaises(c)
BY ZenonT(40) DEF Next, StartStep, RunStep, ReleaseStep, TaskStep, WatchdogStep, BootStep, Guard,
       ReadState, CheckTransition, SetRunning, StartRefused, Activate, DeclareAndSpawn,
       StartRaises, SubmitTask, CompletionRaises, Finish, Stop, Deactivate,
       DeleteAgents, ListTasks, SweepTask, ReleaseRaises, BeginTask, EndTask,
       TaskRaises, ExceptTask, CancelTask, Overdue, RetryTask, ReadRetryCount,
       WriteRetryCount, GiveUpTask, Crash, ListScenarios, FailScenario, ListOpenTasks,
       FailTask, RecoveryRaises, Serve, Release, OnlyTask, Meddle, Recovers, locals

LEMMA TodoWriters ==
  ASSUME Next
  PROVE  \/ UNCHANGED todo
         \/ \E c \in Calls : ListTasks(c) \/ SweepTask(c) \/ ReleaseRaises(c)
         \/ \E p \in Mortal : Crash(p)
BY ZenonT(40) DEF Next, StartStep, RunStep, ReleaseStep, TaskStep, WatchdogStep, BootStep, Guard,
       ReadState, CheckTransition, SetRunning, StartRefused, Activate, DeclareAndSpawn,
       StartRaises, SubmitTask, RegisterRun, WaitForTask, RunRaises, MarkEnd,
       CompletionRaises, FailureRaises, Finish, Stop, Deactivate, DeleteAgents,
       BeginTask, EndTask, TaskRaises, ExceptTask, CancelTask, Overdue, RetryTask,
       ReadRetryCount, WriteRetryCount, GiveUpTask, ListScenarios, FailScenario,
       ListOpenTasks, FailTask, RecoveryRaises, Serve, Release, OnlyTask, Meddle,
       Recovers, locals

LEMMA BootWriters ==
  ASSUME Next
  PROVE  \/ UNCHANGED <<boot, orphans>>
         \/ \E p \in Mortal : Crash(p) \/ BootStep(p)
BY ZenonT(40) DEF Next, StartStep, RunStep, ReleaseStep, TaskStep, WatchdogStep, Guard, ReadState,
       CheckTransition, SetRunning, StartRefused, Activate, DeclareAndSpawn,
       StartRaises, SubmitTask, RegisterRun, WaitForTask, RunRaises, MarkEnd,
       CompletionRaises, FailureRaises, Finish, Stop, Deactivate, DeleteAgents,
       ListTasks, SweepTask, ReleaseRaises, BeginTask, EndTask, TaskRaises, ExceptTask,
       CancelTask, Overdue, RetryTask, ReadRetryCount, WriteRetryCount, GiveUpTask,
       Release, OnlyTask, Meddle, Recovers, outside

LEMMA WatchWriters ==
  ASSUME Next
  PROVE  \/ UNCHANGED watch
         \/ \E t \in Tasks : \/ Overdue(t) \/ RetryTask(t) \/ ReadRetryCount(t)
                             \/ WriteRetryCount(t) \/ GiveUpTask(t)
BY ZenonT(40) DEF Next, StartStep, RunStep, ReleaseStep, TaskStep, WatchdogStep, BootStep, Guard,
       ReadState, CheckTransition, SetRunning, StartRefused, Activate, DeclareAndSpawn,
       StartRaises, SubmitTask, RegisterRun, WaitForTask, RunRaises, MarkEnd,
       CompletionRaises, FailureRaises, Finish, Stop, Deactivate, DeleteAgents,
       ListTasks, SweepTask, ReleaseRaises, BeginTask, EndTask, TaskRaises, ExceptTask,
       CancelTask, Crash, ListScenarios, FailScenario, ListOpenTasks, FailTask,
       RecoveryRaises, Serve, Release, OnlyTask, Meddle, Recovers, outside

\* A call changes only where it is itself.
LEMMA PcWriters ==
  ASSUME Next
  PROVE  \/ UNCHANGED pc
         \/ \E c \in Calls : Up(c) /\ \E next \in Places : pc' = [pc EXCEPT ![c] = next]
         \/ \E p \in Mortal : Crash(p)
<1>1. ASSUME NEW c \in Starts, Guard(c) \/ StartStep(c)
      PROVE  Up(c) /\ \E next \in Places : pc' = [pc EXCEPT ![c] = next]
  BY <1>1 DEF StartStep, Guard, ReadState, CheckTransition, SetRunning, StartRefused,
      Activate, DeclareAndSpawn, StartRaises, Goto, AfterInitialize, Places, Live, Working
<1>2. ASSUME NEW c \in Starts, RunStep(c)
      PROVE  Up(c) /\ \E next \in Places : pc' = [pc EXCEPT ![c] = next]
  BY <1>2 DEF RunStep, SubmitTask, RegisterRun, WaitForTask, RunRaises, MarkEnd,
      CompletionRaises, FailureRaises, Finish, Release, Goto, Places, Live, Working
<1>3. ASSUME NEW c \in Stops, Stop(c) \/ Deactivate(c)
      PROVE  Up(c) /\ \E next \in Places : pc' = [pc EXCEPT ![c] = next]
  BY <1>3 DEF Stop, Deactivate, Goto, Places, Live
<1>4. ASSUME NEW c \in Calls, ReleaseStep(c)
      PROVE  Up(c) /\ \E next \in Places : pc' = [pc EXCEPT ![c] = next]
  BY <1>4 DEF ReleaseStep, DeleteAgents, ListTasks, SweepTask, ReleaseRaises, Goto,
      AfterSweep, Places, Live
<1>5. ASSUME NEW t \in Tasks, TaskStep(t) \/ CancelTask(t) \/ WatchdogStep(t)
      PROVE  UNCHANGED pc
  BY <1>5 DEF TaskStep, BeginTask, EndTask, TaskRaises, ExceptTask, OnlyTask, CancelTask,
      WatchdogStep, Overdue, RetryTask, ReadRetryCount, WriteRetryCount, GiveUpTask, Meddle
<1>6. ASSUME NEW p \in Mortal, BootStep(p)
      PROVE  UNCHANGED pc
  BY <1>6 DEF BootStep, ListScenarios, FailScenario, ListOpenTasks, FailTask,
      RecoveryRaises, Serve, Recovers
<1>7. QED BY <1>1, <1>2, <1>3, <1>4, <1>5, <1>6 DEF Next, Calls
-----------------------------------------------------------------------------
(* Typing.                                                                  *)

LEMMA StepRow ==
  ASSUME TypeOK, Next
  PROVE  row' \in [Scenarios -> ScenarioStates]
<1>1. row \in [Scenarios -> ScenarioStates]
  BY TypeParts DEF TablesOK
<1>2. ASSUME NEW s, NEW st \in ScenarioStates, row' = [row EXCEPT ![s] = st]
      PROVE  row' \in [Scenarios -> ScenarioStates]
  BY <1>1, <1>2
<1>3. ASSUME NEW c \in Calls, SetRunning(c) \/ MarkEnd(c) \/ Stop(c)
      PROVE  row' \in [Scenarios -> ScenarioStates]
  <2>1. \E st \in ScenarioStates : row' = [row EXCEPT ![target[c]] = st]
    BY <1>3 DEF SetRunning, MarkEnd, Stop, EndState, SetRow, ScenarioStates
  <2>2. QED BY <1>2, <2>1
<1>4. ASSUME NEW p, FailScenario(p)
      PROVE  row' \in [Scenarios -> ScenarioStates]
  <2>1. \E s : row' = [row EXCEPT ![s] = "failed"]
    BY <1>4 DEF FailScenario, SetRow
  <2>2. QED BY <1>2, <2>1 DEF ScenarioStates
<1>5. ASSUME NEW c, StartRaises(c) \/ FailureRaises(c)
      PROVE  row' = row
  BY <1>5 DEF StartRaises, FailureRaises
<1>6. QED BY <1>1, <1>3, <1>4, <1>5, ScenarioWriters DEF Calls, scenarioTable

LEMMA StepTask ==
  ASSUME TypeOK, Next
  PROVE  task' \in [Tasks -> TaskStates]
<1>1. task \in [Tasks -> TaskStates]
  BY TypeParts DEF TablesOK
<1>2. ASSUME NEW t, NEW st \in TaskStates, task' = [task EXCEPT ![t] = st]
      PROVE  task' \in [Tasks -> TaskStates]
  BY <1>1, <1>2
<1>3. task' = task \/ \E t, st : st \in TaskStates /\ task' = [task EXCEPT ![t] = st]
  <2>1. ASSUME NEW c, SubmitTask(c) \/ SweepTask(c) \/ ReleaseRaises(c)
        PROVE  task' = task \/ \E t, st : st \in TaskStates /\ task' = [task EXCEPT ![t] = st]
    BY <2>1 DEF SubmitTask, SweepTask, ReleaseRaises, SetTask, taskTable, TaskStates, Terminal
  <2>2. ASSUME NEW t, BeginTask(t) \/ EndTask(t) \/ ExceptTask(t) \/ CancelTask(t)
        PROVE  task' = task \/ \E st : st \in TaskStates /\ task' = [task EXCEPT ![t] = st]
    BY <2>2 DEF BeginTask, EndTask, ExceptTask, CancelTask, AgentResults, SetTask, TaskStates,
                Terminal
  <2>3. ASSUME NEW t, RetryTask(t) \/ WriteRetryCount(t) \/ GiveUpTask(t)
        PROVE  \E st : st \in TaskStates /\ task' = [task EXCEPT ![t] = st]
    BY <2>3 DEF RetryTask, WriteRetryCount, GiveUpTask, SetTask, TaskStates, Terminal
  <2>4. ASSUME NEW p, FailTask(p)
        PROVE  \E t, st : st \in TaskStates /\ task' = [task EXCEPT ![t] = st]
    BY <2>4 DEF FailTask, SetTask, TaskStates, Terminal
  <2>5. QED BY <2>1, <2>2, <2>3, <2>4, TaskWriters DEF taskTable
<1>4. QED BY <1>1, <1>2, <1>3

LEMMA StepTables ==
  ASSUME TypeOK, Next
  PROVE  TablesOK'
<1>1. target' \in Plans
  BY TargetWriters, TypeParts DEF TablesOK
<1>2. agents' \subseteq Starts
  BY AgentWriters, TypeParts
     DEF TablesOK, DeclareAndSpawn, StartRaises, DeleteAgents, agentTable
<1>3. QED BY <1>1, <1>2, StepRow, StepTask DEF TablesOK

\* The task a run submits next exists.
LEMMA NextTaskIsTask ==
  ASSUME TypeOK, CallsOK, NEW c \in Starts, SubmitTask(c) \/ pc[c] = "submitting"
  PROVE  NextTask(c) \in Tasks
<1> USE TypeParts DEF LocalsOK
<1>1. sent[c] < MaxTasks
  <2>1. CASE SubmitTask(c)
    <3>1. target[c] \in Scenarios /\ \E i \in WaitPoints[target[c]] : sent[c] < i
      BY <2>1, Typed DEF SubmitTask, More, CallsOK
    <3>2. QED BY <3>1, LifecycleAssumption
  <2>2. QED BY <2>1 DEF CallsOK
<1>2. QED BY <1>1, LifecycleAssumption DEF NextTask, Tasks

LEMMA StepLost ==
  ASSUME TypeOK, CallsOK, Next
  PROVE  LostOK'
<1> USE TypeParts, Typed DEF LostOK
<1>1. lostScenarios' \subseteq Scenarios
  <2>1. ASSUME NEW c \in Starts, StartRaises(c) \/ FailureRaises(c)
        PROVE  target[c] \in Scenarios /\ lostScenarios' = lostScenarios \cup {target[c]}
    BY <2>1 DEF StartRaises, FailureRaises, CallsOK
  <2>2. ASSUME NEW c, SetRunning(c) \/ MarkEnd(c) \/ Stop(c)
        PROVE  lostScenarios' \subseteq lostScenarios
    BY <2>2 DEF SetRunning, MarkEnd, Stop, SetRow
  <2>3. ASSUME NEW p, FailScenario(p)
        PROVE  lostScenarios' \subseteq lostScenarios
    BY <2>3 DEF FailScenario, SetRow
  <2>4. QED BY <2>1, <2>2, <2>3, ScenarioWriters DEF scenarioTable
<1>2. lostTasks' \subseteq Tasks
  <2>1. ASSUME NEW t \in Tasks, RetryTask(t) \/ WriteRetryCount(t) \/ ExceptTask(t)
        PROVE  lostTasks' \subseteq lostTasks \cup {t}
    BY <2>1 DEF RetryTask, WriteRetryCount, ExceptTask, SetTask
  <2>2. ASSUME NEW t, BeginTask(t) \/ EndTask(t) \/ CancelTask(t) \/ GiveUpTask(t)
        PROVE  lostTasks' \subseteq lostTasks
    BY <2>2 DEF BeginTask, EndTask, CancelTask, GiveUpTask, SetTask
  <2>3. ASSUME NEW c, SubmitTask(c) \/ SweepTask(c) \/ FailTask(c)
        PROVE  lostTasks' \subseteq lostTasks
    BY <2>3 DEF SubmitTask, SweepTask, FailTask, SetTask, taskTable
  <2>4. ASSUME NEW c, ReleaseRaises(c)
        PROVE  lostTasks' \subseteq lostTasks \cup Tasks
    BY <2>4 DEF ReleaseRaises
  <2>5. QED BY <2>1, <2>2, <2>3, <2>4, TaskWriters DEF taskTable
<1>3. lostAgents' \subseteq Starts
  BY AgentWriters DEF TablesOK, DeclareAndSpawn, StartRaises, DeleteAgents, agentTable
<1>4. QED BY <1>1, <1>2, <1>3

LEMMA StepMemory ==
  ASSUME TypeOK, CallsOK, Next
  PROVE  MemoryOK'
<1> USE TypeParts, Typed DEF TablesOK, MemoryOK
<1>1. machine' \in [Procs -> ScenarioStates \cup {"none"}]
  <2>1. ASSUME NEW c \in Starts, ReadState(c)
        PROVE  target[c] \in Scenarios
    BY <2>1 DEF ReadState, CanCall, CallsOK
  <2>2. QED BY <2>1, MachineWriters DEF ReadState, Crash
<1>2. active' \in [Procs -> SUBSET Scenarios]
  <2>1. ASSUME NEW c \in Starts, Activate(c)
        PROVE  target[c] \in Scenarios
    BY <2>1 DEF Activate, CallsOK
  <2>2. QED BY <2>1, ActiveWriters DEF Activate, Finish, Deactivate, Crash
<1>3. ASSUME NEW c \in Starts, RegisterRun(c)
      PROVE  NextTask(c) \in Tasks
  BY <1>3, NextTaskIsTask DEF RegisterRun
<1>4. runs' \in [Procs -> SUBSET Tasks]
  <2>1. ASSUME NEW c, SweepTask(c)
        PROVE  \E gone : runs' = [runs EXCEPT ![CallProc[c]] = @ \ gone]
    BY <2>1 DEF SweepTask
  <2>2. ASSUME NEW c \in Starts, RegisterRun(c)
        PROVE  runs' = [runs EXCEPT ![CallProc[c]] = @ \cup {NextTask(c)}]
    BY <2>2 DEF RegisterRun
  <2>3. ASSUME NEW p, Crash(p)
        PROVE  runs' = [runs EXCEPT ![p] = {}]
    BY <2>3 DEF Crash
  <2>4. QED BY <1>3, <2>1, <2>2, <2>3, RunsWriters
<1>5. coro' \in [Tasks -> Coros]
  <2>1. ASSUME NEW p, Crash(p)
        PROVE  coro' \in [Tasks -> Coros]
    BY <2>1 DEF Crash, Coros
  <2>2. ASSUME NEW t, NEW st \in Coros, coro' = [coro EXCEPT ![t] = st]
        PROVE  coro' \in [Tasks -> Coros]
    BY <2>2
  <2>3. ASSUME NEW c, RegisterRun(c)
        PROVE  \E t, st : st \in Coros /\ coro' = [coro EXCEPT ![t] = st]
    BY <2>3 DEF RegisterRun, Coros
  <2>4. ASSUME NEW t, BeginTask(t) \/ EndTask(t) \/ TaskRaises(t) \/ ExceptTask(t)
        PROVE  \E st : st \in Coros /\ coro' = [coro EXCEPT ![t] = st]
    BY <2>4 DEF BeginTask, EndTask, TaskRaises, ExceptTask, ResumeAt, Coros
  <2>5. QED BY <2>1, <2>2, <2>3, <2>4, CoroWriters
<1>6. returned' \in [Tasks -> AgentResults \cup {"none"}]
  BY ReturnedWriters DEF EndTask
<1>7. QED BY <1>1, <1>2, <1>4, <1>5, <1>6

\* What LocalsWriters' actions do to a run's counters and its last answer.
LEMMA CounterWrites ==
  ASSUME Next
  PROVE  \/ UNCHANGED <<sent, got, outcome>>
         \/ \E c \in Starts :
              \/ RegisterRun(c) /\ sent' = [sent EXCEPT ![c] = @ + 1]
                                /\ UNCHANGED <<got, outcome>>
              \/ WaitForTask(c) /\ got' = [got EXCEPT ![c] = @ + 1] /\ UNCHANGED sent
                                /\ \E state \in Polled(<<c, got[c] + 1>>) :
                                     outcome' = [outcome EXCEPT ![c] = state]
              \/ RunRaises(c)   /\ outcome' = [outcome EXCEPT ![c] = "failed"]
                                /\ UNCHANGED <<sent, got>>
              \/ (MarkEnd(c) \/ FailureRaises(c))
                                /\ sent' = [sent EXCEPT ![c] = 0]
                                /\ got' = [got EXCEPT ![c] = 0]
                                /\ outcome' = [outcome EXCEPT ![c] = "none"]
BY LocalsWriters DEF RegisterRun, WaitForTask, RunRaises, MarkEnd, FailureRaises, Release

LEMMA StepLocals ==
  ASSUME TypeOK, Next
  PROVE  LocalsOK'
<1> USE TypeParts, Typed DEF LocalsOK
<1>1. sent' \in [Starts -> Nat] /\ got' \in [Starts -> Nat]
  <2>1. /\ \/ sent' = sent
           \/ \E c \in Starts : \/ sent' = [sent EXCEPT ![c] = @ + 1]
                                \/ sent' = [sent EXCEPT ![c] = 0]
        /\ \/ got' = got
           \/ \E c \in Starts : \/ got' = [got EXCEPT ![c] = @ + 1]
                                \/ got' = [got EXCEPT ![c] = 0]
    BY CounterWrites
  <2>2. QED BY <2>1
<1>2. outcome' \in [Starts -> Terminal \cup {"none"}]
  <2>1. \/ outcome' = outcome
        \/ \E c \in Starts, st \in Terminal \cup {"none"} : outcome' = [outcome EXCEPT ![c] = st]
    <3>1. \A t : Polled(t) \subseteq Terminal
      BY DEF Polled, Terminal
    <3>2. "failed" \in Terminal
      BY DEF Terminal
    <3>3. QED BY <3>1, <3>2, CounterWrites
  <2>2. QED BY <2>1
<1>3. todo' \in [Calls -> SUBSET (Tasks \X BOOLEAN)]
  <2>1. ASSUME NEW c, ListTasks(c)
        PROVE  \E tasks \in SUBSET (Tasks \X BOOLEAN) : todo' = [todo EXCEPT ![c] = tasks]
    <3> DEFINE listed == {<<t, task[t] \notin Terminal>> :
                 t \in {u \in Tasks : target[u[1]] = target[c] /\ task[u] # "none"}}
    <3>1. todo' = [todo EXCEPT ![c] = listed]
      BY <2>1 DEF ListTasks
    <3>2. \A t \in Tasks : (task[t] \notin Terminal) \in BOOLEAN
      BY Zenon
    <3>4. \A t \in Tasks, open \in BOOLEAN : <<t, open>> \in Tasks \X BOOLEAN
      OBVIOUS
    <3>5. \A t \in Tasks : <<t, task[t] \notin Terminal>> \in Tasks \X BOOLEAN
      BY <3>2, <3>4, Zenon
    <3>6. listed \in SUBSET (Tasks \X BOOLEAN)
      BY <3>5, Zenon
    <3>7. QED BY <3>1, <3>6
  <2>2. ASSUME NEW c, SweepTask(c)
        PROVE  \E done : todo' = [todo EXCEPT ![c] = @ \ done]
    BY <2>2 DEF SweepTask
  <2>3. ASSUME NEW c, ReleaseRaises(c)
        PROVE  todo' = [todo EXCEPT ![c] = {}]
    BY <2>3 DEF ReleaseRaises
  <2>4. ASSUME NEW p, Crash(p)
        PROVE  todo' = [c \in Calls |-> IF CallProc[c] = p THEN {} ELSE todo[c]]
    BY <2>4 DEF Crash
  <2>5. QED BY <2>1, <2>2, <2>3, <2>4, TodoWriters
<1>4. QED BY <1>1, <1>2, <1>3

\* A task that has a row keeps it.
LEMMA RowsStay ==
  ASSUME TypeOK, Next, NEW t \in Tasks, task[t] # "none"
  PROVE  task'[t] # "none"
<1> USE TypeParts DEF TablesOK
<1>1. ASSUME NEW c, SubmitTask(c) \/ SweepTask(c) \/ ReleaseRaises(c) \/ FailTask(c)
      PROVE  task'[t] \in {task[t], "pending", "failed"}
  BY <1>1 DEF SubmitTask, SweepTask, ReleaseRaises, FailTask, SetTask, taskTable
<1>2. ASSUME NEW u, BeginTask(u) \/ EndTask(u) \/ ExceptTask(u) \/ CancelTask(u)
      PROVE  task'[t] # "none"
  BY <1>2 DEF BeginTask, EndTask, ExceptTask, CancelTask, AgentResults, SetTask
<1>3. ASSUME NEW u, RetryTask(u) \/ WriteRetryCount(u) \/ GiveUpTask(u)
      PROVE  task'[t] # "none"
  BY <1>3 DEF RetryTask, WriteRetryCount, GiveUpTask, SetTask, Terminal
<1>4. QED BY <1>1, <1>2, <1>3, TaskWriters DEF taskTable

\* What a watchdog holds is a task with a row and a stage or a state of it.
LEMMA StepWatch ==
  ASSUME TypeOK, CallsOK, Next
  PROVE  /\ watch' \subseteq Tasks \X ({"overdue", "retried"} \cup OpenedStates)
         /\ \A w \in watch' : task'[w[1]] # "none"
<1> USE TypeParts DEF OutsideOK, TablesOK
<1>1. \/ watch' \subseteq watch
      \/ \E t \in Tasks, at \in {"overdue", "retried"} \cup OpenedStates :
           task[t] # "none" /\ watch' \subseteq watch \cup {<<t, at>>}
  <2>1. ASSUME NEW t \in Tasks, Overdue(t)
        PROVE  task[t] # "none" /\ watch' \subseteq watch \cup {<<t, "overdue">>}
    BY <2>1 DEF Overdue
  <2>2. ASSUME NEW t \in Tasks, RetryTask(t)
        PROVE  task[t] # "none" /\ watch' \subseteq watch \cup {<<t, "retried">>}
    <3>1. <<t, "overdue">> \in watch /\ watch' \subseteq watch \cup {<<t, "retried">>}
      BY <2>2 DEF RetryTask, Watched
    <3>2. QED BY <3>1 DEF CallsOK
  <2>3. ASSUME NEW t \in Tasks, ReadRetryCount(t)
        PROVE  /\ task[t] # "none" /\ task[t] \in OpenedStates
               /\ watch' \subseteq watch \cup {<<t, task[t]>>}
    <3>1. <<t, "retried">> \in watch /\ watch' \subseteq watch \cup {<<t, task[t]>>}
      BY <2>3 DEF ReadRetryCount, Watched
    <3>2. task[t] # "none"
      BY <3>1 DEF CallsOK
    <3>3. QED BY <3>1, <3>2 DEF TaskStates, OpenedStates
  <2>4. ASSUME NEW t \in Tasks, WriteRetryCount(t) \/ GiveUpTask(t)
        PROVE  watch' \subseteq watch
    BY <2>4 DEF WriteRetryCount, GiveUpTask, Watched
  <2>5. QED BY <2>1, <2>2, <2>3, <2>4, WatchWriters
<1>2. watch' \subseteq Tasks \X ({"overdue", "retried"} \cup OpenedStates)
  BY <1>1
<1>3. ASSUME NEW w \in watch' PROVE task'[w[1]] # "none"
  <2>1. w[1] \in Tasks
    BY <1>2, <1>3
  <2>2. task[w[1]] # "none"
    BY <1>1, <1>3 DEF CallsOK
  <2>3. QED BY <2>1, <2>2, RowsStay
<1>4. QED BY <1>2, <1>3

LEMMA StepFaults ==
  ASSUME Next
  PROVE  faults' = faults \/ (faults < MaxFaults[target] /\ faults' = faults + 1)
<1> USE DEF Fault, NoFault
<1>1. ASSUME NEW c \in Starts, Guard(c) \/ StartStep(c) \/ RunStep(c)
      PROVE  NoFault \/ Fault
  BY <1>1 DEF Guard, StartStep, ReadState, CheckTransition, SetRunning, StartRefused,
     Activate, DeclareAndSpawn, StartRaises, RunStep, SubmitTask, RegisterRun, WaitForTask,
     RunRaises, MarkEnd, CompletionRaises, FailureRaises, Finish
<1>2. ASSUME NEW c, Stop(c) \/ Deactivate(c) \/ ReleaseStep(c)
      PROVE  NoFault \/ Fault
  BY <1>2 DEF Stop, Deactivate, ReleaseStep, DeleteAgents, ListTasks, SweepTask, ReleaseRaises
<1>3. ASSUME NEW t \in Tasks, TaskStep(t) \/ CancelTask(t) \/ WatchdogStep(t)
      PROVE  NoFault \/ Fault
  BY <1>3 DEF TaskStep, BeginTask, EndTask, TaskRaises, ExceptTask, CancelTask, WatchdogStep,
     Overdue, RetryTask, ReadRetryCount, WriteRetryCount, GiveUpTask
<1>4. ASSUME NEW p \in Mortal, Crash(p) \/ BootStep(p)
      PROVE  NoFault \/ Fault
  BY <1>4 DEF Crash, BootStep, ListScenarios, FailScenario, ListOpenTasks, FailTask,
     RecoveryRaises, Serve
<1>5. QED BY <1>1, <1>2, <1>3, <1>4 DEF Next

LEMMA StepOutside ==
  ASSUME TypeOK, CallsOK, Next
  PROVE  OutsideOK'
<1> USE TypeParts DEF OutsideOK
<1>1. boot' \in [Procs -> Boots]
  BY BootWriters DEF Crash, BootStep, ListScenarios, FailScenario, ListOpenTasks, FailTask,
                     RecoveryRaises, Serve, Boots
<1>2. orphans' \in [Procs -> SUBSET (Scenarios \cup Tasks)]
  BY BootWriters DEF Crash, BootStep, ListScenarios, FailScenario, ListOpenTasks, FailTask,
                     RecoveryRaises, Serve, OpenTasks
<1>3. faults' \in 0..MaxFaults'[target']
  <2>1. target' = target /\ MaxFaults[target] \in Nat
    BY TargetWriters, LifecycleAssumption DEF TablesOK
  <2>2. QED BY <2>1, StepFaults
<1>4. QED BY <1>1, <1>2, <1>3, StepWatch

LEMMA StepPc ==
  ASSUME TypeOK, Next
  PROVE  PcOK'
<1>1. pc \in [Calls -> Places]
  BY TypeParts DEF PcOK
<1>2. ASSUME NEW p, Crash(p)
      PROVE  pc' \in [Calls -> Places]
  BY <1>1, <1>2 DEF Crash, Places
<1>3. QED BY <1>1, <1>2, PcWriters DEF PcOK

\* A start call moves by its own steps only, or dies.
LEMMA OwnSteps ==
  ASSUME TypeOK, Next, NEW c \in Starts, pc'[c] # pc[c]
  PROVE  \/ Guard(c) \/ StartStep(c) \/ RunStep(c) \/ ReleaseStep(c)
         \/ \E p \in Mortal : Crash(p) /\ p = CallProc[c] /\ pc'[c] = "dead" /\ ~Gone(c)
<1> USE TypeParts, Typed DEF PcOK
<1>1. ASSUME NEW d \in Calls, NEW next, pc' = [pc EXCEPT ![d] = next]
      PROVE  d = c
  BY <1>1
<1>2. ASSUME NEW d \in Calls, ReleaseStep(d)
      PROVE  d = c
  BY <1>1, <1>2 DEF ReleaseStep, DeleteAgents, ListTasks, SweepTask, ReleaseRaises, Goto
<1>3. ASSUME NEW d \in Stops, Stop(d) \/ Deactivate(d)
      PROVE  FALSE
  <2>1. d = c
    BY <1>1, <1>3 DEF Stop, Deactivate, Goto, Calls
  <2>2. QED BY <2>1
<1>4. ASSUME NEW d \in Starts, Guard(d) \/ StartStep(d)
      PROVE  d = c
  BY <1>1, <1>4 DEF StartStep, Guard, ReadState, CheckTransition, SetRunning, StartRefused,
      Activate, DeclareAndSpawn, StartRaises, Goto
<1>5. ASSUME NEW d \in Starts, RunStep(d)
      PROVE  d = c
  BY <1>1, <1>5 DEF RunStep, SubmitTask, RegisterRun, WaitForTask, RunRaises, MarkEnd,
      CompletionRaises, FailureRaises, Finish, Release, Goto
<1>6. ASSUME NEW d, d = c, Guard(d) \/ StartStep(d) \/ RunStep(d) \/ ReleaseStep(d)
      PROVE  Guard(c) \/ StartStep(c) \/ RunStep(c) \/ ReleaseStep(c)
  BY <1>6
<1>7. ASSUME NEW p \in Mortal, Crash(p)
      PROVE  p = CallProc[c] /\ pc'[c] = "dead" /\ ~Gone(c)
  BY <1>7 DEF Crash
<1>8. ASSUME NEW t \in Tasks, TaskStep(t) \/ CancelTask(t) \/ WatchdogStep(t)
      PROVE  FALSE
  BY <1>8 DEF TaskStep, BeginTask, EndTask, TaskRaises, ExceptTask, OnlyTask, CancelTask,
      WatchdogStep, Overdue, RetryTask, ReadRetryCount, WriteRetryCount, GiveUpTask, Meddle
<1>9. ASSUME NEW p \in Mortal, BootStep(p)
      PROVE  FALSE
  BY <1>9 DEF BootStep, ListScenarios, FailScenario, ListOpenTasks, FailTask,
      RecoveryRaises, Serve, Recovers
<1>10. QED BY <1>2, <1>3, <1>4, <1>5, <1>6, <1>7, <1>8, <1>9 DEF Next

\* Where each own step of a start call begins and where it leads.
LEMMA Moves ==
  ASSUME TypeOK, NEW c \in Starts
  PROVE  /\ Guard(c) => pc[c] = "idle" /\ target[c] # None /\ pc'[c] \in {"asked", "refused"}
         /\ StartStep(c) =>
              /\ pc[c] \in {"idle", "asked", "checking", "updating", "entering", "declaring"}
              /\ pc[c] = "idle" => target[c] # None
              /\ pc[c] \in {"entering", "declaring"} =>
                   pc'[c] \in {"declaring", "running", "failing", "raised"}
              /\ pc'[c] \in {"checking", "updating", "refused", "entering", "declaring",
                             "running", "failing", "raised"}
         /\ SubmitTask(c) => pc[c] = "running" /\ pc'[c] = "submitting"
         /\ RegisterRun(c) => pc[c] = "submitting" /\ pc'[c] = "running"
         /\ WaitForTask(c) => pc[c] = "running" /\ pc'[c] \in {"running", "completing"}
         /\ RunRaises(c) => pc[c] \in {"running", "submitting"} /\ pc'[c] = "completing"
         /\ CompletionRaises(c) => pc[c] = "completing" /\ pc'[c] = "failing"
         /\ MarkEnd(c) \/ FailureRaises(c) =>
              pc[c] \in {"completing", "failing"} /\ pc'[c] = "releasing"
         /\ Finish(c) => pc[c] = "finishing" /\ pc'[c] = "ended"
         /\ DeleteAgents(c) => pc[c] = "releasing" /\ pc'[c] = "listing"
         /\ ListTasks(c) => pc[c] = "listing" /\ pc'[c] \in {"sweeping", "finishing"}
         /\ SweepTask(c) => pc[c] = "sweeping" /\ pc'[c] \in {"sweeping", "finishing"}
         /\ ReleaseRaises(c) => pc[c] \in {"listing", "sweeping"} /\ pc'[c] = "raised"
<1> USE TypeParts, Typed DEF PcOK, Goto
<1>1. Guard(c) => pc[c] = "idle" /\ target[c] # None /\ pc'[c] \in {"asked", "refused"}
  BY DEF Guard, CanCall
<1>2. StartStep(c) =>
        /\ pc[c] \in {"idle", "asked", "checking", "updating", "entering", "declaring"}
        /\ pc[c] = "idle" => target[c] # None
        /\ pc[c] \in {"entering", "declaring"} =>
             pc'[c] \in {"declaring", "running", "failing", "raised"}
        /\ pc'[c] \in {"checking", "updating", "refused", "entering", "declaring",
                       "running", "failing", "raised"}
  BY DEF StartStep, ReadState, CanCall, CheckTransition, SetRunning, StartRefused, Activate,
     DeclareAndSpawn, StartRaises, AfterInitialize
<1>3. /\ SubmitTask(c) => pc[c] = "running" /\ pc'[c] = "submitting"
      /\ RegisterRun(c) => pc[c] = "submitting" /\ pc'[c] = "running"
      /\ WaitForTask(c) => pc[c] = "running" /\ pc'[c] \in {"running", "completing"}
      /\ RunRaises(c) => pc[c] \in {"running", "submitting"} /\ pc'[c] = "completing"
      /\ CompletionRaises(c) => pc[c] = "completing" /\ pc'[c] = "failing"
      /\ MarkEnd(c) \/ FailureRaises(c) =>
           pc[c] \in {"completing", "failing"} /\ pc'[c] = "releasing"
      /\ Finish(c) => pc[c] = "finishing" /\ pc'[c] = "ended"
  BY DEF SubmitTask, RegisterRun, WaitForTask, RunRaises, CompletionRaises, MarkEnd,
     FailureRaises, Release, Finish
<1>4. /\ DeleteAgents(c) => pc[c] = "releasing" /\ pc'[c] = "listing"
      /\ ListTasks(c) => pc[c] = "listing" /\ pc'[c] \in {"sweeping", "finishing"}
      /\ SweepTask(c) => pc[c] = "sweeping" /\ pc'[c] \in {"sweeping", "finishing"}
      /\ ReleaseRaises(c) => pc[c] \in {"listing", "sweeping"} /\ pc'[c] = "raised"
  BY DEF DeleteAgents, ListTasks, SweepTask, ReleaseRaises, AfterSweep
<1>5. QED BY <1>1, <1>2, <1>3, <1>4

\* Only SubmitTask brings a call to the point where a row without a run exists.
LEMMA Submitting ==
  ASSUME TypeOK, Next, NEW c \in Starts, pc'[c] = "submitting", pc[c] # "submitting"
  PROVE  SubmitTask(c)
BY OwnSteps, Moves DEF RunStep, ReleaseStep

\* A call that is under way was made.
LEMMA Made ==
  ASSUME TypeOK, Next, NEW c \in Calls, pc'[c] # "idle", pc[c] = "idle"
  PROVE  target[c] # None
<1> USE TypeParts, Typed DEF PcOK
<1>1. CASE c \in Starts
  BY <1>1, OwnSteps, Moves DEF Gone, RunStep, ReleaseStep
<1>2. CASE c \in Stops
  <2>1. ASSUME NEW d \in Starts, Guard(d) \/ StartStep(d) \/ RunStep(d)
        PROVE  pc'[c] = pc[c]
    <3>1. d # c /\ d \in Calls
      BY <1>2
    <3>2. \E next : pc' = [pc EXCEPT ![d] = next]
      BY <2>1 DEF Guard, StartStep, ReadState, CheckTransition, SetRunning, StartRefused,
         Activate, DeclareAndSpawn, StartRaises, RunStep, SubmitTask, RegisterRun,
         WaitForTask, RunRaises, MarkEnd, CompletionRaises, FailureRaises, Finish, Release,
         Goto
    <3>3. QED BY <3>1, <3>2
  <2>2. ASSUME NEW d \in Stops, Stop(d) \/ Deactivate(d)
        PROVE  target[c] # None
    <3>1. d = c
      BY <2>2 DEF Stop, Deactivate, Goto, Calls
    <3>2. QED BY <2>2, <3>1 DEF Stop, Deactivate, CanCall
  <2>3. ASSUME NEW d \in Calls, ReleaseStep(d)
        PROVE  FALSE
    <3>1. d = c
      BY <2>3 DEF ReleaseStep, DeleteAgents, ListTasks, SweepTask, ReleaseRaises, Goto
    <3>2. QED
      BY <2>3, <3>1 DEF ReleaseStep, DeleteAgents, ListTasks, SweepTask, ReleaseRaises
  <2>4. ASSUME NEW p \in Mortal, Crash(p)
        PROVE  FALSE
    BY <2>4 DEF Crash, Gone
  <2>5. ASSUME NEW t \in Tasks, TaskStep(t) \/ CancelTask(t) \/ WatchdogStep(t)
        PROVE  FALSE
    BY <2>5 DEF TaskStep, BeginTask, EndTask, TaskRaises, ExceptTask, OnlyTask, CancelTask,
        WatchdogStep, Overdue, RetryTask, ReadRetryCount, WriteRetryCount, GiveUpTask, Meddle
  <2>6. ASSUME NEW p \in Mortal, BootStep(p)
        PROVE  FALSE
    BY <2>6 DEF BootStep, ListScenarios, FailScenario, ListOpenTasks, FailTask,
        RecoveryRaises, Serve, Recovers
  <2>7. QED BY <2>1, <2>2, <2>3, <2>4, <2>5, <2>6 DEF Next
<1>3. QED BY <1>1, <1>2 DEF Calls

LEMMA StepCalls ==
  ASSUME TypeOK, CallsOK, Next
  PROVE  CallsOK'
<1> USE TypeParts, Typed DEF TablesOK, LocalsOK, PcOK
<1>1. ASSUME NEW c \in Calls, pc'[c] # "idle"
      PROVE  target'[c] \in Scenarios
  BY <1>1, Made, TargetWriters DEF CallsOK
<1>2. ASSUME NEW c \in Starts, pc'[c] = "submitting"
      PROVE  sent'[c] < MaxTasks
  <2>1. CASE pc[c] # "submitting"
    <3>1. SubmitTask(c)
      BY <1>2, <2>1, Submitting
    <3>2. target[c] \in Scenarios /\ \E i \in WaitPoints[target[c]] : sent[c] < i
      BY <3>1 DEF SubmitTask, More, CallsOK
    <3>3. sent[c] < MaxTasks
      BY <3>2, LifecycleAssumption
    <3>4. sent' = sent
      BY <3>1 DEF SubmitTask, locals
    <3>5. QED BY <3>3, <3>4
  <2>2. CASE pc[c] = "submitting"
    <3>1. sent[c] < MaxTasks
      BY <2>2 DEF CallsOK
    <3>2. ASSUME NEW d \in Starts, RegisterRun(d)
          PROVE  d # c
      <4>1. RegisterRun(c) => FALSE
        BY <1>2, Moves
      <4>2. QED BY <3>2, <4>1
    <3>3. sent'[c] = sent[c] \/ sent'[c] = 0
      BY <3>2, CounterWrites
    <3>4. sent[c] \in Nat /\ MaxTasks \in Nat
      BY LifecycleAssumption
    <3>5. QED BY <3>1, <3>3, <3>4
  <2>3. QED BY <2>1, <2>2
<1>3. QED BY <1>1, <1>2, StepWatch DEF CallsOK

LEMMA InitTyping == Init => TypeOK /\ CallsOK
<1> SUFFICES ASSUME Init PROVE TypeOK /\ CallsOK
  OBVIOUS
<1>1. TablesOK /\ LostOK
  BY DEF Init, TablesOK, LostOK, ScenarioStates, TaskStates
<1>2. MemoryOK
  BY DEF Init, MemoryOK, Coros
<1>3. LocalsOK
  BY DEF Init, LocalsOK
<1>4. OutsideOK
  <2>1. MaxFaults[target] \in Nat
    BY LifecycleAssumption DEF Init
  <2>2. QED BY <2>1 DEF Init, OutsideOK, Boots
<1>5. PcOK
  BY DEF Init, PcOK, Places
<1>6. CallsOK
  BY DEF Init, CallsOK, Calls
<1>7. QED BY <1>1, <1>2, <1>3, <1>4, <1>5, <1>6, TypeParts

\* Every reachable state is well typed, a run submits at most the tasks its
\* scenario has, and what a watchdog has listed has a row.
THEOREM Typing == Spec => [](TypeOK /\ CallsOK)
<1>1. TypeOK /\ CallsOK /\ [Next]_vars => (TypeOK /\ CallsOK)'
  <2>1. ASSUME TypeOK, CallsOK, Next  PROVE (TypeOK /\ CallsOK)'
    <3>1. TablesOK' /\ LostOK' /\ MemoryOK' /\ LocalsOK' /\ OutsideOK' /\ PcOK'
      BY <2>1, StepTables, StepLost, StepMemory, StepLocals, StepOutside, StepPc
    <3>2. TypeOK'
      BY <3>1, TypeParts, PTL
    <3>3. QED BY <2>1, <3>2, StepCalls
  <2>2. TypeOK /\ CallsOK /\ UNCHANGED vars => (TypeOK /\ CallsOK)'
    BY DEF TypeOK, CallsOK, Open, vars, tables, scenarioTable, taskTable, agentTable, memory,
           locals, outside
  <2>3. QED BY <2>1, <2>2
<1>2. QED BY <1>1, InitTyping, PTL DEF Spec
-----------------------------------------------------------------------------
(* RunningHasRunner.                                                        *)

\* Inductive: who will take the row of scenario s out of "running", if nobody
\* has failed to.
Runner(s) ==
  \/ \E c \in Starts : target[c] = s /\ pc[c] \in Working
  \/ \E p \in Procs : \/ boot[p] = "down"
                      \/ boot[p] = "scenarios" /\ s \in orphans[p]
  \/ s \in lostScenarios

RunnerInv == \A s \in Scenarios : row[s] = "running" => Runner(s)

\* A call on this way leaves it by its last write, by one that raises, or dies.
LEMMA WorkingStays ==
  ASSUME TypeOK, Next, NEW c \in Starts, pc[c] \in Working
  PROVE  \/ pc'[c] \in Working
         \/ MarkEnd(c) \/ FailureRaises(c) \/ StartRaises(c)
         \/ \E p \in Mortal : Crash(p)
<1> USE TypeParts, Typed DEF PcOK
<1>1. CASE pc'[c] = pc[c]
  BY <1>1
<1>2. CASE Guard(c)
  BY <1>2, Moves DEF Working
<1>3. CASE StartStep(c)
  <2>1. ASSUME StartStep(c), pc'[c] = "raised"
        PROVE  StartRaises(c)
    BY <2>1 DEF StartStep, ReadState, CheckTransition, SetRunning, StartRefused, Activate, DeclareAndSpawn,
           AfterInitialize, Goto
  <2>2. QED BY <1>3, <2>1, Moves DEF Working
<1>4. CASE RunStep(c)
  BY <1>4, Moves DEF RunStep, Working
<1>5. CASE ReleaseStep(c)
  BY <1>5, Moves DEF ReleaseStep, Working
<1>6. QED BY <1>1, <1>2, <1>3, <1>4, <1>5, OwnSteps

\* A row that nobody has to write stays so until somebody writes it.
LEMMA LostStays ==
  ASSUME TypeOK, Next, NEW s \in lostScenarios, row'[s] = "running"
  PROVE  s \in lostScenarios' \/ \E c \in Starts : SetRunning(c) /\ target[c] = s
<1> USE TypeParts DEF TablesOK, LostOK
<1>1. ASSUME NEW c \in Starts, SetRunning(c)
      PROVE  s \in lostScenarios' \/ target[c] = s
  BY <1>1 DEF SetRunning, SetRow
<1>2. ASSUME NEW c \in Calls, MarkEnd(c) \/ Stop(c)
      PROVE  s \in lostScenarios'
  BY <1>2 DEF MarkEnd, Stop, SetRow, EndState
<1>3. ASSUME NEW c \in Starts, StartRaises(c) \/ FailureRaises(c)
      PROVE  s \in lostScenarios'
  BY <1>3 DEF StartRaises, FailureRaises
<1>4. ASSUME NEW p, FailScenario(p)
      PROVE  s \in lostScenarios'
  BY <1>4 DEF FailScenario, SetRow
<1>5. QED BY <1>1, <1>2, <1>3, <1>4, ScenarioWriters DEF scenarioTable, Calls

\* A process that is down stays so until it lists what it takes for orphans,
\* and each of these stays in its list until it is marked or the process is
\* down again.
LEMMA RecoveryStays ==
  ASSUME TypeOK, Next, NEW p \in Procs, NEW s \in Scenarios,
         boot[p] = "down" \/ (boot[p] = "scenarios" /\ s \in orphans[p]),
         row[s] = "running", row'[s] = "running"
  PROVE  boot'[p] = "down" \/ (boot'[p] = "scenarios" /\ s \in orphans'[p])
<1> USE TypeParts, Typed DEF OutsideOK, TablesOK
<1>1. ASSUME NEW q \in Procs, Crash(q)
      PROVE  boot' = [boot EXCEPT ![q] = "down"] /\ orphans' = orphans /\ q # p
  BY <1>1 DEF Crash
<1>2. ASSUME NEW q \in Procs, ListScenarios(q)
      PROVE  /\ boot' = [boot EXCEPT ![q] = "scenarios"]
             /\ q = p => s \in orphans'[p]
             /\ q # p => orphans'[p] = orphans[p]
  BY <1>2 DEF ListScenarios
<1>3. ASSUME NEW q \in Procs, FailScenario(q)
      PROVE  boot' = boot /\ (s \in orphans[p] => s \in orphans'[p])
  <2>1. PICK r \in orphans[q] : /\ row' = [row EXCEPT ![r] = "failed"]
                                /\ orphans' = [orphans EXCEPT ![q] = @ \ {r}]
    BY <1>3 DEF FailScenario, SetRow
  <2>2. r # s
    BY <2>1
  <2>3. QED BY <1>3, <2>1, <2>2 DEF FailScenario
<1>4. ASSUME NEW q \in Procs, ListOpenTasks(q) \/ FailTask(q) \/ Serve(q)
      PROVE  boot'[p] = boot[p] /\ orphans'[p] = orphans[p]
  BY <1>4 DEF ListOpenTasks, FailTask, Serve
<1>5. ASSUME NEW q \in Procs, RecoveryRaises(q)
      PROVE  boot'[p] = "down" \/ (boot'[p] = boot[p] /\ orphans'[p] = orphans[p])
  BY <1>5 DEF RecoveryRaises
<1>6. QED BY <1>1, <1>2, <1>3, <1>4, <1>5, BootWriters DEF BootStep

LEMMA StepRunner ==
  ASSUME TypeOK, RunnerInv, Next
  PROVE  RunnerInv'
<1> USE TypeParts, Typed DEF TablesOK, PcOK
<1> SUFFICES ASSUME NEW s \in Scenarios, row'[s] = "running"
             PROVE  Runner(s)'
  BY DEF RunnerInv
<1>1. target' = target
  BY TargetWriters
<1>2. ASSUME NEW c \in Starts, SetRunning(c), target[c] = s
      PROVE  Runner(s)'
  <2>1. pc'[c] = "entering"
    BY <1>2 DEF SetRunning, Goto
  <2>2. QED BY <1>1, <1>2, <2>1 DEF Runner, Working
<1>3. CASE row[s] # "running"
  <2>1. ASSUME NEW c \in Calls, MarkEnd(c) \/ Stop(c)
        PROVE  row'[s] = row[s] \/ row'[s] # "running"
    BY <2>1 DEF MarkEnd, Stop, EndState, SetRow
  <2>2. ASSUME NEW p, FailScenario(p)
        PROVE  row'[s] = row[s] \/ row'[s] # "running"
    BY <2>2 DEF FailScenario, SetRow
  <2>3. ASSUME NEW c, StartRaises(c) \/ FailureRaises(c)
        PROVE  row'[s] = row[s]
    BY <2>3 DEF StartRaises, FailureRaises
  <2>4. ASSUME NEW c \in Starts, SetRunning(c)
        PROVE  target[c] = s
    BY <1>3, <2>4 DEF SetRunning, SetRow
  <2>5. QED BY <1>2, <1>3, <2>1, <2>2, <2>3, <2>4, ScenarioWriters DEF Calls, scenarioTable
<1>4. CASE row[s] = "running"
  <2>1. Runner(s)
    BY <1>4 DEF RunnerInv
  <2>2. ASSUME NEW c \in Starts, target[c] = s, pc[c] \in Working
        PROVE  Runner(s)'
    <3>1. ASSUME MarkEnd(c)
          PROVE  row'[s] \in {"completed", "failed"}
      BY <2>2, <3>1 DEF MarkEnd, EndState, SetRow
    <3>2. ASSUME FailureRaises(c) \/ StartRaises(c)
          PROVE  s \in lostScenarios'
      BY <2>2, <3>2 DEF FailureRaises, StartRaises
    <3>3. ASSUME NEW p \in Mortal, Crash(p)
          PROVE  p \in Procs /\ boot'[p] = "down"
      BY <3>3 DEF Crash, OutsideOK
    <3>4. QED BY <1>1, <2>2, <3>1, <3>2, <3>3, WorkingStays DEF Runner
  <2>3. ASSUME NEW p \in Procs, boot[p] = "down" \/ (boot[p] = "scenarios" /\ s \in orphans[p])
        PROVE  Runner(s)'
    BY <1>4, <2>3, RecoveryStays DEF Runner
  <2>4. ASSUME s \in lostScenarios
        PROVE  Runner(s)'
    BY <1>2, <2>4, LostStays DEF Runner
  <2>5. QED BY <2>1, <2>2, <2>3, <2>4 DEF Runner
<1>5. QED BY <1>3, <1>4

\* A scenario whose row says running has a thread that will end it, or waits
\* for a recovery, or is one whose start raised or whose mark_as_failed did,
\* with any number of processes, calls and crashes.
THEOREM NoRunningOrphan == Spec => []RunningHasRunner
<1>1. Init => RunnerInv
  BY DEF Init, RunnerInv
<1>2. TypeOK /\ RunnerInv /\ [Next]_vars => RunnerInv'
  <2>1. RunnerInv /\ UNCHANGED vars => RunnerInv'
    BY DEF RunnerInv, Runner, vars, tables, scenarioTable, outside
  <2>2. QED BY <2>1, StepRunner
<1>3. RunnerInv => RunningHasRunner
  BY DEF RunnerInv, Runner, RunningHasRunner
<1>4. QED BY <1>1, <1>2, <1>3, Typing, PTL DEF Spec
-----------------------------------------------------------------------------
(* OpenHasWorker.                                                           *)

\* The places of a start call that is yet to list what its release marks.
BeforeListing == {"completing", "failing", "releasing", "listing"}

\* Inductive: who will end task t, or is about to make somebody do it.
Worker(t) ==
  \/ coro[t] \in {"scheduled", "executing", "excepting"}
  \/ pc[t[1]] = "submitting" /\ t = NextTask(t[1])
  \/ pc[t[1]] \in BeforeListing
  \/ <<t, TRUE>> \in todo[t[1]]
  \/ boot[TaskProc(t)] \in {"down", "scenarios"}
  \/ boot[TaskProc(t)] = "pending" /\ task[t] = "running"
  \/ boot[TaskProc(t)] \in {"pending", "running"} /\ t \in orphans[TaskProc(t)]
  \/ t \in lostTasks

WorkerInv == \A t \in Tasks : Open(t) => Worker(t)

\* How a task can be open after a step.
LEMMA Opens ==
  ASSUME TypeOK, Next, NEW t \in Tasks, Open(t)'
  PROVE  \/ \E c \in Starts : SubmitTask(c) /\ t = NextTask(c)
         \/ BeginTask(t)
         \/ t \in lostTasks'
         \/ task'[t] = task[t] /\ t \notin lostTasks
<1> USE TypeParts DEF TablesOK, LostOK, Open
<1>1. ASSUME NEW c \in Starts, SubmitTask(c)
      PROVE  t = NextTask(c) \/ (task'[t] = task[t] /\ (t \in lostTasks => t \in lostTasks'))
  BY <1>1 DEF SubmitTask, SetTask
<1>2. ASSUME NEW c \in Calls, SweepTask(c) \/ ReleaseRaises(c)
      PROVE  task'[t] = task[t] /\ (t \in lostTasks => t \in lostTasks')
  BY <1>2 DEF SweepTask, ReleaseRaises, SetTask, taskTable
<1>3. ASSUME NEW u \in Tasks, EndTask(u) \/ ExceptTask(u) \/ CancelTask(u) \/ GiveUpTask(u)
      PROVE  task'[t] = task[t] /\ (t \in lostTasks => t \in lostTasks')
  BY <1>3 DEF EndTask, ExceptTask, CancelTask, GiveUpTask, SetTask, AgentResults
<1>4. ASSUME NEW u \in Tasks, RetryTask(u) \/ WriteRetryCount(u)
      PROVE  t \in lostTasks' \/ (task'[t] = task[t] /\ t \notin lostTasks)
  <2>1. (\E st : task' = [task EXCEPT ![u] = st]) /\ lostTasks' = lostTasks \cup {u}
    BY <1>4 DEF RetryTask, WriteRetryCount
  <2>2. QED BY <2>1
<1>5. ASSUME NEW u \in Tasks, BeginTask(u), u # t
      PROVE  task'[t] = task[t] /\ (t \in lostTasks => t \in lostTasks')
  BY <1>5 DEF BeginTask, SetTask
<1>6. ASSUME NEW u \in Tasks, BeginTask(u), u = t
      PROVE  BeginTask(t)
  BY <1>6
<1>7. ASSUME NEW p \in Mortal, FailTask(p)
      PROVE  task'[t] = task[t] /\ (t \in lostTasks => t \in lostTasks')
  BY <1>7 DEF FailTask, SetTask
<1>8. QED BY <1>1, <1>2, <1>3, <1>4, <1>5, <1>6, <1>7, TaskWriters DEF taskTable

\* A coroutine works until it ends its task, fails to, or dies with its process.
LEMMA CoroStays ==
  ASSUME TypeOK, Next, NEW t \in Tasks, coro[t] \in {"scheduled", "executing", "excepting"}
  PROVE  \/ coro'[t] \in {"scheduled", "executing", "excepting"}
         \/ ~Open(t)'
         \/ t \in lostTasks'
         \/ boot'[TaskProc(t)] = "down"
<1> USE TypeParts, Typed DEF TablesOK, MemoryOK, OutsideOK
<1>1. ASSUME NEW c \in Starts, RegisterRun(c)
      PROVE  coro'[t] \in {"scheduled", "executing", "excepting"}
  BY <1>1 DEF RegisterRun
<1>2. ASSUME NEW u \in Tasks, BeginTask(u) \/ TaskRaises(u)
      PROVE  coro'[t] \in {"scheduled", "executing", "excepting"}
  BY <1>2 DEF BeginTask, TaskRaises, ResumeAt
<1>3. ASSUME NEW u \in Tasks, EndTask(u)
      PROVE  coro'[t] = coro[t] \/ ~Open(t)'
  BY <1>3 DEF EndTask, AgentResults, Open, SetTask, ResumeAt
<1>4. ASSUME NEW u \in Tasks, ExceptTask(u)
      PROVE  coro'[t] = coro[t] \/ ~Open(t)' \/ t \in lostTasks'
  BY <1>4 DEF ExceptTask, Open, SetTask, ResumeAt
<1>5. ASSUME NEW p \in Mortal, Crash(p)
      PROVE  coro'[t] = coro[t] \/ boot'[TaskProc(t)] = "down"
  BY <1>5 DEF Crash
<1>6. QED BY <1>1, <1>2, <1>3, <1>4, <1>5, CoroWriters

\* A submit that has created the row goes on to schedule the coroutine, or
\* raises, and the release is to find the row.
LEMMA SubmittingStays ==
  ASSUME TypeOK, CallsOK, Next, NEW t \in Tasks,
         pc[t[1]] = "submitting", t = NextTask(t[1])
  PROVE  \/ pc'[t[1]] = "submitting" /\ t = NextTask(t[1])'
         \/ coro'[t] = "scheduled"
         \/ pc'[t[1]] = "completing"
         \/ boot'[TaskProc(t)] = "down"
<1> USE TypeParts, Typed DEF PcOK, MemoryOK, OutsideOK, LocalsOK
<1> DEFINE c == t[1]
<1>1. c \in Starts /\ TaskProc(t) = CallProc[c]
  BY DEF TaskProc
<1>2. CASE RegisterRun(c)
  BY <1>1, <1>2 DEF RegisterRun
<1>3. CASE RunRaises(c)
  BY <1>1, <1>3, Moves
<1>4. ASSUME NEW p \in Mortal, Crash(p), pc'[c] # pc[c]
      PROVE  boot'[TaskProc(t)] = "down"
  BY <1>1, <1>4 DEF Crash
<1>5. CASE pc'[c] # pc[c]
  BY <1>1, <1>2, <1>3, <1>4, <1>5, OwnSteps, Moves DEF RunStep, ReleaseStep
<1>6. CASE pc'[c] = pc[c] /\ ~RegisterRun(c)
  <2>1. ~MarkEnd(c) /\ ~FailureRaises(c)
    BY <1>1, Moves
  <2>2. ASSUME NEW d \in Starts, d # c
        PROVE  \A n : sent' = [sent EXCEPT ![d] = n] => sent'[c] = sent[c]
    BY <1>1, <2>2
  <2>3. ASSUME NEW d \in Starts, RegisterRun(d) \/ MarkEnd(d) \/ FailureRaises(d)
        PROVE  d # c
    BY <1>6, <2>1, <2>3
  <2>4. sent'[c] = sent[c]
    BY <2>2, <2>3, CounterWrites
  <2>5. QED BY <1>6, <2>4 DEF NextTask
<1>7. QED BY <1>2, <1>5, <1>6

\* The list of a release has the open tasks of its own run.
LEMMA ListedOpen ==
  ASSUME TypeOK, NEW t \in Tasks, ListTasks(t[1]), Open(t)
  PROVE  <<t, TRUE>> \in todo'[t[1]]
<1> USE TypeParts, Typed DEF LocalsOK
<1> DEFINE c == t[1]
           listed == {<<u, task[u] \notin Terminal>> :
             u \in {v \in Tasks : target[v[1]] = target[c] /\ task[v] # "none"}}
<1>1. todo' = [todo EXCEPT ![c] = listed]
  BY DEF ListTasks
<1>2. todo'[c] = listed
  BY <1>1
<1>3. t \in {v \in Tasks : target[v[1]] = target[c] /\ task[v] # "none"}
  BY DEF Open
<1>4. <<t, task[t] \notin Terminal>> \in listed
  BY <1>3, Zenon
<1>5. (task[t] \notin Terminal) = TRUE
  BY DEF Open, Terminal
<1>6. QED BY <1>2, <1>4, <1>5, Zenon

\* A run that has returned goes on to list its open tasks, or says that it
\* has left them.
LEMMA ReleaseStays ==
  ASSUME TypeOK, Next, NEW t \in Tasks, Open(t), pc[t[1]] \in BeforeListing
  PROVE  \/ pc'[t[1]] \in BeforeListing
         \/ <<t, TRUE>> \in todo'[t[1]]
         \/ t \in lostTasks'
         \/ boot'[TaskProc(t)] = "down"
<1> USE TypeParts, Typed DEF PcOK, OutsideOK, BeforeListing
<1> DEFINE c == t[1]
<1>1. c \in Starts /\ TaskProc(t) = CallProc[c]
  BY DEF TaskProc
<1>2. ASSUME NEW p \in Mortal, Crash(p), p = CallProc[c]
      PROVE  boot'[TaskProc(t)] = "down"
  BY <1>1, <1>2 DEF Crash
<1>3. CASE ListTasks(c)
  BY <1>3, ListedOpen
<1>4. CASE ReleaseRaises(c)
  BY <1>4 DEF ReleaseRaises
<1>5. CASE pc'[c] = pc[c]
  BY <1>5
<1>6. CASE Guard(c) \/ StartStep(c) \/ RunStep(c) \/ DeleteAgents(c)
  BY <1>1, <1>6, Moves DEF RunStep
<1>7. ~SweepTask(c)
  BY <1>1, Moves
<1>8. QED BY <1>1, <1>2, <1>3, <1>4, <1>5, <1>6, <1>7, OwnSteps DEF ReleaseStep

\* An open task on the list of its own release stays there until it is marked.
LEMMA TodoStays ==
  ASSUME TypeOK, Next, NEW t \in Tasks, Open(t), <<t, TRUE>> \in todo[t[1]]
  PROVE  \/ <<t, TRUE>> \in todo'[t[1]]
         \/ ~Open(t)'
         \/ t \in lostTasks'
         \/ boot'[TaskProc(t)] = "down"
<1> USE TypeParts, Typed DEF TablesOK, LocalsOK, OutsideOK
<1> DEFINE c == t[1]
<1>1. c \in Starts /\ c \in Calls /\ TaskProc(t) = CallProc[c]
  BY DEF TaskProc
<1>2. ASSUME NEW d \in Calls, d # c, NEW tasks, todo' = [todo EXCEPT ![d] = tasks]
      PROVE  <<t, TRUE>> \in todo'[c]
  BY <1>1, <1>2
<1>3. ASSUME NEW d \in Calls, ListTasks(d)
      PROVE  <<t, TRUE>> \in todo'[c]
  <2>1. CASE d = c
    BY <1>3, <2>1, ListedOpen
  <2>2. CASE d # c
    <3>1. \E tasks : todo' = [todo EXCEPT ![d] = tasks]
      BY <1>3 DEF ListTasks
    <3>2. QED BY <1>2, <2>2, <3>1
  <2>3. QED BY <2>1, <2>2
<1>4. ASSUME NEW d \in Calls, SweepTask(d)
      PROVE  <<t, TRUE>> \in todo'[c] \/ ~Open(t)'
  <2>1. PICK u \in Tasks, open \in BOOLEAN :
          /\ IF open THEN SetTask(u, "failed") ELSE UNCHANGED taskTable
          /\ todo' = [todo EXCEPT ![d] = @ \ {<<u, open>>}]
    BY <1>4 DEF SweepTask
  <2>2. CASE u = t /\ open = TRUE
    BY <2>1, <2>2 DEF SetTask, Open
  <2>3. CASE u # t \/ open # TRUE
    BY <1>1, <2>1, <2>3
  <2>4. QED BY <2>2, <2>3
<1>5. ASSUME NEW d \in Calls, ReleaseRaises(d)
      PROVE  <<t, TRUE>> \in todo'[c] \/ t \in lostTasks'
  <2>1. CASE d = c
    BY <1>5, <2>1 DEF ReleaseRaises
  <2>2. CASE d # c
    <3>1. todo' = [todo EXCEPT ![d] = {}]
      BY <1>5 DEF ReleaseRaises
    <3>2. QED BY <1>2, <2>2, <3>1
  <2>3. QED BY <2>1, <2>2
<1>6. ASSUME NEW p \in Mortal, Crash(p)
      PROVE  <<t, TRUE>> \in todo'[c] \/ boot'[TaskProc(t)] = "down"
  BY <1>1, <1>6 DEF Crash
<1>7. QED BY <1>3, <1>4, <1>5, <1>6, TodoWriters

\* A recovery keeps an open task of its process in sight until it is marked.
LEMMA TaskRecoveryStays ==
  ASSUME TypeOK, Next, NEW t \in Tasks, NEW p, p = TaskProc(t), Open(t)', task'[t] = task[t],
         \/ boot[p] \in {"down", "scenarios"}
         \/ boot[p] = "pending" /\ task[t] = "running"
         \/ boot[p] \in {"pending", "running"} /\ t \in orphans[p]
  PROVE  \/ boot'[p] \in {"down", "scenarios"}
         \/ boot'[p] = "pending" /\ task'[t] = "running"
         \/ boot'[p] \in {"pending", "running"} /\ t \in orphans'[p]
<1> USE TypeParts, Typed DEF OutsideOK, TablesOK
<1>0. p \in Procs
  OBVIOUS
<1>1. ASSUME NEW q \in Procs, Crash(q) \/ RecoveryRaises(q)
      PROVE  boot'[p] = "down" \/ (boot'[p] = boot[p] /\ orphans'[p] = orphans[p])
  BY <1>0, <1>1 DEF Crash, RecoveryRaises
<1>2. ASSUME NEW q \in Procs, ListScenarios(q)
      PROVE  boot'[p] = "scenarios" \/ (boot'[p] = boot[p] /\ orphans'[p] = orphans[p])
  BY <1>0, <1>2 DEF ListScenarios
<1>3. ASSUME NEW q \in Procs, FailScenario(q)
      PROVE  boot'[p] = "scenarios" \/ (boot'[p] = boot[p] /\ orphans'[p] = orphans[p])
  BY <1>0, <1>3 DEF FailScenario
<1>4. ASSUME NEW q \in Procs, ListOpenTasks(q)
      PROVE  \/ boot'[p] = boot[p] /\ orphans'[p] = orphans[p]
             \/ /\ boot[p] = "scenarios" /\ boot'[p] = "pending"
                /\ task[t] = "pending" => t \in orphans'[p]
             \/ /\ boot[p] = "pending" /\ orphans[p] = {} /\ boot'[p] = "running"
                /\ task[t] = "running" => t \in orphans'[p]
  BY <1>0, <1>4 DEF ListOpenTasks, OpenTasks
<1>5. ASSUME NEW q \in Procs, FailTask(q)
      PROVE  boot'[p] = boot[p] /\ (t \in orphans[p] => t \in orphans'[p])
  <2>1. PICK u \in orphans[q] : /\ task' = [task EXCEPT ![u] = "failed"]
                                /\ orphans' = [orphans EXCEPT ![q] = @ \ {u}]
    BY <1>5 DEF FailTask, SetTask
  <2>2. u # t
    BY <2>1 DEF Open
  <2>3. QED BY <1>0, <1>5, <2>1, <2>2 DEF FailTask
<1>6. ASSUME NEW q \in Procs, Serve(q)
      PROVE  q = p => boot[p] = "running" /\ orphans[p] = {}
  BY <1>0, <1>6 DEF Serve
<1>7. ASSUME NEW q \in Procs, Serve(q), q # p
      PROVE  boot'[p] = boot[p] /\ orphans'[p] = orphans[p]
  BY <1>0, <1>7 DEF Serve
<1>8. task[t] \in {"pending", "running"}
  BY DEF Open
<1>9. QED BY <1>1, <1>2, <1>3, <1>4, <1>5, <1>6, <1>7, <1>8, BootWriters DEF BootStep

LEMMA StepWorker ==
  ASSUME TypeOK, CallsOK, WorkerInv, Next
  PROVE  WorkerInv'
<1> USE TypeParts, Typed
<1> SUFFICES ASSUME NEW t \in Tasks, Open(t)'
             PROVE  Worker(t)'
  BY DEF WorkerInv
<1>1. ASSUME NEW c \in Starts, SubmitTask(c), t = NextTask(c)
      PROVE  Worker(t)'
  <2>1. t[1] = c /\ pc'[t[1]] = "submitting" /\ t = NextTask(t[1])'
    BY <1>1 DEF SubmitTask, Goto, NextTask, locals, PcOK
  <2>2. QED BY <2>1 DEF Worker
<1>2. ASSUME BeginTask(t)
      PROVE  Worker(t)'
  <2>1. coro'[t] = "executing"
    BY <1>2 DEF BeginTask, ResumeAt, MemoryOK
  <2>2. QED BY <2>1 DEF Worker
<1>3. ASSUME t \in lostTasks'
      PROVE  Worker(t)'
  BY <1>3 DEF Worker
<1>4. ASSUME task'[t] = task[t], t \notin lostTasks
      PROVE  Worker(t)'
  <2>1. Open(t)
    BY <1>4 DEF Open
  <2>2. Worker(t)
    BY <2>1 DEF WorkerInv
  <2>3. CASE coro[t] \in {"scheduled", "executing", "excepting"}
    BY <2>3, CoroStays DEF Worker, TaskProc
  <2>4. CASE pc[t[1]] = "submitting" /\ t = NextTask(t[1])
    BY <2>4, SubmittingStays DEF Worker, TaskProc, BeforeListing
  <2>5. CASE pc[t[1]] \in BeforeListing
    BY <2>1, <2>5, ReleaseStays DEF Worker, TaskProc
  <2>6. CASE <<t, TRUE>> \in todo[t[1]]
    BY <2>1, <2>6, TodoStays DEF Worker, TaskProc
  <2>7. CASE \/ boot[TaskProc(t)] \in {"down", "scenarios"}
             \/ boot[TaskProc(t)] = "pending" /\ task[t] = "running"
             \/ boot[TaskProc(t)] \in {"pending", "running"} /\ t \in orphans[TaskProc(t)]
    BY <1>4, <2>7, TaskRecoveryStays DEF Worker, TaskProc
  <2>8. QED BY <1>4, <2>2, <2>3, <2>4, <2>5, <2>6, <2>7 DEF Worker
<1>5. QED BY <1>1, <1>2, <1>3, <1>4, Opens

\* A task that is open has a coroutine that will end it, a thread about to
\* schedule one or to release it, or a recovery of its process that will mark
\* it, or it is one that a watchdog wrote last or whose last write raised.
THEOREM NoOpenOrphan == Spec => []OpenHasWorker
<1>1. Init => WorkerInv
  BY DEF Init, WorkerInv, Open
<1>2. TypeOK /\ CallsOK /\ WorkerInv /\ [Next]_vars => WorkerInv'
  <2>1. WorkerInv /\ UNCHANGED vars => WorkerInv'
    <3>1. UNCHANGED vars => UNCHANGED <<task, coro, pc, sent, todo, boot, orphans, lostTasks>>
      BY DEF vars, tables, taskTable, memory, locals, outside
    <3>2. ASSUME UNCHANGED vars, NEW t
          PROVE  Open(t)' = Open(t) /\ Worker(t)' = Worker(t)
      BY <3>1, <3>2 DEF Worker, Open, NextTask, TaskProc
    <3>3. QED BY <3>2 DEF WorkerInv
  <2>2. QED BY <2>1, StepWorker
<1>3. WorkerInv => OpenHasWorker
  BY DEF WorkerInv, Worker, BeforeListing, OpenHasWorker
<1>4. QED BY <1>1, <1>2, <1>3, Typing, PTL DEF Spec
-----------------------------------------------------------------------------
(* NothingOutlives.                                                         *)

\* A start call whose entry of active_scenarios may be there ...
Holding == Live \cup {"raised"}

\* ... until the call removes it, or its process dies.
LEMMA HoldingStays ==
  ASSUME TypeOK, Next, NEW c \in Starts, pc[c] \in Holding, pc'[c] \notin Holding
  PROVE  Finish(c) \/ \E p \in Mortal : Crash(p) /\ p = CallProc[c]
<1> USE TypeParts, Typed DEF PcOK, Holding, Live, Working
<1>1. ~Guard(c) /\ ~StartStep(c)
  BY Moves
<1>2. RunStep(c) => Finish(c)
  BY Moves DEF RunStep
<1>3. ~ReleaseStep(c)
  BY Moves DEF ReleaseStep
<1>4. QED BY <1>1, <1>2, <1>3, OwnSteps

\* Inductive, in three parts.
ActiveInv ==
  \A p \in Procs : \A s \in active[p] :
    \E c \in Starts : CallProc[c] = p /\ target[c] = s /\ pc[c] \in Holding

LEMMA StepActive ==
  ASSUME TypeOK, ActiveInv, Next
  PROVE  ActiveInv'
<1> USE TypeParts, Typed DEF PcOK, MemoryOK
<1> SUFFICES ASSUME NEW p \in Procs, NEW s \in active'[p]
             PROVE  \E c \in Starts : CallProc[c] = p /\ target'[c] = s /\ pc'[c] \in Holding
  BY DEF ActiveInv
<1>0. target' = target
  BY TargetWriters
<1>1. CASE s \in active[p]
  <2>1. PICK c \in Starts : CallProc[c] = p /\ target[c] = s /\ pc[c] \in Holding
    BY <1>1 DEF ActiveInv
  <2>2. ASSUME Finish(c)
        PROVE  FALSE
    BY <2>1, <2>2 DEF Finish
  <2>3. ASSUME NEW q \in Mortal, Crash(q)
        PROVE  q # CallProc[c]
    BY <2>1, <2>3 DEF Crash
  <2>4. pc'[c] \in Holding
    BY <2>1, <2>2, <2>3, HoldingStays
  <2>5. QED BY <1>0, <2>1, <2>4
<1>2. CASE s \notin active[p]
  <2>1. ASSUME NEW c \in Starts, Activate(c)
        PROVE  CallProc[c] = p /\ target[c] = s /\ pc'[c] = "declaring"
    BY <1>2, <2>1 DEF Activate, Goto
  <2>2. ~\E c \in Starts : Finish(c)
    BY <1>2 DEF Finish
  <2>3. ~\E c \in Stops : Deactivate(c)
    BY <1>2 DEF Deactivate
  <2>4. ~\E q \in Mortal : Crash(q)
    BY <1>2 DEF Crash
  <2>5. QED BY <1>0, <1>2, <2>1, <2>2, <2>3, <2>4, ActiveWriters DEF Holding, Live, Working
<1>3. QED BY <1>1, <1>2

\* The places of a call between its declaration of agents and its delete of
\* them, or where it never deletes them.
Declared == {"running", "submitting", "completing", "failing", "releasing", "raised", "dead"}

AgentsInv == \A c \in agents : pc[c] \in Declared \/ c \in lostAgents

LEMMA StepAgents ==
  ASSUME TypeOK, AgentsInv, Next
  PROVE  AgentsInv'
<1> USE TypeParts, Typed DEF PcOK, TablesOK, LostOK
<1> SUFFICES ASSUME NEW c \in agents'
             PROVE  pc'[c] \in Declared \/ c \in lostAgents'
  BY DEF AgentsInv
<1>1. ASSUME NEW d \in Calls, DeleteAgents(d)
      PROVE  /\ c \in agents /\ (c \in lostAgents => c \in lostAgents')
             /\ d = c => c \in lostAgents'
  BY <1>1 DEF DeleteAgents
<1>2. CASE c \notin agents
  <2>1. ASSUME NEW d \in Starts, DeclareAndSpawn(d)
        PROVE  pc'[c] \in Declared
    BY <1>2, <2>1 DEF DeclareAndSpawn, AfterInitialize, Goto, Declared
  <2>2. ASSUME NEW d \in Starts, StartRaises(d)
        PROVE  pc'[c] \in Declared
    BY <1>2, <2>2 DEF StartRaises, Goto, Declared
  <2>3. QED BY <1>1, <1>2, <2>1, <2>2, AgentWriters DEF agentTable
<1>3. CASE c \in agents
  <2>1. c \in Starts
    BY <1>3
  <2>2. c \in lostAgents => c \in lostAgents'
    BY <1>1, AgentWriters DEF agentTable, DeclareAndSpawn, StartRaises
  <2>3. CASE pc[c] \in Declared
    <3>1. Guard(c) \/ StartStep(c) => pc'[c] \in Declared
      BY <2>1, <2>3, Moves DEF Declared
    <3>2. RunStep(c) => pc'[c] \in Declared
      BY <2>1, <2>3, Moves DEF RunStep, Declared
    <3>3. ReleaseStep(c) => DeleteAgents(c) \/ pc'[c] \in Declared
      BY <2>1, <2>3, Moves DEF ReleaseStep, Declared
    <3>4. DeleteAgents(c) => c \in lostAgents'
      BY <1>1, <2>1
    <3>5. QED BY <2>1, <2>3, <3>1, <3>2, <3>3, <3>4, OwnSteps DEF Declared
  <2>4. QED BY <1>3, <2>2, <2>3 DEF AgentsInv
<1>4. QED BY <1>2, <1>3

\* A run is in the registry while its call has not listed the tasks it
\* releases, and then as long as the task is on that list; if the call has
\* raised, for good.
Held(t) ==
  \/ pc[t[1]] \in {"running", "submitting", "completing", "failing", "releasing", "listing",
                   "raised"}
  \/ pc[t[1]] = "sweeping" /\ \E open \in BOOLEAN : <<t, open>> \in todo[t[1]]

RunsInv ==
  /\ \A p \in Procs : \A t \in runs[p] : TaskProc(t) = p /\ task[t] # "none" /\ Held(t)
  /\ \A c \in Starts : pc[c] = "submitting" => task[NextTask(c)] # "none"

\* The list of a release has every task of its scenario that has a row.
LEMMA Listed ==
  ASSUME TypeOK, NEW c \in Calls, ListTasks(c), NEW t \in Tasks,
         target[t[1]] = target[c], task[t] # "none"
  PROVE  \E open \in BOOLEAN : <<t, open>> \in todo'[c]
<1> USE TypeParts DEF LocalsOK
<1> DEFINE listed == {<<u, task[u] \notin Terminal>> :
             u \in {v \in Tasks : target[v[1]] = target[c] /\ task[v] # "none"}}
<1>1. todo' = [todo EXCEPT ![c] = listed]
  BY DEF ListTasks
<1>2. todo'[c] = listed
  BY <1>1
<1>3. t \in {v \in Tasks : target[v[1]] = target[c] /\ task[v] # "none"}
  OBVIOUS
<1>4. <<t, task[t] \notin Terminal>> \in listed
  BY <1>3, Zenon
<1>5. (task[t] \notin Terminal) \in BOOLEAN
  BY Zenon
<1>6. QED BY <1>2, <1>4, <1>5, Zenon

LEMMA StepHeld ==
  ASSUME TypeOK, Next, NEW p \in Procs, NEW t \in runs[p], t \in runs'[p],
         TaskProc(t) = p, task[t] # "none", Held(t)
  PROVE  Held(t)'
<1> USE TypeParts, Typed DEF PcOK, MemoryOK, LocalsOK
<1> DEFINE c == t[1]
<1>1. t \in Tasks /\ c \in Starts /\ c \in Calls /\ CallProc[c] = p
  BY DEF TaskProc
<1>2. ASSUME NEW q \in Mortal, Crash(q)
      PROVE  pc'[c] = pc[c] /\ todo'[c] = todo[c]
  <2>1. q # p
    BY <1>2 DEF Crash
  <2>2. QED BY <1>1, <1>2, <2>1 DEF Crash
<1>3. ASSUME NEW d \in Calls, d # c, ListTasks(d) \/ SweepTask(d) \/ ReleaseRaises(d)
      PROVE  pc'[c] = pc[c] /\ todo'[c] = todo[c]
  <2>1. \E done : todo' = [todo EXCEPT ![d] = done]
    BY <1>3 DEF ListTasks, SweepTask, ReleaseRaises
  <2>2. \E next : pc' = [pc EXCEPT ![d] = next]
    BY <1>3 DEF ListTasks, SweepTask, ReleaseRaises, Goto
  <2>3. QED BY <1>1, <1>3, <2>1, <2>2
<1>4. CASE ListTasks(c)
  <2>1. PICK open \in BOOLEAN : <<t, open>> \in todo'[c]
    BY <1>1, <1>4, Listed
  <2>2. pc'[c] = "sweeping"
    BY <1>1, <1>4, <2>1 DEF ListTasks, Goto, AfterSweep
  <2>3. QED BY <2>1, <2>2 DEF Held
<1>5. CASE SweepTask(c)
  <2>1. PICK u \in Tasks, done \in BOOLEAN :
          /\ runs' = [runs EXCEPT ![CallProc[c]] = @ \ Popped(c, u)]
          /\ todo' = [todo EXCEPT ![c] = @ \ {<<u, done>>}]
          /\ pc' = [pc EXCEPT ![c] = AfterSweep(c, todo'[c])]
    BY <1>5 DEF SweepTask, Goto
  <2>2. u # t
    BY <1>1, <2>1 DEF Popped
  <2>3. PICK open \in BOOLEAN : <<t, open>> \in todo[c]
    BY <1>5 DEF SweepTask, Held
  <2>4. <<t, open>> \in todo'[c]
    BY <1>1, <2>1, <2>2, <2>3
  <2>5. pc'[c] = "sweeping"
    BY <1>1, <2>1, <2>4 DEF AfterSweep
  <2>6. QED BY <2>4, <2>5 DEF Held
<1>6. CASE ReleaseRaises(c)
  BY <1>1, <1>6, Moves DEF Held
<1>7. CASE Guard(c) \/ StartStep(c) \/ RunStep(c) \/ DeleteAgents(c)
  BY <1>1, <1>7, Moves DEF Held, RunStep
<1>8. CASE pc'[c] = pc[c] /\ todo'[c] = todo[c]
  BY <1>8 DEF Held
<1>9. ASSUME NEW d, d = c, ListTasks(d) \/ SweepTask(d) \/ ReleaseRaises(d)
      PROVE  ListTasks(c) \/ SweepTask(c) \/ ReleaseRaises(c)
  BY <1>9
<1>10. CASE pc'[c] = pc[c]
  BY <1>2, <1>3, <1>4, <1>5, <1>6, <1>8, <1>9, <1>10, TodoWriters
<1>11. CASE pc'[c] # pc[c]
  BY <1>1, <1>2, <1>4, <1>5, <1>6, <1>7, <1>11, OwnSteps DEF ReleaseStep
<1>12. QED BY <1>10, <1>11

\* The row of the task that is being submitted is there.
LEMMA StepSubmitted ==
  ASSUME TypeOK, CallsOK, RunsInv, Next, NEW c \in Starts, pc'[c] = "submitting"
  PROVE  task'[NextTask(c)'] # "none"
<1> USE TypeParts, Typed DEF TablesOK, PcOK, LocalsOK
<1>0. MaxTasks \in Nat
  BY LifecycleAssumption
<1>1. CASE pc[c] # "submitting"
  <2>1. SubmitTask(c)
    BY <1>1, Submitting
  <2>2. target[c] \in Scenarios /\ \E i \in WaitPoints[target[c]] : sent[c] < i
    BY <2>1 DEF SubmitTask, More, CallsOK
  <2>3. NextTask(c) \in Tasks
    BY <2>2, LifecycleAssumption DEF NextTask, Tasks
  <2>4. task' = [task EXCEPT ![NextTask(c)] = "pending"] /\ sent' = sent
    BY <2>1 DEF SubmitTask, SetTask, locals
  <2>5. QED BY <2>3, <2>4 DEF NextTask
<1>2. CASE pc[c] = "submitting"
  <2>1. NextTask(c) \in Tasks
    BY <1>0, <1>2 DEF NextTask, Tasks, CallsOK
  <2>2. task'[NextTask(c)] # "none"
    BY <1>2, <2>1, RowsStay DEF RunsInv
  <2>3. ASSUME NEW d \in Starts, RegisterRun(d) \/ MarkEnd(d) \/ FailureRaises(d)
        PROVE  d # c
    <3>1. ~RegisterRun(c) /\ ~MarkEnd(c) /\ ~FailureRaises(c)
      BY <1>2, Moves
    <3>2. QED BY <2>3, <3>1
  <2>4. ASSUME NEW d \in Starts, d # c
        PROVE  \A n : sent' = [sent EXCEPT ![d] = n] => sent'[c] = sent[c]
    BY <2>4
  <2>5. sent'[c] = sent[c]
    BY <2>3, <2>4, CounterWrites
  <2>6. QED BY <2>2, <2>5 DEF NextTask
<1>3. QED BY <1>1, <1>2

LEMMA StepRuns ==
  ASSUME TypeOK, CallsOK, RunsInv, Next
  PROVE  RunsInv'
<1> USE TypeParts, Typed DEF TablesOK, PcOK, MemoryOK
<1>1. ASSUME NEW p \in Procs, NEW t \in runs'[p], t \in runs[p]
      PROVE  task'[t] # "none" /\ Held(t)'
  BY <1>1, StepHeld, RowsStay DEF RunsInv
<1>2. ASSUME NEW p \in Procs, NEW t \in runs'[p], t \notin runs[p]
      PROVE  TaskProc(t) = p /\ task'[t] # "none" /\ Held(t)'
  <2>1. ASSUME NEW c \in Calls, SweepTask(c)
        PROVE  FALSE
    <3>1. \E gone : runs' = [runs EXCEPT ![CallProc[c]] = @ \ gone]
      BY <2>1 DEF SweepTask
    <3>2. QED BY <1>2, <3>1
  <2>2. ~\E q \in Mortal : Crash(q)
    BY <1>2 DEF Crash
  <2>3. PICK c \in Starts : RegisterRun(c)
    BY <1>2, <2>1, <2>2, RunsWriters
  <2>4. /\ runs' = [runs EXCEPT ![CallProc[c]] = @ \cup {NextTask(c)}]
        /\ pc[c] = "submitting" /\ pc' = [pc EXCEPT ![c] = "running"]
        /\ task' = task
    BY <2>3 DEF RegisterRun, Goto, tables, taskTable
  <2>5. t = NextTask(c) /\ p = CallProc[c]
    BY <1>2, <2>4
  <2>6. t[1] = c
    BY <2>5 DEF NextTask
  <2>7. task[t] # "none"
    BY <2>4, <2>5 DEF RunsInv
  <2>8. QED BY <2>4, <2>5, <2>6, <2>7 DEF TaskProc, Held
<1>3. QED BY <1>1, <1>2, StepSubmitted DEF RunsInv, TaskProc

\* An entry of active_scenarios and an agent run are there only while the call
\* that made them is at work in that process, or if it has raised; declared
\* agents besides after a crash and where their delete raised.
THEOREM NothingLeft == Spec => []NothingOutlives
<1>1. Init => ActiveInv /\ AgentsInv /\ RunsInv
  BY DEF Init, ActiveInv, AgentsInv, RunsInv, Calls
<1>2. TypeOK /\ CallsOK /\ ActiveInv /\ AgentsInv /\ RunsInv /\ [Next]_vars
        => (ActiveInv /\ AgentsInv /\ RunsInv)'
  <2>1. ActiveInv /\ AgentsInv /\ UNCHANGED vars => (ActiveInv /\ AgentsInv)'
    BY DEF ActiveInv, AgentsInv, vars, tables, agentTable, memory
  <2>2. RunsInv /\ UNCHANGED vars => RunsInv'
    <3>1. UNCHANGED vars => UNCHANGED <<runs, task, pc, todo, sent>>
      BY DEF vars, tables, taskTable, memory, locals
    <3>2. QED BY <3>1 DEF RunsInv, Held, NextTask
  <2>3. QED BY <2>1, <2>2, StepActive, StepAgents, StepRuns
<1>3. TypeOK /\ ActiveInv /\ AgentsInv /\ RunsInv => NothingOutlives
  <2> SUFFICES ASSUME TypeOK, ActiveInv, AgentsInv, RunsInv PROVE NothingOutlives
    OBVIOUS
  <2>1. \A p \in Procs, s \in Scenarios : s \in active[p] =>
          \E c \in Starts :
            CallProc[c] = p /\ target[c] = s /\ pc[c] \in Live \cup {"raised"}
    BY DEF ActiveInv, Holding
  <2>2. \A p \in Procs : \A t \in runs[p] :
          TaskProc(t) = p /\ pc[t[1]] \in Live \cup {"raised"}
    BY DEF RunsInv, Held, Live, Working
  <2>3. \A c \in agents : pc[c] \in Live \cup {"raised", "dead"} \/ c \in lostAgents
    BY DEF AgentsInv, Declared, Live, Working
  <2>4. QED BY <2>1, <2>2, <2>3 DEF NothingOutlives
<1>4. QED BY <1>1, <1>2, <1>3, Typing, PTL DEF Spec
-----------------------------------------------------------------------------
(* SuccessIsEarned.                                                         *)

\* The places of a call that may still submit tasks.
Submits == {"idle", "asked", "checking", "updating", "entering", "declaring", "running",
            "submitting"}

\* Before the agent of a task has returned.
Unfinished == {"none", "scheduled", "executing"}

\* Inductive: only an agent's success is in the table, in what the watchdogs
\* and the runs have read from it, and an agent returns once.
EarnedInv ==
  /\ \A t \in Tasks : task[t] = "success" => returned[t] = "success"
  /\ \A t \in Tasks : <<t, "success">> \in watch => returned[t] = "success"
  /\ \A t \in Tasks : coro[t] \in Unfinished => returned[t] = "none"
  /\ SuccessIsEarned
  /\ \A c \in Starts : outcome[c] = "success" => got[c] \in 1..MaxTasks
  /\ \A c \in Starts : sent[c] <= MaxTasks
  /\ \A c \in Starts : pc[c] \in Submits =>
       \A i \in 1..MaxTasks : i > sent[c] => coro[<<c, i>>] = "none"

\* A success is for good.
LEMMA SuccessStays ==
  ASSUME TypeOK, EarnedInv, Next, NEW t \in Tasks, returned[t] = "success"
  PROVE  returned'[t] = "success"
<1> USE TypeParts DEF MemoryOK
<1>1. ASSUME NEW u \in Tasks, EndTask(u)
      PROVE  u # t /\ \E result : returned' = [returned EXCEPT ![u] = result]
  BY <1>1 DEF EndTask, EarnedInv, Unfinished
<1>2. QED BY <1>1, ReturnedWriters

\* The coroutine that writes a success is the one whose agent returned it.
LEMMA StepSuccess ==
  ASSUME TypeOK, EarnedInv, Next, NEW t \in Tasks, task'[t] = "success"
  PROVE  returned'[t] = "success"
<1> USE TypeParts DEF TablesOK, MemoryOK
<1>1. CASE returned[t] = "success"
  BY <1>1, SuccessStays
<1>2. CASE returned[t] # "success"
  <2>1. task[t] # "success" /\ <<t, "success">> \notin watch
    BY <1>2 DEF EarnedInv
  <2>2. ASSUME NEW c, SubmitTask(c) \/ SweepTask(c) \/ ReleaseRaises(c) \/ FailTask(c)
        PROVE  task'[t] \in {task[t], "pending", "failed"}
    BY <2>2 DEF SubmitTask, SweepTask, ReleaseRaises, FailTask, SetTask, taskTable
  <2>3. ASSUME NEW u \in Tasks, BeginTask(u) \/ ExceptTask(u) \/ CancelTask(u)
        PROVE  task'[t] # "success"
    BY <2>1, <2>3 DEF BeginTask, ExceptTask, CancelTask, SetTask
  <2>4. ASSUME NEW u \in Tasks, RetryTask(u) \/ GiveUpTask(u)
        PROVE  task'[t] # "success"
    BY <2>1, <2>4 DEF RetryTask, GiveUpTask, SetTask
  <2>5. ASSUME NEW u \in Tasks, WriteRetryCount(u)
        PROVE  task'[t] # "success"
    <3>1. PICK state : <<u, state>> \in watch /\ task' = [task EXCEPT ![u] = state]
      BY <2>5 DEF WriteRetryCount, Watched
    <3>2. QED BY <2>1, <3>1
  <2>6. ASSUME NEW u \in Tasks, EndTask(u)
        PROVE  returned'[t] = "success"
    <3>1. PICK result : /\ task' = [task EXCEPT ![u] = result]
                        /\ returned' = [returned EXCEPT ![u] = result]
      BY <2>6 DEF EndTask, SetTask
    <3>2. u = t /\ result = "success"
      BY <2>1, <3>1
    <3>3. QED BY <3>1, <3>2
  <2>7. QED BY <2>1, <2>2, <2>3, <2>4, <2>5, <2>6, TaskWriters DEF taskTable
<1>3. QED BY <1>1, <1>2

\* What a watchdog reads is what the table holds.
LEMMA StepWatched ==
  ASSUME TypeOK, EarnedInv, Next, NEW t \in Tasks, <<t, "success">> \in watch'
  PROVE  returned'[t] = "success"
<1>1. ASSUME NEW u \in Tasks, \/ Overdue(u) \/ RetryTask(u) \/ WriteRetryCount(u)
                              \/ GiveUpTask(u)
      PROVE  <<t, "success">> \in watch
  <2>1. watch' \subseteq watch \cup {<<u, "overdue">>, <<u, "retried">>}
    BY <1>1 DEF Overdue, RetryTask, WriteRetryCount, GiveUpTask, Watched
  <2>2. QED BY <2>1
<1>2. ASSUME NEW u \in Tasks, ReadRetryCount(u)
      PROVE  <<t, "success">> \in watch \/ task[t] = "success"
  BY <1>2 DEF ReadRetryCount, Watched
<1>3. returned[t] = "success"
  BY <1>1, <1>2, WatchWriters DEF EarnedInv
<1>4. QED BY <1>3, SuccessStays

\* No agent has returned for a coroutine that is new or still runs it.
LEMMA StepUnfinished ==
  ASSUME TypeOK, CallsOK, EarnedInv, Next, NEW t \in Tasks, coro'[t] \in Unfinished
  PROVE  returned'[t] = "none"
<1> USE TypeParts, Typed DEF MemoryOK
<1>1. ASSUME NEW u \in Tasks, EndTask(u)
      PROVE  u # t /\ \E result : returned' = [returned EXCEPT ![u] = result]
  BY <1>1 DEF EndTask, ResumeAt, Unfinished
<1>2. returned'[t] = returned[t]
  BY <1>1, ReturnedWriters
<1>3. ASSUME NEW u \in Tasks, NEW next,
             BeginTask(u) \/ EndTask(u) \/ TaskRaises(u) \/ ExceptTask(u)
      PROVE  coro[t] \in Unfinished
  BY <1>3 DEF BeginTask, EndTask, TaskRaises, ExceptTask, ResumeAt, Unfinished
<1>4. ASSUME NEW p \in Mortal, Crash(p)
      PROVE  coro[t] \in Unfinished
  BY <1>4 DEF Crash, Unfinished
<1>5. ASSUME NEW c \in Starts, RegisterRun(c)
      PROVE  coro[t] \in Unfinished
  <2>1. pc[c] = "submitting" /\ coro' = [coro EXCEPT ![NextTask(c)] = "scheduled"]
    BY <1>5 DEF RegisterRun
  <2>2. sent[c] + 1 \in 1..MaxTasks /\ sent[c] + 1 > sent[c]
    BY <2>1, LifecycleAssumption DEF CallsOK, LocalsOK
  <2>3. coro[NextTask(c)] = "none"
    BY <2>1, <2>2 DEF EarnedInv, NextTask, Submits
  <2>4. CASE t = NextTask(c)
    BY <2>3, <2>4 DEF Unfinished
  <2>5. CASE t # NextTask(c)
    BY <2>1, <2>5
  <2>6. QED BY <2>4, <2>5
<1>6. coro[t] \in Unfinished
  BY <1>3, <1>4, <1>5, CoroWriters
<1>7. QED BY <1>2, <1>6 DEF EarnedInv

LEMMA StepOutcome ==
  ASSUME TypeOK, EarnedInv, Next, NEW c \in Starts, outcome'[c] = "success"
  PROVE  returned'[<<c, got'[c]>>] = "success" /\ got'[c] \in 1..MaxTasks
<1> USE TypeParts, Typed DEF LocalsOK
<1>1. ASSUME NEW d \in Starts, WaitForTask(d)
      PROVE  \/ outcome'[c] = outcome[c] /\ got'[c] = got[c]
             \/ /\ got'[c] = got[c] + 1 /\ got[c] < sent[c]
                /\ task[<<c, got[c] + 1>>] = "success"
  <2>1. /\ got[d] < sent[d] /\ got' = [got EXCEPT ![d] = @ + 1]
        /\ \E state \in Polled(<<d, got[d] + 1>>) : outcome' = [outcome EXCEPT ![d] = state]
    BY <1>1 DEF WaitForTask
  <2>2. CASE d = c
    <3>1. "success" \in Polled(<<c, got[c] + 1>>)
      BY <2>1, <2>2
    <3>2. QED BY <2>1, <2>2, <3>1 DEF Polled
  <2>3. CASE d # c
    BY <2>1, <2>3
  <2>4. QED BY <2>2, <2>3
<1>2. ASSUME NEW d \in Starts, RegisterRun(d) \/ RunRaises(d) \/ MarkEnd(d) \/ FailureRaises(d)
      PROVE  outcome'[c] = outcome[c] /\ got'[c] = got[c]
  BY <1>2 DEF RegisterRun, RunRaises, MarkEnd, FailureRaises, Release
<1>3. CASE outcome'[c] = outcome[c] /\ got'[c] = got[c]
  <2>1. returned[<<c, got[c]>>] = "success" /\ got[c] \in 1..MaxTasks
    BY <1>3 DEF EarnedInv, SuccessIsEarned
  <2>2. <<c, got[c]>> \in Tasks
    BY <2>1 DEF Tasks
  <2>3. QED BY <1>3, <2>1, <2>2, SuccessStays
<1>4. CASE /\ got'[c] = got[c] + 1 /\ got[c] < sent[c]
           /\ task[<<c, got[c] + 1>>] = "success"
  <2>1. got[c] + 1 \in 1..MaxTasks
    BY <1>4, LifecycleAssumption DEF EarnedInv
  <2>2. <<c, got[c] + 1>> \in Tasks
    BY <2>1 DEF Tasks
  <2>3. returned[<<c, got[c] + 1>>] = "success"
    BY <1>4, <2>2 DEF EarnedInv
  <2>4. returned'[<<c, got[c] + 1>>] = "success"
    BY <2>2, <2>3, SuccessStays
  <2>5. QED BY <1>4, <2>1, <2>4
<1>5. QED BY <1>1, <1>2, <1>3, <1>4, LocalsWriters

\* A call that may still submit was so before.
LEMMA SubmitsBefore ==
  ASSUME TypeOK, Next, NEW c \in Starts, pc'[c] \in Submits
  PROVE  pc[c] \in Submits
<1> USE Typed DEF Submits
<1>1. Guard(c) \/ StartStep(c) => pc[c] \in Submits
  BY Moves
<1>2. RunStep(c) => pc[c] \in Submits
  BY Moves DEF RunStep
<1>3. ~ReleaseStep(c)
  BY Moves DEF ReleaseStep
<1>4. QED BY <1>1, <1>2, <1>3, OwnSteps

LEMMA StepFresh ==
  ASSUME TypeOK, CallsOK, EarnedInv, Next, NEW c \in Starts
  PROVE  /\ sent'[c] <= MaxTasks
         /\ pc'[c] \in Submits =>
              \A i \in 1..MaxTasks : i > sent'[c] => coro'[<<c, i>>] = "none"
<1> USE TypeParts, Typed DEF LocalsOK, MemoryOK, PcOK
<1>0. MaxTasks \in Nat
  BY LifecycleAssumption
<1>1. sent'[c] <= MaxTasks
  <2>1. ASSUME NEW d \in Starts, RegisterRun(d)
        PROVE  sent'[c] = sent[c] \/ (sent'[c] = sent[c] + 1 /\ sent[c] < MaxTasks)
    BY <2>1 DEF RegisterRun, CallsOK
  <2>2. ASSUME NEW d \in Starts,
               WaitForTask(d) \/ RunRaises(d) \/ MarkEnd(d) \/ FailureRaises(d)
        PROVE  sent'[c] = sent[c] \/ sent'[c] = 0
    BY <2>2 DEF WaitForTask, RunRaises, MarkEnd, FailureRaises, Release
  <2>3. QED BY <1>0, <2>1, <2>2, LocalsWriters DEF EarnedInv
<1>2. ASSUME pc'[c] \in Submits, NEW i \in 1..MaxTasks, i > sent'[c]
      PROVE  coro'[<<c, i>>] = "none"
  <2>1. pc[c] \in Submits
    BY <1>2, SubmitsBefore
  <2>2. ASSUME NEW d \in Starts, MarkEnd(d) \/ FailureRaises(d)
        PROVE  d # c
    <3>1. ~MarkEnd(c) /\ ~FailureRaises(c)
      BY <2>1, Moves DEF Submits
    <3>2. QED BY <2>2, <3>1
  <2>4. sent[c] <= sent'[c]
    <3>1. ASSUME NEW d \in Starts, MarkEnd(d) \/ FailureRaises(d)
          PROVE  sent'[c] = sent[c]
      BY <2>2, <3>1 DEF MarkEnd, FailureRaises, Release
    <3>2. ASSUME NEW d \in Starts, RegisterRun(d) \/ WaitForTask(d) \/ RunRaises(d)
          PROVE  sent'[c] = sent[c] \/ sent'[c] = sent[c] + 1
      BY <3>2 DEF RegisterRun, WaitForTask, RunRaises
    <3>3. QED BY <3>1, <3>2, LocalsWriters
  <2>5. coro[<<c, i>>] = "none"
    <3>1. sent'[c] \in Nat /\ sent[c] \in Nat
      BY StepLocals
    <3>2. i > sent[c]
      BY <1>2, <2>4, <3>1
    <3>3. QED BY <2>1, <3>2 DEF EarnedInv
  <2>6. <<c, i>> \in Tasks
    BY DEF Tasks
  <2>7. ASSUME NEW d \in Starts, RegisterRun(d)
        PROVE  coro'[<<c, i>>] = coro[<<c, i>>]
    <3>1. /\ coro' = [coro EXCEPT ![NextTask(d)] = "scheduled"]
          /\ sent' = [sent EXCEPT ![d] = @ + 1]
      BY <2>7 DEF RegisterRun
    <3>2. <<c, i>> # NextTask(d)
      BY <1>2, <3>1 DEF NextTask
    <3>3. QED BY <2>6, <3>1, <3>2
  <2>8. ASSUME NEW u \in Tasks,
               BeginTask(u) \/ EndTask(u) \/ TaskRaises(u) \/ ExceptTask(u)
        PROVE  coro'[<<c, i>>] = coro[<<c, i>>]
    <3>1. coro[u] # "none" /\ \E st : coro' = [coro EXCEPT ![u] = st]
      BY <2>8 DEF BeginTask, EndTask, TaskRaises, ExceptTask, ResumeAt
    <3>2. QED BY <2>5, <2>6, <3>1
  <2>9. ASSUME NEW p \in Mortal, Crash(p)
        PROVE  coro'[<<c, i>>] = coro[<<c, i>>]
    BY <2>5, <2>6, <2>9 DEF Crash
  <2>10. QED BY <2>5, <2>7, <2>8, <2>9, CoroWriters
<1>3. QED BY <1>1, <1>2

\* A run that reports success got it from the agent of its last task: no
\* release, recovery, cancel or watchdog can make it report one.
THEOREM EarnedSuccess == Spec => []SuccessIsEarned
<1>1. Init => EarnedInv
  BY LifecycleAssumption DEF Init, EarnedInv, SuccessIsEarned, Tasks
<1>2. TypeOK /\ CallsOK /\ EarnedInv /\ [Next]_vars => EarnedInv'
  <2>1. ASSUME TypeOK, CallsOK, EarnedInv, Next
        PROVE  EarnedInv'
    BY <2>1, StepSuccess, StepWatched, StepUnfinished, StepOutcome, StepFresh
       DEF EarnedInv, SuccessIsEarned
  <2>2. EarnedInv /\ UNCHANGED vars => EarnedInv'
    <3>1. UNCHANGED vars
            => UNCHANGED <<task, watch, returned, coro, outcome, got, sent, pc>>
      BY DEF vars, tables, taskTable, memory, locals, outside
    <3>2. QED BY <3>1 DEF EarnedInv, SuccessIsEarned
  <2>3. QED BY <2>1, <2>2
<1>3. EarnedInv => SuccessIsEarned
  BY DEF EarnedInv
<1>4. QED BY <1>1, <1>2, <1>3, Typing, PTL DEF Spec
=============================================================================
