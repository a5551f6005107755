---------------------------- MODULE WaveScheduler ----------------------------
(***************************************************************************)
(* One run of the SchedulingAgent (core/agents/scheduling_agent.py): the   *)
(* subtasks of a goal are grouped into waves, each wave is dispatched and  *)
(* its replies are collected (core/message_queue.py) before the next one   *)
(* starts, within one timeout for all.  Dependents of failed tasks are     *)
(* marked as failed instead of being dispatched.                           *)
(*                                                                         *)
(* The dispatcher is the environment: it does what AckDelivery promises,   *)
(* in any order and at any time, or not at all.  So are earlier runs of    *)
(* the scenario, whose replies are in the same table: stopping a scenario  *)
(* deletes its consumer offset (scenario_manager.py:278), and a task that  *)
(* was under way then is answered later.                                   *)
(***************************************************************************)
EXTENDS Integers, Sequences, FiniteSets

CONSTANTS
  Ids,           \* ids of subtasks, local to the decomposition
  Tasks,         \* task ids
  OldTask,       \* stands for the tasks of earlier runs of the scenario
  Plans,         \* decompositions, see TaskGraph!PlanOf
  Second,        \* ticks of the clock in a second
  TotalSeconds,  \* timeout_seconds of the goal
  MaxOldReplies, \* bound: replies to earlier runs
  MaxDbErrors    \* bound: repository calls that raise

IsPlan(p) ==
  /\ p.subs \subseteq Ids /\ p.tasks \subseteq Tasks
  /\ p.needs \in [p.subs -> SUBSET Ids]
  /\ p.task \in [p.subs -> p.tasks]

ASSUME PlansAssumption ==
  /\ \A p \in Plans : IsPlan(p)
  /\ IsFiniteSet(Ids)
  /\ OldTask \notin Tasks

ASSUME SchedulerBounds ==
  /\ Second \in Nat \ {0} /\ TotalSeconds \in Nat
  /\ MaxOldReplies \in Nat /\ MaxDbErrors \in Nat

VARIABLES
  pc,          \* where run() is
  plan,        \* the decomposition
  waves,       \* the waves built so far, a sequence of sets of ids
  current,     \* index of the wave to start or to collect
  collected,   \* keys of all_replies
  failed,      \* failed_ids
  upstream,    \* by subtask, the dependencies whose results it was sent with
  expected,    \* replies the wave waits for
  base,        \* the consumer offset when the wave started
  offset,      \* consumer_offsets.last_message_id
  left,        \* deadline - time.time(), in ticks
  waveLeft,    \* what is left of the wave's timeout, in ticks
  taskState,   \* tasks.state; "skipped" is failed by the scheduler
  dispatched,  \* dispatch rows written
  acknowledged,\* dispatch rows acked
  answered,    \* reply rows, by task
  log,         \* reply rows of the scenario, in the order of their ids
  oldReplies,  \* replies to earlier runs so far
  errors       \* repository calls that raised so far

planVars  == <<plan, waves>>
memoVars  == <<collected, failed, upstream>>
waveVars  == <<expected, base, offset>>
timeVars  == <<left, waveLeft>>
rowVars   == <<dispatched, acknowledged, answered, log>>
bounds    == <<oldReplies, errors>>
agentVars == <<pc, current, memoVars, waveVars>>
schedVars == <<planVars, agentVars, timeVars, taskState, rowVars, bounds>>

TaskStates == {"none", "pending", "success", "failed", "skipped"}
Finished   == {t \in Tasks : taskState[t] \in {"success", "failed", "skipped"}}
Rows       == Ids \X Tasks

Delivery == INSTANCE AckDelivery
  WITH RowTask <- [r \in Rows |-> r[2]], finished <- Finished

\* A repository call raises and the code goes on; n times.
Raise(n) == errors + n <= MaxDbErrors /\ errors' = errors + n

-----------------------------------------------------------------------------
(* Waves *)

Needs(l)      == plan.needs[l] \cap plan.subs
KnownNeeds(l) == Needs(l) \ {l}
TasksOf(S)    == {plan.task[l] : l \in S}
Placed        == UNION {waves[w] : w \in DOMAIN waves}

\* Wrong variant: one predecessor placed is enough.
EagerReady ==
  {l \in plan.subs \ Placed : KnownNeeds(l) # {} => KnownNeeds(l) \cap Placed # {}}

Ready == {l \in plan.subs \ Placed : KnownNeeds(l) \subseteq Placed}

PlaceWave ==
  /\ pc = "planning" /\ Ready # {}
  /\ waves' = Append(waves, Ready)
  /\ UNCHANGED <<plan, agentVars, timeVars, taskState, rowVars, bounds>>

RejectCycle ==
  /\ pc = "planning" /\ Ready = {} /\ plan.subs \ Placed # {}
  /\ pc' = "rejected"
  /\ UNCHANGED <<planVars, current, memoVars, waveVars, timeVars, taskState,
                 rowVars, bounds>>

Create(S) == taskState' = [t \in Tasks |-> IF t \in S THEN "pending" ELSE taskState[t]]

CreateTasks ==
  /\ pc = "planning" /\ Placed = plan.subs
  /\ Create(plan.tasks)
  /\ pc' = "between"
  /\ UNCHANGED <<planVars, current, memoVars, waveVars, timeVars, rowVars,
                 bounds>>

\* An exception anywhere ends the run.
CreateFails ==
  /\ pc = "planning" /\ Placed = plan.subs
  /\ \E S \in SUBSET plan.tasks : S # plan.tasks /\ Create(S)
  /\ Raise(1)
  /\ pc' = "error"
  /\ UNCHANGED <<planVars, current, memoVars, waveVars, timeVars, rowVars,
                 oldReplies>>

-----------------------------------------------------------------------------
(* The wave loop *)

\* Wrong variant: one predecessor that did not fail is enough.
AllFailed(l) == Needs(l) # {} /\ TasksOf(Needs(l)) \subseteq failed

Hindered(l) == TasksOf(Needs(l)) \cap failed # {}
SkipsOf(w)  == {l \in waves[w] : Hindered(l)}

Mark(S) ==
  taskState' = [t \in Tasks |-> IF t \in TasksOf(S) THEN "skipped" ELSE taskState[t]]

\* Wrong variant: a skipped task is not added to failed_ids.
KeepFailed(S) == failed

\* failed_ids after the subtasks of S have been skipped.
Barred(S) == failed \cup TasksOf(S)

\* max(int(remaining), 1) seconds
WaveTime == IF left < Second THEN Second ELSE (left \div Second) * Second

\* The whole wave is skipped: on to the next.
SkipWave ==
  /\ pc = "between" /\ current <= Len(waves) /\ left > 0
  /\ SkipsOf(current) = waves[current]
  /\ Mark(waves[current])
  /\ failed' = Barred(waves[current])
  /\ current' = current + 1
  /\ UNCHANGED <<planVars, pc, collected, upstream, waveVars, timeVars,
                 rowVars, bounds>>

\* dispatch_subtasks goes on to the next row when the insert of one raises.
StartWave ==
  /\ pc = "between" /\ current <= Len(waves) /\ left > 0
  /\ LET skips == SkipsOf(current)
         sent  == waves[current] \ skips
     IN /\ sent # {}
        /\ Mark(skips)
        /\ failed' = Barred(skips)
        /\ upstream' = [l \in Ids |-> IF l \in sent
                          THEN {d \in Needs(l) : plan.task[d] \in collected}
                          ELSE upstream[l]]
        /\ \E lost \in SUBSET sent :
             /\ Raise(Cardinality(lost))
             /\ dispatched' = dispatched \cup {<<l, plan.task[l]>> : l \in sent \ lost}
        /\ expected' = Cardinality(sent)
  /\ base' = offset
  /\ waveLeft' = WaveTime
  /\ pc' = "waiting"
  /\ UNCHANGED <<planVars, current, collected, offset, left, acknowledged,
                 answered, log, oldReplies>>

\* Wrong variant: the offset moves by what is expected, not by what was read.
Overrun == base + expected

\* One poll of collect_replies reads at most what the wave still expects.
LastOfPoll == IF Len(log) < base + expected THEN Len(log) ELSE base + expected

Collect ==
  /\ pc = "waiting" /\ waveLeft > 0
  /\ offset < LastOfPoll
  /\ offset' = LastOfPoll
  /\ UNCHANGED <<planVars, pc, current, memoVars, expected, base, timeVars,
                 taskState, rowVars, bounds>>

\* Wrong variant: the wave is complete with its first reply.
OneReply == offset > base

Complete == offset >= base + expected

\* Wrong variant: the wave has no timeout.
NeverLate == FALSE

TimedOut == waveLeft <= 0

\* Wrong variant: every dependent, those already sent included.
AllDependents(from, F) == {l \in Placed : TasksOf(Needs(l)) \cap F # {}}

\* The subtasks of the waves before w.
EarlierThan(w) == UNION {waves[v] : v \in {u \in DOMAIN waves : u < w}}

\* What one pass of _propagate_failure over the waves from.. marks: the least
\* set that has every subtask of which a dependency failed, or was marked in a
\* wave before.  As _build_waves puts dependencies into earlier waves, one pass
\* finds them however indirect.
Doomed(from, F) ==
  LET later     == UNION {waves[w] : w \in {v \in DOMAIN waves : v >= from}}
      hit(S, w) == {l \in waves[w] :
                      TasksOf(Needs(l)) \cap (F \cup TasksOf(S \cap EarlierThan(w))) # {}}
      closed(S) == \A w \in DOMAIN waves : w >= from => hit(S, w) \subseteq S
  IN {l \in later : \A S \in SUBSET later : closed(S) => l \in S}

EndWave ==
  /\ pc = "waiting" /\ (Complete \/ TimedOut)
  /\ LET got == {log[i] : i \in base+1..offset}
     IN /\ collected' = collected \cup {r.task : r \in got}
        /\ failed' = failed \cup {r.task : r \in {g \in got : ~g.ok}}
  /\ \E missed \in SUBSET Doomed(current + 1, failed') :
       /\ Raise(Cardinality(missed))
       /\ Mark(Doomed(current + 1, failed') \ missed)
  /\ current' = current + 1
  /\ pc' = "between"
  /\ UNCHANGED <<planVars, upstream, waveVars, timeVars, rowVars, oldReplies>>

Return ==
  /\ pc = "between" /\ (current > Len(waves) \/ left <= 0)
  /\ pc' = "done"
  /\ UNCHANGED <<planVars, current, memoVars, waveVars, timeVars, taskState,
                 rowVars, bounds>>

\* mark_as_failed of a skipped subtask raises, those before it are marked.
SkipFails ==
  /\ pc = "between" /\ current <= Len(waves) /\ left > 0
  /\ \E S \in SUBSET SkipsOf(current) : S # SkipsOf(current) /\ Mark(S)
  /\ Raise(1)
  /\ pc' = "error"
  /\ UNCHANGED <<planVars, current, memoVars, waveVars, timeVars, rowVars,
                 oldReplies>>

\* The poll, or an update of the offset after some replies, raises.
CollectFails ==
  /\ pc = "waiting" /\ waveLeft > 0
  /\ \E o \in offset..LastOfPoll : offset' = o
  /\ Raise(1)
  /\ pc' = "error"
  /\ UNCHANGED <<planVars, current, memoVars, expected, base, timeVars,
                 taskState, rowVars, oldReplies>>

Tick ==
  /\ \/ pc = "between" /\ left > 0 /\ UNCHANGED waveLeft
     \/ pc = "waiting" /\ waveLeft > 0 /\ waveLeft' = waveLeft - 1
  /\ left' = left - 1
  /\ UNCHANGED <<planVars, agentVars, taskState, rowVars, bounds>>

-----------------------------------------------------------------------------
(* The dispatcher, and earlier runs *)

Delivered(t) == \E r \in dispatched \ acknowledged : r[2] = t

\* A job that has passed the idempotency check overwrites a skip.
Execute(t) ==
  /\ Delivered(t) /\ taskState[t] \in {"pending", "skipped"}
  /\ \E s \in {"success", "failed"} : taskState' = [taskState EXCEPT ![t] = s]
  /\ Delivery!Finish({t})
  /\ UNCHANGED <<planVars, agentVars, timeVars, dispatched, log, bounds>>

Reply(t) ==
  /\ Delivered(t) /\ taskState[t] \in {"success", "failed"}
  /\ UNCHANGED <<planVars, agentVars, timeVars, taskState, dispatched, bounds>>
  /\ Delivery!Answer(t)
  /\ log' = Append(log, [task |-> t, ok |-> taskState[t] = "success"])

\* Without a reply if the process died in between.
Ack(r) ==
  /\ r \in dispatched \ acknowledged
  /\ UNCHANGED <<planVars, agentVars, timeVars, taskState, dispatched, log,
                 bounds>>
  /\ Delivery!Acknowledge(r)

OldReply ==
  /\ oldReplies < MaxOldReplies
  /\ oldReplies' = oldReplies + 1
  /\ \E ok \in BOOLEAN : log' = Append(log, [task |-> OldTask, ok |-> ok])
  /\ UNCHANGED <<planVars, agentVars, timeVars, taskState, dispatched,
                 acknowledged, answered, errors>>

-----------------------------------------------------------------------------
Init ==
  /\ plan \in Plans
  /\ pc = "planning" /\ waves = <<>> /\ current = 1
  /\ collected = {} /\ failed = {} /\ upstream = [l \in Ids |-> {}]
  /\ expected = 0 /\ base = 0 /\ offset = 0
  /\ left = TotalSeconds * Second /\ waveLeft = 0
  /\ taskState = [t \in Tasks |-> "none"]
  /\ dispatched = {} /\ acknowledged = {}
  /\ answered = [t \in Tasks |-> 0]
  /\ log = <<>> /\ oldReplies = 0 /\ errors = 0

Agent ==
  \/ PlaceWave \/ RejectCycle \/ CreateTasks \/ CreateFails
  \/ SkipWave \/ StartWave \/ Collect \/ EndWave \/ Return
  \/ SkipFails \/ CollectFails

Environment ==
  \/ \E t \in Tasks : Execute(t) \/ Reply(t)
  \/ \E r \in Rows : Ack(r)
  \/ OldReply

Next == Agent \/ Tick \/ Environment

Spec == Init /\ [][Next]_schedVars

\* Time passes, and the thread that runs the agent is not starved.
FairSpec == Spec /\ WF_schedVars(Agent) /\ WF_schedVars(Tick)

-----------------------------------------------------------------------------
(* Properties *)

Stopped == pc \in {"done", "rejected", "error"}

Ancestors(l) ==
  LET above[n \in Nat] ==
        IF n = 0 THEN KnownNeeds(l)
        ELSE LET a == above[n-1] IN a \cup UNION {KnownNeeds(d) : d \in a}
  IN above[Cardinality(plan.subs)]

\* No task without a subtask, as an earlier one of the same id leaves it.
EveryTaskKept == plan.tasks = TasksOf(plan.subs)
DistinctGoals == \A k, l \in plan.subs : plan.task[k] = plan.task[l] => k = l

\* Type correctness: the variables of the scheduling agent and the rows it
\* and the dispatcher share have the values the code can give them; the
\* offset never passes the last reply.
SchedTypeOK ==
  /\ pc \in {"planning", "between", "waiting", "done", "rejected", "error"}
  /\ IsPlan(plan)
  /\ waves \in Seq(SUBSET plan.subs)
  /\ current \in Nat \ {0} /\ expected \in Nat
  /\ base \in Nat /\ offset \in 0..Len(log)
  /\ collected \subseteq Tasks \cup {OldTask} /\ failed \subseteq Tasks \cup {OldTask}
  /\ upstream \in [Ids -> SUBSET Ids]
  /\ left \in Int /\ waveLeft \in Nat
  /\ taskState \in [Tasks -> TaskStates]
  /\ dispatched \subseteq Rows /\ acknowledged \subseteq dispatched
  /\ answered \in [Tasks -> Nat]
  /\ log \in Seq([task : Tasks \cup {OldTask}, ok : BOOLEAN])
  /\ oldReplies \in 0..MaxOldReplies /\ errors \in 0..MaxDbErrors

\* Waves are disjoint and in the order of the dependencies.
WavesInOrder ==
  \A w \in DOMAIN waves : \A l \in waves[w] :
    /\ \A v \in DOMAIN waves : l \in waves[v] => v = w
    /\ \A d \in KnownNeeds(l) : \E v \in 1..w-1 : d \in waves[v]

\* _build_waves: every subtask is in one wave, as early as its dependencies
\* allow (all in earlier waves, one in the wave just before), and a graph is
\* rejected exactly if a subtask depends on itself through others.
WavesAreDepths ==
  /\ WavesInOrder
  /\ \A w \in DOMAIN waves : \A l \in waves[w] :
       w > 1 => KnownNeeds(l) \cap waves[w-1] # {}
  /\ pc \notin {"planning", "rejected"} => Placed = plan.subs
  /\ pc # "planning" =>
       (pc = "rejected" <=> \E l \in plan.subs : l \in Ancestors(l))

\* A subtask is dispatched with the result of every subtask it depends on
\* (_inject_upstream).  The last second of the timeout is excepted:
\* max(int(remaining), 1) leaves it to the wave after one that timed out.
DependentsSeeResults ==
  \A r \in dispatched :
    ~(KnownNeeds(r[1]) \subseteq upstream[r[1]]) => left < Second

\* The same for a scenario without replies to earlier runs in its table.
ResultsPassedOn == oldReplies = 0 => DependentsSeeResults

\* Once a failure is known, neither its dependents nor theirs are or have
\* been dispatched (the last second and earlier runs excepted).
FailureContained ==
  oldReplies = 0 /\ left >= Second /\ DistinctGoals =>
    \A r \in dispatched : TasksOf(Ancestors(r[1])) \cap failed = {}

\* What _propagate_failure has marked as failed ahead of its wave is never
\* dispatched when the loop gets there, whatever arrives late, from earlier
\* runs, or fails to be written.
SkippedIsNotDispatched ==
  DistinctGoals =>
    \A r \in dispatched : taskState[r[2]] # "skipped"

\* What the agent was told of a task is what its row says from then on: neither
\* a skip, by the loop or ahead of it, nor a second execution touches a task
\* that was answered, however late.  Subtasks that share a task are excepted:
\* a skip of one overwrites the outcome of the other.
RepliesAreTrue ==
  DistinctGoals =>
    \A i \in DOMAIN log : log[i].task # OldTask =>
      taskState[log[i].task] = IF log[i].ok THEN "success" ELSE "failed"

\* A run that returns before its last second has an outcome for every task
\* it created, if each of them belongs to a subtask.
NothingForgotten ==
  pc = "done" /\ left >= Second /\ oldReplies = 0 /\ EveryTaskKept =>
    plan.tasks \subseteq Finished

\* run() returns whatever the dispatcher does.
Terminates == <>Stopped
=============================================================================
