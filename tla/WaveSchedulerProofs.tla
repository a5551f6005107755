------------------------- MODULE WaveSchedulerProofs -------------------------
(***************************************************************************)
(* Theorems about WaveScheduler for any decomposition, any timeout and any *)
(* number of late replies and database errors: it is well typed, waves are *)
(* the depths of the graph of dependencies, a subtask that was marked as   *)
(* skipped ahead of its wave is not dispatched, and a run that is on time  *)
(* passes results on, contains failures and forgets no task.  The last     *)
(* parts are about what TaskGraph makes of any decomposition, about        *)
(* FlowDefinition, the other order of a graph that the code has, and about *)
(* the two orders together.                                                *)
(***************************************************************************)
EXTENDS WaveScheduler, TaskGraph, FlowDefinition, FiniteSetTheorems,
        SequenceTheorems, WellFoundedInduction, TLAPS

Entries == [task : Tasks \cup {OldTask}, ok : BOOLEAN]

(* What the type invariant says about sets of subtasks.                    *)
LEMMA SubtaskSets ==
  ASSUME SchedTypeOK, NEW S \in SUBSET plan.subs
  PROVE  /\ TasksOf(S) \subseteq plan.tasks /\ TasksOf(S) \subseteq Tasks
         /\ Cardinality(S) \in Nat
<1>1. IsPlan(plan)
  BY DEF SchedTypeOK
<1>2. TasksOf(S) \subseteq plan.tasks /\ plan.tasks \subseteq Tasks
  BY <1>1 DEF IsPlan, TasksOf
<1>3. IsFiniteSet(S)
  <2>1. S \subseteq Ids
    BY <1>1 DEF IsPlan
  <2> QED
    BY <2>1, PlansAssumption, FS_Subset
<1> QED
  BY <1>2, <1>3, FS_CardinalityType

(* The timeout of a wave is a number of ticks.                             *)
LEMMA WaveTimeType ==
  ASSUME left \in Int PROVE WaveTime \in Nat
<1>1. Second \in Nat /\ Second > 0
  BY SchedulerBounds
<1>2. CASE left < Second
  BY <1>1, <1>2 DEF WaveTime
<1>3. CASE left >= Second
  <2>1. left \div Second \in Int /\ left \div Second >= 0
    BY <1>1, <1>3
  <2>2. \A q \in Nat : q * Second \in Nat
    BY <1>1
  <2> QED
    BY <1>1, <1>3, <2>1, <2>2 DEF WaveTime
<1> QED
  BY <1>1, <1>2, <1>3

(* The repository calls that raise stay within their bound.                *)
LEMMA RaiseType ==
  ASSUME errors \in 0..MaxDbErrors, NEW n \in Nat, Raise(n)
  PROVE  errors' \in 0..MaxDbErrors
BY SchedulerBounds DEF Raise

LEMMA MarkType ==
  ASSUME taskState \in [Tasks -> TaskStates], NEW S, Mark(S)
  PROVE  taskState' \in [Tasks -> TaskStates]
BY DEF Mark, TaskStates

LEMMA CreateType ==
  ASSUME taskState \in [Tasks -> TaskStates], NEW S, Create(S)
  PROVE  taskState' \in [Tasks -> TaskStates]
BY DEF Create, TaskStates

(* The replies collected by a wave are those of known tasks.               *)
LEMMA GotType ==
  ASSUME SchedTypeOK, NEW i \in base+1..offset
  PROVE  log[i] \in Entries
<1>1. i \in 1..Len(log) /\ log \in Seq(Entries)
  BY DEF SchedTypeOK, Entries
<1> QED
  BY <1>1

LEMMA LaterType ==
  ASSUME SchedTypeOK, NEW from, NEW F
  PROVE  /\ Doomed(from, F) \subseteq plan.subs
         /\ \A w \in DOMAIN waves : waves[w] \subseteq plan.subs
<1>1. \A w \in DOMAIN waves : waves[w] \subseteq plan.subs
  BY DEF SchedTypeOK
<1> QED
  BY <1>1 DEF Doomed

-----------------------------------------------------------------------------
(* Type correctness: one step per action.                                  *)
LEMMA TypingStep ==
  ASSUME SchedTypeOK, [Next]_schedVars PROVE SchedTypeOK'
<1> USE DEF planVars, memoVars, waveVars, timeVars, rowVars, bounds, agentVars
<1>p. IsPlan(plan)
  BY DEF SchedTypeOK
<1>1. CASE PlaceWave
  <2>1. waves' \in Seq(SUBSET plan.subs) /\ plan' = plan
    BY <1>1 DEF PlaceWave, Ready, SchedTypeOK
  <2> QED
    BY <1>1, <2>1 DEF PlaceWave, SchedTypeOK
<1>2. CASE RejectCycle
  BY <1>2 DEF RejectCycle, SchedTypeOK
<1>3. CASE CreateTasks
  <2>1. taskState' \in [Tasks -> TaskStates]
    BY <1>3, CreateType DEF CreateTasks, SchedTypeOK
  <2> QED
    BY <1>3, <2>1 DEF CreateTasks, SchedTypeOK
<1>4. CASE CreateFails
  <2>1. taskState' \in [Tasks -> TaskStates] /\ errors' \in 0..MaxDbErrors
    BY <1>4, CreateType, RaiseType DEF CreateFails, SchedTypeOK
  <2> QED
    BY <1>4, <2>1 DEF CreateFails, SchedTypeOK
<1>5. CASE SkipWave
  <2>1. waves[current] \subseteq plan.subs
    BY <1>5, LaterType DEF SkipWave, SchedTypeOK
  <2>2. failed' \subseteq Tasks \cup {OldTask}
    BY <1>5, <2>1, SubtaskSets DEF SkipWave, Barred, SchedTypeOK
  <2>3. taskState' \in [Tasks -> TaskStates]
    BY <1>5, MarkType DEF SkipWave, SchedTypeOK
  <2> QED
    BY <1>5, <2>2, <2>3 DEF SkipWave, SchedTypeOK
<1>6. CASE StartWave
  <2> DEFINE skips == SkipsOf(current)
             sent  == waves[current] \ skips
  <2>1. skips \subseteq plan.subs /\ sent \subseteq plan.subs
    BY <1>6, LaterType DEF StartWave, SkipsOf, SchedTypeOK
  <2>2. failed' \subseteq Tasks \cup {OldTask}
    <3>1. failed' = failed \cup TasksOf(skips)
      BY <1>6 DEF StartWave, Barred
    <3> QED
      BY <2>1, <3>1, SubtaskSets DEF SchedTypeOK
  <2>3. taskState' \in [Tasks -> TaskStates]
    BY <1>6, MarkType DEF StartWave, SchedTypeOK
  <2>4. upstream' \in [Ids -> SUBSET Ids]
    <3>1. \A l \in Ids : {d \in Needs(l) : plan.task[d] \in collected} \subseteq Ids
      BY <1>p DEF Needs, IsPlan
    <3>2. upstream' = [l \in Ids |-> IF l \in sent
                         THEN {d \in Needs(l) : plan.task[d] \in collected}
                         ELSE upstream[l]]
      BY <1>6 DEF StartWave
    <3> HIDE DEF sent
    <3> QED
      BY <3>1, <3>2 DEF SchedTypeOK
  <2>5. PICK lost \in SUBSET sent :
          /\ Raise(Cardinality(lost))
          /\ dispatched' = dispatched \cup {<<l, plan.task[l]>> : l \in sent \ lost}
    BY <1>6 DEF StartWave
  <2>6. errors' \in 0..MaxDbErrors
    BY <2>1, <2>5, SubtaskSets, RaiseType DEF SchedTypeOK
  <2>7. dispatched' \subseteq Rows /\ dispatched \subseteq dispatched'
    <3>1. \A l \in plan.subs : <<l, plan.task[l]>> \in Rows
      BY <1>p DEF IsPlan, Rows
    <3> HIDE DEF sent
    <3> QED
      BY <2>1, <2>5, <3>1 DEF SchedTypeOK
  <2>8. expected' \in Nat
    BY <1>6, <2>1, SubtaskSets DEF StartWave
  <2>9. waveLeft' \in Nat
    BY <1>6, WaveTimeType DEF StartWave, SchedTypeOK
  <2>10. /\ UNCHANGED <<planVars, current, collected, offset, left, acknowledged,
                        answered, log, oldReplies>>
         /\ base' = offset /\ pc' = "waiting"
    BY <1>6 DEF StartWave
  <2> QED
    BY <2>2, <2>3, <2>4, <2>6, <2>7, <2>8, <2>9, <2>10 DEF SchedTypeOK
<1>7. CASE Collect
  <2>1. offset' \in 0..Len(log)
    BY <1>7 DEF Collect, LastOfPoll, SchedTypeOK
  <2> QED
    BY <1>7, <2>1 DEF Collect, SchedTypeOK
<1>8. CASE EndWave
  <2>1. /\ collected' = collected \cup {r.task : r \in {log[i] : i \in base+1..offset}}
        /\ failed' = failed \cup {r.task : r \in
             {g \in {log[i] : i \in base+1..offset} : ~g.ok}}
    BY <1>8 DEF EndWave
  <2>2. /\ collected' \subseteq Tasks \cup {OldTask}
        /\ failed' \subseteq Tasks \cup {OldTask}
    BY <2>1, GotType DEF SchedTypeOK, Entries
  <2>3. PICK missed \in SUBSET Doomed(current + 1, failed') :
          /\ Raise(Cardinality(missed))
          /\ Mark(Doomed(current + 1, failed') \ missed)
    BY <1>8 DEF EndWave
  <2>4. taskState' \in [Tasks -> TaskStates]
    BY <2>3, MarkType DEF SchedTypeOK
  <2>5. errors' \in 0..MaxDbErrors
    <3>1. missed \subseteq plan.subs
      BY LaterType
    <3> QED
      BY <2>3, <3>1, SubtaskSets, RaiseType DEF SchedTypeOK
  <2>6. /\ UNCHANGED <<planVars, upstream, waveVars, timeVars, rowVars, oldReplies>>
        /\ current' = current + 1 /\ pc' = "between"
    BY <1>8 DEF EndWave
  <2> QED
    BY <2>2, <2>4, <2>5, <2>6 DEF SchedTypeOK
<1>9. CASE Return
  BY <1>9 DEF Return, SchedTypeOK
<1>10. CASE SkipFails
  <2>1. taskState' \in [Tasks -> TaskStates] /\ errors' \in 0..MaxDbErrors
    BY <1>10, MarkType, RaiseType DEF SkipFails, SchedTypeOK
  <2> QED
    BY <1>10, <2>1 DEF SkipFails, SchedTypeOK
<1>11. CASE CollectFails
  <2>1. offset' \in 0..Len(log) /\ errors' \in 0..MaxDbErrors
    BY <1>11, RaiseType DEF CollectFails, LastOfPoll, SchedTypeOK
  <2> QED
    BY <1>11, <2>1 DEF CollectFails, SchedTypeOK
<1>12. CASE Tick
  BY <1>12 DEF Tick, SchedTypeOK
<1>13. ASSUME NEW t \in Tasks, Execute(t) PROVE SchedTypeOK'
  <2>1. taskState' \in [Tasks -> TaskStates]
    BY <1>13 DEF Execute, SchedTypeOK, TaskStates
  <2> QED
    BY <1>13, <2>1 DEF Execute, Delivery!Finish, SchedTypeOK
<1>14. ASSUME NEW t \in Tasks, Reply(t) PROVE SchedTypeOK'
  <2>1. log' \in Seq(Entries) /\ Len(log') = Len(log) + 1
    BY <1>14 DEF Reply, SchedTypeOK, Entries
  <2> QED
    BY <1>14, <2>1 DEF Reply, Delivery!Answer, SchedTypeOK, Entries
<1>15. ASSUME NEW r \in Rows, Ack(r) PROVE SchedTypeOK'
  BY <1>15 DEF Ack, Delivery!Acknowledge, SchedTypeOK
<1>16. CASE OldReply
  <2>1. log' \in Seq(Entries) /\ Len(log') = Len(log) + 1
    BY <1>16 DEF OldReply, SchedTypeOK, Entries
  <2> QED
    BY <1>16, <2>1, SchedulerBounds DEF OldReply, SchedTypeOK, Entries
<1>17. CASE UNCHANGED schedVars
  BY <1>17 DEF schedVars, SchedTypeOK
<1> QED
  BY <1>1, <1>2, <1>3, <1>4, <1>5, <1>6, <1>7, <1>8, <1>9, <1>10, <1>11, <1>12,
     <1>13, <1>14, <1>15, <1>16, <1>17 DEF Next, Agent, Environment

(* The scheduling agent is well typed.                                     *)
THEOREM SchedTyping == Spec => []SchedTypeOK
<1>1. Init => SchedTypeOK
  BY PlansAssumption, SchedulerBounds DEF Init, SchedTypeOK, TaskStates
<1> QED
  BY <1>1, TypingStep, PTL DEF Spec

-----------------------------------------------------------------------------
(* Only PlaceWave changes the plan or its waves.                           *)
LEMMA WavesFixed ==
  ASSUME [Next]_schedVars
  PROVE  /\ plan' = plan
         /\ PlaceWave \/ waves' = waves
BY DEF planVars, agentVars, schedVars, Next, Agent, Environment, PlaceWave,
  RejectCycle, CreateTasks, CreateFails, SkipWave, StartWave, Collect, EndWave,
  Return, SkipFails, CollectFails, Tick, Execute, Reply, Ack, OldReply

(* _build_waves keeps the waves disjoint and in the order of the           *)
(* dependencies, for any graph.                                            *)
THEOREM WavesRespectNeeds == Spec => []WavesInOrder
<1>1. Init => WavesInOrder
  BY DEF Init, WavesInOrder
<1>2. SchedTypeOK /\ WavesInOrder /\ [Next]_schedVars => WavesInOrder'
  <2> SUFFICES ASSUME SchedTypeOK, WavesInOrder, [Next]_schedVars
               PROVE  WavesInOrder'
    OBVIOUS
  <2>1. CASE waves' = waves
    BY <2>1, WavesFixed DEF WavesInOrder, KnownNeeds, Needs
  <2>2. CASE PlaceWave
    <3>1. /\ DOMAIN waves = 1..Len(waves) /\ Len(waves) \in Nat
          /\ DOMAIN waves' = 1..Len(waves)+1
          /\ \A w \in DOMAIN waves : waves'[w] = waves[w]
          /\ waves'[Len(waves)+1] = Ready
      BY <2>2 DEF PlaceWave, SchedTypeOK
    <3>2. \A l : KnownNeeds(l)' = KnownNeeds(l)
      BY WavesFixed DEF KnownNeeds, Needs
    <3>3. \A l \in Ready : /\ \A v \in DOMAIN waves : l \notin waves[v]
                           /\ \A d \in KnownNeeds(l) :
                                \E v \in DOMAIN waves : d \in waves[v]
      BY DEF Ready, Placed
    <3>4. ASSUME NEW w \in DOMAIN waves', NEW l \in waves'[w]
          PROVE  /\ \A v \in DOMAIN waves' : l \in waves'[v] => v = w
                 /\ \A d \in KnownNeeds(l) : \E v \in 1..w-1 : d \in waves'[v]
      <4>1. CASE w \in DOMAIN waves
        BY <3>1, <3>3, <3>4, <4>1 DEF WavesInOrder
      <4>2. CASE w = Len(waves) + 1
        BY <3>1, <3>3, <3>4, <4>2
      <4> QED
        BY <3>1, <4>1, <4>2
    <3> QED
      BY <3>2, <3>4 DEF WavesInOrder
  <2> QED
    BY <2>1, <2>2, WavesFixed
<1> QED
  BY <1>1, <1>2, SchedTyping, PTL DEF Spec

-----------------------------------------------------------------------------
(* What is marked as skipped is not dispatched.  Alone this is not         *)
(* inductive.  What it needs is that a subtask marked ahead of its wave is *)
(* doomed from the wave to come on, by what is in failed_ids now: then the *)
(* loop finds a failed dependency when it gets there.                      *)
Upcoming == IF pc = "between" THEN current ELSE current + 1

MarkedIsDoomed ==
  pc \in {"between", "waiting"} =>
    \A w \in DOMAIN waves : \A l \in waves[w] :
      w >= Upcoming /\ taskState[plan.task[l]] = "skipped" => l \in Doomed(Upcoming, failed)

DispatchedBefore ==
  \A r \in dispatched :
    /\ r[2] = plan.task[r[1]]
    /\ \E w \in DOMAIN waves :
         r[1] \in waves[w] /\ w <= current /\ (pc = "between" => w < current)

NothingYet ==
  pc = "planning" =>
    dispatched = {} /\ \A t \in Tasks : taskState[t] # "skipped"

DispatchedUnmarked == \A r \in dispatched : taskState[r[2]] # "skipped"

SkipInv == MarkedIsDoomed /\ DispatchedBefore /\ NothingYet /\ DispatchedUnmarked

(* A set closed for the waves after the current one, with the subtasks the *)
(* loop skips in the current wave, is closed for both.                     *)
LEMMA ClosedWithSkips ==
  ASSUME SchedTypeOK, WavesInOrder, current \in DOMAIN waves,
         NEW l \in Doomed(current, failed),
         NEW F, failed \cup TasksOf(SkipsOf(current)) \subseteq F,
         NEW S \in SUBSET UNION {waves[w] : w \in {v \in DOMAIN waves : v >= current + 1}},
         \A w \in DOMAIN waves : w >= current + 1 =>
           {x \in waves[w] :
              TasksOf(Needs(x)) \cap (F \cup TasksOf(S \cap EarlierThan(w))) # {}} \subseteq S
  PROVE  l \in S \cup SkipsOf(current)
<1> DEFINE later == UNION {waves[w] : w \in {v \in DOMAIN waves : v >= current}}
           next  == UNION {waves[w] : w \in {v \in DOMAIN waves : v >= current + 1}}
           T     == S \cup SkipsOf(current)
<1>1. DOMAIN waves \subseteq Nat /\ current \in Nat
  BY DEF SchedTypeOK
<1>2. T \subseteq later
  <2>1. later = waves[current] \cup next
    <3>1. \A v \in DOMAIN waves : v >= current <=> v = current \/ v >= current + 1
      BY <1>1
    <3> QED
      BY <3>1
  <2> QED
    BY <2>1 DEF SkipsOf
<1>3. ASSUME NEW w \in DOMAIN waves, w >= current, NEW x \in waves[w],
             TasksOf(Needs(x)) \cap (failed \cup TasksOf(T \cap EarlierThan(w))) # {}
      PROVE  x \in T
  <2>1. CASE w >= current + 1
    <3>1. TasksOf(T \cap EarlierThan(w)) \subseteq TasksOf(S \cap EarlierThan(w)) \cup F
      BY DEF TasksOf
    <3>2. TasksOf(Needs(x)) \cap (F \cup TasksOf(S \cap EarlierThan(w))) # {}
      BY <1>3, <3>1
    <3> QED
      BY <1>3, <2>1, <3>2
  <2>2. CASE w = current
    <3>1. \A y \in T : y \notin EarlierThan(w)
      <4> SUFFICES ASSUME NEW y \in later, y \in EarlierThan(w) PROVE FALSE
        BY <1>2
      <4>1. PICK u \in DOMAIN waves : u >= current /\ y \in waves[u]
        OBVIOUS
      <4>2. PICK v \in DOMAIN waves : v < current /\ y \in waves[v]
        BY <2>2 DEF EarlierThan
      <4>3. u = v
        BY <4>1, <4>2 DEF WavesInOrder
      <4> QED
        BY <1>1, <4>1, <4>2, <4>3
    <3>2. TasksOf(T \cap EarlierThan(w)) = {}
      BY <3>1 DEF TasksOf
    <3> QED
      BY <1>3, <2>2, <3>2 DEF SkipsOf, Hindered
  <2> QED
    BY <1>1, <1>3, <2>1, <2>2
<1> QED
  <2> HIDE DEF T
  <2>1. T \in SUBSET later
    BY <1>2
  <2>2. l \in T
    BY <1>3, <2>1 DEF Doomed
  <2> QED
    BY <2>2 DEF T

(* The loop skips what is doomed when its wave comes ...                   *)
LEMMA DoomedIsHindered ==
  ASSUME SchedTypeOK, WavesInOrder, current \in DOMAIN waves,
         NEW l \in waves[current], l \in Doomed(current, failed)
  PROVE  l \in SkipsOf(current)
<1> DEFINE next == UNION {waves[w] : w \in {v \in DOMAIN waves : v >= current + 1}}
<1>1. l \in next \cup SkipsOf(current)
  <2> DEFINE F == failed \cup TasksOf(SkipsOf(current))
  <2>1. ASSUME NEW S \in SUBSET next, S = next PROVE l \in S \cup SkipsOf(current)
    <3>1. failed \cup TasksOf(SkipsOf(current)) \subseteq F
      OBVIOUS
    <3>2. \A w \in DOMAIN waves : w >= current + 1 =>
            {x \in waves[w] :
               TasksOf(Needs(x)) \cap (F \cup TasksOf(S \cap EarlierThan(w))) # {}} \subseteq S
      BY <2>1
    <3> HIDE DEF F
    <3> QED
      BY <3>1, <3>2, ClosedWithSkips
  <2> QED
    BY <2>1
<1>2. l \notin next
  BY DEF WavesInOrder, SchedTypeOK
<1> QED
  BY <1>1, <1>2

(* ... and what is doomed in later waves stays so.                         *)
LEMMA DoomedLater ==
  ASSUME SchedTypeOK, WavesInOrder, current \in DOMAIN waves,
         NEW w \in DOMAIN waves, w > current, NEW l \in waves[w],
         l \in Doomed(current, failed)
  PROVE  l \in Doomed(current + 1, Barred(SkipsOf(current)))
<1> DEFINE next == UNION {waves[v] : v \in {u \in DOMAIN waves : u >= current + 1}}
           F    == Barred(SkipsOf(current))
<1>0. current \in Nat /\ w \in Nat
  BY DEF SchedTypeOK
<1>1. l \in next /\ l \notin SkipsOf(current)
  BY <1>0 DEF WavesInOrder, SkipsOf
<1>2. failed \cup TasksOf(SkipsOf(current)) \subseteq F
  BY DEF Barred
<1>3. ASSUME NEW S \in SUBSET next,
             \A v \in DOMAIN waves : v >= current + 1 =>
               {x \in waves[v] :
                  TasksOf(Needs(x)) \cap (F \cup TasksOf(S \cap EarlierThan(v))) # {}} \subseteq S
      PROVE  l \in S
  <2> HIDE DEF F
  <2>1. l \in S \cup SkipsOf(current)
    BY <1>2, <1>3, ClosedWithSkips
  <2> QED
    BY <1>1, <2>1
<1> QED
  BY <1>1, <1>3 DEF Doomed

(* More failures doom no fewer subtasks.                                   *)
LEMMA DoomedMore ==
  ASSUME NEW from, NEW F, NEW G, F \subseteq G
  PROVE  Doomed(from, F) \subseteq Doomed(from, G)
BY DEF Doomed

LEMMA DoomedFixed ==
  ASSUME plan' = plan, waves' = waves
  PROVE  Doomed(Upcoming, failed)' = Doomed(Upcoming', failed')
BY DEF Doomed, TasksOf, Needs, EarlierThan

(* Distinct goals: a subtask and its task are one thing.                   *)
LEMMA MarkedSubtask ==
  ASSUME SchedTypeOK, DistinctGoals, NEW S \in SUBSET plan.subs, Mark(S),
         NEW l \in plan.subs
  PROVE  /\ l \in S => taskState'[plan.task[l]] = "skipped"
         /\ l \notin S => taskState'[plan.task[l]] = taskState[plan.task[l]]
<1>1. plan.task[l] \in Tasks
  BY DEF SchedTypeOK, IsPlan
<1>2. plan.task[l] \in TasksOf(S) <=> l \in S
  BY DEF TasksOf, DistinctGoals
<1> QED
  BY <1>1, <1>2 DEF Mark

(* Marking subtasks of waves that have not been dispatched.                *)
LEMMA MarkElsewhere ==
  ASSUME SchedTypeOK, WavesInOrder, DistinctGoals, DispatchedBefore,
         NEW S \in SUBSET plan.subs, Mark(S),
         \A l \in S, w \in DOMAIN waves :
           l \in waves[w] => w > current \/ (pc = "between" /\ w = current)
  PROVE  \A r \in dispatched : taskState'[r[2]] = taskState[r[2]]
<1> SUFFICES ASSUME NEW r \in dispatched PROVE taskState'[r[2]] = taskState[r[2]]
  OBVIOUS
<1>1. PICK w \in DOMAIN waves :
        r[1] \in waves[w] /\ w <= current /\ (pc = "between" => w < current)
  BY DEF DispatchedBefore
<1>2. r[1] \in plan.subs /\ r[2] = plan.task[r[1]]
  BY <1>1, LaterType DEF DispatchedBefore
<1>3. w \in Nat /\ current \in Nat
  BY DEF SchedTypeOK
<1>4. r[1] \notin S
  BY <1>1, <1>3
<1> QED
  BY <1>2, <1>4, MarkedSubtask

LEMMA MarkAhead ==
  ASSUME SchedTypeOK, WavesInOrder, DistinctGoals, DispatchedUnmarked,
         DispatchedBefore,
         NEW S \in SUBSET plan.subs, Mark(S),
         \A l \in S, w \in DOMAIN waves :
           l \in waves[w] => w > current \/ (pc = "between" /\ w = current)
  PROVE  \A r \in dispatched : taskState'[r[2]] # "skipped"
BY MarkElsewhere DEF DispatchedUnmarked

-----------------------------------------------------------------------------
(* SkipInv is preserved: first the steps that mark or dispatch.            *)
LEMMA SkipWaveKeeps ==
  ASSUME SchedTypeOK, WavesInOrder, DistinctGoals, SkipInv, SkipWave
  PROVE  SkipInv'
<1>1. /\ pc = "between" /\ pc' = "between" /\ current' = current + 1
      /\ current \in DOMAIN waves /\ current \in Nat
      /\ SkipsOf(current) = waves[current] /\ Mark(waves[current])
      /\ failed' = Barred(SkipsOf(current))
      /\ plan' = plan /\ waves' = waves /\ dispatched' = dispatched
  BY DEF SkipWave, SchedTypeOK, planVars, rowVars
<1>2. waves[current] \in SUBSET plan.subs
  BY <1>1, LaterType
<1>3. DispatchedUnmarked'
  <2>1. \A l \in waves[current], w \in DOMAIN waves : l \in waves[w] => w = current
    BY <1>1 DEF WavesInOrder
  <2>2. \A r \in dispatched : taskState'[r[2]] # "skipped"
    BY <1>1, <1>2, <2>1, MarkAhead DEF SkipInv
  <2> QED
    BY <1>1, <2>2 DEF DispatchedUnmarked
<1>4. DispatchedBefore'
  <2>1. \A w \in DOMAIN waves : w \in Nat
    BY DEF SchedTypeOK
  <2> QED
    BY <1>1, <2>1 DEF DispatchedBefore, SkipInv
<1>5. MarkedIsDoomed'
  <2>1. ASSUME NEW w \in DOMAIN waves, NEW l \in waves[w], w >= current + 1,
               taskState'[plan.task[l]] = "skipped"
        PROVE  l \in Doomed(current + 1, Barred(SkipsOf(current)))
    <3>1. w \in Nat /\ w > current /\ l \in plan.subs
      BY <1>1, <2>1, LaterType DEF SchedTypeOK
    <3>2. l \notin waves[current]
      BY <1>1, <3>1 DEF WavesInOrder
    <3>3. taskState[plan.task[l]] = "skipped"
      <4> DEFINE S == waves[current]
      <4>1. S \in SUBSET plan.subs /\ Mark(S) /\ l \notin S
        BY <1>1, <1>2, <3>2
      <4> HIDE DEF S
      <4> QED
        BY <2>1, <3>1, <4>1, MarkedSubtask
    <3>4. l \in Doomed(current, failed)
      BY <1>1, <3>1, <3>3 DEF SkipInv, MarkedIsDoomed, Upcoming
    <3> QED
      BY <1>1, <3>1, <3>4, DoomedLater
  <2>2. Doomed(Upcoming, failed)' = Doomed(current + 1, Barred(SkipsOf(current)))
        /\ Upcoming' = current + 1
    BY <1>1, DoomedFixed DEF Upcoming
  <2> QED
    BY <1>1, <2>1, <2>2 DEF MarkedIsDoomed
<1>6. NothingYet'
  BY <1>1 DEF NothingYet
<1> QED
  BY <1>3, <1>4, <1>5, <1>6 DEF SkipInv

LEMMA StartWaveKeeps ==
  ASSUME SchedTypeOK, WavesInOrder, DistinctGoals, SkipInv, StartWave
  PROVE  SkipInv'
<1> DEFINE skips == SkipsOf(current)
           sent  == waves[current] \ skips
<1>1. /\ pc = "between" /\ pc' = "waiting" /\ current' = current
      /\ current \in DOMAIN waves /\ current \in Nat
      /\ Mark(skips) /\ failed' = Barred(skips)
      /\ plan' = plan /\ waves' = waves
  BY DEF StartWave, SchedTypeOK, planVars
<1>2. PICK lost \in SUBSET sent :
        dispatched' = dispatched \cup {<<l, plan.task[l]>> : l \in sent \ lost}
  BY DEF StartWave
<1>3. /\ waves[current] \in SUBSET plan.subs /\ skips \in SUBSET plan.subs
      /\ skips \subseteq waves[current]
  BY <1>1, LaterType DEF SkipsOf
<1>4. \A l \in waves[current], w \in DOMAIN waves : l \in waves[w] => w = current
  BY <1>1 DEF WavesInOrder
<1>5. ASSUME NEW w \in DOMAIN waves, w >= current, NEW l \in waves[w], l \notin skips,
             taskState'[plan.task[l]] = "skipped"
      PROVE  l \in Doomed(current, failed)
  <2>1. w \in Nat /\ l \in plan.subs
    BY LaterType DEF SchedTypeOK
  <2>2. taskState[plan.task[l]] = "skipped"
    <3> HIDE DEF skips
    <3> QED
      BY <1>1, <1>3, <1>5, <2>1, MarkedSubtask
  <2> QED
    BY <1>1, <1>5, <2>2 DEF SkipInv, MarkedIsDoomed, Upcoming
<1>6. DispatchedUnmarked'
  <2>1. \A r \in dispatched : taskState'[r[2]] # "skipped"
    <3> HIDE DEF skips
    <3> QED
      BY <1>1, <1>3, <1>4, MarkAhead DEF SkipInv
  <2>2. \A l \in sent : taskState'[plan.task[l]] # "skipped"
    BY <1>1, <1>5, DoomedIsHindered
  <2> HIDE DEF sent
  <2> QED
    BY <1>2, <2>1, <2>2 DEF DispatchedUnmarked
<1>7. DispatchedBefore'
  <2>1. \A r \in dispatched' \ dispatched :
          r[2] = plan.task[r[1]] /\ r[1] \in waves[current]
    BY <1>2
  <2>2. \A r \in dispatched :
          /\ r[2] = plan.task[r[1]]
          /\ \E w \in DOMAIN waves : r[1] \in waves[w] /\ w <= current
    BY DEF SkipInv, DispatchedBefore
  <2> QED
    BY <1>1, <2>1, <2>2 DEF DispatchedBefore
<1>8. MarkedIsDoomed'
  <2>1. ASSUME NEW w \in DOMAIN waves, NEW l \in waves[w], w >= current + 1,
               taskState'[plan.task[l]] = "skipped"
        PROVE  l \in Doomed(current + 1, Barred(SkipsOf(current)))
    <3>1. w \in Nat /\ w > current
      BY <1>1, <2>1 DEF SchedTypeOK
    <3>2. l \notin skips
      BY <1>1, <1>3, <1>4, <3>1
    <3>3. l \in Doomed(current, failed)
      BY <1>1, <1>5, <2>1, <3>1, <3>2
    <3> QED
      BY <1>1, <3>1, <3>3, DoomedLater
  <2>2. Doomed(Upcoming, failed)' = Doomed(current + 1, Barred(SkipsOf(current)))
        /\ Upcoming' = current + 1
    BY <1>1, DoomedFixed DEF Upcoming
  <2> QED
    BY <1>1, <2>1, <2>2 DEF MarkedIsDoomed
<1>9. NothingYet'
  BY <1>1 DEF NothingYet
<1> QED
  BY <1>6, <1>7, <1>8, <1>9 DEF SkipInv

LEMMA EndWaveKeeps ==
  ASSUME SchedTypeOK, WavesInOrder, DistinctGoals, SkipInv, EndWave
  PROVE  SkipInv'
<1> DEFINE D == Doomed(current + 1, failed')
<1>1. /\ pc = "waiting" /\ pc' = "between" /\ current' = current + 1
      /\ current \in Nat /\ failed \subseteq failed'
      /\ plan' = plan /\ waves' = waves /\ dispatched' = dispatched
  BY DEF EndWave, SchedTypeOK, planVars, rowVars
<1>2. PICK missed \in SUBSET D : Mark(D \ missed)
  BY DEF EndWave
<1>3. \A l \in D : \E w \in DOMAIN waves : w >= current + 1 /\ l \in waves[w]
  BY DEF Doomed
<1>4. D \ missed \in SUBSET plan.subs
  BY LaterType
<1>5. DispatchedUnmarked'
  <2>1. \A l \in D, w \in DOMAIN waves : l \in waves[w] => w > current
    <3>1. DOMAIN waves \subseteq Nat
      BY DEF SchedTypeOK
    <3> HIDE DEF D
    <3> QED
      BY <1>1, <1>3, <3>1 DEF WavesInOrder
  <2>2. \A r \in dispatched : taskState'[r[2]] # "skipped"
    <3> DEFINE S == D \ missed
    <3>1. S \in SUBSET plan.subs /\ Mark(S)
      BY <1>2, <1>4
    <3>2. \A l \in S, w \in DOMAIN waves : l \in waves[w] => w > current
      BY <2>1
    <3> HIDE DEF S, D
    <3> QED
      BY <3>1, <3>2, MarkAhead DEF SkipInv
  <2> QED
    BY <1>1, <2>2 DEF DispatchedUnmarked
<1>6. DispatchedBefore'
  <2>1. DOMAIN waves \subseteq Nat
    BY DEF SchedTypeOK
  <2> QED
    BY <1>1, <2>1 DEF DispatchedBefore, SkipInv
<1>7. MarkedIsDoomed'
  <2>1. ASSUME NEW w \in DOMAIN waves, NEW l \in waves[w], w >= current + 1,
               taskState'[plan.task[l]] = "skipped"
        PROVE  l \in D
    <3>1. CASE l \in D \ missed
      BY <3>1
    <3>2. CASE l \notin D \ missed
      <4>1. l \in plan.subs
        BY LaterType
      <4>2. taskState[plan.task[l]] = "skipped"
        <5> DEFINE S == D \ missed
        <5>1. S \in SUBSET plan.subs /\ Mark(S) /\ l \notin S
          BY <1>2, <1>4, <3>2
        <5> HIDE DEF S, D
        <5> QED
          BY <2>1, <4>1, <5>1, MarkedSubtask
      <4>3. l \in Doomed(current + 1, failed)
        BY <1>1, <2>1, <4>2 DEF SkipInv, MarkedIsDoomed, Upcoming
      <4> QED
        BY <1>1, <4>3, DoomedMore
    <3> QED
      BY <3>1, <3>2
  <2>2. Doomed(Upcoming, failed)' = D /\ Upcoming' = current + 1
    BY <1>1, DoomedFixed DEF Upcoming
  <2> HIDE DEF D
  <2> QED
    BY <1>1, <2>1, <2>2 DEF MarkedIsDoomed
<1>8. NothingYet'
  BY <1>1 DEF NothingYet
<1> QED
  BY <1>5, <1>6, <1>7, <1>8 DEF SkipInv

LEMMA SkipFailsKeeps ==
  ASSUME SchedTypeOK, WavesInOrder, DistinctGoals, SkipInv, SkipFails
  PROVE  SkipInv'
<1>1. /\ pc = "between" /\ pc' = "error" /\ current' = current
      /\ current \in DOMAIN waves
      /\ plan' = plan /\ waves' = waves /\ dispatched' = dispatched
  BY DEF SkipFails, SchedTypeOK, planVars, rowVars
<1>2. PICK S \in SUBSET SkipsOf(current) : Mark(S)
  BY DEF SkipFails
<1>3. S \in SUBSET plan.subs /\ S \subseteq waves[current]
  BY <1>1, LaterType DEF SkipsOf
<1>4. \A l \in S, w \in DOMAIN waves : l \in waves[w] => w = current
  BY <1>1, <1>3 DEF WavesInOrder
<1>5. \A r \in dispatched : taskState'[r[2]] # "skipped"
  BY <1>1, <1>2, <1>3, <1>4, MarkAhead DEF SkipInv
<1> QED
  BY <1>1, <1>5 DEF SkipInv, MarkedIsDoomed, DispatchedBefore, NothingYet,
    DispatchedUnmarked

(* The other steps mark nothing and dispatch nothing.                      *)
LEMMA OthersKeep ==
  ASSUME SchedTypeOK, SkipInv, [Next]_schedVars,
         ~SkipWave, ~StartWave, ~EndWave, ~SkipFails
  PROVE  SkipInv'
<1>1. /\ plan' = plan /\ dispatched' = dispatched /\ current' = current
      /\ failed' = failed
  BY DEF Next, Agent, Environment, schedVars, planVars, memoVars, waveVars,
    timeVars, rowVars, bounds, agentVars, PlaceWave, RejectCycle, CreateTasks,
    CreateFails, Collect, Return, CollectFails, Tick, Execute, Reply, Ack, OldReply
<1>2. CASE PlaceWave
  <2>1. pc = "planning" /\ pc' = pc /\ taskState' = taskState
    BY <1>2 DEF PlaceWave, agentVars
  <2> QED
    BY <1>1, <2>1 DEF SkipInv, MarkedIsDoomed, DispatchedBefore, NothingYet,
      DispatchedUnmarked
<1>3. CASE CreateTasks \/ CreateFails
  <2>1. /\ pc = "planning" /\ pc' # "planning" /\ waves' = waves
        /\ \E S \in SUBSET plan.tasks : Create(S)
    BY <1>3 DEF CreateTasks, CreateFails, planVars
  <2>2. dispatched = {} /\ \A t \in Tasks : taskState'[t] # "skipped"
    BY <2>1 DEF SkipInv, NothingYet, Create
  <2>3. \A w \in DOMAIN waves : \A l \in waves[w] : plan.task[l] \in Tasks
    BY LaterType DEF SchedTypeOK, IsPlan
  <2> QED
    BY <1>1, <2>1, <2>2, <2>3 DEF SkipInv, MarkedIsDoomed, DispatchedBefore,
      NothingYet, DispatchedUnmarked
<1>4. CASE ~PlaceWave /\ ~CreateTasks /\ ~CreateFails
  <2>1. /\ waves' = waves
        /\ pc' = pc \/ pc' \in {"rejected", "done", "error"}
        /\ \/ taskState' = taskState
           \/ \E t \in Tasks : \E s \in {"success", "failed"} :
                /\ dispatched # {}
                /\ taskState' = [taskState EXCEPT ![t] = s]
    BY <1>4 DEF Next, Agent, Environment, schedVars, planVars, memoVars, waveVars,
      timeVars, rowVars, bounds, agentVars, RejectCycle, Collect, Return,
      CollectFails, Tick, Execute, Reply, Ack, OldReply, Delivered
  <2>2. \A t \in Tasks : taskState'[t] = "skipped" => taskState[t] = "skipped"
    BY <2>1 DEF SchedTypeOK
  <2>3. /\ \A r \in dispatched : r[2] \in Tasks
        /\ \A w \in DOMAIN waves : \A l \in waves[w] : plan.task[l] \in Tasks
    <3>1. \A l \in plan.subs : plan.task[l] \in Tasks
      BY DEF SchedTypeOK, IsPlan
    <3> QED
      BY <3>1, LaterType DEF SchedTypeOK, Rows
  <2>4. Doomed(Upcoming, failed)' = Doomed(Upcoming', failed)
    BY <1>1, <2>1, DoomedFixed
  <2>5. DispatchedUnmarked' /\ NothingYet'
    BY <1>1, <2>1, <2>2, <2>3 DEF SkipInv, NothingYet, DispatchedUnmarked
  <2>6. CASE pc' = pc
    <3>1. Upcoming' = Upcoming
      BY <1>1, <2>6 DEF Upcoming
    <3> QED
      BY <1>1, <2>1, <2>2, <2>4, <2>5, <2>6, <2>3, <3>1
        DEF SkipInv, MarkedIsDoomed, DispatchedBefore
  <2>7. CASE pc' \in {"rejected", "done", "error"}
    BY <1>1, <2>1, <2>5, <2>7 DEF SkipInv, MarkedIsDoomed, DispatchedBefore
  <2> QED
    BY <2>1, <2>6, <2>7
<1> QED
  BY <1>2, <1>3, <1>4

LEMMA SkipInvariant == Spec => [](DistinctGoals => SkipInv)
<1> DEFINE Inv == DistinctGoals => SkipInv
<1>1. Init => Inv
  BY DEF Init, SkipInv, MarkedIsDoomed, DispatchedBefore, NothingYet, DispatchedUnmarked
<1>2. SchedTypeOK /\ WavesInOrder /\ Inv /\ [Next]_schedVars => Inv'
  <2> SUFFICES ASSUME SchedTypeOK, WavesInOrder, Inv, [Next]_schedVars, DistinctGoals'
               PROVE  SkipInv'
    OBVIOUS
  <2>1. DistinctGoals /\ SkipInv
    BY WavesFixed DEF DistinctGoals
  <2> QED
    BY <2>1, SkipWaveKeeps, StartWaveKeeps, EndWaveKeeps, SkipFailsKeeps, OthersKeep
<1> QED
  BY <1>1, <1>2, SchedTyping, WavesRespectNeeds, PTL DEF Spec

(* A subtask marked as skipped is never dispatched, for any graph, any     *)
(* timeout, any late or foreign replies and any database errors.           *)
THEOREM SkippedStays == Spec => []SkippedIsNotDispatched
<1>1. (DistinctGoals => SkipInv) => SkippedIsNotDispatched
  BY DEF SkippedIsNotDispatched, SkipInv, DispatchedUnmarked
<1> QED
  BY <1>1, SkipInvariant, PTL

-----------------------------------------------------------------------------
(* Induction over the natural numbers, for sets instead of predicates.     *)
LEMMA SmallestNumber ==
  ASSUME NEW S \in SUBSET Nat, S # {}
  PROVE  \E n \in S : \A m \in S : n <= m
<1> DEFINE R == OpToRel(<, Nat)
<1>1. IsWellFoundedOn(R, Nat)
  BY NatLessThanWellFounded DEF OpToRel
<1>2. PICK n \in S : \A m \in S : <<m, n>> \notin R
  <2> HIDE DEF R
  <2> QED
    BY <1>1, WFMin
<1>3. \A m \in S : ~(m < n)
  BY <1>2 DEF OpToRel
<1> QED
  BY <1>3

LEMMA InductiveSet ==
  ASSUME NEW S \in SUBSET Nat, 0 \in S, \A n \in S : n + 1 \in S
  PROVE  S = Nat
<1> DEFINE T == Nat \ S
<1> SUFFICES ASSUME T # {} PROVE FALSE
  OBVIOUS
<1>1. PICK n \in T : \A m \in T : n <= m
  <2>1. T \in SUBSET Nat
    OBVIOUS
  <2> HIDE DEF T
  <2> QED
    BY <2>1, SmallestNumber
<1>2. n # 0 /\ n - 1 \in Nat
  BY <1>1
<1>3. n - 1 \in S
  BY <1>1, <1>2
<1> QED
  BY <1>1, <1>2, <1>3

(* A function of X into itself can be iterated.                            *)
LEMMA Iterated ==
  ASSUME NEW X, NEW a \in X, NEW s \in [X -> X]
  PROVE  \E f \in [Nat -> X] : f[0] = a /\ \A n \in Nat : f[n+1] = s[f[n]]
<1> DEFINE Upto(n, g) == /\ g \in [0..n -> X] /\ g[0] = a
                         /\ \A m \in Nat : m < n => g[m+1] = s[g[m]]
<1>1. \A n \in Nat : \E g : Upto(n, g)
  <2> DEFINE S == {n \in Nat : \E g : Upto(n, g)}
  <2>1. 0 \in S
    <3> DEFINE g == [m \in 0..0 |-> a]
    <3>1. Upto(0, g)
      OBVIOUS
    <3> QED
      BY <3>1
  <2>2. ASSUME NEW n \in S PROVE n + 1 \in S
    <3>1. n \in Nat
      OBVIOUS
    <3>2. PICK g : Upto(n, g)
      OBVIOUS
    <3> DEFINE h == [m \in 0..n+1 |-> IF m <= n THEN g[m] ELSE s[g[n]]]
    <3>3. \A m \in 0..n : g[m] \in X /\ h[m] = g[m]
      BY <3>1, <3>2
    <3>4. h[n+1] = s[g[n]] /\ n \in 0..n
      BY <3>1
    <3>5. h \in [0..n+1 -> X]
      <4>1. s[g[n]] \in X
        BY <3>3, <3>4
      <4>2. ASSUME NEW m \in 0..n+1, m <= n PROVE g[m] \in X
        <5>1. m \in 0..n
          BY <3>1, <4>2
        <5> HIDE DEF h
        <5> QED
          BY <3>3, <5>1
      <4> QED
        BY <4>1, <4>2
    <3>6. \A m \in Nat : m < n + 1 => h[m+1] = s[h[m]]
      <4> TAKE m \in Nat
      <4> HAVE m < n + 1
      <4>1. CASE m = n
        BY <3>3, <3>4, <4>1
      <4>2. CASE m < n
        <5>1. m \in 0..n /\ m + 1 \in 0..n
          BY <3>1, <4>2
        <5> HIDE DEF h
        <5> QED
          BY <3>2, <3>3, <4>2, <5>1
      <4> QED
        BY <3>1, <4>1, <4>2
    <3>7. h[0] = a
      BY <3>1, <3>2, <3>3
    <3>8. Upto(n+1, h)
      BY <3>5, <3>6, <3>7
    <3> HIDE DEF Upto, h
    <3> QED
      BY <3>1, <3>8
  <2>3. S \in SUBSET Nat
    OBVIOUS
  <2> HIDE DEF S
  <2>4. S = Nat
    BY <2>1, <2>2, <2>3, InductiveSet
  <2> QED
    BY <2>4 DEF S
<1>2. ASSUME NEW n \in Nat, NEW k \in Nat, NEW g, NEW h, Upto(n, g), Upto(k, h)
      PROVE  \A m \in Nat : m <= n /\ m <= k => g[m] = h[m]
  <2> DEFINE S == {m \in Nat : m <= n /\ m <= k => g[m] = h[m]}
  <2>1. 0 \in S
    BY <1>2
  <2>2. ASSUME NEW m \in S PROVE m + 1 \in S
    <3>1. m \in Nat
      OBVIOUS
    <3>2. SUFFICES ASSUME m + 1 <= n, m + 1 <= k PROVE g[m+1] = h[m+1]
      BY <3>1
    <3>3. m < n /\ m < k /\ g[m] = h[m]
      BY <3>1, <3>2
    <3> QED
      BY <1>2, <3>1, <3>3
  <2>3. S \in SUBSET Nat
    OBVIOUS
  <2> HIDE DEF S
  <2>4. S = Nat
    BY <2>1, <2>2, <2>3, InductiveSet
  <2> QED
    BY <2>4 DEF S
<1> DEFINE G(n) == CHOOSE g : Upto(n, g)
           f == [n \in Nat |-> G(n)[n]]
<1>3. \A n \in Nat : Upto(n, G(n))
  BY <1>1
<1> HIDE DEF G
<1>4. f \in [Nat -> X]
  BY <1>3
<1>5. f[0] = a
  BY <1>3
<1>6. \A n \in Nat : f[n+1] = s[f[n]]
  <2> TAKE n \in Nat
  <2>1. Upto(n, G(n)) /\ Upto(n+1, G(n+1))
    BY <1>3
  <2>2. G(n)[n] = G(n+1)[n]
    <3> HIDE DEF Upto
    <3> QED
      BY <1>2, <2>1
  <2>3. G(n+1)[n+1] = s[G(n+1)[n]]
    BY <2>1
  <2> QED
    BY <2>2, <2>3
<1> HIDE DEF f
<1> QED
  BY <1>4, <1>5, <1>6

-----------------------------------------------------------------------------
(* Ancestors is what its recursion says, at each depth.                    *)
LEMMA AncestorsIterate ==
  ASSUME NEW l
  PROVE  \E f \in [Nat -> SUBSET plan.subs] :
           /\ f[0] = KnownNeeds(l)
           /\ \A n \in Nat : f[n+1] = f[n] \cup UNION {KnownNeeds(d) : d \in f[n]}
           /\ Ancestors(l) = f[Cardinality(plan.subs)]
<1> DEFINE X     == SUBSET plan.subs
           up(S) == S \cup UNION {KnownNeeds(d) : d \in S}
           s     == [S \in X |-> up(S)]
<1>1. KnownNeeds(l) \in X /\ \A S \in X : up(S) \in X
  BY DEF KnownNeeds, Needs
<1> DEFINE Eq(h) == h = [n \in Nat |-> IF n = 0 THEN KnownNeeds(l)
                                       ELSE LET a == h[n-1] IN up(a)]
<1>2. \E h : Eq(h)
  <2>1. s \in [X -> X]
    BY <1>1
  <2>2. PICK g \in [Nat -> X] : g[0] = KnownNeeds(l) /\ \A n \in Nat : g[n+1] = s[g[n]]
    <3>1. KnownNeeds(l) \in X
      BY <1>1
    <3> HIDE DEF s, X, up
    <3> QED
      BY <2>1, <3>1, Iterated
  <2>3. \A n \in Nat \ {0} : g[n] = up(g[n-1])
    <3> TAKE n \in Nat \ {0}
    <3>1. n - 1 \in Nat /\ (n - 1) + 1 = n
      OBVIOUS
    <3>2. g[n] = s[g[n-1]] /\ g[n-1] \in X
      BY <2>2, <3>1
    <3> QED
      BY <3>2
  <2> HIDE DEF up, X
  <2>4. \A n \in Nat : g[n] = IF n = 0 THEN KnownNeeds(l) ELSE up(g[n-1])
    BY <2>2, <2>3
  <2>5. Eq(g)
    BY <2>2, <2>4
  <2> QED
    BY <2>5
<1> DEFINE f == CHOOSE h : Eq(h)
<1>3. Eq(f)
  BY <1>2
<1>4. Ancestors(l) = f[Cardinality(plan.subs)]
  BY DEF Ancestors
<1> HIDE DEF f, up, X
<1>5. f[0] = KnownNeeds(l) /\ \A n \in Nat : f[n+1] = up(f[n])
  <2>1. \A n \in Nat : f[n+1] = IF n + 1 = 0 THEN KnownNeeds(l) ELSE up(f[(n+1)-1])
    BY <1>3
  <2>2. \A n \in Nat : n + 1 # 0 /\ (n + 1) - 1 = n
    OBVIOUS
  <2>3. f[0] = KnownNeeds(l)
    BY <1>3
  <2> QED
    BY <2>1, <2>2, <2>3
<1>6. \A n \in Nat : f[n] \in X
  <2> DEFINE S == {n \in Nat : f[n] \in X}
  <2>1. 0 \in S /\ \A n \in S : n + 1 \in S
    BY <1>1, <1>5
  <2>2. S \in SUBSET Nat
    OBVIOUS
  <2> HIDE DEF S
  <2>3. S = Nat
    BY <2>1, <2>2, InductiveSet
  <2> QED
    BY <2>3 DEF S
<1>7. f \in [Nat -> X]
  BY <1>3, <1>6
<1> QED
  BY <1>4, <1>5, <1>7 DEF up, X

(* Any set closed under dependencies that has those of l has its ancestors ... *)
LEMMA AncestorsLeast ==
  ASSUME Cardinality(plan.subs) \in Nat,
         NEW l, NEW S, KnownNeeds(l) \subseteq S,
         \A d \in S : KnownNeeds(d) \subseteq S
  PROVE  Ancestors(l) \subseteq S
<1>1. PICK f \in [Nat -> SUBSET plan.subs] :
        /\ f[0] = KnownNeeds(l)
        /\ \A n \in Nat : f[n+1] = f[n] \cup UNION {KnownNeeds(d) : d \in f[n]}
        /\ Ancestors(l) = f[Cardinality(plan.subs)]
  BY AncestorsIterate
<1> DEFINE T == {n \in Nat : f[n] \subseteq S}
<1>2. 0 \in T /\ \A n \in T : n + 1 \in T
  BY <1>1
<1>3. T \in SUBSET Nat
  OBVIOUS
<1>4. T = Nat
  <2> HIDE DEF T
  <2> QED
    BY <1>2, <1>3, InductiveSet
<1> QED
  BY <1>1, <1>4

(* ... and they are closed themselves: the chain of sets grows at most as  *)
(* often as there are subtasks.                                            *)
LEMMA AncestorsClosed ==
  ASSUME IsFiniteSet(plan.subs), NEW l
  PROVE  /\ Ancestors(l) \subseteq plan.subs
         /\ KnownNeeds(l) \subseteq Ancestors(l)
         /\ \A d \in Ancestors(l) : KnownNeeds(d) \subseteq Ancestors(l)
<1> DEFINE N == Cardinality(plan.subs)
<1>1. PICK f \in [Nat -> SUBSET plan.subs] :
        /\ f[0] = KnownNeeds(l)
        /\ \A n \in Nat : f[n+1] = f[n] \cup UNION {KnownNeeds(d) : d \in f[n]}
        /\ Ancestors(l) = f[N]
  BY AncestorsIterate
<1>2. N \in Nat
  BY FS_CardinalityType
<1>3. \A n \in Nat : /\ f[n] \in SUBSET plan.subs /\ IsFiniteSet(f[n])
                     /\ Cardinality(f[n]) \in Nat /\ Cardinality(f[n]) <= N
  BY <1>1, FS_Subset, FS_CardinalityType
<1>4. \A n \in Nat : f[n] \subseteq f[n+1]
  BY <1>1
<1>5. \A n \in Nat : KnownNeeds(l) \subseteq f[n]
  <2> DEFINE T == {n \in Nat : KnownNeeds(l) \subseteq f[n]}
  <2>1. 0 \in T /\ (\A n \in T : n + 1 \in T) /\ T \in SUBSET Nat
    BY <1>1, <1>4
  <2> HIDE DEF T
  <2>2. T = Nat
    BY <2>1, InductiveSet
  <2> QED
    BY <2>2 DEF T
<1>6. \A n \in Nat : f[n+1] = f[n] \/ Cardinality(f[n]) >= n
  <2> DEFINE T == {n \in Nat : f[n+1] = f[n] \/ Cardinality(f[n]) >= n}
  <2>1. 0 \in T
    BY <1>3
  <2>2. ASSUME NEW n \in T PROVE n + 1 \in T
    <3>1. n \in Nat
      OBVIOUS
    <3>2. CASE f[n+1] = f[n]
      <4>1. /\ n + 1 \in Nat
            /\ f[n+1] = f[n] \cup UNION {KnownNeeds(d) : d \in f[n]}
            /\ f[(n+1)+1] = f[n+1] \cup UNION {KnownNeeds(d) : d \in f[n+1]}
        BY <1>1, <3>1
      <4>2. f[(n+1)+1] = f[n+1]
        BY <3>2, <4>1
      <4> QED
        BY <4>1, <4>2
    <3>3. CASE f[n+1] # f[n] /\ Cardinality(f[n]) >= n
      <4>1. Cardinality(f[n]) < Cardinality(f[n+1])
        <5>1. f[n] \in SUBSET f[n+1] /\ IsFiniteSet(f[n+1])
          BY <1>3, <1>4, <3>1
        <5>2. /\ Cardinality(f[n]) <= Cardinality(f[n+1])
              /\ Cardinality(f[n]) # Cardinality(f[n+1])
          BY <3>3, <5>1, FS_Subset
        <5> QED
          BY <1>3, <3>1, <5>2
      <4>2. /\ n + 1 \in Nat /\ Cardinality(f[n]) \in Nat
            /\ Cardinality(f[n+1]) \in Nat
        BY <1>3, <3>1
      <4>3. Cardinality(f[n+1]) >= n + 1
        BY <3>1, <3>3, <4>1, <4>2
      <4> QED
        BY <4>2, <4>3
    <3>4. f[n+1] = f[n] \/ Cardinality(f[n]) >= n
      OBVIOUS
    <3> QED
      BY <3>2, <3>3, <3>4
  <2>3. T \in SUBSET Nat
    OBVIOUS
  <2> HIDE DEF T
  <2>4. T = Nat
    BY <2>1, <2>2, <2>3, InductiveSet
  <2> QED
    BY <2>4 DEF T
<1>7. f[N+1] = f[N]
  <2> HIDE DEF N
  <2>1. CASE Cardinality(f[N]) >= N
    <3>1. Cardinality(f[N]) = N
      BY <1>2, <1>3, <2>1
    <3>2. f[N] = plan.subs
      <4>1. f[N] \in SUBSET plan.subs
        BY <1>2, <1>3
      <4> QED
        BY <3>1, <4>1, FS_Subset DEF N
    <3>3. N + 1 \in Nat
      BY <1>2
    <3> QED
      BY <1>2, <1>3, <1>4, <3>2, <3>3
  <2> QED
    BY <1>2, <1>6, <2>1
<1> QED
  BY <1>1, <1>2, <1>3, <1>5, <1>7

LEMMA SubtasksFinite ==
  ASSUME SchedTypeOK
  PROVE  IsFiniteSet(plan.subs) /\ Cardinality(plan.subs) \in Nat
<1>1. plan.subs \subseteq Ids
  BY DEF SchedTypeOK, IsPlan
<1> QED
  BY <1>1, PlansAssumption, FS_Subset, FS_CardinalityType

(* Ancestors are in earlier waves ...                                      *)
LEMMA AncestorsEarlier ==
  ASSUME SchedTypeOK, WavesInOrder, NEW w \in DOMAIN waves, NEW l \in waves[w]
  PROVE  Ancestors(l) \subseteq UNION {waves[v] : v \in 1..w-1}
<1> DEFINE S == UNION {waves[v] : v \in 1..w-1}
<1>1. DOMAIN waves = 1..Len(waves) /\ Len(waves) \in Nat
  BY DEF SchedTypeOK
<1>2. KnownNeeds(l) \subseteq S
  BY DEF WavesInOrder
<1>3. ASSUME NEW d \in S PROVE KnownNeeds(d) \subseteq S
  <2>1. PICK v \in 1..w-1 : d \in waves[v]
    OBVIOUS
  <2>2. v \in DOMAIN waves /\ 1..v-1 \subseteq 1..w-1
    BY <1>1, <2>1
  <2>3. \A e \in KnownNeeds(d) : \E u \in 1..v-1 : e \in waves[u]
    BY <2>1, <2>2 DEF WavesInOrder
  <2> QED
    BY <2>2, <2>3
<1> HIDE DEF S
<1>4. Ancestors(l) \subseteq S
  BY <1>2, <1>3, SubtasksFinite, AncestorsLeast
<1> QED
  BY <1>4 DEF S

(* ... and where everything needs something that is left, there is a cycle: *)
(* take what has the fewest ancestors.                                     *)
LEMMA CycleInside ==
  ASSUME SchedTypeOK, NEW U \in SUBSET plan.subs, U # {},
         \A l \in U : KnownNeeds(l) \cap U # {}
  PROVE  \E l \in U : l \in Ancestors(l)
<1> DEFINE S == {Cardinality(Ancestors(l)) : l \in U}
<1>1. \A l \in U : /\ IsFiniteSet(Ancestors(l))
                   /\ Cardinality(Ancestors(l)) \in Nat
  BY SubtasksFinite, AncestorsClosed, FS_Subset, FS_CardinalityType
<1>2. PICK l \in U : \A k \in U : Cardinality(Ancestors(l)) <= Cardinality(Ancestors(k))
  <2>1. S \in SUBSET Nat /\ S # {}
    BY <1>1
  <2>2. PICK n \in S : \A m \in S : n <= m
    <3> HIDE DEF S
    <3> QED
      BY <2>1, SmallestNumber
  <2> QED
    BY <2>2
<1>3. PICK d \in U : d \in KnownNeeds(l)
  OBVIOUS
<1>4. /\ d \in Ancestors(l) /\ KnownNeeds(d) \subseteq Ancestors(l)
      /\ \A e \in Ancestors(l) : KnownNeeds(e) \subseteq Ancestors(l)
  BY <1>3, SubtasksFinite, AncestorsClosed
<1>5. Ancestors(d) \subseteq Ancestors(l)
  BY <1>4, SubtasksFinite, AncestorsLeast
<1>6. CASE d \notin Ancestors(d)
  <2>1. Ancestors(d) # Ancestors(l)
    BY <1>4, <1>6
  <2>2. /\ Cardinality(Ancestors(d)) <= Cardinality(Ancestors(l))
        /\ Cardinality(Ancestors(d)) # Cardinality(Ancestors(l))
    BY <1>1, <1>5, <2>1, FS_Subset
  <2> QED
    BY <1>1, <1>2, <2>2
<1> QED
  BY <1>6

-----------------------------------------------------------------------------
(* The waves are the depths of the graph.  While they are built, whatever  *)
(* is not placed yet needs something of the last wave or of none.          *)
DepthInv ==
  /\ \A w \in DOMAIN waves : \A l \in waves[w] :
       w > 1 => KnownNeeds(l) \cap waves[w-1] # {}
  /\ pc = "planning" /\ Len(waves) > 0 =>
       \A l \in plan.subs \ Placed :
         \E d \in KnownNeeds(l) : \A w \in 1..Len(waves)-1 : d \notin waves[w]
  /\ pc \notin {"planning", "rejected"} => Placed = plan.subs
  /\ pc = "rejected" => Ready = {} /\ plan.subs \ Placed # {}

LEMMA DepthInvInit == Init => DepthInv
BY DEF Init, DepthInv

LEMMA DepthInvStep ==
  ASSUME SchedTypeOK, DepthInv, [Next]_schedVars
  PROVE  DepthInv'
<1>1. plan' = plan /\ (PlaceWave \/ waves' = waves)
  BY WavesFixed
<1>2. \A l : KnownNeeds(l)' = KnownNeeds(l)
  BY <1>1 DEF KnownNeeds, Needs
<1>3. DOMAIN waves = 1..Len(waves) /\ Len(waves) \in Nat
  BY DEF SchedTypeOK
<1>4. CASE PlaceWave
  <2>1. /\ pc = "planning" /\ pc' = "planning"
        /\ DOMAIN waves' = 1..Len(waves)+1 /\ Len(waves') = Len(waves) + 1
        /\ \A w \in DOMAIN waves : waves'[w] = waves[w]
        /\ waves'[Len(waves)+1] = Ready
    BY <1>3, <1>4 DEF PlaceWave, SchedTypeOK, agentVars
  <2>2. ASSUME NEW w \in DOMAIN waves', NEW l \in waves'[w], w > 1
        PROVE  KnownNeeds(l) \cap waves'[w-1] # {}
    <3>1. CASE w \in DOMAIN waves
      <4>1. w - 1 \in DOMAIN waves
        BY <1>3, <2>2, <3>1
      <4> QED
        BY <2>1, <2>2, <3>1, <4>1 DEF DepthInv
    <3>2. CASE w = Len(waves) + 1
      <4>1. w - 1 = Len(waves) /\ Len(waves) \in DOMAIN waves /\ Len(waves) > 0
        BY <1>3, <2>2, <3>2
      <4>2. l \in plan.subs \ Placed /\ KnownNeeds(l) \subseteq Placed
        BY <2>1, <2>2, <3>2 DEF Ready
      <4>3. PICK d \in KnownNeeds(l) : \A v \in 1..Len(waves)-1 : d \notin waves[v]
        BY <2>1, <4>1, <4>2 DEF DepthInv
      <4>4. PICK v \in DOMAIN waves : d \in waves[v]
        BY <4>2 DEF Placed
      <4>5. v = Len(waves)
        BY <1>3, <4>3, <4>4
      <4> QED
        BY <2>1, <4>1, <4>4, <4>5
    <3> QED
      BY <1>3, <2>1, <2>2, <3>1, <3>2
  <2>3. Placed' = Placed \cup Ready
    BY <1>3, <2>1 DEF Placed
  <2>4. ASSUME NEW l \in plan.subs \ Placed'
        PROVE  \E d \in KnownNeeds(l) : \A w \in 1..Len(waves')-1 : d \notin waves'[w]
    <3>1. PICK d \in KnownNeeds(l) : d \notin Placed
      BY <2>3, <2>4 DEF Ready
    <3>2. \A w \in 1..Len(waves) : d \notin waves'[w]
      BY <1>3, <2>1, <3>1 DEF Placed
    <3> QED
      BY <1>3, <2>1, <3>2
  <2> QED
    BY <1>1, <1>2, <2>1, <2>2, <2>4 DEF DepthInv
<1>5. CASE waves' = waves
  <2>1. Placed' = Placed /\ Ready' = Ready
    BY <1>1, <1>2, <1>5 DEF Placed, Ready
  <2>2. \/ pc' = pc
        \/ {pc, pc'} \cap {"planning", "rejected"} = {}
        \/ pc' = "rejected" /\ Ready = {} /\ plan.subs \ Placed # {}
        \/ pc' \notin {"planning", "rejected"} /\ Placed = plan.subs
    BY DEF Next, Agent, Environment, schedVars, agentVars, PlaceWave, RejectCycle,
      CreateTasks, CreateFails, SkipWave, StartWave, Collect, EndWave, Return,
      SkipFails, CollectFails, Tick, Execute, Reply, Ack, OldReply
  <2> QED
    BY <1>1, <1>2, <1>5, <2>1, <2>2 DEF DepthInv
<1> QED
  BY <1>1, <1>4, <1>5

LEMMA DepthInvariant == Spec => []DepthInv
BY DepthInvInit, DepthInvStep, SchedTyping, PTL DEF Spec

(* Every subtask is in one wave, as early as what it needs allows, and a   *)
(* graph is rejected exactly if it has a cycle, for any graph.             *)
THEOREM DepthsOfGraph == Spec => []WavesAreDepths
<1>1. SchedTypeOK /\ WavesInOrder /\ DepthInv => WavesAreDepths
  <2> SUFFICES ASSUME SchedTypeOK, WavesInOrder, DepthInv PROVE WavesAreDepths
    OBVIOUS
  <2>1. ASSUME pc = "rejected" PROVE \E l \in plan.subs : l \in Ancestors(l)
    <3> DEFINE U == plan.subs \ Placed
    <3>1. U # {} /\ Ready = {}
      BY <2>1 DEF DepthInv
    <3>2. \A l \in U : KnownNeeds(l) \cap U # {}
      BY <3>1 DEF Ready, KnownNeeds, Needs
    <3>3. U \in SUBSET plan.subs
      OBVIOUS
    <3> HIDE DEF U
    <3>4. \E l \in U : l \in Ancestors(l)
      BY <3>1, <3>2, <3>3, CycleInside
    <3> QED
      BY <3>3, <3>4
  <2>2. ASSUME pc \notin {"planning", "rejected"}, NEW l \in plan.subs
        PROVE  l \notin Ancestors(l)
    <3>1. PICK w \in DOMAIN waves : l \in waves[w]
      BY <2>2 DEF DepthInv, Placed
    <3>2. DOMAIN waves = 1..Len(waves) /\ Len(waves) \in Nat
      BY DEF SchedTypeOK
    <3>3. ASSUME l \in Ancestors(l) PROVE FALSE
      <4>1. PICK v \in 1..w-1 : l \in waves[v]
        BY <3>1, <3>3, AncestorsEarlier
      <4>2. v \in DOMAIN waves /\ v # w
        BY <3>2, <4>1
      <4> QED
        BY <3>1, <4>1, <4>2 DEF WavesInOrder
    <3> QED
      BY <3>3
  <2> QED
    BY <2>1, <2>2 DEF DepthInv, WavesAreDepths
<1> QED
  BY <1>1, DepthInvariant, SchedTyping, WavesRespectNeeds, PTL

-----------------------------------------------------------------------------
(* Results are passed on.  While the run is on time, every reply in the    *)
(* table is one to a task of this run, the replies that a wave waits for   *)
(* are those of what it sent, and a wave that is over has an outcome for   *)
(* each of its tasks.                                                      *)
LogOfRun ==
  /\ \A i \in 1..Len(log) :
       /\ log[i].task \in Tasks /\ answered[log[i].task] # 0
       /\ \E r \in dispatched : r[2] = log[i].task
  /\ \A i, j \in 1..Len(log) : log[i].task = log[j].task => i = j

Outcomes == collected \cup failed

Settled ==
  \A v \in DOMAIN waves : v < current => TasksOf(waves[v]) \subseteq Outcomes

AllAnswered ==
  offset = Len(log) /\ \A r \in dispatched : answered[r[2]] # 0

\* The wave has sent the subtasks of S and waits for their replies only.
Underway(S) ==
  /\ Cardinality(S) = expected
  /\ TasksOf(waves[current] \ S) \subseteq failed
  /\ \A i \in base+1..Len(log) : log[i].task \in TasksOf(S)
  /\ \A r \in dispatched : answered[r[2]] = 0 => r[2] \in TasksOf(S)

NothingSent == current = 1 /\ log = <<>> /\ offset = 0 /\ dispatched = {}

WaveUnderway ==
  /\ current \in DOMAIN waves /\ base <= offset /\ offset <= base + expected
  /\ left < waveLeft + Second
  /\ \E S \in SUBSET waves[current] : Underway(S)

Informed == \A r \in dispatched : KnownNeeds(r[1]) \subseteq upstream[r[1]]

OnTime ==
  /\ pc = "planning" => NothingSent
  /\ pc \in {"between", "waiting", "done"} => Settled
  /\ pc = "between" => AllAnswered
  /\ pc = "waiting" => WaveUnderway
  /\ pc = "done" => current > Len(waves)
  /\ Informed

OnTimeInv == oldReplies = 0 => LogOfRun /\ (left >= Second => OnTime)

(* A wave that is complete has the replies of all it sent, and no other is *)
(* to come: there are as many as tasks it sent, and no two of one task.    *)
LEMMA CompleteWave ==
  ASSUME SchedTypeOK, LogOfRun, current \in DOMAIN waves, Complete,
         offset <= base + expected,
         NEW S \in SUBSET waves[current], Underway(S)
  PROVE  /\ offset = Len(log)
         /\ TasksOf(S) = {log[i].task : i \in base+1..offset}
<1> DEFINE I == base+1..Len(log)
           f == [i \in I |-> log[i].task]
           g == [l \in S |-> plan.task[l]]
           T == TasksOf(S)
<1>0. /\ base \in Nat /\ offset \in Nat /\ expected \in Nat /\ Len(log) \in Nat
      /\ offset <= Len(log)
  BY DEF SchedTypeOK
<1>1. offset = base + expected
  BY <1>0 DEF Complete
<1>2. IsFiniteSet(I) /\ Cardinality(I) = Len(log) - base
  <2>1. base + 1 \in Int /\ Len(log) \in Int
    BY <1>0
  <2>2. IsFiniteSet(I) /\ Cardinality(I) = IF base + 1 > Len(log) THEN 0 ELSE Len(log) - (base + 1) + 1
    BY <2>1, FS_Interval
  <2> QED
    BY <1>0, <1>1, <2>2
<1>3. IsFiniteSet(S) /\ Cardinality(S) = expected
  <2>1. S \in SUBSET plan.subs
    BY LaterType
  <2> QED
    BY <2>1, SubtasksFinite, FS_Subset DEF Underway
<1>4. IsFiniteSet(T) /\ Cardinality(T) \in Nat /\ Cardinality(T) <= expected
  <2>1. g \in Surjection(S, T)
    BY DEF TasksOf, Surjection
  <2> HIDE DEF g, T
  <2> QED
    BY <1>3, <2>1, FS_Surjection, FS_CardinalityType
<1>5. f \in Injection(I, T)
  <2>1. I \subseteq 1..Len(log)
    BY <1>0
  <2>2. \A i \in I : f[i] \in T
    BY DEF Underway
  <2>3. \A i, j \in I : f[i] = f[j] => i = j
    BY <2>1 DEF LogOfRun
  <2> HIDE DEF T, I
  <2> QED
    BY <2>2, <2>3 DEF Injection, IsInjective
<1>6. Cardinality(I) <= Cardinality(T) /\ (Cardinality(I) = Cardinality(T) => f \in Surjection(I, T))
  <2> HIDE DEF f, I, T
  <2> QED
    BY <1>4, <1>5, FS_Injection
<1>7. offset = Len(log) /\ f \in Surjection(I, T)
  <2> HIDE DEF f, I, T
  <2> QED
    BY <1>0, <1>1, <1>2, <1>4, <1>6
<1>8. T = {log[i].task : i \in I}
  <2> HIDE DEF T, I
  <2>1. f \in [I -> T] /\ \A x \in T : \E i \in I : f[i] = x
    BY <1>7 DEF Surjection
  <2> QED
    BY <2>1
<1> QED
  BY <1>7, <1>8

(* A timeout of a wave of at least a second is all that is left, but for   *)
(* less than a second.                                                     *)
LEMMA WaveTimeEnough ==
  ASSUME left \in Int PROVE left < WaveTime + Second
<1>1. Second \in Nat /\ Second > 0
  BY SchedulerBounds
<1>2. CASE left < Second
  BY <1>1, <1>2 DEF WaveTime
<1>3. CASE left >= Second
  <2>1. left \div Second \in Int
    BY <1>1, <1>3
  <2>5. left % Second < Second
    BY <1>1, <1>3
  <2>6. left = Second * (left \div Second) + (left % Second)
    BY <1>1, <1>3
  <2> DEFINE q == left \div Second
  <2>2. Second * q = q * Second /\ Second * q \in Int
    <3> HIDE DEF q
    <3> QED
      BY <1>1, <2>1 DEF q
  <2> HIDE DEF q
  <2>3. left % Second \in Int
    BY <1>1, <1>3
  <2>4. left < q * Second + Second
    BY <1>1, <2>1, <2>5, <2>6, <2>2, <2>3 DEF q
  <2> QED
    BY <1>1, <1>3, <2>4 DEF WaveTime, q
<1> QED
  BY <1>1, <1>2, <1>3

(* A task of this run is answered at most once.                            *)
LEMMA LogOfRunStep ==
  ASSUME SchedTypeOK, LogOfRun, [Next]_schedVars, oldReplies = 0, oldReplies' = 0
  PROVE  LogOfRun'
<1>1. CASE \E t \in Tasks : Reply(t)
  <2>1. PICK t \in Tasks : Reply(t)
    BY <1>1
  <2>2. /\ log' = Append(log, [task |-> t, ok |-> taskState[t] = "success"])
        /\ answered' = [answered EXCEPT ![t] = 1] /\ answered[t] = 0
        /\ dispatched' = dispatched
        /\ \E r \in dispatched : r[2] = t
    BY <2>1 DEF Reply, Delivery!Answer, Delivered
  <2>3. /\ Len(log') = Len(log) + 1 /\ Len(log) \in Nat
        /\ \A i \in 1..Len(log) : log'[i] = log[i]
        /\ log'[Len(log)+1].task = t
    BY <2>2 DEF SchedTypeOK
  <2>4. \A i \in 1..Len(log) : log[i].task # t
    BY <2>2 DEF LogOfRun
  <2>5. \A i \in 1..Len(log') : i \in 1..Len(log) \/ i = Len(log) + 1
    BY <2>3
  <2>6. \A i, j \in 1..Len(log') : log'[i].task = log'[j].task => i = j
    BY <2>3, <2>4, <2>5 DEF LogOfRun
  <2>7. \A s \in Tasks : answered[s] # 0 => answered'[s] # 0
    BY <2>2 DEF SchedTypeOK
  <2>8. answered'[t] # 0
    BY <2>2 DEF SchedTypeOK
  <2>9. ASSUME NEW i \in 1..Len(log')
        PROVE  /\ log'[i].task \in Tasks /\ answered'[log'[i].task] # 0
               /\ \E r \in dispatched' : r[2] = log'[i].task
    <3>1. CASE i \in 1..Len(log)
      BY <2>2, <2>3, <2>7, <3>1 DEF LogOfRun
    <3>2. CASE i = Len(log) + 1
      BY <2>2, <2>3, <2>8, <3>2
    <3> QED
      BY <2>5, <3>1, <3>2
  <2> QED
    BY <2>6, <2>9 DEF LogOfRun
<1>2. CASE ~(\E t \in Tasks : Reply(t))
  <2>1. log' = log /\ answered' = answered /\ dispatched \subseteq dispatched'
    BY <1>2 DEF Next, Agent, Environment, schedVars, rowVars, bounds, planVars,
      agentVars, memoVars, waveVars, timeVars, PlaceWave, RejectCycle, CreateTasks,
      CreateFails, SkipWave, StartWave, Collect, EndWave, Return, SkipFails,
      CollectFails, Tick, Execute, Ack, OldReply, Delivery!Finish, Delivery!Acknowledge
  <2> QED
    BY <2>1 DEF LogOfRun
<1> QED
  BY <1>1, <1>2

LEMMA PlanFixed ==
  ASSUME plan' = plan
  PROVE  /\ \A l : Needs(l)' = Needs(l) /\ KnownNeeds(l)' = KnownNeeds(l)
         /\ \A S : TasksOf(S)' = TasksOf(S)
BY DEF KnownNeeds, Needs, TasksOf

LEMMA SkipWaveOnTime ==
  ASSUME SchedTypeOK, OnTime, SkipWave PROVE OnTime'
<1>1. /\ pc = "between" /\ pc' = "between" /\ current' = current + 1
      /\ failed' = failed \cup TasksOf(waves[current]) /\ collected' = collected
      /\ UNCHANGED <<plan, waves, upstream, offset, dispatched, answered, log>>
  BY DEF SkipWave, Barred, planVars, waveVars, rowVars
<1>2. Settled'
  <2>1. ASSUME NEW v \in DOMAIN waves, v < current + 1
        PROVE  TasksOf(waves[v]) \subseteq Outcomes'
    <3>1. v < current \/ v = current
      BY <2>1 DEF SchedTypeOK
    <3> QED
      BY <1>1, <3>1 DEF OnTime, Settled, Outcomes
  <2> QED
    BY <1>1, <2>1, PlanFixed DEF Settled
<1>3. AllAnswered' /\ Informed'
  BY <1>1, PlanFixed DEF OnTime, AllAnswered, Informed
<1> QED
  BY <1>1, <1>2, <1>3 DEF OnTime

LEMMA StartWaveOnTime ==
  ASSUME SchedTypeOK, WavesInOrder, OnTime, StartWave PROVE OnTime'
<1> DEFINE skips == SkipsOf(current)
           sent  == waves[current] \ skips
<1>1. /\ pc = "between" /\ pc' = "waiting" /\ current' = current
      /\ current \in DOMAIN waves /\ current \in Nat
      /\ failed' = failed \cup TasksOf(skips) /\ collected' = collected
      /\ expected' = Cardinality(sent) /\ base' = offset /\ waveLeft' = WaveTime
      /\ UNCHANGED <<plan, waves, offset, left, answered, log>>
  BY DEF StartWave, SchedTypeOK, Barred, planVars
<1>2. upstream' = [l \in Ids |-> IF l \in sent
                     THEN {d \in Needs(l) : plan.task[d] \in collected}
                     ELSE upstream[l]]
  BY DEF StartWave
<1>3. PICK lost \in SUBSET sent :
        dispatched' = dispatched \cup {<<l, plan.task[l]>> : l \in sent \ lost}
  BY DEF StartWave
<1>4. waves[current] \subseteq plan.subs /\ plan.subs \subseteq Ids
  BY <1>1, LaterType DEF SchedTypeOK, IsPlan
<1>5. Settled'
  BY <1>1, PlanFixed DEF OnTime, Settled, Outcomes
<1>6. Informed'
  <2>1. ASSUME NEW l \in sent, NEW d \in KnownNeeds(l)
        PROVE  d \in Needs(l) /\ plan.task[d] \in collected
    <3>1. PICK v \in 1..current-1 : d \in waves[v]
      BY <1>1, <2>1 DEF WavesInOrder
    <3>2. v \in DOMAIN waves /\ v < current
      BY <1>1, <3>1 DEF SchedTypeOK
    <3>3. plan.task[d] \in Outcomes
      BY <1>1, <3>1, <3>2 DEF OnTime, Settled, TasksOf
    <3>4. plan.task[d] \notin failed
      BY <2>1 DEF SkipsOf, Hindered, TasksOf, KnownNeeds
    <3> QED
      BY <3>3, <3>4 DEF Outcomes, KnownNeeds
  <2>2. ASSUME NEW l \in Ids, l \in sent PROVE KnownNeeds(l) \subseteq upstream'[l]
    <3> HIDE DEF sent
    <3> QED
      BY <1>2, <2>1, <2>2
  <2>3. ASSUME NEW r \in dispatched' PROVE KnownNeeds(r[1]) \subseteq upstream'[r[1]]
    <3>1. CASE r[1] \in sent
      BY <1>4, <2>2, <3>1
    <3>2. CASE r[1] \notin sent
      <4>1. r \in dispatched /\ r[1] \in Ids
        BY <1>3, <2>3, <3>2 DEF SchedTypeOK, Rows
      <4>2. upstream'[r[1]] = upstream[r[1]]
        <5> HIDE DEF sent
        <5> QED
          BY <1>2, <3>2, <4>1
      <4> QED
        BY <4>1, <4>2 DEF OnTime, Informed
    <3> QED
      BY <3>1, <3>2
  <2> QED
    BY <1>1, <2>3, PlanFixed DEF Informed
<1>7. WaveUnderway'
  <2>1. offset = Len(log) /\ offset \in Nat /\ left < WaveTime + Second
    BY <1>1, WaveTimeEnough DEF OnTime, AllAnswered, SchedTypeOK
  <2>2. Cardinality(sent) \in Nat
    BY <1>4, SubtaskSets
  <2>3. waves[current] \ sent = skips
    BY DEF SkipsOf
  <2>4. ASSUME NEW r \in dispatched', answered[r[2]] = 0 PROVE r[2] \in TasksOf(sent)
    <3>1. r \notin dispatched
      BY <1>1, <2>4 DEF OnTime, AllAnswered
    <3>2. PICK l \in sent : r = <<l, plan.task[l]>>
      BY <1>3, <3>1
    <3> HIDE DEF sent
    <3> QED
      BY <3>2 DEF TasksOf
  <2>5. offset + 1..Len(log) = {}
    BY <2>1
  <2>6. PICK S \in SUBSET waves[current] : S = sent
    OBVIOUS
  <2>7. Underway(S)'
    <3> HIDE DEF sent, skips
    <3> QED
      BY <1>1, <2>3, <2>4, <2>5, <2>6, PlanFixed DEF Underway
  <2>8. \E R \in SUBSET waves'[current'] : Underway(R)'
    BY <1>1, <2>7
  <2>9. offset <= offset + Cardinality(sent) /\ offset <= offset
    BY <2>1, <2>2
  <2> HIDE DEF sent, skips
  <2> QED
    BY <1>1, <2>1, <2>8, <2>9 DEF WaveUnderway
<1> QED
  BY <1>1, <1>5, <1>6, <1>7 DEF OnTime

LEMMA EndWaveOnTime ==
  ASSUME SchedTypeOK, LogOfRun, OnTime, EndWave, left >= Second PROVE OnTime'
<1> DEFINE got == {log[i] : i \in base+1..offset}
<1>1. /\ pc = "waiting" /\ pc' = "between" /\ current' = current + 1
      /\ collected' = collected \cup {r.task : r \in got}
      /\ failed \subseteq failed'
      /\ UNCHANGED <<plan, waves, upstream, offset, dispatched, answered, log>>
  BY DEF EndWave, planVars, waveVars, rowVars
<1>2. current \in DOMAIN waves /\ offset <= base + expected /\ left < waveLeft + Second
  BY <1>1 DEF OnTime, WaveUnderway
<1>3. PICK S \in SUBSET waves[current] : Underway(S)
  BY <1>1 DEF OnTime, WaveUnderway
<1>4. Complete
  <2>1. ~TimedOut
    BY <1>2, SchedulerBounds DEF TimedOut, SchedTypeOK
  <2> QED
    BY <2>1 DEF EndWave
<1>5. offset = Len(log) /\ TasksOf(S) = {log[i].task : i \in base+1..offset}
  BY <1>2, <1>3, <1>4, CompleteWave
<1>6. TasksOf(S) \subseteq collected'
  BY <1>1, <1>5
<1>7. Settled'
  <2>1. TasksOf(waves[current]) \subseteq TasksOf(S) \cup failed
    BY <1>3 DEF Underway, TasksOf
  <2>2. ASSUME NEW v \in DOMAIN waves, v < current + 1
        PROVE  TasksOf(waves[v]) \subseteq Outcomes'
    <3>1. v < current \/ v = current
      BY <2>2 DEF SchedTypeOK
    <3>2. Outcomes \subseteq Outcomes'
      BY <1>1 DEF Outcomes
    <3>3. CASE v < current
      BY <1>1, <3>2, <3>3 DEF OnTime, Settled
    <3>4. CASE v = current
      BY <1>1, <1>6, <2>1, <3>4 DEF Outcomes
    <3> QED
      BY <3>1, <3>3, <3>4
  <2> QED
    BY <1>1, <2>2, PlanFixed DEF Settled
<1>8. AllAnswered'
  <2>1. ASSUME NEW r \in dispatched PROVE answered[r[2]] # 0
    <3>1. SUFFICES ASSUME answered[r[2]] = 0 PROVE FALSE
      OBVIOUS
    <3>2. PICK i \in base+1..offset : log[i].task = r[2]
      BY <1>3, <1>5, <3>1 DEF Underway
    <3>3. i \in 1..Len(log)
      BY DEF SchedTypeOK
    <3> QED
      BY <3>1, <3>2, <3>3 DEF LogOfRun
  <2> QED
    BY <1>1, <1>5, <2>1 DEF AllAnswered
<1>9. Informed'
  BY <1>1, PlanFixed DEF OnTime, Informed
<1> QED
  BY <1>1, <1>7, <1>8, <1>9 DEF OnTime

LEMMA ReplyOnTime ==
  ASSUME SchedTypeOK, OnTime, NEW t \in Tasks, Reply(t) PROVE OnTime'
<1>1. /\ log' = Append(log, [task |-> t, ok |-> taskState[t] = "success"])
      /\ answered' = [answered EXCEPT ![t] = 1] /\ answered[t] = 0
      /\ UNCHANGED <<plan, waves, pc, current, collected, failed, upstream,
                     expected, base, offset, left, waveLeft, dispatched>>
  BY DEF Reply, Delivery!Answer, planVars, agentVars, memoVars, waveVars, timeVars
<1>2. PICK r \in dispatched : r[2] = t
  BY DEF Reply, Delivered
<1>3. pc # "planning" /\ pc # "between"
  BY <1>1, <1>2 DEF OnTime, NothingSent, AllAnswered
<1>4. ASSUME pc = "waiting" PROVE WaveUnderway'
  <2>1. PICK S \in SUBSET waves[current] : Underway(S)
    BY <1>4 DEF OnTime, WaveUnderway
  <2>2. t \in TasksOf(S)
    BY <1>1, <1>2, <2>1 DEF Underway
  <2>3. \A i \in base+1..Len(log') : log'[i].task \in TasksOf(S)
    <3>1. /\ Len(log') = Len(log) + 1 /\ Len(log) \in Nat /\ base \in Nat
          /\ \A i \in 1..Len(log) : log'[i] = log[i]
          /\ log'[Len(log)+1].task = t
      BY <1>1 DEF SchedTypeOK
    <3>2. \A i \in base+1..Len(log') :
            i = Len(log) + 1 \/ (i \in 1..Len(log) /\ i \in base+1..Len(log))
      BY <3>1
    <3> QED
      BY <2>1, <2>2, <3>1, <3>2 DEF Underway
  <2>4. ASSUME NEW q \in dispatched, answered'[q[2]] = 0 PROVE answered[q[2]] = 0
    <3>1. q[2] \in Tasks
      BY DEF SchedTypeOK, Rows
    <3> QED
      BY <1>1, <2>4, <3>1
  <2>5. Underway(S)'
    <3>1. \A R : TasksOf(R)' = TasksOf(R)
      BY <1>1 DEF TasksOf
    <3>2. /\ Cardinality(S) = expected'
          /\ TasksOf(waves'[current'] \ S) \subseteq failed'
      BY <1>1, <2>1 DEF Underway
    <3> QED
      BY <1>1, <2>1, <2>3, <2>4, <3>1, <3>2 DEF Underway
  <2>6. \E R \in SUBSET waves'[current'] : Underway(R)'
    BY <1>1, <2>1, <2>5
  <2> QED
    BY <1>1, <1>4, <2>6 DEF OnTime, WaveUnderway
<1>5. pc \in {"between", "waiting", "done"} => Settled'
  BY <1>1, PlanFixed DEF OnTime, Settled, Outcomes
<1>6. Informed'
  BY <1>1, PlanFixed DEF OnTime, Informed
<1> QED
  BY <1>1, <1>3, <1>4, <1>5, <1>6 DEF OnTime

(* The other steps.                                                        *)
LEMMA OthersOnTime ==
  ASSUME SchedTypeOK, OnTime, [Next]_schedVars, left >= Second, oldReplies' = 0,
         oldReplies = 0,
         ~SkipWave, ~StartWave, ~EndWave, ~ \E t \in Tasks : Reply(t)
  PROVE  OnTime'
<1> USE DEF planVars, memoVars, waveVars, timeVars, rowVars, bounds, agentVars
<1>1. /\ plan' = plan /\ dispatched' = dispatched /\ upstream' = upstream
      /\ current' = current /\ collected' = collected /\ failed' = failed
      /\ answered' = answered /\ log' = log
      /\ (PlaceWave \/ waves' = waves)
  BY DEF Next, Agent, Environment, schedVars, PlaceWave, RejectCycle, CreateTasks,
    CreateFails, Collect, Return, SkipFails, CollectFails, Tick, Execute, Ack,
    OldReply, Delivery!Finish, Delivery!Acknowledge
<1>2. Informed'
  BY <1>1, PlanFixed DEF OnTime, Informed
<1>3. CASE PlaceWave
  <2>1. pc = "planning" /\ pc' = pc /\ offset' = offset
    BY <1>3 DEF PlaceWave
  <2> QED
    BY <1>1, <1>2, <2>1 DEF OnTime, NothingSent
<1>4. CASE RejectCycle \/ CreateFails \/ SkipFails \/ CollectFails
  <2>1. pc' \in {"rejected", "error"}
    BY <1>4 DEF RejectCycle, CreateFails, SkipFails, CollectFails
  <2> QED
    BY <1>2, <2>1 DEF OnTime
<1>5. CASE CreateTasks
  <2>1. /\ pc = "planning" /\ pc' = "between" /\ offset' = offset /\ waves' = waves
        /\ current = 1 /\ log = <<>> /\ offset = 0 /\ dispatched = {}
    BY <1>5 DEF CreateTasks, OnTime, NothingSent
  <2>2. Settled'
    <3>1. \A v \in DOMAIN waves : ~(v < 1)
      BY DEF SchedTypeOK
    <3> QED
      BY <1>1, <2>1, <3>1 DEF Settled
  <2>3. AllAnswered'
    BY <1>1, <2>1 DEF AllAnswered
  <2> QED
    BY <1>2, <2>1, <2>2, <2>3 DEF OnTime
<1>6. CASE Collect
  <2>1. /\ pc = "waiting" /\ pc' = pc /\ waves' = waves
        /\ UNCHANGED <<expected, base, left, waveLeft>>
        /\ offset' = LastOfPoll /\ offset < LastOfPoll
    BY <1>6 DEF Collect
  <2>2. base <= offset' /\ offset' <= base + expected
    BY <2>1 DEF LastOfPoll, OnTime, WaveUnderway, SchedTypeOK
  <2>3. PICK S \in SUBSET waves[current] : Underway(S)
    BY <2>1 DEF OnTime, WaveUnderway
  <2>4. Underway(S)'
    BY <1>1, <2>1, <2>3, PlanFixed DEF Underway
  <2>5. \E R \in SUBSET waves'[current'] : Underway(R)'
    BY <1>1, <2>1, <2>4
  <2>6. WaveUnderway'
    BY <1>1, <2>1, <2>2, <2>5 DEF OnTime, WaveUnderway
  <2>7. Settled'
    BY <1>1, <2>1, PlanFixed DEF OnTime, Settled, Outcomes
  <2> QED
    BY <1>2, <2>1, <2>6, <2>7 DEF OnTime
<1>7. CASE Return
  <2>1. pc = "between" /\ pc' = "done" /\ waves' = waves /\ current > Len(waves)
    BY <1>7, SchedulerBounds DEF Return, SchedTypeOK
  <2>2. Settled'
    BY <1>1, <2>1, PlanFixed DEF OnTime, Settled, Outcomes
  <2> QED
    BY <1>1, <1>2, <2>1, <2>2 DEF OnTime
<1>8. CASE Tick
  <2>1. /\ UNCHANGED <<waves, pc, expected, base, offset>>
        /\ left' = left - 1
        /\ pc = "between" \/ (pc = "waiting" /\ waveLeft' = waveLeft - 1)
    BY <1>8 DEF Tick
  <2>2. Settled'
    BY <1>1, <2>1, PlanFixed DEF OnTime, Settled, Outcomes
  <2>3. pc = "between" => AllAnswered'
    BY <1>1, <2>1 DEF OnTime, AllAnswered
  <2>4. ASSUME pc = "waiting" PROVE WaveUnderway'
    <3>1. PICK S \in SUBSET waves[current] : Underway(S)
      BY <2>4 DEF OnTime, WaveUnderway
    <3>2. Underway(S)'
      BY <1>1, <2>1, <3>1, PlanFixed DEF Underway
    <3>3. \E R \in SUBSET waves'[current'] : Underway(R)'
      BY <1>1, <2>1, <3>2
    <3>4. left' < waveLeft' + Second
      BY <2>1, <2>4, SchedulerBounds DEF OnTime, WaveUnderway, SchedTypeOK
    <3> QED
      BY <1>1, <2>1, <2>4, <3>3, <3>4 DEF OnTime, WaveUnderway
  <2> QED
    BY <1>2, <2>1, <2>2, <2>3, <2>4 DEF OnTime
<1>9. CASE (\E t \in Tasks : Execute(t)) \/ (\E r \in Rows : Ack(r)) \/ UNCHANGED schedVars
  <2>1. UNCHANGED <<waves, pc, expected, base, offset, left, waveLeft>>
    BY <1>9 DEF Execute, Ack, schedVars
  <2>2. pc \in {"between", "waiting", "done"} => Settled'
    BY <1>1, <2>1, PlanFixed DEF OnTime, Settled, Outcomes
  <2>3. pc = "between" => AllAnswered'
    BY <1>1, <2>1 DEF OnTime, AllAnswered
  <2>4. ASSUME pc = "waiting" PROVE WaveUnderway'
    <3>1. PICK S \in SUBSET waves[current] : Underway(S)
      BY <2>4 DEF OnTime, WaveUnderway
    <3>2. Underway(S)'
      BY <1>1, <2>1, <3>1, PlanFixed DEF Underway
    <3>3. \E R \in SUBSET waves'[current'] : Underway(R)'
      BY <1>1, <2>1, <3>2
    <3> QED
      BY <1>1, <2>1, <2>4, <3>3 DEF OnTime, WaveUnderway
  <2> QED
    BY <1>1, <1>2, <2>1, <2>2, <2>3, <2>4 DEF OnTime, NothingSent
<1>10. ~OldReply
  BY DEF OldReply, SchedTypeOK
<1> QED
  BY <1>3, <1>4, <1>5, <1>6, <1>7, <1>8, <1>9, <1>10 DEF Next, Agent, Environment

(* Time does not come back, and neither do the replies of earlier runs.    *)
LEMMA TimePasses ==
  ASSUME SchedTypeOK, [Next]_schedVars
  PROVE  /\ left' >= Second => left >= Second
         /\ oldReplies' = 0 => oldReplies = 0
<1>1. /\ left' = left \/ left' = left - 1
      /\ oldReplies' = oldReplies \/ oldReplies' = oldReplies + 1
  BY DEF Next, Agent, Environment, schedVars, planVars, memoVars, waveVars,
    timeVars, rowVars, bounds, agentVars, PlaceWave, RejectCycle, CreateTasks,
    CreateFails, SkipWave, StartWave, Collect, EndWave, Return, SkipFails,
    CollectFails, Tick, Execute, Reply, Ack, OldReply
<1> QED
  BY <1>1, SchedulerBounds DEF SchedTypeOK

LEMMA OnTimeInvariant == Spec => []OnTimeInv
<1>1. Init => OnTimeInv
  BY DEF Init, OnTimeInv, LogOfRun, OnTime, NothingSent, Informed
<1>2. SchedTypeOK /\ WavesInOrder /\ OnTimeInv /\ [Next]_schedVars => OnTimeInv'
  <2> SUFFICES ASSUME SchedTypeOK, WavesInOrder, OnTimeInv, [Next]_schedVars,
                      oldReplies' = 0
               PROVE  LogOfRun' /\ (left' >= Second => OnTime')
    BY DEF OnTimeInv
  <2>1. oldReplies = 0 /\ LogOfRun /\ (left >= Second => OnTime)
    BY TimePasses DEF OnTimeInv
  <2>2. LogOfRun'
    BY <2>1, LogOfRunStep
  <2>3. ASSUME left' >= Second PROVE OnTime'
    <3>1. left >= Second /\ OnTime
      BY <2>1, <2>3, TimePasses
    <3> QED
      BY <2>1, <3>1, SkipWaveOnTime, StartWaveOnTime, EndWaveOnTime, ReplyOnTime,
        OthersOnTime
  <2> QED
    BY <2>2, <2>3
<1> QED
  BY <1>1, <1>2, SchedTyping, WavesRespectNeeds, PTL DEF Spec

(* A subtask is dispatched with the result of everything it depends on,    *)
(* for any graph and any errors, while a second of the timeout is left and *)
(* no reply to an earlier run is in the table (_inject_upstream).          *)
THEOREM ResultsPassed == Spec => []ResultsPassedOn
<1>1. SchedTypeOK /\ OnTimeInv => ResultsPassedOn
  <2> SUFFICES ASSUME SchedTypeOK, OnTimeInv, oldReplies = 0, NEW r \in dispatched,
                      ~(KnownNeeds(r[1]) \subseteq upstream[r[1]])
               PROVE  left < Second
    BY DEF ResultsPassedOn, DependentsSeeResults
  <2>1. ~(left >= Second)
    BY DEF OnTimeInv, OnTime, Informed
  <2> QED
    BY <2>1, SchedulerBounds DEF SchedTypeOK
<1> QED
  BY <1>1, OnTimeInvariant, SchedTyping, PTL

-----------------------------------------------------------------------------
(* Nothing is forgotten.  What the run counts as an outcome, and what is   *)
(* answered, is finished, whatever the time and the other runs.            *)
LogTasks == {log[i].task : i \in 1..Len(log)}

OutcomeInv ==
  /\ Outcomes \cup LogTasks \subseteq Finished \cup {OldTask}
  /\ pc = "planning" => dispatched = {} /\ Outcomes = {} /\ LogTasks \subseteq {OldTask}

(* Nothing that is finished is reopened once the tasks are created.        *)
LEMMA FinishedStays ==
  ASSUME SchedTypeOK, OutcomeInv, [Next]_schedVars, pc # "planning"
  PROVE  Finished \subseteq Finished'
<1>1. \/ taskState' = taskState
      \/ \E S \in SUBSET plan.subs : Mark(S)
      \/ \E t \in Tasks : \E s \in {"success", "failed"} :
           taskState' = [taskState EXCEPT ![t] = s]
  <2>1. SkipWave => \E S \in SUBSET plan.subs : Mark(S)
    BY LaterType DEF SkipWave, SchedTypeOK
  <2>2. StartWave => \E S \in SUBSET plan.subs : Mark(S)
    <3>1. StartWave => Mark(SkipsOf(current)) /\ current \in DOMAIN waves
      BY DEF StartWave, SchedTypeOK
    <3> QED
      BY <3>1, LaterType DEF SkipsOf
  <2>3. EndWave => \E S \in SUBSET plan.subs : Mark(S)
    <3>1. EndWave => \E missed \in SUBSET Doomed(current + 1, failed') :
                       Mark(Doomed(current + 1, failed') \ missed)
      BY DEF EndWave
    <3>2. Doomed(current + 1, failed') \subseteq plan.subs
      BY LaterType
    <3> QED
      BY <3>1, <3>2
  <2>4. SkipFails => \E S \in SUBSET plan.subs : Mark(S)
    <3>1. SkipFails => \E S \in SUBSET SkipsOf(current) : Mark(S) /\ current \in DOMAIN waves
      BY DEF SkipFails, SchedTypeOK
    <3> QED
      BY <3>1, LaterType DEF SkipsOf
  <2> QED
    BY <2>1, <2>2, <2>3, <2>4 DEF Next, Agent, Environment, schedVars, planVars,
      memoVars, waveVars, timeVars, rowVars, bounds, agentVars, PlaceWave,
      RejectCycle, CreateTasks, CreateFails, Collect, Return, CollectFails, Tick,
      Execute, Reply, Ack, OldReply
<1>2. ASSUME NEW t \in Finished PROVE taskState'[t] \in {"success", "failed", "skipped"}
  BY <1>1 DEF Finished, Mark, SchedTypeOK
<1> QED
  BY <1>2 DEF Finished

LEMMA OutcomeStep ==
  ASSUME SchedTypeOK, OutcomeInv, [Next]_schedVars PROVE OutcomeInv'
<1> USE DEF planVars, memoVars, waveVars, timeVars, rowVars, bounds, agentVars
<1>1. /\ Len(log) \in Nat
      /\ \A e : LET new == Append(log, e) IN
           {new[i].task : i \in 1..Len(new)} = LogTasks \cup {e.task}
  <2>1. Len(log) \in Nat
    BY DEF SchedTypeOK
  <2>2. ASSUME NEW e PROVE {Append(log, e)[i].task : i \in 1..Len(Append(log, e))}
                             = LogTasks \cup {e.task}
    <3>1. /\ Len(Append(log, e)) = Len(log) + 1
          /\ \A i \in 1..Len(log) : Append(log, e)[i] = log[i]
          /\ Append(log, e)[Len(log)+1] = e
      BY DEF SchedTypeOK
    <3>2. 1..Len(log)+1 = (1..Len(log)) \cup {Len(log)+1}
      BY <2>1
    <3> QED
      BY <3>1, <3>2 DEF LogTasks
  <2> QED
    BY <2>1, <2>2
<1>2. CASE pc = "planning"
  <2>1. /\ dispatched' = dispatched /\ Outcomes' = Outcomes
        /\ LogTasks' \subseteq LogTasks \cup {OldTask}
    <3>1. log' = log \/ \E ok \in BOOLEAN : log' = Append(log, [task |-> OldTask, ok |-> ok])
      BY <1>2 DEF OutcomeInv, Next, Agent, Environment, schedVars, PlaceWave, RejectCycle,
        CreateTasks, CreateFails, SkipWave, StartWave, Collect, EndWave, Return,
        SkipFails, CollectFails, Tick, Execute, Reply, Ack, OldReply, Delivered
    <3>2. LogTasks' \subseteq LogTasks \cup {OldTask}
      <4>1. CASE log' = log
        BY <4>1 DEF LogTasks
      <4>2. ASSUME NEW ok \in BOOLEAN, log' = Append(log, [task |-> OldTask, ok |-> ok])
            PROVE  LogTasks' = LogTasks \cup {OldTask}
        BY <1>1, <4>2 DEF LogTasks
      <4> QED
        BY <3>1, <4>1, <4>2
    <3>3. dispatched' = dispatched /\ collected' = collected /\ failed' = failed
      BY <1>2 DEF Next, Agent, Environment, schedVars, PlaceWave, RejectCycle,
        CreateTasks, CreateFails, SkipWave, StartWave, Collect, EndWave, Return,
        SkipFails, CollectFails, Tick, Execute, Reply, Ack, OldReply
    <3> QED
      BY <3>2, <3>3 DEF Outcomes
  <2> QED
    BY <1>2, <2>1 DEF OutcomeInv
<1>3. CASE pc # "planning"
  <2>1. pc' # "planning"
    BY <1>3 DEF Next, Agent, Environment, schedVars, PlaceWave, RejectCycle,
      CreateTasks, CreateFails, SkipWave, StartWave, Collect, EndWave, Return,
      SkipFails, CollectFails, Tick, Execute, Reply, Ack, OldReply
  <2>2. Finished \subseteq Finished'
    BY <1>3, FinishedStays
  <2>3. LogTasks' \subseteq Finished' \cup {OldTask}
    <3>1. CASE \E t \in Tasks : Reply(t)
      <4>1. PICK t \in Tasks : Reply(t)
        BY <3>1
      <4>2. /\ log' = Append(log, [task |-> t, ok |-> taskState[t] = "success"])
            /\ t \in Finished
        BY <4>1 DEF Reply, Finished
      <4>3. LogTasks' = LogTasks \cup {t}
        BY <1>1, <4>2 DEF LogTasks
      <4> QED
        BY <2>2, <4>2, <4>3 DEF OutcomeInv
    <3>2. CASE OldReply
      <4>1. LogTasks' = LogTasks \cup {OldTask}
        BY <1>1, <3>2 DEF OldReply, LogTasks
      <4> QED
        BY <2>2, <4>1 DEF OutcomeInv
    <3>3. CASE ~OldReply /\ ~ \E t \in Tasks : Reply(t)
      <4>1. log' = log
        BY <3>3 DEF Next, Agent, Environment, schedVars, PlaceWave, RejectCycle,
          CreateTasks, CreateFails, SkipWave, StartWave, Collect, EndWave, Return,
          SkipFails, CollectFails, Tick, Execute, Ack
      <4> QED
        BY <2>2, <4>1 DEF OutcomeInv, LogTasks
    <3> QED
      BY <3>1, <3>2, <3>3
  <2>4. Outcomes' \subseteq Finished' \cup {OldTask}
    <3>1. CASE SkipWave \/ StartWave
      <4>1. PICK S \in SUBSET plan.subs :
              Mark(S) /\ failed' = failed \cup TasksOf(S) /\ collected' = collected
        <5>1. CASE SkipWave
          <6>1. /\ pc = "between" /\ current <= Len(waves) /\ Mark(waves[current])
                /\ failed' = failed \cup TasksOf(waves[current])
                /\ collected' = collected
            BY <5>1 DEF SkipWave, Barred
          <6>2. current \in DOMAIN waves
            BY <6>1 DEF SchedTypeOK
          <6>3. waves[current] \in SUBSET plan.subs
            BY <6>2, LaterType
          <6> QED
            BY <6>1, <6>3
        <5>2. CASE StartWave
          <6>1. /\ current \in DOMAIN waves /\ Mark(SkipsOf(current))
                /\ failed' = failed \cup TasksOf(SkipsOf(current))
                /\ collected' = collected
            BY <5>2 DEF StartWave, Barred, SchedTypeOK
          <6>2. SkipsOf(current) \in SUBSET plan.subs
            BY <6>1, LaterType DEF SkipsOf
          <6> QED
            BY <6>1, <6>2
        <5> QED
          BY <3>1, <5>1, <5>2
      <4>2. TasksOf(S) \subseteq Finished'
        BY <4>1, SubtaskSets DEF Mark, Finished
      <4> QED
        BY <2>2, <4>1, <4>2 DEF OutcomeInv, Outcomes
    <3>2. CASE EndWave
      <4>1. Outcomes' \subseteq Outcomes \cup {r.task : r \in {log[i] : i \in base+1..offset}}
        BY <3>2 DEF EndWave, Outcomes
      <4>2. base+1..offset \subseteq 1..Len(log)
        BY DEF SchedTypeOK
      <4>3. Outcomes' \subseteq Outcomes \cup LogTasks
        BY <4>1, <4>2 DEF LogTasks
      <4> QED
        BY <2>2, <4>3 DEF OutcomeInv
    <3>3. CASE ~SkipWave /\ ~StartWave /\ ~EndWave
      <4>1. collected' = collected /\ failed' = failed
        BY <3>3 DEF Next, Agent, Environment, schedVars, PlaceWave, RejectCycle,
          CreateTasks, CreateFails, Collect, Return, SkipFails, CollectFails, Tick,
          Execute, Reply, Ack, OldReply
      <4> QED
        BY <2>2, <4>1 DEF OutcomeInv, Outcomes
    <3> QED
      BY <3>1, <3>2, <3>3
  <2> QED
    BY <2>1, <2>3, <2>4 DEF OutcomeInv
<1> QED
  BY <1>2, <1>3

LEMMA OutcomesFinished == Spec => []OutcomeInv
<1>1. Init => OutcomeInv
  BY DEF Init, OutcomeInv, Outcomes, LogTasks
<1> QED
  BY <1>1, OutcomeStep, SchedTyping, PTL DEF Spec

(* A run that returns within its time has an outcome for every task.       *)
THEOREM NothingLost == Spec => []NothingForgotten
<1>1. SchedTypeOK /\ DepthInv /\ OnTimeInv /\ OutcomeInv => NothingForgotten
  <2> SUFFICES ASSUME SchedTypeOK, DepthInv, OnTimeInv, OutcomeInv,
                      pc = "done", left >= Second, oldReplies = 0, EveryTaskKept,
                      NEW t \in plan.tasks
               PROVE  t \in Finished
    BY DEF NothingForgotten
  <2>1. PICK l \in plan.subs : t = plan.task[l]
    BY DEF EveryTaskKept, TasksOf
  <2>2. PICK v \in DOMAIN waves : l \in waves[v]
    BY DEF DepthInv, Placed
  <2>3. v < current /\ Settled
    BY DEF OnTimeInv, OnTime, SchedTypeOK
  <2>4. t \in Outcomes
    BY <2>1, <2>2, <2>3 DEF Settled, TasksOf
  <2>5. t \in Tasks
    BY DEF SchedTypeOK, IsPlan
  <2> QED
    BY <2>4, <2>5, PlansAssumption DEF OutcomeInv
<1> QED
  BY <1>1, DepthInvariant, OnTimeInvariant, OutcomesFinished, SchedTyping, PTL

-----------------------------------------------------------------------------
(* Failures are contained.  By itself this is not inductive: a dependency  *)
(* that did not fail when a subtask was dispatched has, while the run is   *)
(* on time, been dispatched itself, after its own dependencies had not     *)
(* failed, and all of them have had their outcome since.                   *)
Untainted == \A r \in dispatched : TasksOf(Ancestors(r[1])) \cap failed = {}

SentOrFailed ==
  pc \in {"between", "waiting", "done"} =>
    \A v \in DOMAIN waves : v < current =>
      \A x \in waves[v] : <<x, plan.task[x]>> \in dispatched \/ plan.task[x] \in failed

ContainInv ==
  oldReplies = 0 /\ left >= Second /\ DistinctGoals => Untainted /\ SentOrFailed

(* A task of an earlier wave is not one of the current wave.               *)
LEMMA EarlierTasks ==
  ASSUME SchedTypeOK, WavesInOrder, DistinctGoals,
         NEW w \in DOMAIN waves, NEW l \in waves[w],
         NEW v \in DOMAIN waves, w <= v
  PROVE  TasksOf(Ancestors(l)) \cap TasksOf(waves[v]) = {}
<1> SUFFICES ASSUME NEW d \in Ancestors(l), NEW x \in waves[v],
                    plan.task[d] = plan.task[x]
             PROVE  FALSE
  BY DEF TasksOf
<1>1. DOMAIN waves = 1..Len(waves) /\ Len(waves) \in Nat
  BY DEF SchedTypeOK
<1>2. PICK u \in 1..w-1 : d \in waves[u]
  BY AncestorsEarlier
<1>3. u \in DOMAIN waves /\ u # v
  BY <1>1, <1>2
<1>4. d \in plan.subs /\ x \in plan.subs
  BY <1>2, <1>3, LaterType
<1> QED
  BY <1>2, <1>3, <1>4 DEF DistinctGoals, WavesInOrder

(* What fails in the current wave is no ancestor of what is dispatched.    *)
LEMMA NewFailures ==
  ASSUME SchedTypeOK, WavesInOrder, DistinctGoals, DispatchedBefore, Untainted,
         current \in DOMAIN waves,
         NEW F, F \subseteq failed \cup TasksOf(waves[current])
  PROVE  \A r \in dispatched : TasksOf(Ancestors(r[1])) \cap F = {}
<1> SUFFICES ASSUME NEW r \in dispatched
             PROVE  TasksOf(Ancestors(r[1])) \cap F = {}
  OBVIOUS
<1>1. PICK w \in DOMAIN waves : r[1] \in waves[w] /\ w <= current
  BY DEF DispatchedBefore
<1>2. TasksOf(Ancestors(r[1])) \cap TasksOf(waves[current]) = {}
  BY <1>1, EarlierTasks
<1> QED
  BY <1>2 DEF Untainted

(* The ancestors of a subtask the loop does not skip have not failed.      *)
LEMMA SentUntainted ==
  ASSUME SchedTypeOK, WavesInOrder, DistinctGoals, Untainted, SentOrFailed,
         pc = "between", current \in DOMAIN waves,
         NEW l \in waves[current], l \notin SkipsOf(current)
  PROVE  TasksOf(Ancestors(l)) \cap failed = {}
<1> DEFINE S == {x \in plan.subs : /\ plan.task[x] \notin failed
                                   /\ \E v \in 1..current-1 : x \in waves[v]}
<1>1. DOMAIN waves = 1..Len(waves) /\ Len(waves) \in Nat /\ current \in Nat
  BY DEF SchedTypeOK
<1>2. KnownNeeds(l) \subseteq S
  <2>1. \A d \in KnownNeeds(l) : \E v \in 1..current-1 : d \in waves[v]
    BY DEF WavesInOrder
  <2>2. \A d \in KnownNeeds(l) : d \in plan.subs /\ plan.task[d] \notin failed
    BY DEF SkipsOf, Hindered, TasksOf, KnownNeeds, Needs
  <2> QED
    BY <2>1, <2>2
<1>3. ASSUME NEW x \in S PROVE KnownNeeds(x) \subseteq S
  <2>1. PICK v \in 1..current-1 : x \in waves[v]
    OBVIOUS
  <2>2. v \in DOMAIN waves /\ v < current /\ 1..v-1 \subseteq 1..current-1
    BY <1>1, <2>1
  <2>3. <<x, plan.task[x]>> \in dispatched
    BY <2>1, <2>2 DEF SentOrFailed
  <2>4. TasksOf(Ancestors(x)) \cap failed = {}
    BY <2>3 DEF Untainted
  <2>5. KnownNeeds(x) \subseteq Ancestors(x)
    BY SubtasksFinite, AncestorsClosed
  <2>6. \A d \in KnownNeeds(x) : \E u \in 1..v-1 : d \in waves[u]
    BY <2>1, <2>2 DEF WavesInOrder
  <2>7. \A d \in KnownNeeds(x) : d \in plan.subs /\ plan.task[d] \notin failed
    BY <2>4, <2>5 DEF TasksOf, KnownNeeds, Needs
  <2> QED
    BY <2>2, <2>6, <2>7
<1>4. Ancestors(l) \subseteq S
  <2> HIDE DEF S
  <2> QED
    BY <1>2, <1>3, SubtasksFinite, AncestorsLeast
<1> QED
  BY <1>4 DEF TasksOf

LEMMA ContainStep ==
  ASSUME SchedTypeOK, WavesInOrder, DistinctGoals, SkipInv, LogOfRun, OnTime,
         Untainted, SentOrFailed, [Next]_schedVars, left >= Second
  PROVE  Untainted' /\ SentOrFailed'
<1> USE DEF planVars, memoVars, waveVars, timeVars, rowVars, bounds, agentVars
<1>1. plan' = plan /\ \A l : Ancestors(l)' = Ancestors(l)
  <2>1. plan' = plan
    BY WavesFixed
  <2> QED
    BY <2>1 DEF Ancestors, KnownNeeds, Needs
<1>2. \A v \in DOMAIN waves : v < current + 1 => v < current \/ v = current
  BY DEF SchedTypeOK
<1>3. CASE SkipWave
  <2>1. /\ pc = "between" /\ current \in DOMAIN waves /\ current' = current + 1
        /\ failed' = failed \cup TasksOf(waves[current])
        /\ UNCHANGED <<waves, dispatched>>
    BY <1>3 DEF SkipWave, Barred, SchedTypeOK
  <2>2. Untainted'
    <3>1. \A r \in dispatched : TasksOf(Ancestors(r[1])) \cap failed' = {}
      BY <2>1, NewFailures DEF SkipInv
    <3> QED
      BY <1>1, <2>1, <3>1, PlanFixed DEF Untainted
  <2>3. \A x \in waves[current] : plan.task[x] \in failed'
    BY <2>1 DEF TasksOf
  <2> QED
    BY <1>1, <1>2, <2>1, <2>2, <2>3 DEF SentOrFailed
<1>4. CASE StartWave
  <2> DEFINE skips == SkipsOf(current)
             sent  == waves[current] \ skips
  <2>1. /\ pc = "between" /\ current \in DOMAIN waves /\ current' = current
        /\ failed' = failed \cup TasksOf(skips) /\ waves' = waves
    BY <1>4 DEF StartWave, Barred, SchedTypeOK
  <2>2. PICK lost \in SUBSET sent :
          dispatched' = dispatched \cup {<<l, plan.task[l]>> : l \in sent \ lost}
    BY <1>4 DEF StartWave
  <2>3. TasksOf(skips) \subseteq TasksOf(waves[current])
    BY DEF TasksOf, SkipsOf
  <2>4. \A r \in dispatched : TasksOf(Ancestors(r[1])) \cap failed' = {}
    <3>1. failed' \subseteq failed \cup TasksOf(waves[current])
      BY <2>1, <2>3
    <3> QED
      BY <2>1, <3>1, NewFailures DEF SkipInv
  <2>5. ASSUME NEW l \in sent PROVE TasksOf(Ancestors(l)) \cap failed' = {}
    <3>1. TasksOf(Ancestors(l)) \cap failed = {}
      BY <2>1, SentUntainted
    <3>2. TasksOf(Ancestors(l)) \cap TasksOf(waves[current]) = {}
      <4>1. l \in waves[current] /\ current <= current
        BY <2>1 DEF SchedTypeOK
      <4> QED
        BY <2>1, <4>1, EarlierTasks
    <3> QED
      BY <2>1, <2>3, <3>1, <3>2
  <2>6. Untainted'
    <3>1. ASSUME NEW r \in dispatched' PROVE TasksOf(Ancestors(r[1])) \cap failed' = {}
      <4>1. r \in dispatched \/ r[1] \in sent
        BY <2>2
      <4> QED
        BY <2>4, <2>5, <4>1
    <3> QED
      BY <1>1, <3>1, PlanFixed DEF Untainted
  <2>7. dispatched \subseteq dispatched' /\ failed \subseteq failed'
    BY <2>1, <2>2
  <2>8. SentOrFailed'
    BY <1>1, <2>1, <2>7 DEF SentOrFailed
  <2> QED
    BY <2>6, <2>8
<1>5. CASE EndWave
  <2>1. /\ pc = "waiting" /\ current' = current + 1
        /\ failed \subseteq failed'
        /\ failed' \subseteq failed \cup {log[i].task : i \in base+1..offset}
        /\ UNCHANGED <<waves, dispatched>>
    BY <1>5 DEF EndWave
  <2>2. current \in DOMAIN waves /\ offset <= base + expected /\ left < waveLeft + Second
    BY <2>1 DEF OnTime, WaveUnderway
  <2>3. PICK S \in SUBSET waves[current] : Underway(S)
    BY <2>1 DEF OnTime, WaveUnderway
  <2>4. Complete
    <3>1. ~TimedOut
      BY <2>2, SchedulerBounds DEF TimedOut, SchedTypeOK
    <3> QED
      BY <1>5, <3>1 DEF EndWave
  <2>5. offset = Len(log) /\ TasksOf(S) = {log[i].task : i \in base+1..offset}
    BY <2>2, <2>3, <2>4, CompleteWave
  <2>6. Untainted'
    <3>1. TasksOf(S) \subseteq TasksOf(waves[current])
      BY DEF TasksOf
    <3>2. \A r \in dispatched : TasksOf(Ancestors(r[1])) \cap failed' = {}
      <4>1. failed' \subseteq failed \cup TasksOf(waves[current])
        BY <2>1, <2>5, <3>1
      <4> QED
        BY <2>2, <4>1, NewFailures DEF SkipInv
    <3> QED
      BY <1>1, <2>1, <3>2, PlanFixed DEF Untainted
  <2>7. ASSUME NEW x \in waves[current]
        PROVE  <<x, plan.task[x]>> \in dispatched \/ plan.task[x] \in failed
    <3>1. CASE x \in S
      <4>1. plan.task[x] \in TasksOf(S)
        BY <3>1 DEF TasksOf
      <4>2. PICK i \in base+1..offset : log[i].task = plan.task[x]
        BY <2>5, <4>1
      <4>3. i \in 1..Len(log)
        BY DEF SchedTypeOK
      <4>4. PICK r \in dispatched : r[2] = plan.task[x]
        BY <4>2, <4>3 DEF LogOfRun
      <4>5. /\ r[2] = plan.task[r[1]] /\ r[1] \in plan.subs /\ x \in plan.subs
            /\ r = <<r[1], r[2]>>
        BY <2>2, LaterType DEF SkipInv, DispatchedBefore, SchedTypeOK, Rows
      <4>6. r[1] = x
        BY <4>4, <4>5 DEF DistinctGoals
      <4> QED
        BY <4>4, <4>5, <4>6
    <3>2. CASE x \notin S
      BY <2>3, <3>2 DEF Underway, TasksOf
    <3> QED
      BY <3>1, <3>2
  <2>8. SentOrFailed'
    <3>1. ASSUME NEW v \in DOMAIN waves, v < current + 1, NEW x \in waves[v]
          PROVE  <<x, plan.task[x]>> \in dispatched \/ plan.task[x] \in failed'
      BY <1>2, <2>1, <2>7, <3>1 DEF SentOrFailed
    <3> QED
      BY <1>1, <2>1, <3>1 DEF SentOrFailed
  <2> QED
    BY <2>6, <2>8
<1>6. CASE ~SkipWave /\ ~StartWave /\ ~EndWave
  <2>1. /\ UNCHANGED <<dispatched, failed, current>>
        /\ \/ waves' = waves /\ pc' = pc
           \/ pc = "planning" /\ pc' = "planning"
           \/ waves' = waves /\ pc = "planning" /\ current = 1
           \/ waves' = waves /\ pc = "between" /\ pc' = "done"
           \/ pc' \in {"rejected", "error"}
    BY <1>6 DEF OnTime, NothingSent, Next, Agent, Environment, schedVars, PlaceWave,
      RejectCycle, CreateTasks, CreateFails, Collect, Return, SkipFails,
      CollectFails, Tick, Execute, Reply, Ack, OldReply
  <2>2. Untainted'
    BY <1>1, <2>1, PlanFixed DEF Untainted
  <2>3. SentOrFailed'
    <3>1. CASE waves' = waves /\ pc = "planning" /\ current = 1
      <4>1. \A v \in DOMAIN waves : ~(v < 1)
        BY DEF SchedTypeOK
      <4> QED
        BY <2>1, <3>1, <4>1 DEF SentOrFailed
    <3>2. CASE ~(waves' = waves /\ pc = "planning" /\ current = 1)
      BY <1>1, <2>1, <3>2 DEF SentOrFailed
    <3> QED
      BY <3>1, <3>2
  <2> QED
    BY <2>2, <2>3
<1> QED
  BY <1>3, <1>4, <1>5, <1>6

(* Neither the dependents of a failed task nor theirs are or have been     *)
(* dispatched, for any graph of distinct goals and any errors.             *)
THEOREM FailuresContained == Spec => []FailureContained
<1> DEFINE Skip == DistinctGoals => SkipInv
<1>1. Init => ContainInv
  BY DEF Init, ContainInv, Untainted, SentOrFailed
<1>2. SchedTypeOK /\ WavesInOrder /\ Skip /\ OnTimeInv /\ ContainInv
        /\ [Next]_schedVars => ContainInv'
  <2> SUFFICES ASSUME SchedTypeOK, WavesInOrder, Skip, OnTimeInv, ContainInv,
                      [Next]_schedVars,
                      oldReplies' = 0, left' >= Second, DistinctGoals'
               PROVE  Untainted' /\ SentOrFailed'
    BY DEF ContainInv
  <2>1. DistinctGoals
    BY WavesFixed DEF DistinctGoals
  <2>2. left >= Second /\ oldReplies = 0
    BY TimePasses
  <2> QED
    BY <2>1, <2>2, ContainStep DEF ContainInv, OnTimeInv
<1>3. ContainInv => FailureContained
  BY DEF ContainInv, Untainted, FailureContained
<1> QED
  BY <1>1, <1>2, <1>3, SkipInvariant, OnTimeInvariant, SchedTyping, WavesRespectNeeds,
     PTL DEF Spec

-----------------------------------------------------------------------------
(* Replies stay true.  Every task that was answered was dispatched, so it  *)
(* is of an earlier wave than all that is marked.                          *)
Told(i) == IF log[i].ok THEN "success" ELSE "failed"

TrueInv ==
  \A i \in DOMAIN log : log[i].task # OldTask =>
    /\ taskState[log[i].task] = Told(i)
    /\ \E r \in dispatched : r[2] = log[i].task

LEMMA MarksAhead ==
  ASSUME SchedTypeOK, WavesInOrder, DistinctGoals, DispatchedBefore,
         SkipWave \/ StartWave \/ EndWave \/ SkipFails
  PROVE  \A r \in dispatched : taskState'[r[2]] = taskState[r[2]]
<1>1. \E S \in SUBSET plan.subs :
        /\ Mark(S)
        /\ \A l \in S, w \in DOMAIN waves :
             l \in waves[w] => w > current \/ (pc = "between" /\ w = current)
  <2>1. ASSUME pc = "between", current \in DOMAIN waves,
               NEW S \in SUBSET waves[current], Mark(S)
        PROVE  /\ S \in SUBSET plan.subs
               /\ \A l \in S, w \in DOMAIN waves : l \in waves[w] => w = current
    BY <2>1, LaterType DEF WavesInOrder
  <2>2. CASE SkipWave \/ StartWave \/ SkipFails
    <3>1. /\ pc = "between" /\ current \in DOMAIN waves
          /\ \E S \in SUBSET waves[current] : Mark(S)
      BY <2>2 DEF SkipWave, StartWave, SkipFails, SkipsOf, SchedTypeOK
    <3> QED
      BY <2>1, <3>1
  <2>3. CASE EndWave
    <3> DEFINE D == Doomed(current + 1, failed')
    <3>1. PICK missed \in SUBSET D : Mark(D \ missed)
      BY <2>3 DEF EndWave
    <3>2. D \subseteq plan.subs /\ \A l \in D : \E w \in DOMAIN waves :
                                     w >= current + 1 /\ l \in waves[w]
      BY LaterType DEF Doomed
    <3>3. current \in Nat /\ DOMAIN waves \subseteq Nat
      BY DEF SchedTypeOK
    <3> HIDE DEF D
    <3>4. \A l \in D, w \in DOMAIN waves : l \in waves[w] => w > current
      BY <3>2, <3>3 DEF WavesInOrder
    <3>5. D \ missed \in SUBSET plan.subs
      BY <3>2
    <3> QED
      BY <3>1, <3>4, <3>5
  <2> QED
    BY <2>2, <2>3
<1> QED
  BY <1>1, MarkElsewhere

LEMMA TrueStep ==
  ASSUME SchedTypeOK, WavesInOrder, DistinctGoals, SkipInv, TrueInv, [Next]_schedVars
  PROVE  TrueInv'
<1> USE DEF planVars, memoVars, waveVars, timeVars, rowVars, bounds, agentVars
<1>1. /\ Len(log) \in Nat /\ DOMAIN log = 1..Len(log)
      /\ \A i \in DOMAIN log : log[i].task # OldTask => log[i].task \in Tasks
  <2> DEFINE R == [task : Tasks \cup {OldTask}, ok : BOOLEAN]
  <2>1. log \in Seq(R)
    BY DEF SchedTypeOK
  <2>2. \A x \in R : x.task \in Tasks \cup {OldTask}
    OBVIOUS
  <2> HIDE DEF R
  <2>3. /\ Len(log) \in Nat /\ DOMAIN log = 1..Len(log)
        /\ \A i \in DOMAIN log : log[i] \in R
    BY <2>1
  <2> QED
    BY <2>2, <2>3
<1>2. ASSUME log' = log, dispatched \subseteq dispatched',
             \A r \in dispatched : r[2] \in {log[i].task : i \in DOMAIN log} =>
               taskState'[r[2]] = taskState[r[2]]
      PROVE  TrueInv'
  BY <1>2 DEF TrueInv, Told
<1>3. CASE SkipWave \/ StartWave \/ EndWave \/ SkipFails
  <2>1. log' = log /\ dispatched \subseteq dispatched'
    BY <1>3 DEF SkipWave, StartWave, EndWave, SkipFails
  <2> QED
    BY <1>2, <1>3, <2>1, MarksAhead DEF SkipInv
<1>4. CASE CreateTasks \/ CreateFails
  BY <1>2, <1>4 DEF CreateTasks, CreateFails, SkipInv, NothingYet
<1>5. CASE \E t \in Tasks : Execute(t)
  <2>1. PICK t \in Tasks : Execute(t)
    BY <1>5
  <2>2. /\ log' = log /\ dispatched' = dispatched
        /\ taskState[t] \in {"pending", "skipped"}
        /\ \A u \in Tasks : u # t => taskState'[u] = taskState[u]
    BY <2>1 DEF Execute, SchedTypeOK
  <2>3. \A i \in DOMAIN log : log[i].task # OldTask => log[i].task # t
    BY <2>2 DEF TrueInv, Told
  <2>4. \A r \in dispatched : r[2] \in Tasks
    BY DEF SchedTypeOK, Rows
  <2> QED
    BY <1>2, <2>2, <2>3, <2>4, PlansAssumption
<1>6. CASE \/ \E t \in Tasks : Reply(t)
           \/ OldReply
  <2>1. PICK e : /\ log' = Append(log, e)
                 /\ e.task # OldTask =>
                      /\ taskState[e.task] = IF e.ok THEN "success" ELSE "failed"
                      /\ \E r \in dispatched : r[2] = e.task
    <3>1. CASE OldReply
      BY <3>1 DEF OldReply
    <3>2. CASE \E t \in Tasks : Reply(t)
      <4>1. PICK t \in Tasks : Reply(t)
        BY <3>2
      <4> DEFINE e == [task |-> t, ok |-> taskState[t] = "success"]
      <4>2. /\ log' = Append(log, e) /\ e.task = t
            /\ taskState[t] = IF e.ok THEN "success" ELSE "failed"
            /\ \E r \in dispatched : r[2] = t
        BY <4>1 DEF Reply, Delivered
      <4> HIDE DEF e
      <4> QED
        BY <4>2
    <3> QED
      BY <1>6, <3>1, <3>2
  <2>2. taskState' = taskState /\ dispatched' = dispatched
    BY <1>6 DEF Reply, OldReply
  <2>3. /\ DOMAIN log' = 1..Len(log)+1 /\ log'[Len(log)+1] = e
        /\ \A i \in DOMAIN log : log'[i] = log[i]
    BY <2>1 DEF SchedTypeOK
  <2>4. ASSUME NEW i \in DOMAIN log', log'[i].task # OldTask
        PROVE  /\ taskState'[log'[i].task] = Told(i)'
               /\ \E r \in dispatched' : r[2] = log'[i].task
    <3>1. CASE i \in DOMAIN log
      BY <2>2, <2>3, <2>4, <3>1 DEF TrueInv, Told
    <3>2. CASE i = Len(log) + 1
      BY <2>1, <2>2, <2>3, <2>4, <3>2 DEF Told
    <3> QED
      BY <1>1, <2>3, <3>1, <3>2
  <2> QED
    BY <2>4 DEF TrueInv
<1>7. CASE \/ PlaceWave \/ RejectCycle \/ Collect \/ Return \/ CollectFails \/ Tick
           \/ \E r \in Rows : Ack(r)
           \/ UNCHANGED schedVars
  <2>1. log' = log /\ dispatched' = dispatched /\ taskState' = taskState
    BY <1>7 DEF PlaceWave, RejectCycle, Collect, Return, CollectFails, Tick, Ack,
      Delivery!Acknowledge, schedVars
  <2> QED
    BY <1>2, <2>1
<1> QED
  BY <1>3, <1>4, <1>5, <1>6, <1>7 DEF Next, Agent, Environment

(* What the agent was told of a task stays what the task's row says, for   *)
(* any graph of distinct goals, any timeout, replies and errors.           *)
THEOREM TrueReplies == Spec => []RepliesAreTrue
<1> DEFINE Skip == DistinctGoals => SkipInv
           Inv  == DistinctGoals => TrueInv
<1>1. Init => Inv
  BY DEF Init, TrueInv
<1>2. SchedTypeOK /\ WavesInOrder /\ Skip /\ Inv /\ [Next]_schedVars => Inv'
  <2> SUFFICES ASSUME SchedTypeOK, WavesInOrder, Skip, Inv, [Next]_schedVars,
                      DistinctGoals'
               PROVE  TrueInv'
    OBVIOUS
  <2>1. DistinctGoals
    BY WavesFixed DEF DistinctGoals
  <2> QED
    BY <2>1, TrueStep
<1>3. Inv => RepliesAreTrue
  BY DEF TrueInv, Told, RepliesAreTrue
<1> QED
  BY <1>1, <1>2, <1>3, SkipInvariant, SchedTyping, WavesRespectNeeds, PTL DEF Spec

-----------------------------------------------------------------------------
(* The scheduler keeps the promise it relies on.  Its environment does     *)
(* what AckDelivery says; its own writes of tasks.state are steps of       *)
(* AckDelivery too: none takes back that a task is finished.               *)
NothingDone == pc = "planning" => Finished = {}

LEMMA NothingDoneStep ==
  ASSUME SchedTypeOK, OutcomeInv, NothingDone, [Next]_schedVars PROVE NothingDone'
<1> SUFFICES ASSUME pc' = "planning" PROVE Finished' = {}
  BY DEF NothingDone
<1>1. pc = "planning" /\ taskState' = taskState
  BY DEF OutcomeInv, Next, Agent, Environment, schedVars, planVars, memoVars, waveVars,
    timeVars, rowVars, bounds, agentVars, PlaceWave, RejectCycle, CreateTasks,
    CreateFails, SkipWave, StartWave, Collect, EndWave, Return, SkipFails, CollectFails,
    Tick, Execute, Reply, Ack, OldReply, Delivered
<1> QED
  BY <1>1 DEF NothingDone, Finished

(* The whole system of the scheduler and the dispatcher it relies on, with *)
(* errors, timeouts and tasks that subtasks share, implements AckDelivery: *)
(* what was answered or acked stays finished though the agent marks tasks. *)
THEOREM SchedulerDelivers == Spec => Delivery!ADSpec
<1> USE DEF planVars, memoVars, waveVars, timeVars, rowVars, bounds, agentVars
<1>1. Init => NothingDone /\ Delivery!ADInit
  BY DEF Init, NothingDone, Finished, Delivery!ADInit
<1>2. SchedTypeOK /\ OutcomeInv /\ NothingDone /\ [Next]_schedVars
        => [Delivery!ADNext]_(Delivery!adVars)
  <2> SUFFICES ASSUME SchedTypeOK, OutcomeInv, NothingDone, [Next]_schedVars
               PROVE  [Delivery!ADNext]_(Delivery!adVars)
    OBVIOUS
  <2>1. CASE \E t \in Tasks : Reply(t)
    BY <2>1 DEF Reply, Delivery!ADNext
  <2>2. CASE \E r \in Rows : Ack(r)
    BY <2>2 DEF Ack, Delivery!ADNext
  <2>3. CASE ~(\E t \in Tasks : Reply(t)) /\ ~(\E r \in Rows : Ack(r))
    <3>1. answered' = answered /\ acknowledged' = acknowledged
      BY <2>3 DEF Next, Agent, Environment, schedVars, PlaceWave, RejectCycle,
        CreateTasks, CreateFails, SkipWave, StartWave, Collect, EndWave, Return,
        SkipFails, CollectFails, Tick, Execute, OldReply, Delivery!Finish
    <3>2. Finished \subseteq Finished'
      BY FinishedStays DEF NothingDone
    <3>3. Finished' \in SUBSET Tasks /\ Finished' = Finished \cup Finished'
      BY <3>2 DEF Finished
    <3>4. Delivery!Finish(Finished')
      BY <3>1, <3>3 DEF Delivery!Finish
    <3> QED
      BY <3>3, <3>4 DEF Delivery!ADNext
  <2> QED
    BY <2>1, <2>2, <2>3
<1> QED
  BY <1>1, <1>2, NothingDoneStep, OutcomesFinished, SchedTyping, PTL
    DEF Spec, Delivery!ADSpec

-----------------------------------------------------------------------------
(* What a decomposition is before it has become a plan: a list of subtasks *)
(* which have an id or not.  An id the agent gives is a position.          *)
Subtasks == [id : Ids \cup {NoId}, goal : Tasks, deps : SUBSET Ids]

IsList(list) == list \in Seq(Subtasks) /\ DOMAIN list \subseteq Ids

LEMMA NewId ==
  ASSUME NEW list, IsList(list), NEW i \in DOMAIN list, NEW taken
  PROVE  IdAt(list[i], i, taken) \in Ids
<1>1. i \in Ids
  BY DEF IsList
<1>2. list[i] \in Subtasks
  BY DEF IsList
<1>3. list[i].id \in Ids \cup {NoId}
  BY <1>2 DEF Subtasks
<1> QED
  BY <1>1, <1>3 DEF IdAt

(* The recursion of IdsOf, from one position to the next.                  *)
LEMMA IdsIterate ==
  ASSUME NEW list, IsList(list)
  PROVE  \E f \in [0..Len(list) -> Seq(Ids)] :
           /\ f[0] = <<>> /\ IdsOf(list) = f[Len(list)]
           /\ \A i \in DOMAIN list :
                f[i] = Append(f[i-1], IdAt(list[i], i, Range(f[i-1])))
<1> DEFINE n == Len(list)
           X == Seq(Ids)
           id(ids, i) == IdAt(list[i], i, Range(ids))
           next(ids) == IF Len(ids) < n THEN Append(ids, id(ids, Len(ids)+1)) ELSE ids
           s == [ids \in X |-> next(ids)]
           Eq(h) == h = [i \in 0..n |-> IF i = 0 THEN <<>>
                           ELSE Append(h[i-1], IdAt(list[i], i, Range(h[i-1])))]
<1>1. n = Len(list) /\ n \in Nat /\ DOMAIN list = 1..n
  BY DEF IsList
<1> HIDE DEF n
<1>2. \A ids : \A i \in 1..n : id(ids, i) \in Ids
  BY <1>1, NewId
<1> HIDE DEF id
<1>3. \A ids \in X : next(ids) \in X /\ (Len(ids) < n => Len(next(ids)) = Len(ids) + 1)
  <2> TAKE ids \in X
  <2>1. Len(ids) \in Nat
    OBVIOUS
  <2>2. CASE Len(ids) < n
    <3>1. Len(ids) + 1 \in 1..n
      BY <1>1, <2>1, <2>2
    <3>2. id(ids, Len(ids)+1) \in Ids
      BY <1>2, <3>1
    <3>3. next(ids) = Append(ids, id(ids, Len(ids)+1))
      BY <2>2
    <3> HIDE DEF next
    <3> QED
      BY <3>2, <3>3
  <2> QED
    BY <2>2
<1> HIDE DEF next
<1>4. PICK g \in [Nat -> X] : g[0] = <<>> /\ \A m \in Nat : g[m+1] = s[g[m]]
  <2> DEFINE none == <<>>
  <2>1. s \in [X -> X] /\ none \in X
    BY <1>3
  <2> HIDE DEF s, X, none
  <2>2. \E e \in [Nat -> X] : e[0] = none /\ \A m \in Nat : e[m+1] = s[e[m]]
    BY <2>1, Iterated
  <2> QED
    BY <2>2 DEF none
<1>5. \A m \in Nat : g[m] \in X /\ g[m+1] = next(g[m])
  <2> HIDE DEF X
  <2> QED
    BY <1>4
<1> HIDE DEF s
<1> DEFINE S == {m \in Nat : m <= n => Len(g[m]) = m}
<1>6. S = Nat
  <2>1. 0 \in S
    BY <1>4
  <2>2. ASSUME NEW m \in S PROVE m + 1 \in S
    <3> HIDE DEF X, Eq
    <3>0. m \in Nat /\ (m <= n => Len(g[m]) = m)
      OBVIOUS
    <3> HIDE DEF S
    <3> SUFFICES ASSUME m + 1 <= n PROVE Len(g[m+1]) = m + 1
      BY <3>0 DEF S
    <3>1. m \in Nat /\ m < n /\ Len(g[m]) = m
      BY <1>1, <3>0
    <3> QED
      BY <1>3, <1>5, <3>1
  <2>3. S \in SUBSET Nat
    OBVIOUS
  <2> HIDE DEF S
  <2> QED
    BY <2>1, <2>2, <2>3, InductiveSet
<1> DEFINE h == [i \in 0..n |-> g[i]]
<1>7. h \in [0..n -> X] /\ h[0] = <<>>
  <2>1. 0 \in 0..n /\ 0..n \subseteq Nat
    BY <1>1
  <2> HIDE DEF X, Eq
  <2>2. \A i \in 0..n : g[i] \in X
    BY <1>5, <2>1
  <2>3. h[0] = g[0]
    BY <2>1
  <2> QED
    BY <1>4, <2>2, <2>3
<1>8. ASSUME NEW i \in 1..n PROVE h[i] = Append(h[i-1], id(h[i-1], i))
  <2>0. n \in Nat /\ i \in Nat /\ 1 <= i /\ i <= n
    BY <1>1
  <2>1. i - 1 \in Nat /\ (i - 1) + 1 = i /\ i - 1 < n /\ i - 1 <= n /\ i - 1 \in 0..n /\ i \in 0..n
    <3> HIDE DEF X, Eq, S, h
    <3> QED
      BY <2>0
  <2>2. h[i] = g[i] /\ h[i-1] = g[i-1]
    BY <2>1
  <2>3. Len(g[i-1]) = i - 1
    BY <1>6, <2>1
  <2>4. g[i] = next(g[i-1])
    <3>1. g[(i-1)+1] = next(g[i-1])
      BY <1>5, <2>1
    <3> QED
      BY <2>1, <3>1
  <2>5. next(g[i-1]) = Append(g[i-1], id(g[i-1], i))
    BY <2>1, <2>3 DEF next
  <2> QED
    BY <2>2, <2>4, <2>5
<1> HIDE DEF h
<1>9. Eq(h)
  <2>1. \A i \in 0..n : i = 0 \/ i \in 1..n
    BY <1>1
  <2>2. \A i \in 0..n : h[i] = IF i = 0 THEN <<>>
                        ELSE Append(h[i-1], IdAt(list[i], i, Range(h[i-1])))
    BY <1>7, <1>8, <2>1 DEF id
  <2> QED
    BY <1>7, <2>2
<1> DEFINE f == CHOOSE e : Eq(e)
<1>10. Eq(f)
  <2>1. \E e : Eq(e)
    BY <1>9
  <2> HIDE DEF Eq
  <2> QED
    BY <2>1
<1>11. IdsOf(list) = f[n]
  BY DEF IdsOf, n
<1> HIDE DEF f
<1>12. f[0] = <<>> /\ \A i \in 1..n : f[i] = Append(f[i-1], id(f[i-1], i))
  <2>1. 0 \in 0..n /\ \A i \in 1..n : i \in 0..n /\ i # 0
    BY <1>1
  <2> QED
    BY <1>10, <2>1 DEF id
<1> DEFINE T == {m \in Nat : m <= n => f[m] = h[m]}
<1>13. T = Nat
  <2>1. 0 \in T
    BY <1>7, <1>12
  <2>2. ASSUME NEW m \in T PROVE m + 1 \in T
    <3> HIDE DEF X, Eq
    <3>0. m \in Nat /\ (m <= n => f[m] = h[m])
      OBVIOUS
    <3> HIDE DEF T
    <3> SUFFICES ASSUME m + 1 <= n PROVE f[m+1] = h[m+1]
      BY <3>0 DEF T
    <3>1. m + 1 \in 1..n /\ (m + 1) - 1 = m /\ f[m] = h[m]
      BY <1>1, <3>0
    <3>2. /\ f[m+1] = Append(f[(m+1)-1], id(f[(m+1)-1], m+1))
          /\ h[m+1] = Append(h[(m+1)-1], id(h[(m+1)-1], m+1))
      BY <1>8, <1>12, <3>1
    <3> QED
      BY <3>1, <3>2
  <2>3. T \in SUBSET Nat
    OBVIOUS
  <2> HIDE DEF T
  <2> QED
    BY <2>1, <2>2, <2>3, InductiveSet
<1>14. f[n] = h[n]
  <2> HIDE DEF X, Eq
  <2>1. n \in T
    <3> HIDE DEF T
    <3> QED
      BY <1>1, <1>13
  <2> QED
    BY <1>1, <2>1
<1> QED
  BY <1>1, <1>7, <1>8, <1>11, <1>14 DEF id

(* The ids of a list: each from its subtask, its position and the ids      *)
(* before it.                                                              *)
LEMMA IdsOfList ==
  ASSUME NEW list, IsList(list)
  PROVE  /\ IdsOf(list) \in Seq(Ids) /\ DOMAIN IdsOf(list) = DOMAIN list
         /\ \A i \in DOMAIN list :
              IdsOf(list)[i] = IdAt(list[i], i, {IdsOf(list)[j] : j \in 1..i-1})
<1> DEFINE n == Len(list)
<1>1. n = Len(list) /\ n \in Nat /\ DOMAIN list = 1..n
  BY DEF IsList
<1> HIDE DEF n
<1>2. PICK f \in [0..n -> Seq(Ids)] :
        /\ f[0] = <<>> /\ IdsOf(list) = f[n]
        /\ \A i \in 1..n : f[i] = Append(f[i-1], IdAt(list[i], i, Range(f[i-1])))
  <2>1. \E f \in [0..Len(list) -> Seq(Ids)] :
          /\ f[0] = <<>> /\ IdsOf(list) = f[Len(list)]
          /\ \A i \in DOMAIN list :
               f[i] = Append(f[i-1], IdAt(list[i], i, Range(f[i-1])))
    BY IdsIterate
  <2>2. Len(list) = n /\ DOMAIN list = 1..n
    BY <1>1
  <2> QED
    BY <2>1, <2>2, Zenon
<1> DEFINE Good(ids, m) ==
             /\ Len(ids) = m
             /\ \A i \in 1..m : ids[i] = IdAt(list[i], i, {ids[j] : j \in 1..i-1})
<1> HIDE DEF Good
<1> DEFINE S == {m \in Nat : m <= n => Good(f[m], m)}
<1>3. S = Nat
  <2>1. 0 \in S
    BY <1>2 DEF Good
  <2>2. ASSUME NEW m \in S PROVE m + 1 \in S
    <3> SUFFICES ASSUME m + 1 <= n PROVE Good(f[m+1], m+1)
      OBVIOUS
    <3>1. m \in 0..n /\ m + 1 \in 1..n /\ m + 1 \in 0..n /\ (m + 1) - 1 = m /\ m \in Nat
      BY <1>1
    <3> DEFINE a == f[m]
               x == IdAt(list[m+1], m+1, Range(a))
               b == f[m+1]
    <3>0. Good(a, m)
      BY <1>1, <3>1
    <3>2. a \in Seq(Ids) /\ b \in Seq(Ids) /\ b = Append(a, x)
      <4>1. f[m+1] = Append(f[(m+1)-1], IdAt(list[m+1], m+1, Range(f[(m+1)-1])))
        BY <1>2, <3>1
      <4> QED
        BY <1>2, <3>1, <4>1
    <3> HIDE DEF a, b
    <3>3. Len(a) = m /\ \A i \in 1..m : a[i] = IdAt(list[i], i, {a[j] : j \in 1..i-1})
      BY <3>0 DEF Good
    <3>4. x = IdAt(list[m+1], m+1, {a[j] : j \in 1..m})
      <4>1. DOMAIN a = 1..m
        BY <3>2, <3>3
      <4> QED
        BY <4>1 DEF Range
    <3> HIDE DEF x
    <3>5. Len(b) = m + 1 /\ b[m+1] = x /\ \A i \in 1..m : b[i] = a[i]
      BY <3>1, <3>2, <3>3
    <3>6. \A i \in 1..m+1 : {b[j] : j \in 1..i-1} = {a[j] : j \in 1..i-1}
      <4> TAKE i \in 1..m+1
      <4>1. \A j \in 1..i-1 : b[j] = a[j]
        BY <3>1, <3>5
      <4> QED
        BY <4>1
    <3>7. \A i \in 1..m+1 : i \in 1..m \/ (i = m+1 /\ i-1 = m)
      BY <3>1
    <3>8. \A i \in 1..m+1 : b[i] = IdAt(list[i], i, {b[j] : j \in 1..i-1})
      BY <3>3, <3>4, <3>5, <3>6, <3>7
    <3> QED
      BY <3>5, <3>8 DEF Good, b
  <2>3. S \in SUBSET Nat
    OBVIOUS
  <2> HIDE DEF S
  <2> QED
    BY <2>1, <2>2, <2>3, InductiveSet
<1>4. Good(f[n], n)
  BY <1>1, <1>3
<1>5. IdsOf(list) \in Seq(Ids) /\ Good(IdsOf(list), n)
  BY <1>1, <1>2, <1>4
<1>6. DOMAIN IdsOf(list) = 1..n
  BY <1>5 DEF Good
<1> QED
  BY <1>1, <1>5, <1>6 DEF Good

(* The plan of a list: of subtasks with one id it has the last.            *)
LEMMA PlanOfList ==
  ASSUME NEW list, IsList(list)
  PROVE  \E last \in [Range(IdsOf(list)) -> DOMAIN list] :
           /\ \A l \in Range(IdsOf(list)) :
                /\ IdsOf(list)[last[l]] = l
                /\ \A j \in DOMAIN list : IdsOf(list)[j] = l => j <= last[l]
           /\ PlanOf(list) =
                [subs  |-> Range(IdsOf(list)),
                 needs |-> [l \in Range(IdsOf(list)) |-> list[last[l]].deps],
                 task  |-> [l \in Range(IdsOf(list)) |-> list[last[l]].goal],
                 tasks |-> {list[i].goal : i \in DOMAIN list}]
<1> DEFINE D == DOMAIN list
           id == IdsOf(list)
           n == Normalized(list)
           ids == Range(id)
           IsLast(i, l) == n[i].id = l /\ \A j \in DOMAIN n : n[j].id = l => j <= i
           last == [l \in ids |-> CHOOSE i \in DOMAIN n : IsLast(i, l)]
<1>1. D = 1..Len(list) /\ Len(list) \in Nat /\ D \subseteq Nat
  BY DEF IsList
<1>2. DOMAIN id = D
  BY IdsOfList
<1> HIDE DEF id
<1>3. /\ DOMAIN n = D
      /\ \A i \in D : n[i].id = id[i] /\ n[i].goal = list[i].goal /\ n[i].deps = list[i].deps
  <2>1. n = [i \in D |-> [list[i] EXCEPT !.id = id[i]]]
    BY DEF Normalized, id
  <2>2. \A i \in D : list[i] \in Subtasks
    BY DEF IsList
  <2> HIDE DEF n, D
  <2> QED
    BY <2>1, <2>2 DEF Subtasks
<1>4. PlanOf(list) = [subs  |-> ids,
                      needs |-> [l \in ids |-> n[last[l]].deps],
                      task  |-> [l \in ids |-> n[last[l]].goal],
                      tasks |-> {n[i].goal : i \in DOMAIN n}]
  BY DEF PlanOf, id
<1> HIDE DEF n, D
<1>5. ASSUME NEW l \in ids PROVE \E i \in D : IsLast(i, l)
  <2> DEFINE S == {Len(list) - i : i \in {j \in D : id[j] = l}}
  <2>1. S \in SUBSET Nat /\ S # {}
    <3>1. \E j \in D : id[j] = l
      BY <1>2 DEF Range
    <3> QED
      BY <1>1, <3>1
  <2>2. PICK m \in S : \A k \in S : m <= k
    <3> HIDE DEF S
    <3> QED
      BY <2>1, SmallestNumber
  <2>3. PICK i \in D : id[i] = l /\ m = Len(list) - i
    BY <2>2
  <2>4. ASSUME NEW j \in D, id[j] = l PROVE j <= i
    <3>1. Len(list) - i <= Len(list) - j
      BY <2>2, <2>3, <2>4
    <3> QED
      BY <1>1, <3>1
  <2> QED
    BY <1>3, <2>3, <2>4
<1>6. \A l \in ids : last[l] \in D /\ IsLast(last[l], l)
  <2> TAKE l \in ids
  <2>1. last[l] = CHOOSE i \in D : IsLast(i, l)
    BY <1>3
  <2> HIDE DEF IsLast, last, ids
  <2> QED
    BY <1>5, <2>1
<1> HIDE DEF last
<1>7. \E e : e = last /\ e \in [ids -> D]
  <2>1. last = [l \in ids |-> last[l]]
    BY DEF last
  <2> HIDE DEF ids
  <2> QED
    BY <1>6, <2>1
<1>8. \A l \in ids : id[last[l]] = l /\ \A j \in D : id[j] = l => j <= last[l]
  BY <1>3, <1>6
<1>9. PlanOf(list) = [subs  |-> ids,
                      needs |-> [l \in ids |-> list[last[l]].deps],
                      task  |-> [l \in ids |-> list[last[l]].goal],
                      tasks |-> {list[i].goal : i \in D}]
  <2>1. [l \in ids |-> n[last[l]].deps] = [l \in ids |-> list[last[l]].deps]
    BY <1>3, <1>6
  <2>2. [l \in ids |-> n[last[l]].goal] = [l \in ids |-> list[last[l]].goal]
    BY <1>3, <1>6
  <2>3. {n[i].goal : i \in DOMAIN n} = {list[i].goal : i \in D}
    BY <1>3
  <2> QED
    BY <1>4, <2>1, <2>2, <2>3
<1> QED
  BY <1>7, <1>8, <1>9 DEF id, D

LEMMA ListIsPlan ==
  ASSUME NEW list, IsList(list)
  PROVE  IsPlan(PlanOf(list))
<1> DEFINE ids == Range(IdsOf(list))
<1>1. ids \subseteq Ids
  <2>1. IdsOf(list) \in Seq(Ids)
    BY IdsOfList
  <2> QED
    BY <2>1 DEF Range
<1>2. \A i \in DOMAIN list : list[i].deps \in SUBSET Ids /\ list[i].goal \in Tasks
  <2>1. \A i \in DOMAIN list : list[i] \in Subtasks
    BY DEF IsList
  <2> QED
    BY <2>1 DEF Subtasks
<1> HIDE DEF ids
<1>3. PICK last \in [ids -> DOMAIN list] :
        PlanOf(list) = [subs  |-> ids,
                        needs |-> [l \in ids |-> list[last[l]].deps],
                        task  |-> [l \in ids |-> list[last[l]].goal],
                        tasks |-> {list[i].goal : i \in DOMAIN list}]
  BY PlanOfList DEF ids
<1>4. \A l \in ids : last[l] \in DOMAIN list
  OBVIOUS
<1> QED
  BY <1>1, <1>2, <1>3, <1>4 DEF IsPlan

(* What decompose_goal and the heuristic make are such lists.              *)
LEMMA FromLLMList ==
  ASSUME NEW list, IsList(list)
  PROVE  /\ IsList(FromLLM(list)) /\ DOMAIN FromLLM(list) = DOMAIN list
         /\ \A i \in DOMAIN list :
              /\ FromLLM(list)[i].id = IF list[i].id = NoId THEN i ELSE list[i].id
              /\ FromLLM(list)[i].goal = list[i].goal
              /\ FromLLM(list)[i].deps \subseteq Range(IdsOf(list)) \ {FromLLM(list)[i].id}
<1> DEFINE D == DOMAIN list
           id(i) == IF list[i].id = NoId THEN i ELSE list[i].id
           f == FromLLM(list)
<1>1. D = 1..Len(list) /\ Len(list) \in Nat /\ D \subseteq Ids /\ \A i \in D : list[i] \in Subtasks
  BY DEF IsList
<1>2. f = [i \in D |-> [list[i] EXCEPT !.id = id(i), !.deps = (@ \cap Range(IdsOf(list))) \ {id(i)}]]
  BY DEF FromLLM
<1> HIDE DEF D, f
<1>3. DOMAIN f = D
  BY <1>2
<1>4. ASSUME NEW i \in D
      PROVE  /\ f[i] \in Subtasks /\ f[i].id = id(i) /\ f[i].goal = list[i].goal
             /\ f[i].deps \subseteq Range(IdsOf(list)) \ {id(i)}
  <2>1. list[i] \in Subtasks /\ id(i) \in Ids
    BY <1>1 DEF Subtasks
  <2>2. f[i] = [list[i] EXCEPT !.id = id(i), !.deps = (@ \cap Range(IdsOf(list))) \ {id(i)}]
    BY <1>2
  <2> HIDE DEF id
  <2> QED
    BY <2>1, <2>2 DEF Subtasks
<1>5. f \in Seq(Subtasks)
  <2>1. f \in [1..Len(list) -> Subtasks]
    BY <1>1, <1>2, <1>4
  <2> HIDE DEF f
  <2> QED
    BY <1>1, <2>1
<1>6. IsList(f)
  BY <1>1, <1>3, <1>5 DEF IsList
<1> QED
  BY <1>3, <1>4, <1>6 DEF f, D

LEMMA HeuristicList ==
  ASSUME NEW goals \in Seq(Tasks), DOMAIN goals \subseteq Ids
  PROVE  IsList(Heuristic(goals)) /\ DOMAIN Heuristic(goals) = DOMAIN goals
<1>1. Heuristic(goals) \in [1..Len(goals) -> Subtasks]
  BY DEF Heuristic, Subtasks
<1>2. Len(goals) \in Nat /\ DOMAIN goals = 1..Len(goals)
  OBVIOUS
<1>3. Heuristic(goals) \in Seq(Subtasks) /\ DOMAIN Heuristic(goals) = DOMAIN goals
  BY <1>1, <1>2
<1> QED
  BY <1>3 DEF IsList

(* Every decomposition is a plan, whatever ids and dependencies the model  *)
(* answers with: what WaveScheduler assumes of its plans.                  *)
THEOREM DecompositionsArePlans ==
  /\ \A list : IsList(list) => IsPlan(PlanOf(FromLLM(list)))
  /\ \A goals \in Seq(Tasks) : DOMAIN goals \subseteq Ids => IsPlan(PlanOf(Heuristic(goals)))
<1>1. ASSUME NEW list, IsList(list) PROVE IsPlan(PlanOf(FromLLM(list)))
  BY <1>1, FromLLMList, ListIsPlan
<1>2. ASSUME NEW goals \in Seq(Tasks), DOMAIN goals \subseteq Ids
      PROVE  IsPlan(PlanOf(Heuristic(goals)))
  BY <1>2, HeuristicList, ListIsPlan
<1> QED
  BY <1>1, <1>2

(* No subtask has the id that a later position gives.                      *)
NoneAhead(list) == \A i, j \in DOMAIN list : j < i => list[j].id # i

LEMMA IdsDiffer ==
  ASSUME NEW list, IsList(list), NoneAhead(list),
         NEW i \in DOMAIN list, NEW j \in DOMAIN list, IdsOf(list)[i] = IdsOf(list)[j]
  PROVE  i = j
<1>1. DOMAIN list \subseteq Nat
  BY DEF IsList
<1>2. ASSUME NEW a \in DOMAIN list, NEW b \in DOMAIN list, b < a
      PROVE  IdsOf(list)[a] # IdsOf(list)[b]
  <2> DEFINE id == IdsOf(list)
             T(k) == {id[m] : m \in 1..k-1}
  <2>1. id[a] = IdAt(list[a], a, T(a)) /\ id[b] = IdAt(list[b], b, T(b))
    BY IdsOfList
  <2>2. id[b] \in T(a)
    <3>1. b \in 1..a-1
      <4>1. b >= 1
        BY DEF IsList
      <4> QED
        BY <1>1, <1>2, <4>1
    <3> QED
      BY <3>1
  <2>3. id[b] # a
    BY <1>1, <1>2, <2>1 DEF IdAt, NoneAhead
  <2> HIDE DEF id, T
  <2>4. id[a] = a \/ id[a] \notin T(a)
    BY <2>1 DEF IdAt
  <2>5. id[a] # id[b]
    BY <2>2, <2>3, <2>4
  <2> QED
    BY <2>5 DEF id
<1>3. i < j \/ j < i \/ i = j
  BY <1>1
<1> QED
  BY <1>2, <1>3

(* Then every task the agent creates is one of the subtasks it dispatches: *)
(* what NothingForgotten asks for holds of what the model decomposes, and  *)
(* of what the heuristic does.                                             *)
LEMMA ListKeepsTasks ==
  ASSUME NEW list, IsList(list), NoneAhead(list), plan = PlanOf(list)
  PROVE  EveryTaskKept
<1> DEFINE id == IdsOf(list)
           D == DOMAIN list
           ids == Range(id)
<1>1. DOMAIN id = D
  BY IdsOfList
<1>2. \A i, j \in D : id[i] = id[j] => i = j
  BY IdsDiffer
<1> HIDE DEF id, D
<1>3. PICK last \in [ids -> D] :
        /\ \A l \in ids : id[last[l]] = l
        /\ PlanOf(list) = [subs  |-> ids,
                           needs |-> [l \in ids |-> list[last[l]].deps],
                           task  |-> [l \in ids |-> list[last[l]].goal],
                           tasks |-> {list[i].goal : i \in D}]
  BY PlanOfList DEF id, D
<1>4. /\ plan.subs = ids /\ plan.tasks = {list[i].goal : i \in D}
      /\ \A l \in ids : plan.task[l] = list[last[l]].goal
  BY <1>3
<1>5. \A l \in ids : last[l] \in D
  BY <1>3
<1>6. \A i \in D : id[i] \in ids /\ last[id[i]] = i
  <2>1. \A i \in D : id[i] \in ids
    BY <1>1 DEF Range
  <2> QED
    BY <1>2, <1>3, <1>5, <2>1
<1> HIDE DEF ids
<1>7. TasksOf(plan.subs) = {list[last[l]].goal : l \in ids}
  BY <1>4 DEF TasksOf
<1>8. {list[last[l]].goal : l \in ids} = {list[i].goal : i \in D}
  <2>1. \A i \in D : \E l \in ids : last[l] = i
    BY <1>6
  <2> QED
    BY <1>5, <2>1
<1> QED
  BY <1>4, <1>7, <1>8 DEF EveryTaskKept

THEOREM TasksKept ==
  /\ \A list : IsList(list) /\ NoneAhead(list) /\ plan = PlanOf(FromLLM(list)) => EveryTaskKept
  /\ \A goals \in Seq(Tasks) :
       DOMAIN goals \subseteq Ids /\ plan = PlanOf(Heuristic(goals)) => EveryTaskKept
<1>1. ASSUME NEW list, IsList(list), NoneAhead(list), plan = PlanOf(FromLLM(list))
      PROVE  EveryTaskKept
  <2>1. ASSUME NEW i \in DOMAIN list, NEW j \in DOMAIN list, j < i
        PROVE  FromLLM(list)[j].id # i
    <3>1. DOMAIN list \subseteq Nat
      BY <1>1 DEF IsList
    <3>2. list[j].id # i /\ j # i
      BY <1>1, <2>1, <3>1 DEF NoneAhead
    <3> QED
      BY <1>1, <3>2, FromLLMList
  <2>2. IsList(FromLLM(list)) /\ NoneAhead(FromLLM(list))
    BY <1>1, <2>1, FromLLMList DEF NoneAhead
  <2> QED
    BY <1>1, <2>2, ListKeepsTasks
<1>2. ASSUME NEW goals \in Seq(Tasks), DOMAIN goals \subseteq Ids, plan = PlanOf(Heuristic(goals))
      PROVE  EveryTaskKept
  <2>1. ASSUME NEW i \in DOMAIN goals, NEW j \in DOMAIN goals
        PROVE  Heuristic(goals)[j].id # i
    <3>1. Heuristic(goals)[j].id = 0 /\ i # 0
      BY DEF Heuristic, NoId
    <3> QED
      BY <3>1
  <2>2. IsList(Heuristic(goals)) /\ NoneAhead(Heuristic(goals))
    BY <1>2, <2>1, HeuristicList DEF NoneAhead
  <2> QED
    BY <1>2, <2>2, ListKeepsTasks
<1> QED
  BY <1>1, <1>2

(* Subtasks with goals of their own have tasks of their own, whatever      *)
(* their ids: what the properties about skipped and failed tasks ask for.  *)
THEOREM GoalsDistinct ==
  ASSUME NEW list, IsList(list), plan = PlanOf(FromLLM(list)),
         \A i, j \in DOMAIN list : list[i].goal = list[j].goal => i = j
  PROVE  DistinctGoals
<1> DEFINE f == FromLLM(list)
           id == IdsOf(f)
           D == DOMAIN list
           ids == Range(id)
<1>1. IsList(f) /\ DOMAIN f = D /\ \A i \in D : f[i].goal = list[i].goal
  BY FromLLMList
<1> HIDE DEF f, D
<1>2. PICK last \in [ids -> D] :
        /\ \A l \in ids : id[last[l]] = l
        /\ PlanOf(f) = [subs  |-> ids,
                        needs |-> [l \in ids |-> f[last[l]].deps],
                        task  |-> [l \in ids |-> f[last[l]].goal],
                        tasks |-> {f[i].goal : i \in D}]
  BY <1>1, PlanOfList
<1> HIDE DEF id, ids
<1>3. plan.subs = ids /\ \A l \in ids : plan.task[l] = f[last[l]].goal /\ last[l] \in D
  BY <1>2 DEF f
<1>4. ASSUME NEW k \in ids, NEW l \in ids, plan.task[k] = plan.task[l] PROVE k = l
  <2>1. last[k] = last[l]
    BY <1>1, <1>3, <1>4 DEF D
  <2> QED
    BY <1>2, <2>1
<1> QED
  BY <1>3, <1>4 DEF DistinctGoals

(* With ids that differ, no subtask depends on itself.  (With an id given  *)
(* twice one may: see the instances with odd lists.)                       *)
THEOREM NoneNeedsItself ==
  ASSUME NEW list, IsList(list), plan = PlanOf(FromLLM(list)),
         \A i, j \in DOMAIN list : FromLLM(list)[i].id = FromLLM(list)[j].id => i = j
  PROVE  \A l \in plan.subs : l \notin Needs(l)
<1> DEFINE f == FromLLM(list)
           id == IdsOf(f)
           D == DOMAIN list
           ids == Range(id)
<1>1. /\ IsList(f) /\ DOMAIN f = D
      /\ \A i \in D : f[i].id \notin f[i].deps
      /\ \A i, j \in D : f[i].id = f[j].id => i = j
      /\ \A i \in D : f[i].id = IF list[i].id = NoId THEN i ELSE list[i].id
  BY FromLLMList
<1> HIDE DEF f
<1>2. D = 1..Len(list) /\ Len(list) \in Nat
  BY DEF IsList
<1>3. \A i \in D : id[i] = IdAt(f[i], i, {id[j] : j \in 1..i-1}) /\ id[i] \in Ids
  BY <1>1, IdsOfList
<1> HIDE DEF id, D
<1>4. \A i \in D : id[i] = f[i].id
  <2> DEFINE S == {m \in Nat : \A i \in D : i <= m => id[i] = f[i].id}
  <2>1. 0 \in S
    BY <1>2
  <2>2. ASSUME NEW m \in S PROVE m + 1 \in S
    <3> SUFFICES ASSUME m + 1 \in D PROVE id[m+1] = f[m+1].id
      <4>1. m \in Nat /\ \A i \in D : i <= m + 1 => i <= m \/ i = m + 1
        BY <1>2
      <4> QED
        BY <4>1
    <3>1. m \in Nat /\ 1..(m+1)-1 = 1..m /\ 1..m \subseteq D
      BY <1>2
    <3>2. \A j \in 1..m : id[j] = f[j].id /\ f[j].id # f[m+1].id
      BY <1>1, <3>1
    <3>3. f[m+1].id \notin {id[j] : j \in 1..(m+1)-1}
      BY <3>1, <3>2
    <3>4. f[m+1].id # NoId
      BY <1>1, <1>2 DEF NoId
    <3> QED
      BY <1>3, <3>3, <3>4 DEF IdAt
  <2>3. S \in SUBSET Nat
    OBVIOUS
  <2> HIDE DEF S
  <2>4. S = Nat
    BY <2>1, <2>2, <2>3, InductiveSet
  <2> QED
    BY <1>2, <2>4 DEF S
<1>5. PICK last \in [ids -> D] :
        /\ \A l \in ids : id[last[l]] = l
        /\ PlanOf(f) = [subs  |-> ids,
                        needs |-> [l \in ids |-> f[last[l]].deps],
                        task  |-> [l \in ids |-> f[last[l]].goal],
                        tasks |-> {f[i].goal : i \in D}]
  BY <1>1, PlanOfList DEF id
<1> HIDE DEF ids
<1>6. plan.subs = ids /\ \A l \in ids : plan.needs[l] = f[last[l]].deps /\ last[l] \in D
  BY <1>5 DEF f
<1>7. \A l \in ids : l \notin plan.needs[l]
  BY <1>1, <1>4, <1>5, <1>6
<1> QED
  BY <1>6, <1>7 DEF Needs

-----------------------------------------------------------------------------
(* The depth-first search of get_execution_order, for any flow: an         *)
(* invariant about its calls of visit and what they have visited.          *)
Frames == [step : StepIds, taken : Nat]

FlowTypeOK ==
  /\ steps \in Seq(StepIds) /\ deps \in [StepIds -> Seq(StepIds)]
  /\ call \in {"none", "visiting", "returned", "raised"}
  /\ looped \in 0..Len(steps)
  /\ frames \in Seq(Frames) /\ result \in Seq(StepIds)

Once(s) == \A i, j \in DOMAIN s : s[i] = s[j] => i = j

\* The dependency that a call of visit has come to.
Dependency(f) == deps[f.step][f.taken]

\* The calls of c are each the visit of the dependency that the one below has
\* come to, and their other dependencies are visited, as far as they have come;
\* that of the last is under way too where open is TRUE.
Stack(c, open) ==
  /\ c \in Seq(Frames)
  /\ \A i \in DOMAIN c : /\ c[i].step \in Known \ Visited
                         /\ c[i].taken \in 0..Len(deps[c[i].step])
  /\ \A i, j \in DOMAIN c : c[i].step = c[j].step => i = j
  /\ \A i \in 1..Len(c)-1 : c[i].taken > 0 /\ Dependency(c[i]) = c[i+1].step
  /\ \A i \in DOMAIN c : \A j \in 1..c[i].taken :
       \/ deps[c[i].step][j] \in Visited \cup Unknown
       \/ j = c[i].taken /\ (i < Len(c) \/ open)

InOrder(s) == \A i \in DOMAIN s : Range(deps[s[i]]) \subseteq {s[j] : j \in 1..i-1} \cup Unknown

\* Inductive: what is visited was visited in order and its dependencies before
\* it, the calls under way are a path in the graph, and the steps of the loop
\* are visited or the first of them.
FlowInv ==
  /\ Once(steps) /\ Once(result) /\ InOrder(result)
  /\ Visited \subseteq Known
  /\ Stack(frames, FALSE)
  /\ call = "visiting" => \A k \in 1..looped :
       steps[k] \in Visited \/ (frames # <<>> /\ frames[1].step = steps[k])
  /\ call # "visiting" => frames = <<>>
  /\ call = "returned" => Known \subseteq Visited
  /\ call = "raised" => Circular

LEMMA FlowInitOK == FlowInit => FlowTypeOK /\ FlowInv
<1> SUFFICES ASSUME FlowInit PROVE FlowTypeOK /\ FlowInv
  OBVIOUS
<1>1. FlowTypeOK
  BY DEF FlowInit, FlowTypeOK
<1>2. FlowInv
  BY DEF FlowInit, FlowInv, Once, InOrder, Stack, Known, Visited, Range, Circular
<1> QED
  BY <1>1, <1>2

(* What is below the last element of a sequence.                           *)
LEMMA FrontOf ==
  ASSUME NEW X, NEW s \in Seq(X), s # <<>>
  PROVE  /\ Len(s) \in Nat \ {0} /\ Len(s) \in DOMAIN s /\ Last(s) = s[Len(s)] /\ Last(s) \in X
         /\ Front(s) \in Seq(X) /\ Len(Front(s)) = Len(s) - 1
         /\ DOMAIN Front(s) = 1..Len(s)-1 /\ \A i \in 1..Len(s)-1 : Front(s)[i] = s[i]
<1> DEFINE m == Len(s) - 1
           t == SubSeq(s, 1, m)
<1>1. Len(s) \in Nat \ {0} /\ m \in Nat /\ \A i \in 1..m : s[i] \in X
  OBVIOUS
<1>2. Len(s) \in DOMAIN s /\ Last(s) = s[Len(s)] /\ Last(s) \in X
  BY <1>1 DEF Last
<1>3. Front(s) = t
  BY DEF Front
<1> HIDE DEF m
<1>4. /\ t \in Seq(X) /\ Len(t) = IF 1 <= m THEN m-1+1 ELSE 0
      /\ \A i \in 1..m-1+1 : t[i] = s[1+i-1]
  BY <1>1, SubSeqProperties
<1> HIDE DEF t
<1>5. Len(t) = m /\ \A i \in 1..m : t[i] = s[i]
  BY <1>1, <1>4
<1>6. DOMAIN t = 1..m
  BY <1>4, <1>5
<1> QED
  BY <1>1, <1>2, <1>3, <1>4, <1>5, <1>6 DEF m

(* The last call of visit has come to its next dependency.                 *)
Advanced == [frames EXCEPT ![Len(frames)].taken = @ + 1]

LEMMA AdvancedStack ==
  ASSUME FlowTypeOK, Stack(frames, FALSE), frames # <<>>,
         Last(frames).taken < Len(deps[Last(frames).step])
  PROVE  /\ Stack(Advanced, TRUE) /\ Len(Advanced) = Len(frames) /\ Advanced # <<>>
         /\ \A i \in DOMAIN frames : Advanced[i].step = frames[i].step
         /\ Advanced[Len(frames)].taken = Last(frames).taken + 1
<1> DEFINE n == Len(frames)
           c == Advanced
<1>0. frames \in Seq(Frames)
  BY DEF FlowTypeOK
<1>1. /\ n = Len(frames) /\ n \in Nat \ {0} /\ n \in DOMAIN frames /\ DOMAIN frames = 1..n
      /\ Last(frames) = frames[n] /\ \A i \in 1..n : frames[i] \in Frames
  <2>1. Len(frames) \in Nat \ {0} /\ Last(frames) = frames[Len(frames)]
    BY <1>0, FrontOf
  <2> QED
    BY <1>0, <2>1
<1> HIDE DEF n
<1>2. /\ c \in Seq(Frames) /\ Len(c) = n /\ DOMAIN c = 1..n
      /\ \A i \in 1..n : c[i].step = frames[i].step
      /\ \A i \in 1..n-1 : c[i] = frames[i]
      /\ c[n].taken = frames[n].taken + 1
  <2> DEFINE g == [frames[n] EXCEPT !.taken = @ + 1]
  <2>1. g \in Frames /\ g.step = frames[n].step /\ g.taken = frames[n].taken + 1
    BY <1>1 DEF Frames
  <2>2. c = [frames EXCEPT ![n] = g]
    BY <1>1 DEF Advanced
  <2> HIDE DEF c, g
  <2>3. /\ c \in Seq(Frames) /\ Len(c) = n
        /\ \A j \in 1..n : c[j] = IF j = n THEN g ELSE frames[j]
    BY <1>0, <1>1, <2>1, <2>2, ExceptSeq
  <2>4. DOMAIN c = 1..n
    BY <2>3
  <2>5. c[n] = g
    BY <1>1, <2>3
  <2>6. \A i \in 1..n-1 : c[i] = frames[i] /\ c[i].step = frames[i].step
    <3>1. \A i \in 1..n-1 : i \in 1..n /\ i # n
      BY <1>1
    <3> QED
      BY <2>3, <3>1
  <2>7. \A i \in 1..n : i = n \/ i \in 1..n-1
    BY <1>1
  <2> QED
    BY <2>1, <2>3, <2>4, <2>5, <2>6, <2>7
<1> HIDE DEF c
<1>3. \A i \in 1..n : c[i].step \in Known \ Visited /\ c[i].taken \in 0..Len(deps[c[i].step])
  <2> TAKE i \in 1..n
  <2>1. frames[i].step \in Known \ Visited /\ frames[i].taken \in 0..Len(deps[frames[i].step])
    BY <1>1 DEF Stack
  <2>2. CASE i = n
    <3>1. deps[frames[n].step] \in Seq(StepIds) /\ frames[n].taken \in Nat
      BY <1>1 DEF FlowTypeOK, Frames
    <3>2. frames[n].taken + 1 \in 0..Len(deps[frames[n].step])
      BY <1>1, <3>1
    <3> QED
      BY <1>1, <1>2, <2>1, <2>2, <3>2
  <2>3. CASE i \in 1..n-1
    BY <1>2, <2>1, <2>3
  <2>4. i = n \/ i \in 1..n-1
    BY <1>1
  <2> QED
    BY <2>2, <2>3, <2>4
<1>4. \A i, j \in DOMAIN c : c[i].step = c[j].step => i = j
  BY <1>1, <1>2 DEF Stack
<1>5. \A i \in 1..n-1 : c[i].taken > 0 /\ Dependency(c[i]) = c[i+1].step
  <2> TAKE i \in 1..n-1
  <2>1. frames[i].taken > 0 /\ Dependency(frames[i]) = frames[i+1].step /\ i + 1 \in 1..n
    BY <1>1 DEF Stack
  <2> QED
    BY <1>2, <2>1
<1>6. ASSUME NEW i \in DOMAIN c, NEW j \in 1..c[i].taken
      PROVE  deps[c[i].step][j] \in Visited \cup Unknown \/ j = c[i].taken
  <2>1. CASE i \in 1..n-1
    BY <1>1, <1>2, <2>1, <1>6 DEF Stack
  <2>2. CASE i = n
    <3>1. j = c[n].taken \/ j \in 1..frames[n].taken
      BY <1>1, <1>2, <1>6, <2>2 DEF Frames
    <3> QED
      BY <1>1, <1>2, <2>2, <3>1 DEF Stack
  <2> QED
    BY <1>1, <1>2, <2>1, <2>2
<1>7. Stack(c, TRUE)
  BY <1>2, <1>3, <1>4, <1>5, <1>6 DEF Stack
<1> QED
  BY <1>1, <1>2, <1>7 DEF c, n

(* The dependency that was under way turns out to be visited, ...          *)
LEMMA StackCloses ==
  ASSUME NEW c, Stack(c, TRUE), c # <<>> => Dependency(Last(c)) \in Visited \cup Unknown
  PROVE  Stack(c, FALSE)
<1>1. Len(c) \in Nat /\ DOMAIN c = 1..Len(c) /\ (c # <<>> <=> Len(c) > 0)
  BY DEF Stack
<1>2. ASSUME NEW i \in DOMAIN c, NEW j \in 1..c[i].taken
      PROVE  deps[c[i].step][j] \in Visited \cup Unknown \/ (j = c[i].taken /\ i < Len(c))
  <2>1. CASE i = Len(c)
    BY <1>1, <2>1, <1>2 DEF Stack, Dependency, Last
  <2>2. CASE i < Len(c)
    BY <1>1, <2>2, <1>2 DEF Stack
  <2> QED
    BY <1>1, <2>1, <2>2
<1> QED
  BY <1>2 DEF Stack

(* ... or is visited from now on.                                          *)
LEMMA StackGrows ==
  ASSUME NEW c, Stack(c, TRUE), NEW s \in Known \ Visited, s \in StepIds,
         \A i \in DOMAIN c : c[i].step # s,
         c # <<>> => Last(c).taken > 0 /\ Dependency(Last(c)) = s
  PROVE  Stack(Append(c, [step |-> s, taken |-> 0]), FALSE)
<1> DEFINE f == [step |-> s, taken |-> 0]
           d == Append(c, f)
           n == Len(c)
<1>1. n \in Nat /\ DOMAIN c = 1..n /\ (c # <<>> <=> n > 0) /\ c \in Seq(Frames) /\ f \in Frames
  BY DEF Stack, Frames
<1>2. /\ d \in Seq(Frames) /\ Len(d) = n + 1 /\ DOMAIN d = 1..n+1
      /\ \A i \in 1..n : d[i] = c[i]
      /\ d[n+1].step = s /\ d[n+1].taken = 0
  BY <1>1
<1> HIDE DEF d, f
<1>3. \A i \in DOMAIN d : d[i].step \in Known \ Visited /\ d[i].taken \in 0..Len(deps[d[i].step])
  <2> TAKE i \in DOMAIN d
  <2>1. CASE i \in 1..n
    BY <1>1, <1>2, <2>1 DEF Stack
  <2>2. CASE i = n + 1
    <3>1. Len(deps[s]) \in Nat => 0 \in 0..Len(deps[s])
      OBVIOUS
    <3> QED
      BY <1>2, <2>2, <3>1
  <2> QED
    BY <1>1, <1>2, <2>1, <2>2
<1>4. \A i, j \in DOMAIN d : d[i].step = d[j].step => i = j
  BY <1>1, <1>2 DEF Stack
<1>5. \A i \in 1..Len(d)-1 : d[i].taken > 0 /\ Dependency(d[i]) = d[i+1].step
  <2> TAKE i \in 1..Len(d)-1
  <2>1. CASE i < n
    BY <1>1, <1>2, <2>1 DEF Stack
  <2>2. CASE i = n
    BY <1>1, <1>2, <2>2 DEF Last
  <2> QED
    BY <1>1, <1>2, <2>1, <2>2
<1>6. ASSUME NEW i \in DOMAIN d, NEW j \in 1..d[i].taken
      PROVE  deps[d[i].step][j] \in Visited \cup Unknown \/ (j = d[i].taken /\ i < Len(d))
  <2>1. i \in 1..n
    BY <1>1, <1>2, <1>6
  <2> QED
    BY <1>1, <1>2, <1>6, <2>1 DEF Stack
<1> QED
  BY <1>2, <1>3, <1>4, <1>5, <1>6 DEF Stack, d, f

(* Calls of visit depend on the flow and on what is visited only.          *)
LEMMA StackKept ==
  ASSUME UNCHANGED <<steps, deps, result>>, Stack(frames', FALSE)
  PROVE  Stack(frames, FALSE)'
<1>1. Known' = Known /\ Visited' = Visited /\ Unknown' = Unknown
  BY DEF Known, Visited, Unknown
<1>2. \A f : Dependency(f)' = Dependency(f)
  BY DEF Dependency
<1> QED
  BY <1>1, <1>2 DEF Stack

(* A call of visit by the loop, or by the last call under way.             *)
LEMMA VisitKeeps ==
  ASSUME FlowTypeOK, FlowInv, call = "visiting",
         NEW c, Stack(c, TRUE), Len(c) = Len(frames),
         \A i \in DOMAIN frames : c[i].step = frames[i].step,
         NEW s \in Known, s \in StepIds,
         c # <<>> => Last(c).taken > 0 /\ Dependency(Last(c)) = s,
         Visit(s, c), UNCHANGED <<steps, deps, result>>
  PROVE  /\ Stack(frames, FALSE)' /\ call' \in {"visiting", "raised"}
         /\ call' = "raised" => frames' = <<>> /\ Circular'
         /\ call' = "visiting" /\ c = <<>> =>
              s \in Visited' \/ (frames' # <<>> /\ frames'[1].step = s)
         /\ call' = "visiting" /\ c # <<>> => frames' # <<>> /\ frames'[1].step = c[1].step
<1> DEFINE n == Len(c)
<1>1. /\ n = Len(c) /\ n \in Nat /\ DOMAIN c = 1..n /\ DOMAIN frames = 1..n /\ (c # <<>> <=> n > 0)
      /\ c \in Seq(Frames)
  BY DEF Stack, FlowTypeOK
<1>2. Visited' = Visited /\ Known' = Known
  BY DEF Visited, Known
<1> HIDE DEF n
<1>3. CASE s \in Visited /\ frames' = c /\ UNCHANGED call
  <2>1. Stack(frames', FALSE)
    BY <1>3, StackCloses
  <2> QED
    BY <1>2, <1>3, <2>1, StackKept
<1>4. CASE s \in InProgress \ Visited /\ frames' = <<>> /\ call' = "raised"
  <2>1. PICK k \in 1..n : c[k].step = s
    BY <1>1, <1>4 DEF InProgress
  <2> DEFINE C == {c[i].step : i \in k..n}
  <2>2. ASSUME NEW i \in k..n PROVE c[i].step \in Known /\ Range(deps[c[i].step]) \cap C # {}
    <3>1. i \in 1..n /\ c[i].step \in Known /\ c[i].step \in StepIds /\ c[i].taken \in 0..Len(deps[c[i].step])
      <4>1. i \in 1..n
        BY <1>1, <2>1
      <4>2. c[i] \in Frames
        BY <1>1, <4>1
      <4> QED
        BY <1>1, <4>1, <4>2 DEF Stack, Frames
    <3>2. deps[c[i].step] \in Seq(StepIds)
      BY <3>1 DEF FlowTypeOK
    <3>3. \E d \in C : c[i].taken > 0 /\ Dependency(c[i]) = d
      <4>1. CASE i = n
        <5>1. c[k].step \in C
          BY <1>1, <2>1
        <5> QED
          BY <1>1, <2>1, <4>1, <5>1 DEF Last
      <4>2. CASE i \in 1..n-1
        <5>1. c[i+1].step \in C
          BY <1>1, <4>2
        <5>2. c[i].taken > 0 /\ Dependency(c[i]) = c[i+1].step
          BY <1>1, <4>2 DEF Stack
        <5> HIDE DEF C
        <5> QED
          BY <5>1, <5>2
      <4>3. i = n \/ i \in 1..n-1
        <5>1. n \in Nat
          BY <1>1
        <5>2. i \in 1..n
          BY <3>1
        <5> QED
          BY <5>1, <5>2
      <4> QED
        BY <4>1, <4>2, <4>3
    <3>4. c[i].taken \in DOMAIN deps[c[i].step]
      BY <3>1, <3>2, <3>3
    <3>5. Dependency(c[i]) \in Range(deps[c[i].step])
      BY <3>4 DEF Dependency, Range
    <3> QED
      BY <3>1, <3>3, <3>5
  <2>3. c[k].step \in C
    BY <1>1, <2>1
  <2> HIDE DEF C
  <2>4. C # {} /\ C \subseteq Known /\ \A t \in C : Range(deps[t]) \cap C # {}
    BY <2>2, <2>3 DEF C
  <2>5. Circular'
    BY <1>2, <2>4 DEF Circular
  <2>6. Stack(<<>>, FALSE)
    BY DEF Stack
  <2> QED
    BY <1>4, <2>5, <2>6, StackKept
<1>5. CASE /\ s \notin Visited \cup InProgress /\ UNCHANGED call
           /\ frames' = Append(c, [step |-> s, taken |-> 0])
  <2>1. \A i \in DOMAIN c : c[i].step # s
    BY <1>1, <1>5 DEF InProgress
  <2>2. Stack(frames', FALSE)
    BY <1>5, <2>1, StackGrows
  <2>3. frames' # <<>>
    BY <1>1, <1>5
  <2>4. IF c = <<>> THEN frames'[1].step = s ELSE frames'[1].step = c[1].step
    BY <1>1, <1>5
  <2> QED
    BY <1>5, <2>2, <2>3, <2>4, StackKept
<1> QED
  BY <1>3, <1>4, <1>5 DEF Visit

LEMMA VisitStepKeeps ==
  ASSUME FlowTypeOK, FlowInv, VisitStep
  PROVE  FlowTypeOK' /\ FlowInv'
<1>1. /\ call = "visiting" /\ frames = <<>> /\ looped' = looped + 1 /\ looped' \in 0..Len(steps)
      /\ looped' \in DOMAIN steps /\ Visit(steps[looped'], <<>>) /\ UNCHANGED <<steps, deps, result>>
  BY DEF VisitStep, FlowTypeOK
<1>2. steps[looped'] \in StepIds /\ steps[looped'] \in Known
  BY <1>1 DEF FlowTypeOK, Known, Range
<1>3. Stack(<<>>, TRUE)
  BY DEF Stack
<1>4. /\ Stack(frames, FALSE)' /\ call' \in {"visiting", "raised"}
      /\ call' = "raised" => frames' = <<>> /\ Circular'
      /\ call' = "visiting" =>
           steps[looped'] \in Visited' \/ (frames' # <<>> /\ frames'[1].step = steps[looped'])
  BY <1>1, <1>2, <1>3, VisitKeeps
<1>5. Visited' = Visited /\ Known' = Known /\ Unknown' = Unknown
  BY <1>1 DEF Visited, Known, Unknown
<1>6. FlowTypeOK'
  BY <1>1, <1>4 DEF FlowTypeOK, Stack
<1>7. call' = "visiting" => \A k \in 1..looped' :
        steps'[k] \in Visited' \/ (frames' # <<>> /\ frames'[1].step = steps'[k])
  <2>1. \A k \in 1..looped' : k = looped' \/ k \in 1..looped
    BY <1>1 DEF FlowTypeOK
  <2> QED
    BY <1>1, <1>4, <1>5, <2>1 DEF FlowInv
<1>8. Once(steps)' /\ Once(result)' /\ InOrder(result)' /\ (Visited \subseteq Known)'
  BY <1>1, <1>5 DEF FlowInv, Once, InOrder
<1> QED
  BY <1>4, <1>6, <1>7, <1>8 DEF FlowInv

LEMMA VisitDependencyKeeps ==
  ASSUME FlowTypeOK, FlowInv, VisitDependency
  PROVE  FlowTypeOK' /\ FlowInv'
<1> DEFINE n == Len(frames)
           top == Last(frames)
           dep == deps[top.step][top.taken + 1]
<1>1. /\ call = "visiting" /\ frames # <<>> /\ top.taken < Len(deps[top.step])
      /\ \/ dep \in Known /\ Visit(dep, Advanced)
         \/ dep \notin Known /\ frames' = Advanced /\ UNCHANGED call
      /\ UNCHANGED <<steps, deps, looped, result>>
  BY DEF VisitDependency, Advanced
<1>2. /\ Stack(Advanced, TRUE) /\ Len(Advanced) = Len(frames) /\ Advanced # <<>>
      /\ \A i \in DOMAIN frames : Advanced[i].step = frames[i].step
      /\ Advanced[Len(frames)].taken = top.taken + 1
  BY <1>1, AdvancedStack DEF FlowInv
<1>3. /\ n \in Nat \ {0} /\ n \in DOMAIN frames /\ 1 \in DOMAIN frames /\ top = frames[n]
      /\ top.step \in StepIds /\ top.taken \in Nat
  <2>1. frames \in Seq(Frames)
    BY DEF FlowTypeOK
  <2>2. n \in Nat \ {0} /\ n \in DOMAIN frames /\ top = frames[n] /\ top \in Frames
    BY <1>1, <2>1, FrontOf
  <2> QED
    BY <2>1, <2>2 DEF Frames
<1>4. dep \in StepIds
  <2>1. deps[top.step] \in Seq(StepIds) /\ top.taken + 1 \in 1..Len(deps[top.step])
    BY <1>1, <1>3 DEF FlowTypeOK
  <2> QED
    BY <2>1
<1>5. Last(Advanced).taken > 0 /\ Dependency(Last(Advanced)) = dep
  BY <1>2, <1>3 DEF Last, Dependency
<1>6. Visited' = Visited /\ Known' = Known /\ Unknown' = Unknown
  BY <1>1 DEF Visited, Known, Unknown
<1>7. /\ Stack(frames, FALSE)' /\ call' \in {"visiting", "raised"}
      /\ call' = "raised" => frames' = <<>> /\ Circular'
      /\ call' = "visiting" => frames' # <<>> /\ frames'[1].step = frames[1].step
  <2>1. Advanced[1].step = frames[1].step
    BY <1>2, <1>3
  <2> HIDE DEF dep, top
  <2>2. CASE dep \in Known /\ Visit(dep, Advanced)
    BY <1>1, <1>2, <1>4, <1>5, <2>1, <2>2, VisitKeeps
  <2>3. CASE dep \notin Known /\ frames' = Advanced /\ UNCHANGED call
    <3>1. dep \in Unknown
      BY <1>4, <2>3 DEF Unknown
    <3>2. Stack(frames', FALSE)
      BY <1>2, <1>5, <2>3, <3>1, StackCloses
    <3> QED
      BY <1>1, <1>2, <2>1, <2>3, <3>2, StackKept
  <2> QED
    BY <1>1, <2>2, <2>3
<1>8. FlowTypeOK'
  BY <1>1, <1>7 DEF FlowTypeOK, Stack
<1>9. call' = "visiting" => \A k \in 1..looped' :
        steps'[k] \in Visited' \/ (frames' # <<>> /\ frames'[1].step = steps'[k])
  BY <1>1, <1>6, <1>7 DEF FlowInv
<1>10. Once(steps)' /\ Once(result)' /\ InOrder(result)' /\ (Visited \subseteq Known)'
  BY <1>1, <1>6 DEF FlowInv, Once, InOrder
<1> QED
  BY <1>7, <1>8, <1>9, <1>10 DEF FlowInv

LEMMA EndVisitKeeps ==
  ASSUME FlowTypeOK, FlowInv, EndVisit
  PROVE  FlowTypeOK' /\ FlowInv'
<1> DEFINE n == Len(frames)
           m == Len(result)
           s == frames[n].step
<1>0. frames \in Seq(Frames) /\ result \in Seq(StepIds)
  BY DEF FlowTypeOK
<1>1. /\ n = Len(frames) /\ n \in Nat \ {0} /\ n \in DOMAIN frames /\ DOMAIN frames = 1..n
      /\ Last(frames) = frames[n] /\ s = frames[n].step /\ s \in StepIds
      /\ Front(frames) \in Seq(Frames) /\ Len(Front(frames)) = n - 1
      /\ DOMAIN Front(frames) = 1..n-1 /\ \A i \in 1..n-1 : Front(frames)[i] = frames[i]
  <2>1. frames # <<>>
    BY DEF EndVisit
  <2>2. /\ n \in Nat \ {0} /\ n \in DOMAIN frames /\ Last(frames) = frames[n] /\ frames[n] \in Frames
        /\ Front(frames) \in Seq(Frames) /\ Len(Front(frames)) = n - 1
        /\ DOMAIN Front(frames) = 1..n-1 /\ \A i \in 1..n-1 : Front(frames)[i] = frames[i]
    BY <1>0, <2>1, FrontOf, Zenon
  <2>3. s \in StepIds
    BY <2>2 DEF Frames
  <2>4. DOMAIN frames = 1..n
    BY <1>0
  <2> HIDE DEF n, s
  <2> QED
    BY <2>2, <2>3, <2>4 DEF n, s
<1>2. /\ call = "visiting" /\ frames[n].taken = Len(deps[s]) /\ result' = Append(result, s)
      /\ frames' = Front(frames) /\ UNCHANGED <<steps, deps, call, looped>>
  BY <1>1 DEF EndVisit, PutLast
<1>3. s \in Known \ Visited
  BY <1>1 DEF FlowInv, Stack
<1> HIDE DEF n, s
<1>4. /\ m = Len(result) /\ m \in Nat /\ DOMAIN result = 1..m /\ result' \in Seq(StepIds)
      /\ Len(result') = m + 1 /\ DOMAIN result' = 1..m+1 /\ result'[m+1] = s
      /\ \A i \in 1..m : result'[i] = result[i]
  BY <1>0, <1>1, <1>2
<1> HIDE DEF m
<1>5. /\ Visited' = Visited \cup {s} /\ Known' = Known /\ Unknown' = Unknown
      /\ Visited = {result[i] : i \in 1..m}
  <2>1. Visited = {result[i] : i \in 1..m} /\ Visited' = {result'[i] : i \in 1..m+1}
    BY <1>4 DEF Visited, Range
  <2>2. 1..m+1 = (1..m) \cup {m+1}
    BY <1>4
  <2> QED
    BY <1>2, <1>4, <2>1, <2>2 DEF Known, Unknown
<1>6. FlowTypeOK'
  BY <1>0, <1>1, <1>2, <1>4 DEF FlowTypeOK
<1>7. Once(steps)' /\ Once(result)'
  <2>1. \A i \in 1..m : result[i] # s
    BY <1>3, <1>5
  <2>2. \A i \in 1..m+1 : i \in 1..m \/ i = m+1
    BY <1>4
  <2> QED
    BY <1>2, <1>4, <2>1, <2>2 DEF FlowInv, Once
<1>8. Range(deps[s]) \subseteq Visited \cup Unknown
  <2>1. \A j \in 1..frames[n].taken : deps[s][j] \in Visited \cup Unknown
    BY <1>1 DEF FlowInv, Stack
  <2>2. deps[s] \in Seq(StepIds)
    BY <1>1 DEF FlowTypeOK
  <2> QED
    BY <1>2, <2>1, <2>2 DEF Range
<1>9. InOrder(result)'
  <2> SUFFICES ASSUME NEW i \in 1..m+1
               PROVE  Range(deps[result'[i]]) \subseteq {result'[j] : j \in 1..i-1} \cup Unknown
    BY <1>2, <1>4, <1>5 DEF InOrder
  <2>1. {result'[j] : j \in 1..i-1} = {result[j] : j \in 1..i-1}
    <3>1. 1..i-1 \subseteq 1..m
      BY <1>4
    <3> QED
      BY <1>4, <3>1
  <2>2. CASE i \in 1..m
    BY <1>4, <2>1, <2>2 DEF FlowInv, InOrder
  <2>3. CASE i = m+1
    <3>1. i - 1 = m
      BY <1>4, <2>3
    <3> QED
      BY <1>4, <1>5, <1>8, <2>1, <2>3, <3>1
  <2> QED
    BY <1>4, <2>2, <2>3
<1>10. Stack(frames, FALSE)'
  <2> DEFINE c == Front(frames)
  <2>1. /\ c \in Seq(Frames) /\ Len(c) = n - 1 /\ DOMAIN c = 1..n-1 /\ \A i \in 1..n-1 : c[i] = frames[i]
        /\ frames' = c /\ deps' = deps
    BY <1>1, <1>2
  <2> HIDE DEF c
  <2>2. \A i \in 1..n-1 : i \in 1..n /\ i # n /\ i + 1 \in 1..n
    BY <1>1
  <2>3. /\ \A i \in 1..n : /\ frames[i].step \in Known \ Visited
                        /\ frames[i].taken \in 0..Len(deps[frames[i].step])
        /\ \A i, j \in 1..n : frames[i].step = frames[j].step => i = j
    BY <1>1 DEF FlowInv, Stack
  <2>4. /\ \A i \in DOMAIN c : /\ c[i].step \in Known \ Visited'
                              /\ c[i].taken \in 0..Len(deps[c[i].step])
        /\ \A i, j \in DOMAIN c : c[i].step = c[j].step => i = j
    <3>1. \A i \in 1..n-1 : frames[i].step # s
      BY <1>1, <2>2, <2>3
    <3>2. \A i \in DOMAIN c : i \in 1..n-1 /\ c[i] = frames[i] /\ i \in 1..n
      BY <2>1, <2>2
    <3> QED
      BY <1>5, <2>3, <3>1, <3>2
  <2>5. \A i \in 1..Len(c)-1 : c[i].taken > 0 /\ Dependency(c[i]) = c[i+1].step
    <3>1. \A i \in 1..Len(c)-1 : i \in 1..n-1 /\ i + 1 \in 1..n-1
      BY <1>1, <2>1
    <3> QED
      BY <1>1, <2>1, <3>1 DEF FlowInv, Stack
  <2>6. ASSUME NEW i \in DOMAIN c, NEW j \in 1..c[i].taken
        PROVE  deps[c[i].step][j] \in Visited' \cup Unknown \/ (j = c[i].taken /\ i < Len(c))
    <3>1. deps[frames[i].step][j] \in Visited \cup Unknown \/ j = frames[i].taken
      BY <1>1, <2>1, <2>2, <2>6 DEF FlowInv, Stack
    <3>2. CASE j = frames[i].taken /\ i = n - 1
      <4>1. Dependency(frames[i]) = frames[i+1].step /\ i + 1 = n
        BY <1>1, <2>1, <2>6, <3>2 DEF FlowInv, Stack
      <4> QED
        BY <1>1, <1>5, <2>1, <2>6, <3>2, <4>1 DEF Dependency
    <3>3. i = n - 1 \/ i < n - 1
      BY <1>1, <2>1, <2>6
    <3> QED
      BY <1>5, <2>1, <2>6, <3>1, <3>2, <3>3
  <2>7. \A f : Dependency(f)' = Dependency(f)
    BY <1>2 DEF Dependency
  <2> QED
    BY <1>5, <2>1, <2>4, <2>5, <2>6, <2>7 DEF Stack
<1>11. \A k \in 1..looped : steps[k] \in Visited' \/ (frames' # <<>> /\ frames'[1].step = steps[k])
  <2> TAKE k \in 1..looped
  <2>1. steps[k] \in Visited \/ frames[1].step = steps[k]
    BY <1>2 DEF FlowInv
  <2>2. CASE n = 1
    BY <1>1, <1>5, <2>1, <2>2
  <2>3. CASE n > 1
    <3>1. 1 \in 1..n-1
      BY <1>1, <2>3
    <3>2. frames' # <<>> /\ frames'[1] = frames[1]
      BY <1>1, <1>2, <3>1
    <3> QED
      BY <1>5, <2>1, <3>2
  <2> QED
    BY <1>1, <2>2, <2>3
<1>12. (Visited \subseteq Known)'
  BY <1>3, <1>5 DEF FlowInv
<1> QED
  BY <1>2, <1>6, <1>7, <1>9, <1>10, <1>11, <1>12 DEF FlowInv

LEMMA FlowStepOK == FlowTypeOK /\ FlowInv /\ [FlowNext]_flowVars => FlowTypeOK' /\ FlowInv'
<1> SUFFICES ASSUME FlowTypeOK, FlowInv, [FlowNext]_flowVars PROVE FlowTypeOK' /\ FlowInv'
  OBVIOUS
<1>1. ASSUME frames' = <<>>, result' = <<>>, looped' = 0, call' \in {"none", "visiting"},
             steps' \in Seq(StepIds), deps' \in [StepIds -> Seq(StepIds)], Once(steps')
      PROVE  FlowTypeOK' /\ FlowInv'
  <2>1. FlowTypeOK'
    BY <1>1 DEF FlowTypeOK
  <2>2. Once(steps)' /\ Once(result)' /\ InOrder(result)' /\ (Visited \subseteq Known)'
    BY <1>1 DEF Once, InOrder, Visited, Range
  <2>4. (call = "visiting" => \A k \in 1..looped :
           steps[k] \in Visited \/ (frames # <<>> /\ frames[1].step = steps[k]))'
    BY <1>1
  <2>3. Stack(frames, FALSE)'
    BY <1>1 DEF Stack
  <2> QED
    BY <1>1, <2>1, <2>2, <2>3, <2>4 DEF FlowInv
<1>2. ASSUME NEW s \in StepIds, NEW list \in DependsOn, AddStep(s, list) PROVE FlowTypeOK' /\ FlowInv'
  <2>1. list \in Seq(StepIds)
    BY FlowAssumption
  <2>2. deps' \in [StepIds -> Seq(StepIds)]
    BY <1>2, <2>1 DEF AddStep, FlowTypeOK
  <2>3. steps \in Seq(StepIds) /\ Once(steps)
    BY DEF FlowTypeOK, FlowInv
  <2>4. CASE s \in Known
    <3>1. steps' = steps
      BY <1>2, <2>4 DEF AddStep
    <3> QED
      BY <1>1, <1>2, <2>2, <2>3, <3>1 DEF AddStep
  <2>5. CASE s \notin Known
    <3>1. steps' = Append(steps, s)
      BY <1>2, <2>5 DEF AddStep
    <3>2. \A i \in DOMAIN steps : steps[i] # s
      BY <2>5 DEF Known, Range
    <3>3. steps' \in Seq(StepIds) /\ Once(steps')
      BY <2>3, <3>1, <3>2 DEF Once
    <3> QED
      BY <1>1, <1>2, <2>2, <3>3 DEF AddStep
  <2> QED
    BY <2>4, <2>5
<1>3. CASE GetExecutionOrder
  BY <1>1, <1>3 DEF GetExecutionOrder, FlowTypeOK, FlowInv
<1>4. CASE ReturnOrder
  <2>1. /\ call = "visiting" /\ frames = <<>> /\ looped = Len(steps) /\ call' = "returned"
        /\ UNCHANGED <<steps, deps, looped, frames, result>>
    BY <1>4 DEF ReturnOrder
  <2>2. Known' = Known /\ Visited' = Visited /\ Unknown' = Unknown
    BY <2>1 DEF Known, Visited, Unknown
  <2>3. Stack(frames, FALSE)'
    <3>1. Stack(frames', FALSE)
      BY <2>1 DEF FlowInv
    <3> QED
      BY <2>1, <3>1, StackKept
  <2>4. Known \subseteq Visited
    <3>1. steps \in Seq(StepIds)
      BY DEF FlowTypeOK
    <3>2. DOMAIN steps = 1..looped
      BY <2>1, <3>1
    <3>3. Known = {steps[k] : k \in 1..looped}
      BY <3>2 DEF Known, Range
    <3> QED
      BY <2>1, <3>3 DEF FlowInv
  <2>5. Once(steps)' /\ Once(result)' /\ InOrder(result)'
    BY <2>1, <2>2 DEF FlowInv, Once, InOrder
  <2> QED
    BY <2>1, <2>2, <2>3, <2>4, <2>5 DEF FlowInv, FlowTypeOK
<1>5. CASE UNCHANGED flowVars
  BY <1>5 DEF flowVars, FlowTypeOK, FlowInv, Once, InOrder, Stack, Dependency, Known, Visited, Unknown, Circular
<1> QED
  BY <1>2, <1>3, <1>4, <1>5, VisitStepKeeps, VisitDependencyKeeps, EndVisitKeeps DEF FlowNext

(* Whatever the flow and whenever get_execution_order is called: the calls *)
(* of visit under way are a path of dependencies, and a step is visited    *)
(* after what it depends on.                                               *)
THEOREM FlowInvariant == FlowSpec => [](FlowTypeOK /\ FlowInv)
<1>1. FlowInit => FlowTypeOK /\ FlowInv
  BY FlowInitOK
<1>2. FlowTypeOK /\ FlowInv /\ [FlowNext]_flowVars => FlowTypeOK' /\ FlowInv'
  BY FlowStepOK
<1> QED
  BY <1>1, <1>2, PTL DEF FlowSpec

(* get_execution_order puts steps so that each is ready when its turn comes. *)
THEOREM FlowOrder == FlowSpec => []OrderIsReady
<1>1. FlowTypeOK /\ FlowInv => OrderIsReady
  <2> SUFFICES ASSUME FlowTypeOK, FlowInv, NEW i \in DOMAIN result
               PROVE  result[i] \in ReadySteps(Before(i) \cup Unknown)
    BY DEF OrderIsReady
  <2>1. result[i] \in Known
    BY DEF FlowInv, Visited, Range
  <2>2. result[i] \notin Before(i)
    <3>1. \A j \in 1..i-1 : j \in DOMAIN result /\ j # i
      BY DEF FlowTypeOK
    <3> QED
      BY <3>1 DEF FlowInv, Once, Before
  <2>3. Range(deps[result[i]]) \subseteq Before(i) \cup Unknown
    BY DEF FlowInv, InOrder, Before
  <2> QED
    BY <2>1, <2>2, <2>3 DEF ReadySteps, Unknown
<1> QED
  BY <1>1, FlowInvariant, PTL

(* A list of all steps in which each comes after those it depends on leaves *)
(* no room for a circle: its first step would come after another of it.     *)
THEOREM FlowCycles == FlowSpec => []RaisesOnCycle
<1>1. FlowTypeOK /\ FlowInv => RaisesOnCycle
  <2> SUFFICES ASSUME FlowTypeOK, FlowInv, call = "returned", Circular PROVE FALSE
    BY DEF FlowInv, RaisesOnCycle
  <2>1. Known \subseteq Visited
    BY DEF FlowInv
  <2>2. PICK C \in SUBSET Known : C # {} /\ \A s \in C : Range(deps[s]) \cap C # {}
    BY DEF Circular
  <2> DEFINE S == {i \in DOMAIN result : result[i] \in C}
  <2>3. S \subseteq Nat /\ S # {}
    <3>1. DOMAIN result \subseteq Nat
      BY DEF FlowTypeOK
    <3> QED
      BY <2>1, <2>2, <3>1 DEF Visited, Range
  <2>4. PICK n \in S : \A m \in S : n <= m
    <3> HIDE DEF S
    <3> QED
      BY <2>3, SmallestNumber
  <2>5. PICK d \in C : d \in Range(deps[result[n]])
    BY <2>2
  <2>6. d \in {result[j] : j \in 1..n-1}
    BY <2>2, <2>5 DEF FlowInv, InOrder, Unknown
  <2>7. PICK j \in 1..n-1 : d = result[j]
    BY <2>6
  <2>8. j \in S /\ n \in Nat /\ j < n
    BY <2>5, <2>7 DEF FlowTypeOK
  <2> QED
    BY <2>4, <2>8
<1> QED
  BY <1>1, FlowInvariant, PTL

(* What is visited and what is under way are different steps: there are no *)
(* more of them than entries of steps.                                     *)
THEOREM FlowWork == FlowSpec => []WorkBounded
<1>1. FlowTypeOK /\ FlowInv => WorkBounded
  <2> SUFFICES ASSUME FlowTypeOK, FlowInv PROVE WorkBounded
    OBVIOUS
  <2> DEFINE a == Len(frames)
             b == Len(result)
             k == Len(steps)
             Entered(x) == IF x <= b THEN result[x] ELSE frames[x - b].step
             Place(x)   == CHOOSE p \in 1..k : steps[p] = Entered(x)
             f          == [x \in 1..a+b |-> Place(x)]
  <2>1. /\ a \in Nat /\ b \in Nat /\ k \in Nat
        /\ DOMAIN frames = 1..a /\ DOMAIN result = 1..b /\ DOMAIN steps = 1..k
    BY DEF FlowTypeOK
  <2> HIDE DEF a, b, k
  <2>2. \A x \in 1..a+b : x \in 1..b \/ x - b \in 1..a
    BY <2>1
  <2>3. /\ \A x \in 1..b : result[x] \in Visited
        /\ \A x \in 1..a : frames[x].step \in Known \ Visited
    BY <2>1 DEF Visited, Range, FlowInv, Stack
  <2>4. /\ \A x, y \in 1..b : result[x] = result[y] => x = y
        /\ \A x, y \in 1..a : frames[x].step = frames[y].step => x = y
    BY <2>1 DEF FlowInv, Once, Stack
  <2>5. \A x \in 1..a+b : Entered(x) \in Known
    BY <2>1, <2>2, <2>3 DEF FlowInv
  <2>6. ASSUME NEW x \in 1..a+b, NEW y \in 1..a+b, Entered(x) = Entered(y) PROVE x = y
    <3>1. CASE x \in 1..b /\ y \in 1..b
      BY <2>1, <2>4, <2>6, <3>1
    <3>2. CASE x \notin 1..b /\ y \notin 1..b
      <4>1. x - b \in 1..a /\ y - b \in 1..a /\ ~(x <= b) /\ ~(y <= b)
        BY <2>1, <2>2, <3>2
      <4>2. x - b = y - b
        BY <2>4, <2>6, <4>1
      <4> QED
        BY <2>1, <4>2
    <3>3. CASE x \in 1..b /\ y \notin 1..b
      BY <2>1, <2>2, <2>3, <2>6, <3>3
    <3>4. CASE x \notin 1..b /\ y \in 1..b
      BY <2>1, <2>2, <2>3, <2>6, <3>4
    <3> QED
      BY <3>1, <3>2, <3>3, <3>4
  <2> HIDE DEF Entered
  <2>7. \A x \in 1..a+b : Place(x) \in 1..k /\ steps[Place(x)] = Entered(x)
    BY <2>1, <2>5 DEF Known, Range
  <2> HIDE DEF Place
  <2>8. f \in Injection(1..a+b, 1..k)
    BY <2>6, <2>7 DEF Injection, IsInjective
  <2>9. /\ IsFiniteSet(1..k) /\ Cardinality(1..k) = k
        /\ IsFiniteSet(1..a+b) /\ Cardinality(1..a+b) = a+b
    <3>1. \A m \in Nat : IsFiniteSet(1..m) /\ Cardinality(1..m) = m
      <4> TAKE m \in Nat
      <4>1. IF 1 > m THEN m = 0 ELSE m - 1 + 1 = m
        OBVIOUS
      <4> QED
        BY <4>1, FS_Interval
    <3> QED
      BY <2>1, <3>1
  <2>10. a + b <= k
    BY <2>8, <2>9, FS_Injection
  <2> QED
    BY <2>10 DEF WorkBounded, a, b, k
<1> QED
  BY <1>1, FlowInvariant, PTL

-----------------------------------------------------------------------------
(* The two ways to order a graph: a flow whose steps are the subtasks of a *)
(* decomposition and have the same dependencies.                           *)
SameGraph == plan.subs = Known /\ \A l \in plan.subs : Range(deps[l]) \cap Known = Needs(l)
NoSelves  == \A l \in plan.subs : l \notin Needs(l)

(* get_execution_order does not return what _build_waves rejects; but for  *)
(* subtasks that depend on themselves, which _build_waves lets pass, it    *)
(* raises on nothing else, and the wave that is placed next is what        *)
(* get_ready_steps returns once the waves before it are completed.         *)
THEOREM OrdersAgree ==
  Spec /\ FlowSpec => [](SameGraph =>
    /\ pc = "rejected" => call # "returned"
    /\ NoSelves /\ call = "raised" => pc \in {"planning", "rejected"}
    /\ NoSelves => ReadySteps(Placed \cup Unknown) = Ready)
<1> DEFINE P == SameGraph =>
                  /\ pc = "rejected" => call # "returned"
                  /\ NoSelves /\ call = "raised" => pc \in {"planning", "rejected"}
                  /\ NoSelves => ReadySteps(Placed \cup Unknown) = Ready
<1>1. SchedTypeOK /\ DepthInv /\ WavesAreDepths /\ FlowTypeOK /\ RaisesOnCycle => P
  <2> SUFFICES ASSUME SchedTypeOK, DepthInv, WavesAreDepths, FlowTypeOK, RaisesOnCycle,
                      SameGraph
               PROVE  /\ pc = "rejected" => call # "returned"
                      /\ NoSelves /\ call = "raised" => pc \in {"planning", "rejected"}
                      /\ NoSelves => ReadySteps(Placed \cup Unknown) = Ready
    OBVIOUS
  <2>1. \A l \in Known : Range(deps[l]) \cap Known = Needs(l)
    BY DEF SameGraph
  <2>2. ASSUME pc = "rejected" PROVE call # "returned"
    <3> DEFINE U == plan.subs \ Placed
    <3>1. U # {} /\ U \subseteq Known /\ Ready = {}
      BY <2>2 DEF DepthInv, SameGraph
    <3>2. \A l \in U : KnownNeeds(l) \cap U # {}
      BY <3>1 DEF Ready, KnownNeeds, Needs
    <3> HIDE DEF U
    <3>3. \A l \in U : Range(deps[l]) \cap U # {}
      BY <2>1, <3>1, <3>2 DEF KnownNeeds
    <3>4. Circular
      BY <3>1, <3>3 DEF Circular
    <3> QED
      BY <3>4 DEF RaisesOnCycle
  <2>3. ASSUME NoSelves, call = "raised" PROVE pc \in {"planning", "rejected"}
    <3>1. PICK C \in SUBSET Known : C # {} /\ \A l \in C : Range(deps[l]) \cap C # {}
      BY <2>3 DEF RaisesOnCycle, Circular
    <3>2. C \in SUBSET plan.subs
      BY DEF SameGraph
    <3>3. \A l \in C : KnownNeeds(l) \cap C # {}
      BY <2>1, <2>3, <3>1, <3>2 DEF KnownNeeds, NoSelves
    <3>4. \E l \in C : l \in Ancestors(l)
      BY <3>1, <3>2, <3>3, CycleInside
    <3> QED
      BY <3>2, <3>4 DEF WavesAreDepths
  <2>4. ASSUME NoSelves PROVE ReadySteps(Placed \cup Unknown) = Ready
    <3>1. \A l \in Known : KnownNeeds(l) = Range(deps[l]) \ Unknown
      <4> SUFFICES ASSUME NEW l \in Known PROVE Needs(l) = Range(deps[l]) \ Unknown
        BY <2>4 DEF KnownNeeds, NoSelves, SameGraph
      <4>1. l \in StepIds
        BY DEF FlowTypeOK, Known, Range
      <4>2. Range(deps[l]) \subseteq StepIds
        <5>1. deps[l] \in Seq(StepIds)
          BY <4>1 DEF FlowTypeOK
        <5> QED
          BY <5>1 DEF Range
      <4> QED
        BY <2>1, <4>2 DEF Unknown
    <3> QED
      BY <3>1 DEF ReadySteps, Ready, SameGraph, Unknown
  <2> QED
    BY <2>2, <2>3, <2>4
<1> QED
  BY <1>1, SchedTyping, DepthInvariant, DepthsOfGraph, FlowInvariant, FlowCycles, PTL
=============================================================================
