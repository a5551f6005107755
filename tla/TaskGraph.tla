------------------------------ MODULE TaskGraph ------------------------------
(***************************************************************************)
(* From a goal's decomposition to the graph of its subtasks: what          *)
(* llm_client.decompose_goal, _normalize_subtasks and the two dictionaries *)
(* of the scheduling agent (by_id, local_id_to_task_id) make of a list of  *)
(* subtasks.                                                               *)
(*                                                                         *)
(* A subtask of the list has an id, a goal and the ids it depends on.  The *)
(* number i is the id "t<i>", the one a subtask without an id gets from    *)
(* its position i; NoId is a missing id.                                   *)
(***************************************************************************)
EXTENDS Naturals, Sequences, FiniteSets, Functions

NoId == 0

\* The id given to the i-th subtask when the ids in taken are in use.
IdAt(sub, i, taken) == IF sub.id \in taken \cup {NoId} THEN i ELSE sub.id

IdsOf(list) ==
  LET ids[i \in 0..Len(list)] ==
        IF i = 0 THEN <<>>
        ELSE Append(ids[i-1], IdAt(list[i], i, Range(ids[i-1])))
  IN ids[Len(list)]

\* decompose_goal keeps a repeated id: its second pass finds it among the
\* valid ones.  References to unknown ids and to itself are dropped.
FromLLM(list) ==
  LET id(i) == IF list[i].id = NoId THEN i ELSE list[i].id
  IN [i \in DOMAIN list |->
        [list[i] EXCEPT !.id = id(i),
                        !.deps = (@ \cap Range(IdsOf(list))) \ {id(i)}]]

Normalized(list) == [i \in DOMAIN list |-> [list[i] EXCEPT !.id = IdsOf(list)[i]]]

\* _decompose_goal without an answer of the model: the parts of the goal
\* between "and"s, or its analysis and its execution, in parallel.
Heuristic(goals) == [i \in DOMAIN goals |-> [id |-> NoId, goal |-> goals[i], deps |-> {}]]

\* What the scheduling agent works with: the ids, the dependencies and the
\* task of each, and all tasks it creates.  Tasks are found again by goal
\* (the idempotency key), so subtasks of one goal share a task; of subtasks
\* with one id the dictionaries keep the last.
PlanOf(list) ==
  LET n == Normalized(list)
      ids == Range(IdsOf(list))
      last == [l \in ids |-> CHOOSE i \in DOMAIN n :
                 n[i].id = l /\ \A j \in DOMAIN n : n[j].id = l => j <= i]
  IN [subs  |-> ids,
      needs |-> [l \in ids |-> n[last[l]].deps],
      task  |-> [l \in ids |-> n[last[l]].goal],
      tasks |-> {n[i].goal : i \in DOMAIN n}]
=============================================================================
