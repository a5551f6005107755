--------------------------- MODULE MCWaveScheduler ---------------------------
(* Instances of WaveScheduler.  A chain, a triangle and a join of three   *)
(* subtasks, cyclic graphs, and what a decomposition can have wrong.       *)
EXTENDS WaveScheduler, TaskGraph

CONSTANTS g1, g2, g3, old

Goals == <<g1, g2, g3>>
Sub(i, g, D) == [id |-> i, goal |-> g, deps |-> D]
Graph(deps)  == [i \in 1..3 |-> Sub(i, Goals[i], deps[i])]

Forward == {<<{}, {1}, {2}>>, <<{}, {1}, {1, 2}>>, <<{}, {}, {1, 2}>>}

Looping == {<<{2}, {1}, {}>>, <<{}, {1, 3}, {2}>>, <<{3}, {1}, {2}>>,
            <<{2}, {1}, {2}>>, <<{2, 3}, {3}, {2}>>}

\* Unknown and own ids as dependencies, an id given twice (once with a goal
\* that is repeated too), the later wave repeating a goal.
Odd == {<<Sub(1, g1, {4}), Sub(2, g2, {1, 2})>>,
        <<Sub(1, g1, {}), Sub(2, g2, {1}), Sub(3, g1, {2})>>,
        <<Sub(1, g1, {}), Sub(1, g2, {2})>>,
        <<Sub(2, g1, {}), Sub(2, g2, {}), Sub(3, g2, {2})>>}

MCPlans == {PlanOf(FromLLM(Graph(d))) : d \in Forward \cup Looping}
             \cup {PlanOf(FromLLM(s)) : s \in Odd}
             \cup {PlanOf(Heuristic(<<g1, g1, g2>>))}
=============================================================================
