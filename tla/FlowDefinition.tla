--------------------------- MODULE FlowDefinition ---------------------------
(***************************************************************************)
(* The order of the steps of a flow (scenarios/flow_definition.py).        *)
(* get_execution_order is a depth-first search by the nested function      *)
(* visit, which calls itself: one action is what one of its calls does     *)
(* until it calls, or returns.  Python's limit of the recursion is left    *)
(* out; WorkBounded says how deep it gets.                                 *)
(***************************************************************************)
EXTENDS Naturals, Sequences, FiniteSets, SequencesExt

CONSTANTS
  StepIds,   \* ids of steps, and what a step may give as a dependency
  DependsOn  \* lists of dependencies that steps are added with

ASSUME FlowAssumption == DependsOn \subseteq Seq(StepIds)

VARIABLES
  steps,   \* the keys of self.steps, in the order of their insertion
  deps,    \* depends_on, by step
  call,    \* what became of the last get_execution_order of this flow
  looped,  \* how many steps its loop has taken
  frames,  \* the calls of visit that are under way, the outermost first
  result   \* the steps in order; visited is their set

flowVars == <<steps, deps, call, looped, frames, result>>

Known      == Range(steps)
Visited    == Range(result)
InProgress == {frames[i].step : i \in DOMAIN frames}

-----------------------------------------------------------------------------
\* A step that is added again replaces the one of its id, in its place.
AddStep(s, list) ==
  /\ call # "visiting"
  /\ steps' = IF s \in Known THEN steps ELSE Append(steps, s)
  /\ deps' = [deps EXCEPT ![s] = list]
  /\ call' = "none" /\ looped' = 0 /\ frames' = <<>> /\ result' = <<>>

GetExecutionOrder ==
  /\ call # "visiting" /\ call' = "visiting"
  /\ looped' = 0 /\ frames' = <<>> /\ result' = <<>>
  /\ UNCHANGED <<steps, deps>>

\* Mutant: what is on the way is taken for visited.
NoCycle(s, callers) ==
  /\ UNCHANGED call
  /\ frames' = IF s \in Visited \cup InProgress THEN callers
               ELSE Append(callers, [step |-> s, taken |-> 0])

\* Mutant: only what is done is told from what is not.
NoGuard(s, callers) ==
  /\ UNCHANGED call
  /\ frames' = IF s \in Visited THEN callers
               ELSE Append(callers, [step |-> s, taken |-> 0])

\* A call of visit, up to its loop over depends_on.
Visit(s, callers) ==
  \/ s \in Visited /\ frames' = callers /\ UNCHANGED call
  \/ s \in InProgress \ Visited /\ frames' = <<>> /\ call' = "raised"
  \/ /\ s \notin Visited \cup InProgress /\ UNCHANGED call
     /\ frames' = Append(callers, [step |-> s, taken |-> 0])

VisitStep ==
  /\ call = "visiting" /\ frames = <<>> /\ looped < Len(steps)
  /\ looped' = looped + 1
  /\ Visit(steps[looped + 1], <<>>)
  /\ UNCHANGED <<steps, deps, result>>

\* Dependencies that are no steps are passed over.
VisitDependency ==
  /\ call = "visiting" /\ frames # <<>>
  /\ LET top     == Last(frames)
         dep     == deps[top.step][top.taken + 1]
         callers == [frames EXCEPT ![Len(frames)].taken = @ + 1]
     IN /\ top.taken < Len(deps[top.step])
        /\ \/ dep \in Known /\ Visit(dep, callers)
           \/ dep \notin Known /\ frames' = callers /\ UNCHANGED call
  /\ UNCHANGED <<steps, deps, looped, result>>

\* Mutant: the step is put before those it depends on.
PutFirst(s) == <<s>> \o result
PutLast(s)  == Append(result, s)

EndVisit ==
  /\ call = "visiting" /\ frames # <<>>
  /\ LET top == Last(frames)
     IN top.taken = Len(deps[top.step]) /\ result' = PutLast(top.step)
  /\ frames' = Front(frames)
  /\ UNCHANGED <<steps, deps, call, looped>>

ReturnOrder ==
  /\ call = "visiting" /\ frames = <<>> /\ looped = Len(steps)
  /\ call' = "returned"
  /\ UNCHANGED <<steps, deps, looped, frames, result>>

\* get_ready_steps
ReadySteps(completed) == {s \in Known \ completed : Range(deps[s]) \subseteq completed}

-----------------------------------------------------------------------------
FlowInit ==
  /\ steps = <<>> /\ deps = [s \in StepIds |-> <<>>]
  /\ call = "none" /\ looped = 0 /\ frames = <<>> /\ result = <<>>

FlowNext ==
  \/ \E s \in StepIds, list \in DependsOn : AddStep(s, list)
  \/ GetExecutionOrder
  \/ VisitStep \/ VisitDependency \/ EndVisit \/ ReturnOrder

FlowSpec == FlowInit /\ [][FlowNext]_flowVars

-----------------------------------------------------------------------------
(* Properties *)

Before(i) == {result[j] : j \in 1..i-1}
Unknown   == StepIds \ Known

\* The two methods fit: a flow that is executed in the order of
\* get_execution_order has every step among those of get_ready_steps when its
\* turn comes, and not twice, if dependencies that are no steps count as done:
\* get_execution_order passes over them, get_ready_steps waits for them.
OrderIsReady ==
  \A i \in DOMAIN result : result[i] \in ReadySteps(Before(i) \cup Unknown)

\* Some steps need each other: each of them one of them.
Circular ==
  \E C \in SUBSET Known : C # {} /\ \A s \in C : Range(deps[s]) \cap C # {}

\* get_execution_order raises only if there is a circular dependency, and
\* returns only if there is none, with every step in its list.
RaisesOnCycle ==
  /\ call = "raised" => Circular
  /\ call = "returned" => ~Circular /\ Known \subseteq Visited

\* No step is entered twice: what the calls of visit have done and have under
\* way, and so the depth of the recursion, is bounded by the steps there are.
WorkBounded == Len(frames) + Len(result) <= Len(steps)
=============================================================================
