------------------------ MODULE MCScenarioLifecycle -------------------------
(* Instances of ScenarioLifecycle: a question, answered in one task, that  *)
(* is started over the API and from the dashboard, stopped, or all three;  *)
(* a debate, two tasks and then a third, that nobody stops; a scenario     *)
(* without a question, whose runs fail; and one whose agent_roles are a    *)
(* list, whose starts raise.  The more they interleave the fewer faults.   *)
EXTENDS ScenarioLifecycle, TLC

CONSTANTS flask, gradio, qa, debate, blank, listed, viaApi, viaPage, stop

MCCallProc   == (viaApi :> flask) @@ (viaPage :> gradio) @@ (stop :> gradio)
MCWaitPoints == (qa :> {1}) @@ (blank :> {1}) @@ (listed :> {1}) @@ (debate :> {2, 3})

Plan(api, page, stopped) == (viaApi :> api) @@ (viaPage :> page) @@ (stop :> stopped)

MCMaxFaults ==
  (Plan(qa, qa, qa) :> 0) @@ (Plan(qa, qa, None) :> 1) @@ (Plan(qa, None, qa) :> 2) @@
  (Plan(debate, None, None) :> 1) @@ (Plan(blank, blank, blank) :> 2) @@
  (Plan(listed, listed, listed) :> 2)
MCPlans == DOMAIN MCMaxFaults
=============================================================================
