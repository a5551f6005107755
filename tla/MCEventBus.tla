----------------------------- MODULE MCEventBus -----------------------------
(* An instance of EventBus with one thread that emits two events and another *)
(* that emits one, a queue of two, two handlers of one type, one of which    *)
(* leaves, and a handler of a wild type.                                     *)
EXTENDS EventBus, TLC

CONSTANTS web, work, started, done, other, subA, subB, subWild, hA, hB

MCEmits     == (web :> <<started, done>>) @@ (work :> <<other>>)
MCTypeOf    == (started :> "task.completed") @@ (done :> "task.completed")
                 @@ (other :> "task.failed")
MCMatches   == {<<"task.*", "task.completed">>, <<"task.*", "task.failed">>}
MCHandlerOf == (subA :> hA) @@ (subB :> hB) @@ (subWild :> hB)
MCKeyOf     == (subA :> "task.completed") @@ (subB :> "task.completed")
                 @@ (subWild :> "task.*")
=============================================================================
