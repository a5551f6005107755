------------------------- MODULE MCAssistantSession -------------------------
(* Instances of AssistantSession: the Gradio and the Flask process, two     *)
(* users or one, drafts that are valid and one that is not.                 *)
EXTENDS AssistantSession, TLC

CONSTANTS gradio, flask, user, other, first, second, broken

MCSymmetry == Permutations({user, other})
=============================================================================
