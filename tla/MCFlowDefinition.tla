-------------------------- MODULE MCFlowDefinition --------------------------
(* Every flow of up to three steps with up to two dependencies each, on    *)
(* themselves, on each other, on one twice, or on what is no step (yet).   *)
EXTENDS FlowDefinition

MCDependsOn == UNION {[1..n -> StepIds] : n \in 0..2}
MCSymmetry  == Permutations(StepIds)
=============================================================================
