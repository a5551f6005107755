SPECIFICATION FlowSpec
CONSTANTS
  StepIds = {s1, s2, s3}
  DependsOn <- MCDependsOn
SYMMETRY MCSymmetry
INVARIANT OrderIsReady
INVARIANT RaisesOnCycle
INVARIANT WorkBounded
