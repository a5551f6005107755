SPECIFICATION FairSpec
CONSTANTS
  g1 = g1
  g2 = g2
  g3 = g3
  OldTask = old
  old = old
  Ids = {1, 2, 3, 4}
  Tasks = {g1, g2, g3}
  Plans <- MCPlans
  Second = 2
  TotalSeconds = 2
  MaxOldReplies = 1
  MaxDbErrors = 1
INVARIANT WavesAreDepths
INVARIANT ResultsPassedOn
INVARIANT FailureContained
INVARIANT SkippedIsNotDispatched
INVARIANT NothingForgotten
INVARIANT RepliesAreTrue
PROPERTY Terminates
CHECK_DEADLOCK FALSE
