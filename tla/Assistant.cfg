SPECIFICATION Spec
CONSTANTS
  gradio = gradio
  flask = flask
  user = user
  other = other
  first = first
  second = second
  broken = broken
  None = None
  Absent = Absent
  Procs = {gradio, flask}
  Web = gradio
  Api = flask
  Keys = {1, 2}
  Sessions = {user, other}
  Specs = {first, second, broken}
  Invalid = {broken}
  Pooled = FALSE
  MaxSends = 2
  MaxDbErrors = 1
INVARIANT CleanWasSaved
INVARIANT OneDraftOneRow
INVARIANT EveryWriteLasts
SYMMETRY MCSymmetry
CHECK_DEADLOCK FALSE
