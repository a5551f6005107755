SPECIFICATION Spec
CONSTANTS
  gradio = gradio
  flask = flask
  user = user
  other = other
  first = first
  second = second
  broken = broken
  None = None
  Absent = Absent
  Procs = {gradio, flask}
  Web = gradio
  Api = flask
  Keys = {1, 2}
  Sessions = {user}
  Specs = {first, second, broken}
  Invalid = {broken}
  Pooled = FALSE
  MaxSends = 2
  MaxDbErrors = 0
PROPERTY EditKeepsState
CHECK_DEADLOCK FALSE
