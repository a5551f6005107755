SPECIFICATION Spec
CONSTANTS
  flask = flask
  gradio = gradio
  qa = qa
  debate = debate
  blank = blank
  listed = listed
  viaApi = viaApi
  viaPage = viaPage
  stop = stop
  None = None
  Procs = {flask, gradio}
  Scenarios = {qa, debate, blank, listed}
  Starts = {viaApi, viaPage}
  Stops = {stop}
  Guarded = {viaPage}
  CallProc <- MCCallProc
  Plans <- MCPlans
  WaitPoints <- MCWaitPoints
  Incomplete = {blank}
  Malformed = {listed}
  MaxTasks = 3
  MaxBusy = 2
  Mortal = {flask}
  MaxFaults <- MCMaxFaults
INVARIANT TypeOK
INVARIANT RunningHasRunner
INVARIANT NothingOutlives
INVARIANT SuccessIsEarned
INVARIANT OpenHasWorker
CHECK_DEADLOCK FALSE
