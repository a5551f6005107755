SPECIFICATION FairSpec
CONSTANTS
  web = web
  work = work
  started = started
  done = done
  other = other
  subA = subA
  subB = subB
  subWild = subWild
  hA = hA
  hB = hB
  Emitters = {web, work}
  Emits <- MCEmits
  Events = {started, done, other}
  TypeOf <- MCTypeOf
  Unsaved = {done}
  Wild = {"task.*"}
  Matches <- MCMatches
  Handlers = {hA, hB}
  Subs = {subA, subB, subWild}
  HandlerOf <- MCHandlerOf
  KeyOf <- MCKeyOf
  Leavers = {subA}
  QueueSize = 2
INVARIANT EveryHandlerCalled
INVARIANT SubscribedIsListed
INVARIANT InOrder
PROPERTY EveryEventTaken
CHECK_DEADLOCK FALSE
