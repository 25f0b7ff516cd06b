\* A plugin that calls, the main thread and the window: finish is called by the
\* window, by an interrupt, or by both at the same time.
SPECIFICATION LiveSpec
CONSTANTS
  Users = {u1}
  Closers = {gui}
  Main = main
  Relay = relay
  None = None
  MaxCalls = 3
INVARIANTS
  TypeOK
  CleanFinish
PROPERTIES
  QuietForGood
  FinishEnds
