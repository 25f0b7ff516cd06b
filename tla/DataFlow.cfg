\* One source, three raw and two aggregated frames, queues of two raw and one aggregate.
SPECIFICATION LiveSpec
CONSTANTS
  Callers = {c1}
  Plugins = {p1}
  Sources = {s1}
  MaxRaw = 2
  MaxAgg = 1
  RawFrames = 3
  AggFrames = 2
  None = None
INVARIANTS
  TypeOK
  DeliveredOnceInOrder
  LostByLimitsOnly
  AggregatesReachPost
PROPERTIES
  FramesReachPlugins
  SessionEnds
