\* One state of two values, two frames and a queue of one, two sessions, two
\* seconds: a frame dies by eviction, by the end of a session or by a crash.
SPECIFICATION Spec
CONSTANTS
  Keys = {k1}
  Values = {v1, v2}
  None = None
  MaxAgg = 1
  MaxRecent = 2
  MaxFrames = 2
  MaxEdits = 1
  MaxSets = 2
  MaxStarts = 2
  MaxTime = 1
INVARIANTS
  TypeOK
  FinalDataSaved
  RegistryRecorded
  StatesComeBack
PROPERTY RowsKept
