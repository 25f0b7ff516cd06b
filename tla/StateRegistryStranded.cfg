\* Every callback and destructor returns, and still an update stays queued.
SPECIFICATION WellBehavedSpec
CONSTANTS
  Callers = {c1}
  Plugins = {p1}
  Keys = {k1}
  Values = {v1}
  Unset = Unset
  MaxCalls = 2
  None = None
PROPERTY EveryUpdateApplied
