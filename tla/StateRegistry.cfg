\* Two outside callers, one plugin with two keys of two values, three calls.
SPECIFICATION LiveSpec
CONSTANTS
  Callers = {c1, c2}
  Plugins = {p1}
  Keys = {k1, k2}
  Values = {v1, v2}
  Unset = Unset
  MaxCalls = 3
  None = None
INVARIANTS
  LockHandedOver
  JoinNeverWaitsForCallbacks
  MirrorsAgree
PROPERTIES
  ImplementsUpdateQueue
  SetStateReturns
