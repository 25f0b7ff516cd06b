\* One socket and one other plugin, whose receive callback may broadcast.
\* The node may stop for good: exiting, or in CircularWait.
SPECIFICATION LiveSpec
CONSTANTS
  Senders = {c1}
  Sockets = {z1}
  Plain = {p1}
  Peers = {n1}
  Self = n0
  NoName = noname
  Relay = relay
  None = None
  MaxTime = 1
  MaxSends = 1
  MaxReads = 2
  MaxFails = 1
CHECK_DEADLOCK FALSE
PROPERTIES
  CircularWaitIsFinal
  BroadcastReturns
  LoopsStop
