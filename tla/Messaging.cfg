\* Two sockets, so that one message can arrive twice at a time.
\* The node may stop for good: exiting, or in CircularWait.
SPECIFICATION Spec
CONSTANTS
  Senders = {c1}
  Sockets = {z1, z2}
  Plain = {}
  Peers = {n1}
  Self = n0
  NoName = noname
  Relay = relay
  None = None
  MaxTime = 1
  MaxSends = 1
  MaxReads = 2
  MaxFails = 1
CHECK_DEADLOCK FALSE
INVARIANTS
  WireFollowsBroadcasts
  ForwardedInOrder
  HeardBeforeForwarded
  AcceptedOnce
PROPERTY ImplementsForwardingNode
