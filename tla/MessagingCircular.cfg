\* One socket: its loop and its broadcast callback share comm_lock.
\* The node may stop for good: exiting, or in CircularWait.
SPECIFICATION LiveSpec
CONSTANTS
  Senders = {c1}
  Sockets = {z1}
  Plain = {}
  Peers = {n1}
  Self = n0
  NoName = noname
  Relay = relay
  None = None
  MaxTime = 1
  MaxSends = 1
  MaxReads = 2
  MaxFails = 1
CHECK_DEADLOCK FALSE
PROPERTY LooksForMessages
