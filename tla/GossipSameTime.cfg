\* Two nodes and two messages, which may get the same time.
SPECIFICATION LiveSpec
CONSTANTS
  Nodes = {n1, n2}
  Links = {{n1, n2}}
  Senders = {n1}
  None = None
  MaxTime = 2
  MaxSetBacks = 0
  MaxMessages = 2
PROPERTY EveryMessageReachesAllNodes
