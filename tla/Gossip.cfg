\* The sender is linked to one node of a triangle: copies come by several ways
\* and go round, and two nodes hear only what others forward. Of the three
\* messages one may be sent after a set back, and one when the clock has caught up.
SPECIFICATION LiveSpec
CONSTANTS
  Nodes = {n1, n2, n3, n4}
  Links = {{n1, n2}, {n2, n3}, {n2, n4}, {n3, n4}}
  Senders = {n1}
  None = None
  MaxTime = 3
  MaxSetBacks = 1
  MaxMessages = 3
INVARIANTS
  HeardOnceInOrder
  NoGaps
PROPERTIES
  NodesImplementForwardingNode
  ReachesAllNodes
