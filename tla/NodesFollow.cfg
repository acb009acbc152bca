SPECIFICATION FairSpec
CONSTANTS
  Nodes = {n1}
  ChanCap = 1
  MaxProcs = 2
  MaxWatchers = 3
  MaxLost = 1
  MaxRemoved = 1
  NoNode = NoNode
  Missing = Missing
PROPERTIES FollowsFirst WatchersEnd
CHECK_DEADLOCK FALSE
