SPECIFICATION Spec
CONSTANTS
  Nodes = {n1, n2}
  ChanCap = 1
  MaxProcs = 2
  MaxWatchers = 4
  MaxLost = 0
  MaxRemoved = 1
  NoNode = NoNode
  Missing = Missing
  a1 = a1
  a2 = a2
  Addrs = {a1, a2}
  Binds <- MCBinds
  MessageCap = 1
  MaxMessageProcs = 2
  MaxErrors = 1
  r1 = r1
  r2 = r2
  r3 = r3
  RingNodes = {r1, r2, r3}
  VNodes = 2
  MaxPos = 6
  Placements <- MCPlacements
  Sought = {3, 6}
INVARIANTS OneOwner FollowedWhenQuiet SettlesWhenQuiet FindsOwner QuietLookup
PROPERTIES KeysStay
SYMMETRY Symmetry
CHECK_DEADLOCK FALSE
