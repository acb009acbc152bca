SPECIFICATION Spec
CONSTANTS
  Tickets = {k1, k2, k3}
  TokenExpire = 2
  Elements = {e1, e2, e3, e4}
  First = First
  Nil = Nil
  MaxClock = 7
  MaxSets = 2
SYMMETRY Symmetry
INVARIANTS TypeOK RefusedIsForgotten OneSleepIsEnough
PROPERTIES KeyIdsGrow Linked
