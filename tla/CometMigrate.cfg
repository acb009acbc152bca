SPECIFICATION Spec
CONSTANTS
  Keys = {k1, k2}
  Conns = {c1}
  OldConns = {}
  Rpcs = {p1}
  Mains = {main}
  Tokens = {t1}
  Auth = TRUE
  MaxSubscriber = 1
  MsgBufNum = 1
  NBuckets = 2
  BucketOf <- MCBucketOf
  Methods = {"New", "Close", "Migrate"}
  MaxChannels = 2
  MaxPushes = 0
  MaxSkip = 1
  NoProc = NoProc
  NoKey = NoKey
SYMMETRY Symmetry
INVARIANT ClosingLeftTable
