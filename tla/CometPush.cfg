SPECIFICATION Spec
CONSTANTS
  Keys = {k1}
  Conns = {c1, c2}
  OldConns = {c1}
  Rpcs = {p1, p2}
  Mains = {}
  Tokens = {}
  Auth = FALSE
  MaxSubscriber = 2
  MsgBufNum = 1
  NBuckets = 1
  BucketOf <- MCBucketOf
  Methods = {"PushPrivate"}
  MaxChannels = 1
  MaxPushes = 3
  MaxSkip = 1
  NoProc = NoProc
  NoKey = NoKey
INVARIANTS GapFree SavedBeforePushed Recoverable IInv
PROPERTY SaveOrder
SYMMETRY RpcSymmetry
CONSTRAINT LastPushOfOne
