SPECIFICATION Spec
CONSTANTS
  Keys = {k1}
  Conns = {c1, c2}
  OldConns = {}
  Rpcs = {p1}
  Mains = {}
  Tokens = {}
  Auth = FALSE
  MaxSubscriber = 1
  MsgBufNum = 1
  NBuckets = 1
  BucketOf <- MCBucketOf
  Methods = {"New", "PushPrivate", "Close", "Migrate"}
  MaxChannels = 2
  MaxPushes = 1
  MaxSkip = 1
  NoProc = NoProc
  NoKey = NoKey
SYMMETRY Symmetry
INVARIANTS NoPanic SubscriberLimit ListedIffServed
