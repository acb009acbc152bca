SPECIFICATION FairSpec
CONSTANTS
  Keys = {k1}
  Conns = {c1}
  OldConns = {c1}
  Rpcs = {p1, p2}
  Mains = {}
  Tokens = {}
  Auth = FALSE
  MaxSubscriber = 1
  MsgBufNum = 1
  NBuckets = 1
  BucketOf <- MCBucketOf
  Methods = {"PushPrivate", "Close"}
  MaxChannels = 1
  MaxPushes = 2
  MaxSkip = 1
  NoProc = NoProc
  NoKey = NoKey
PROPERTIES DeadConnectionsLeave RequestsEnd ClosedConnectionsLeave
CHECK_DEADLOCK FALSE
