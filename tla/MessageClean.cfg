SPECIFICATION FairSpec
CONSTANTS
  db1 = db1
  db2 = db2
  Keys = {k1, k2}
  Bodies = {b1}
  Procs = {p1}
  Ttls = {1}
  RedisMaxStore = 1
  DelCap = 1
  Dbs = {db1, db2}
  UpDbs = {db2}
  DbOf <- MCDbOf
  NoKey = NoKey
  MaxTime = 2
  MaxMid = 1
PROPERTY ExpiredLeave
