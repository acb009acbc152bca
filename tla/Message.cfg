SPECIFICATION Spec
CONSTANTS
  db1 = db1
  db2 = db2
  Keys = {k1}
  Bodies = {b1}
  Procs = {p1, p2}
  Ttls = {1}
  RedisMaxStore = 1
  DelCap = 1
  Dbs = {db1}
  UpDbs = {db1}
  DbOf <- MCDbOf
  NoKey = NoKey
  MaxTime = 2
  MaxMid = 2
INVARIANTS TypeOK ToldAreExpired
PROPERTY Implements
SYMMETRY Symmetry
