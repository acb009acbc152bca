SPECIFICATION FairSpec
CONSTANTS
  u1 = u1
  u2 = u2
  Users = {u1, u2}
  Quns = {g1, g2}
  OldQuns = {g1}
  Topics = {t1}
  NoQun = NoQun
  NoName = NoName
  Contacts <- MCContacts
  MaxRows = 2
  Reqs = {r1, r2}
  Mixes <- MCMixes
  Lists <- MCLists
  MaxConns = 3
  MaxReceivers = 1
  OrgUsers = {u1, u2}
INVARIANTS ConnsReturn MemberOnce PushReaches
PROPERTIES CreationIsWhole OnlyCreatorRemoves SecondContactRaced GivenTokensEnd Answered
CHECK_DEADLOCK FALSE
