-------------------------------- MODULE MCApp --------------------------------
(* Small instances of App for TLC. *)
EXTENDS App, TLC

CONSTANTS u1, u2

MCMixes ==
  {{"CreateQun", "AddQunMember"},
   {"AddQunMember", "DelQunMember", "PushQun"},
   {"UpdateQunTopicById", "PushUser", "PushOrg", "PushTenant", "UserPush"},
   {"AddContact", "RemoveContact"},
   {"GetOrgInfo", "SyncOrg"},
   {"Login", "GetMemberByUserName"},
   {"SearchUser", "CheckUpdate"},
   {"GetUsersInQun", "GetOrgUserList", "UserErWeiMa"}}

MCContacts == {<<u1, u2>>}

MCLists == {<<u2>>, <<u2, u2>>}
=============================================================================
