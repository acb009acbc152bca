------------------------------ MODULE AppTables ------------------------------
(***************************************************************************)
(* The MySQL tables the app package writes (sql/install.sql) and what its  *)
(* statements do to them: groups and their members (app/qun.go), contacts  *)
(* (app/contact.go) and the one organisation SyncOrg ever writes           *)
(* (app/org.go).  No table has an index besides its primary key, so        *)
(* nothing but the statements keeps rows apart; rows are counted.          *)
(*                                                                         *)
(* SyncOrg unmarshals a body into a struct whose fields are not exported:  *)
(* it is always about the organisation "" at the root.  Of its location    *)
(* the model keeps whether it is set, of the other roots whether there are *)
(* any.                                                                    *)
(***************************************************************************)
EXTENDS Integers, Sequences

CONSTANTS
  Users,   \* user ids
  Quns,    \* group ids
  Topics,  \* group names
  NoQun,   \* the row of a group that does not exist, and the name of none
  Contacts, \* pairs of users clients add and remove as contacts
  MaxRows   \* bound: rows of one contact

Group == [creator : Users, name : Topics]

ASSUME TablesAssumption ==
  /\ MaxRows \in Nat /\ Contacts \subseteq Users \X Users
  /\ NoQun \notin Quns \cup Group /\ Users # {} /\ Topics # {}

Tables ==
  [qun    : [Quns -> Group \cup {NoQun}],
   member : [Quns -> [Users -> Nat]],         \* rows of qun_user
   star   : [Contacts -> Nat],               \* rows of user_user
   org    : {"none", "unset", "placed"},      \* the organisation ""
   roots  : BOOLEAN]                          \* whether there are other roots

Empty ==
  [qun |-> [g \in Quns |-> NoQun], member |-> [g \in Quns |-> [u \in Users |-> 0]],
   star |-> [p \in Contacts |-> 0], org |-> "none", roots |-> FALSE]

MembersOf(db, g) == {u \in Users : g \in Quns /\ db.member[g][u] > 0}

-----------------------------------------------------------------------------
\* The statements.  An update or a delete of rows that do not exist succeeds.
Statement(sql, g, u, v) == [sql |-> sql, qun |-> g, user |-> u, to |-> v]

InsertQun(q)        == Statement("insert qun", q.qun, q.uid, q.topic)
InsertQunUser(g, u) == Statement("insert qun_user", g, u, u)
DeleteQunUser(g, u) == Statement("delete qun_user", g, u, u)
UpdateTopic(q)      == Statement("update qun", q.qun, q.user, q.topic)
InsertStar(q)       == Statement("insert user_user", NoQun, q.uid, q.peer)
DeleteStar(q)       == Statement("delete user_user", NoQun, q.uid, q.peer)
InsertOrg(q)        == Statement("insert org", NoQun, q.uid, q.uid)
FirstLocation(q)    == Statement("first location", NoQun, q.uid, q.uid)
NextLocation(q)     == Statement("next location", NoQun, q.uid, q.uid)

\* Mutation: the creator is added without looking whether he is there.
AlwaysInserted(n) == n + 1

\* INSERT .. SELECT .. WHERE NOT EXISTS leaves a member that is there.
Inserted(n) == IF n = 0 THEN 1 ELSE n

\* What statement s makes of the tables db.
After(db, s) ==
  CASE s.sql = "insert qun" ->
         [db EXCEPT !.qun[s.qun] = [creator |-> s.user, name |-> s.to]]
    [] s.sql = "insert qun_user" ->
         [db EXCEPT !.member[s.qun][s.user] = Inserted(@)]
    [] s.sql = "delete qun_user" ->
         [db EXCEPT !.member[s.qun][s.user] = 0]
    [] s.sql = "update qun" /\ s.qun \in Quns /\ db.qun[s.qun] # NoQun ->
         [db EXCEPT !.qun[s.qun].name = s.to]
    [] s.sql = "insert user_user" ->
         [db EXCEPT !.star[<<s.user, s.to>>] = @ + 1]
    [] s.sql = "delete user_user" ->
         [db EXCEPT !.star[<<s.user, s.to>>] = 0]
    [] s.sql = "insert org" /\ db.org = "none" ->
         [db EXCEPT !.org = "unset"]
    [] s.sql \in {"first location", "next location"} /\ db.org # "none" ->
         [db EXCEPT !.org = "placed"]
    [] OTHER -> db

\* resetLocation takes the greatest location at the root and lets
\* caculateLocation index it, which panics when that is the default ''.
Panics(db, s) == s.sql = "next location" /\ db.org = "unset" /\ ~db.roots

-----------------------------------------------------------------------------
\* The statements of the transactions, in their order.
addQunmember(q) == [i \in DOMAIN q.list |-> InsertQunUser(q.qun, q.list[i])]
delQunMember(q) == [i \in DOMAIN q.list |-> DeleteQunUser(q.qun, q.list[i])]

\* Mutation: the members are left for another transaction.
GroupOnly(q) == <<InsertQun(q)>>

\* The users listed but for the creator, who is dealt with after them.
Others(q) ==
  LET qunUsers[i \in 0..Len(q.list)] ==
        IF i = 0 THEN <<>>
        ELSE IF q.list[i] = q.uid THEN qunUsers[i - 1]
        ELSE Append(qunUsers[i - 1], q.list[i])
  IN  qunUsers[Len(q.list)]

\* The group, then its members.
createQun(q) ==
  <<InsertQun(q)>> \o addQunmember([q EXCEPT !.list = Append(Others(q), q.uid)])

updateQunTopicById(q) == <<UpdateTopic(q)>>
createContact(q)      == <<InsertStar(q)>>
deleteContact(q)      == <<DeleteStar(q)>>

\* addOrg and resetLocation; updateOrg sets columns nothing here reads.
syncOrg(q, exists) ==
  IF exists THEN <<>> ELSE <<InsertOrg(q), FirstLocation(q), NextLocation(q)>>

\* What a statement keeps locked to the end of its transaction: INSERT .. SELECT
\* and DELETE scan their table, for want of an index; a group is one row.
Locks(s) ==
  CASE s.sql \in {"insert qun", "update qun"}           -> {s.qun}
    [] s.sql \in {"insert qun_user", "delete qun_user"} -> {"qun_user"}
    [] s.sql \in {"insert user_user", "delete user_user"} -> {"user_user"}
    [] OTHER                                            -> {"org"}

\* What a transaction sees: its own writes where it holds the locks.
Seen(db, view, locks) ==
  [qun    |-> [g \in Quns |-> IF g \in locks THEN view.qun[g] ELSE db.qun[g]],
   member |-> IF "qun_user" \in locks THEN view.member ELSE db.member,
   star   |-> IF "user_user" \in locks THEN view.star ELSE db.star,
   org    |-> IF "org" \in locks THEN view.org ELSE db.org,
   roots  |-> db.roots]
=============================================================================
