--------------------------------- MODULE App ---------------------------------
(***************************************************************************)
(* The HTTP handlers of the app package: one goroutine per request, which  *)
(* share the MySQL tables, the pool of connections to them (at most        *)
(* app.dbMaxOpenConns, app/db.go) and the tokens in Redis.  Every call of  *)
(* MySQL, Redis or a comet process may fail.  MySQL locks what a           *)
(* transaction writes to its end; to wait too long for a lock is a         *)
(* failure.  A connection is leased to a request, for a purpose, until the *)
(* request releases it: a transaction that is never ended keeps its own.   *)
(***************************************************************************)
EXTENDS AppTables, FiniteSets

CONSTANTS
  Reqs,         \* requests the server handles at a time
  Mixes,        \* sets of operations clients call together
  Lists,        \* lists of members, or of receivers, they send
  MaxConns,     \* app.dbMaxOpenConns
  MaxReceivers, \* receivers UserPush accepts (1000 in the code)
  OrgUsers,     \* users of the organisation that is pushed to
  OldQuns,      \* groups that exist at the start
  NoName        \* the empty user name

ASSUME AppAssumption ==
  /\ OldQuns \subseteq Quns /\ OrgUsers \subseteq Users
  /\ Lists \subseteq Seq(Users)
  /\ NoName \notin Users
  /\ {MaxConns, MaxReceivers} \subseteq Nat

VARIABLES
  db,     \* the tables, as they are committed
  leased, \* leases <<r, purpose>> of the connections in use
  left,   \* connections of transactions nobody will end ...
  dead,   \* ... and what these keep locked
  token,  \* the token of each user in Redis: none, half (no expiry yet) or live
  given,  \* users that were given their token
  used,   \* names of groups given out
  req,    \* the requests
  mix     \* the operations the clients of this behaviour call

vars == <<db, leased, left, dead, token, given, used, req, mix>>

anyone == CHOOSE u \in Users : TRUE

\* No request.  Its arguments: the user of the token, the uid it names, another
\* user, a group, a topic and a list of users.  Of a transaction: the statements
\* to execute, what they lock and the tables they write.  Of a push: who is left
\* to be told and who was reached; `were` and `stayed` are for the properties, who
\* should be at some time and all the time.  lost: what was read is wrong.
Blank ==
  [op |-> "none", at |-> "idle", ret |-> "OK", user |-> anyone, uid |-> anyone,
   peer |-> anyone, qun |-> NoQun, topic |-> CHOOSE t \in Topics : TRUE, list |-> <<>>,
   todo |-> <<>>, locks |-> {}, view |-> Empty,
   names |-> {}, reached |-> {}, were |-> {}, stayed |-> {}, lost |-> FALSE]

\* A group that exists at the start; everyone is in it.
Old == [creator |-> anyone, name |-> CHOOSE t \in Topics : TRUE]

Init ==
  /\ mix \in Mixes
  /\ \E roots \in BOOLEAN :
       /\ "SyncOrg" \in mix \/ roots
       /\ db = [qun    |-> [g \in Quns |-> IF g \in OldQuns THEN Old ELSE NoQun],
                member |-> [g \in Quns |-> [u \in Users |-> IF g \in OldQuns THEN 1 ELSE 0]],
                star   |-> [p \in Contacts |-> 0],
                org    |-> "none",
                roots  |-> roots]
  /\ req = [r \in Reqs |-> Blank]
  /\ leased = {} /\ left = 0 /\ dead = {}
  /\ token = [u \in Users |-> IF "Login" \in mix THEN "none" ELSE "live"]
  /\ given = {u \in Users : token[u] = "live"}
  /\ used = OldQuns

-----------------------------------------------------------------------------
(* Steps the handlers are made of. *)

pool   == <<leased, left, dead>>
tokens == <<token, given>>

At(r, op, at) == req[r].op = op /\ req[r].at = at
To(r, at)     == [req[r] EXCEPT !.at = at]
Go(r, q)      == req' = [req EXCEPT ![r] = q]

\* The answer; the properties look at what a push did.  A handler that panics
\* closes the connection of the client instead.
Answer(q, ret) ==
  [Blank EXCEPT !.op = q.op, !.at = "answered", !.ret = ret, !.lost = q.lost,
                !.reached = q.reached, !.were = q.were, !.stayed = q.stayed]
Closed(q) == [Blank EXCEPT !.op = q.op, !.at = "closed"]

\* A call of MySQL waits for a connection; what is done in one step needs it no
\* longer than the step.
HasConn == Cardinality(leased) + left < MaxConns

\* Mutation: the rows are not closed.
ReadOpen(r, found, failed) ==
  /\ HasConn
  /\ \E q \in found \cup {failed} : Go(r, q)
  /\ leased' = leased \cup {<<r, "rows", Cardinality(leased)>>}
  /\ UNCHANGED <<db, left, dead, tokens, used, mix>>

\* A read: it fails, and the request goes on as `failed`, or as one of `found`.
Read(r, found, failed) ==
  /\ HasConn
  /\ \E q \in found \cup {failed} : Go(r, q)
  /\ UNCHANGED <<db, pool, tokens, used, mix>>

Tx(r)      == <<r, "tx">>
Begun(r)   == Tx(r) \in leased
Release(r) == leased' = leased \ {Tx(r)}

\* Another transaction keeps what statement s has to lock.
Locked(r, s) ==
  (dead \cup UNION {req[x].locks : x \in Reqs \ {r}}) \cap Locks(s) # {}

Begin(r, ok, failed) ==
  /\ HasConn
  /\ \/ Go(r, ok) /\ leased' = leased \cup {Tx(r)}
     \/ Go(r, failed) /\ UNCHANGED leased
  /\ UNCHANGED <<db, left, dead, tokens, used, mix>>

\* A statement is executed ...
Exec(r) ==
  LET q == req[r]
      s == Head(q.todo)
      v == After(Seen(db, q.view, q.locks), s)
      L == q.locks \cup Locks(s) IN
  /\ q.at = "exec" /\ q.todo # <<>>
  /\ ~Locked(r, s) /\ ~Panics(Seen(db, q.view, q.locks), s)
  /\ Go(r, [q EXCEPT !.todo = Tail(@), !.locks = L, !.view = Seen(Empty, v, L)])
  /\ UNCHANGED <<db, pool, tokens, used, mix>>

\* Mutation: the function returns without a Rollback.
NoRollback(r) == UNCHANGED leased

\* The connection of a transaction that failed goes back to the pool.
Rollback(r) == Release(r)

\* ... or fails, and the transaction is rolled back ...
ExecFails(r, failed) ==
  /\ req[r].at = "exec" /\ req[r].todo # <<>>
  /\ Rollback(r)
  /\ Go(r, [failed EXCEPT !.locks = {}, !.view = Empty])
  /\ UNCHANGED <<db, left, dead, tokens, used, mix>>

\* What a request is told by history when the tables change: who was a member of
\* the group it pushes to, and whether the contact it adds was looked up before.
Witness(q, tables) ==
  CASE q.op = "PushQun" /\ q.qun # NoQun ->
         [q EXCEPT !.were   = @ \cup MembersOf(tables, q.qun),
                   !.stayed = @ \cap MembersOf(tables, q.qun)]
    [] q.op = "AddContact" /\ q.at \in {"begin", "exec"} ->
         [q EXCEPT !.lost = @ \/ tables.star # db.star]
    [] OTHER -> q

\* ... and after the last it is committed.  When Commit fails, the answer of
\* MySQL may be what was lost, and not the transaction.
Commit(r, ok, failed) ==
  LET q == req[r] IN
  /\ q.at = "exec" /\ q.todo = <<>>
  /\ Release(r)
  /\ \E done, told \in BOOLEAN :
       /\ told => done
       /\ db' = IF done THEN Seen(db, q.view, q.locks) ELSE db
       /\ req' = [x \in Reqs |->
            IF x # r THEN Witness(req[x], db')
            ELSE [(IF told THEN ok ELSE failed) EXCEPT !.locks = {}, !.view = Empty]]
  /\ UNCHANGED <<left, dead, tokens, used, mix>>

\* The body of createQun, addQunmember, DelQunMember, updateQunTopicById and of the
\* two functions of contacts, for the statements `todo`.
Transact(r, todo, ok, failed) ==
  \/ /\ req[r].at = "begin"
     /\ Begin(r, [To(r, "exec") EXCEPT !.todo = todo], failed)
  \/ Exec(r)
  \/ ExecFails(r, [failed EXCEPT !.todo = <<>>])
  \/ Commit(r, ok, failed)

\* Mutation: the answer is that of the last push.
LastResult(q, u) == [q EXCEPT !.ret = "OK", !.reached = @ \cup {u}]

\* A push that succeeds changes nothing of the answer.
Reached(q, u) == [q EXCEPT !.reached = @ \cup {u}]

\* push: GetComet, a client of the node and PushPrivate, which refuses an empty
\* key.  It returns NotFoundServer or InternalErr, here one value.
push(q, u) ==
  {[q EXCEPT !.ret = "InternalErr"]} \cup (IF u = NoName THEN {} ELSE {Reached(q, u)})

\* Who is left is told one after the other; then the request goes on as done(q).
Dispatch(q, S) ==
  IF S = {} THEN Answer(q, q.ret) ELSE [q EXCEPT !.at = "push", !.names = S]

PushOne(r) ==
  /\ req[r].at = "push"
  /\ \E u \in req[r].names : \E q \in push(req[r], u) : Go(r, Dispatch(q, q.names \ {u}))
  /\ UNCHANGED <<db, pool, tokens, used, mix>>

\* Messages about the group itself: whether they arrive changes nothing.
Tell(r, at, done) ==
  /\ req[r].at = at
  /\ \E u \in req[r].names :
       Go(r, IF req[r].names = {u} THEN done ELSE [req[r] EXCEPT !.names = @ \ {u}])
  /\ UNCHANGED <<db, pool, tokens, used, mix>>

-----------------------------------------------------------------------------
(* The handlers. *)

\* Mutation: the refresh writes the token.
Rewritten(u) == [token EXCEPT ![u] = "live"]

\* The token is looked up in Redis, its user in MySQL, and the token lives on: it
\* is not set again when it has expired meanwhile.
Refreshed(u) == IF token[u] = "none" THEN token ELSE [token EXCEPT ![u] = "live"]

\* getUserByToken; a body that cannot be read or parsed is refused before it.
getUserByToken(r, next) ==
  LET q == req[r] IN
  \/ /\ q.at = "token"
     /\ \/ Go(r, Answer(q, "AuthErr"))
        \/ token[q.user] # "none" /\ Go(r, To(r, "user"))
     /\ UNCHANGED <<db, pool, tokens, used, mix>>
  \/ /\ q.at = "user" /\ HasConn
     /\ \/ Go(r, Answer(q, "AuthErr")) /\ UNCHANGED token
        \/ Go(r, To(r, next)) /\ token' \in {token, Refreshed(q.user)}
     /\ UNCHANGED <<db, pool, given, used, mix>>

\* Whether the group was created or not, its members are read and its creator is
\* told that he created it.
CreateQun(r) ==
  LET q == req[r] IN
  /\ q.op = "CreateQun"
  /\ \/ getUserByToken(r, "begin")
     \/ Transact(r, createQun(q), To(r, "members"),
                 [To(r, "members") EXCEPT !.ret = "InternalErr"])
     \/ /\ q.at = "members"
        /\ Read(r, {[To(r, "tell") EXCEPT !.names = {q.uid}]}, Answer(q, "InternalErr"))
     \/ Tell(r, "tell", Answer(q, q.ret))

\* A new topic: who sets it is told first, then the others, if they can be read.
UpdateQunTopicById(r) ==
  LET q      == req[r]
      others == MembersOf(db, q.qun) \ {q.user} IN
  /\ q.op = "UpdateQunTopicById"
  /\ \/ getUserByToken(r, "begin")
     \/ Transact(r, updateQunTopicById(q), [To(r, "self") EXCEPT !.names = {q.user}],
                 Answer(q, "InternalErr"))
     \/ Tell(r, "self", To(r, "members"))
     \/ /\ q.at = "members"
        /\ Read(r, {IF others = {} THEN Answer(q, "OK")
                    ELSE [To(r, "tell") EXCEPT !.names = others]}, Answer(q, "OK"))
     \/ Tell(r, "tell", Answer(q, "OK"))

\* getQunById finds the row of a group.
Found(g) == g \in Quns /\ db.qun[g] # NoQun

AddQunMember(r) ==
  LET q == req[r] IN
  /\ q.op = "AddQunMember"
  /\ \/ getUserByToken(r, "group")
     \/ /\ q.at = "group"
        /\ Read(r, IF Found(q.qun) THEN {To(r, "begin")} ELSE {}, Answer(q, "InternalErr"))
     \/ Transact(r, addQunmember(q), To(r, "members"), Answer(q, "InternalErr"))
     \/ /\ q.at = "members"
        /\ Read(r, {Answer(q, "OK")}, Answer(q, "InternalErr"))

\* Mutation: whoever is logged in removes members.
AnyoneRemoves(q) == Found(q.qun)

\* Only the creator of a group removes its members.
MayRemove(q) == Found(q.qun) /\ db.qun[q.qun].creator = q.user

DelQunMember(r) ==
  LET q == req[r] IN
  /\ q.op = "DelQunMember"
  /\ \/ getUserByToken(r, "group")
     \/ /\ q.at = "group"
        /\ Read(r, IF MayRemove(q) THEN {To(r, "begin")} ELSE {}, Answer(q, "InternalErr"))
     \/ Transact(r, delQunMember(q), To(r, "members"), Answer(q, "InternalErr"))
     \/ /\ q.at = "members"
        /\ Read(r, {Answer(q, "OK")}, Answer(q, "InternalErr"))

\* The lists that reading the members of a group, an organisation or a tenant may
\* return.  Only the first looks at rows.Err: when the connection breaks, the
\* others return the rows there were, whichever.  The users of a tenant are read
\* without their user names.
getUserNamesInQun(g)  == {MembersOf(db, g)}
getUserListByOrgId    == SUBSET OrgUsers
getUserListByTenantId == SUBSET {NoName}

getToUserNames(q) ==
  CASE q.op = "PushQun"    -> getUserNamesInQun(q.qun)
    [] q.op = "PushOrg"    -> getUserListByOrgId
    [] q.op = "PushTenant" -> getUserListByTenantId

\* The request, once list S was read.
Gathered(q, S) == [q EXCEPT !.lost = S # UNION getToUserNames(q)]

\* A push to a user, a group, an organisation or a tenant.  The name of the sender
\* is read for the first two: without it the handler panics.
Push(r) ==
  LET q == req[r] IN
  \/ /\ q.op = "PushUser"
     /\ \/ getUserByToken(r, "from")
        \/ q.at = "from" /\ Read(r, {Dispatch(q, {q.peer})}, Closed(q))
  \/ /\ q.op = "PushQun"
     /\ \/ getUserByToken(r, "from")
        \/ q.at = "from" /\ Read(r, {To(r, "group")}, [To(r, "group") EXCEPT !.lost = TRUE])
        \/ /\ q.at = "group"
           /\ Read(r, IF ~Found(q.qun) THEN {} ELSE {IF q.lost THEN Closed(q) ELSE To(r, "names")},
                   Answer(q, "InternalErr"))
  \/ q.op \in {"PushOrg", "PushTenant"} /\ getUserByToken(r, "names")
  \/ /\ q.at = "names"
     /\ Read(r, {Dispatch(Gathered(q, S), S) : S \in getToUserNames(q)},
             [Answer(q, "OK") EXCEPT !.lost = TRUE])
  \/ q.op \in {"PushUser", "PushQun", "PushOrg", "PushTenant"} /\ PushOne(r)

\* A push of an application, with a token of its own, to the users it lists.
UserPush(r) ==
  LET q == req[r] IN
  /\ q.op = "UserPush"
  /\ \/ /\ q.at = "application"
        /\ Read(r, {IF Len(q.list) > MaxReceivers THEN Answer(q, "TooLong")
                    ELSE Dispatch(q, {q.list[i] : i \in DOMAIN q.list})}, Answer(q, "AuthErr"))
     \/ PushOne(r)

\* Mutation: a contact is added without looking whether it is there.
NeverStar(q) == FALSE

\* isStar, which says no when it cannot look.
isStar(q) == db.star[<<q.uid, q.peer>>] > 0

AddOrRemoveContact(r) ==
  LET q == req[r] IN
  \/ /\ q.op = "AddContact"
     /\ \/ getUserByToken(r, "star")
        \/ /\ q.at = "star"
           /\ Read(r, {IF isStar(q) THEN Answer(q, "OK") ELSE To(r, "begin")},
                   [To(r, "begin") EXCEPT !.lost = TRUE])
        \/ Transact(r, createContact(q), Answer(q, "OK"), Answer(q, "InternalErr"))
  \/ /\ q.op = "RemoveContact"
     /\ \/ getUserByToken(r, "begin")
        \/ Transact(r, deleteContact(q), Answer(q, "OK"), Answer(q, "InternalErr"))

\* Rows that are not read to the end keep their connection until the handler ends.
Keep(r, rows, next) ==
  /\ HasConn
  /\ \/ leased' = leased \cup {<<r, rows>>} /\ Go(r, next)
     \/ UNCHANGED leased /\ Go(r, next)
     \/ leased' = {l \in leased : l[1] # r} /\ Go(r, Answer(req[r], "InternalErr"))
  /\ UNCHANGED <<db, left, dead, tokens, used, mix>>

\* The organisations of a tenant, the tenant and the one of the user, his contacts.
GetOrgInfo(r) ==
  LET q == req[r] IN
  /\ q.op = "GetOrgInfo"
  /\ \/ getUserByToken(r, "orgs")
     \/ /\ q.at = "orgs"
        /\ Read(r, {To(r, "tenant"), Answer(q, "OK")}, Answer(q, "InternalErr"))
     \/ q.at = "tenant" /\ Keep(r, "tenant", To(r, "org"))
     \/ q.at = "org" /\ Keep(r, "org", To(r, "stars"))
     \/ /\ q.at = "stars" /\ HasConn
        /\ leased' = {l \in leased : l[1] # r}
        /\ Go(r, Answer(q, "OK"))
        /\ UNCHANGED <<db, left, dead, tokens, used, mix>>

\* The transaction, if there is one, is never ended.
Leave(r, q) ==
  /\ left' = IF Begun(r) THEN left + 1 ELSE left
  /\ dead' = dead \cup req[r].locks
  /\ Release(r)
  /\ Go(r, q)
  /\ UNCHANGED <<db, tokens, used, mix>>

isExists == db.org # "none"

\* SyncOrg begins before it reads the body, looks the row up with a connection of
\* its own (an error says it is not there) and ignores the errors of the statements.
\* recover is called where nothing panics.
SyncOrg(r) ==
  LET q == req[r] IN
  /\ q.op = "SyncOrg"
  /\ \/ q.at = "sync" /\ Begin(r, To(r, "body"), To(r, "body"))
     \/ /\ q.at = "body"
        /\ \/ Leave(r, Answer(q, "ParamErr"))
           \/ Go(r, To(r, "exists")) /\ UNCHANGED <<db, pool, tokens, used, mix>>
     \/ /\ q.at = "exists"
        /\ IF Begun(r)
             THEN \E x \in {FALSE, isExists} :
                    Read(r, {}, [To(r, "exec") EXCEPT !.todo = syncOrg(q, x)])
             ELSE Read(r, {}, Closed(q))
     \/ Exec(r)
     \/ /\ q.at = "exec" /\ q.todo # <<>>
        /\ Go(r, [q EXCEPT !.todo = Tail(@)])
        /\ UNCHANGED <<db, pool, tokens, used, mix>>
     \/ /\ q.at = "exec" /\ q.todo # <<>>
        /\ Panics(Seen(db, q.view, q.locks), Head(q.todo))
        /\ Leave(r, Closed(q))
     \/ Commit(r, Answer(q, "OK"), Answer(q, "InternalErr"))

\* Handlers that only read, one connection at a time.
GetUsersInQun(r) ==
  LET q == req[r] IN
  /\ q.op = "GetUsersInQun"
  /\ \/ getUserByToken(r, "members")
     \/ q.at = "members" /\ Read(r, {To(r, "group")}, Answer(q, "InternalErr"))
     \/ /\ q.at = "group"
        /\ Read(r, IF Found(q.qun) THEN {Answer(q, "OK")} ELSE {}, Answer(q, "InternalErr"))

GetMemberByUserName(r) ==
  LET q == req[r] IN
  /\ q.op = "GetMemberByUserName"
  /\ \/ getUserByToken(r, "member")
     \/ q.at = "member" /\ Read(r, {To(r, "star")}, Answer(q, "NotFound"))
     \/ q.at = "star"   /\ Read(r, {}, Answer(q, "OK"))

\* One page of the users with a name like the one given, and how many there are.
SearchUser(r) ==
  LET q == req[r] IN
  /\ q.op = "SearchUser"
  /\ \/ getUserByToken(r, "search")
     \/ q.at = "search" /\ Read(r, {To(r, "count")}, Answer(q, "OK"))
     \/ q.at = "count"  /\ Read(r, {}, Answer(q, "OK"))

CheckUpdate(r) ==
  LET q == req[r] IN
  /\ q.op = "CheckUpdate"
  /\ \/ getUserByToken(r, "version")
     \/ q.at = "version" /\ Read(r, {Answer(q, "OK")}, Answer(q, "InternalErr"))

UserErWeiMa(r) ==
  At(r, "UserErWeiMa", "uid") /\ Read(r, {Answer(req[r], "OK")}, Answer(req[r], "NotFound"))

GetOrgUserList(r) == At(r, "GetOrgUserList", "list") /\ Read(r, {}, Answer(req[r], "OK"))

Look(r) ==
  \/ GetUsersInQun(r) \/ GetMemberByUserName(r) \/ SearchUser(r)
  \/ CheckUpdate(r) \/ UserErWeiMa(r) \/ GetOrgUserList(r)

\* The second command of genToken was executed.
Expires(u) == token'[u] = "live"

\* Login finds the user and genToken stores his token, then lets it expire.  The
\* two commands are sent together: they may be executed although a reply is lost.
Login(r) ==
  LET q == req[r]
      u == q.uid
      Store(states) == \E x \in states : token' = [token EXCEPT ![u] = x] IN
  /\ q.op = "Login"
  /\ \/ q.at = "login" /\ Read(r, {To(r, "hset")}, Answer(q, "ParamErr"))
     \/ /\ q.at = "hset"
        /\ \/ Store({"half"}) /\ Go(r, To(r, "expire"))
           \/ Store({"none", "half", "live"}) /\ Go(r, Answer(q, "InternalErr"))
        /\ UNCHANGED <<db, pool, given, used, mix>>
     \/ /\ q.at = "expire"
        /\ Store({"half", "live"})
        /\ \/ Expires(u) /\ given' = given \cup {u} /\ Go(r, Answer(q, "OK"))
           \/ given' = given /\ Go(r, Answer(q, "InternalErr"))
        /\ UNCHANGED <<db, pool, used, mix>>

-----------------------------------------------------------------------------
Resting == {"idle", "answered", "closed"}
Working(r) == req[r].at \notin Resting

\* Groups whose name a client can know: not one that is being created.
Known == used \ {req[r].qun : r \in {x \in Reqs : req[x].op = "CreateQun"}}

\* Where the handlers of an operation start.
Start(op) ==
  CASE op = "UserPush"                -> "application"
    [] op = "Login"                   -> "login"
    [] op = "SyncOrg"                 -> "sync"
    [] op = "GetOrgUserList"          -> "list"
    [] op = "UserErWeiMa"             -> "uid"
    [] OTHER                          -> "token"

\* What clients can send with an operation: whose token, which users, which group,
\* name and list.
Senders(op) ==
  IF op \in {"UserPush", "Login", "SyncOrg", "GetOrgUserList", "UserErWeiMa"}
  THEN {anyone} ELSE given

Named(op) ==
  CASE op = "CreateQun"                       -> Users \X {anyone}
    [] op = "PushUser"                        -> {anyone} \X Users
    [] op \in {"AddContact", "RemoveContact"} -> Contacts
    [] op = "Login"                           -> (Users \ given) \X {anyone}
    [] OTHER                                  -> {<<anyone, anyone>>}

Groups(op) ==
  CASE op = "CreateQun" -> Quns \ used
    [] op \in {"AddQunMember", "DelQunMember", "GetUsersInQun", "UpdateQunTopicById",
               "PushQun"} -> Known \cup {NoQun}
    [] OTHER -> {NoQun}

Titles(op) == IF op = "UpdateQunTopicById" THEN Topics ELSE {Blank.topic}

Sent(op) ==
  IF op \in {"CreateQun", "AddQunMember", "DelQunMember", "UserPush"} THEN Lists ELSE {<<>>}

\* Who is to be told by request q.
Due(q) ==
  CASE q.op = "PushQun"    -> MembersOf(db, q.qun)
    [] q.op = "PushUser"   -> {q.peer}
    [] q.op = "PushOrg"    -> OrgUsers
    [] q.op = "PushTenant" -> Users
    [] q.op = "UserPush"   -> {q.list[i] : i \in DOMAIN q.list}
    [] OTHER               -> {}

\* The requests of an operation that clients can send.
Call(op, u, p, g, t, l) ==
  [Blank EXCEPT !.op = op, !.at = Start(op), !.user = u, !.uid = p[1], !.peer = p[2],
                !.qun = g, !.topic = t, !.list = l]

Calls(op) ==
  {Call(op, u, p, g, t, l) : u \in Senders(op), p \in Named(op), g \in Groups(op),
                             t \in Titles(op), l \in Sent(op)}

\* Bounds: contacts are added while they have fewer than MaxRows rows, and one
\* request at a time logs a user in.
Admitted(q) ==
  /\ q.op = "AddContact" => db.star[<<q.uid, q.peer>>] < MaxRows
  /\ q.op = "Login" => \A x \in Reqs : Working(x) /\ req[x].op = "Login" => req[x].uid # q.uid

\* A request is served.
Arrive(r) ==
  /\ ~Working(r)
  /\ \E op \in mix : \E q \in Calls(op) :
       /\ Admitted(q)
       /\ Go(r, [q EXCEPT !.were = Due(q), !.stayed = Due(q)])
       /\ used' = IF op = "CreateQun" THEN used \cup {q.qun} ELSE used
  /\ UNCHANGED <<db, pool, tokens, mix>>

Handle(r) ==
  \/ CreateQun(r) \/ UpdateQunTopicById(r) \/ AddQunMember(r) \/ DelQunMember(r)
  \/ Push(r) \/ UserPush(r) \/ AddOrRemoveContact(r)
  \/ GetOrgInfo(r) \/ SyncOrg(r) \/ Look(r) \/ Login(r)

\* A token that expires is gone (where clients log in; elsewhere a request may be
\* refused at any time).
Expire(u) ==
  /\ "Login" \in mix /\ token[u] = "live"
  /\ token' = [token EXCEPT ![u] = "none"]
  /\ UNCHANGED <<db, pool, given, used, req, mix>>

Next == (\E r \in Reqs : Arrive(r) \/ Handle(r)) \/ \E u \in Users : Expire(u)

Spec == Init /\ [][Next]_vars

\* A request goes on, and gets a connection if there is one again and again: the
\* pool serves those who wait in their order.
FairSpec == Spec /\ \A r \in Reqs : SF_vars(Handle(r))

-----------------------------------------------------------------------------
Labels ==
  Resting \cup {"token", "user", "begin", "exec", "group", "members", "self", "tell",
    "from", "names", "application", "push", "star", "orgs", "tenant", "org", "stars",
    "sync", "body", "exists", "member", "search", "count", "version", "list", "uid",
    "login", "hset", "expire"}

\* The types of the variables; the pool opens no more connections than it may.
TypeOK ==
  /\ db \in Tables
  /\ leased \subseteq Reqs \X {"tx", "tenant", "org"}
  /\ left \in Nat /\ Cardinality(leased) + left <= MaxConns
  /\ dead \subseteq Quns \cup {NoQun, "qun_user", "user_user", "org"}
  /\ token \in [Users -> {"none", "half", "live"}]
  /\ given \subseteq Users /\ used \subseteq Quns
  /\ DOMAIN req = Reqs
  /\ \A r \in Reqs : req[r].at \in Labels /\ req[r].view \in Tables

\* What the code still has to release at each point of a handler.
MayHold(at) ==
  CASE at \in {"exec", "body", "exists"} -> {"tx"}
    [] at = "org"                        -> {"tenant"}
    [] at = "stars"                      -> {"tenant", "org"}
    [] OTHER                             -> {}

\* Every connection in use is with a request that releases it on every path it has
\* left, so a request that was answered, or waits for its first connection, holds
\* none; statements are executed in a transaction that is open.
ConnsReturn ==
  /\ \A l \in leased : l[2] \in MayHold(req[l[1]].at)
  /\ \A r \in Reqs : req[r].at = "exec" => Begun(r)

\* Nobody is twice in a group, whoever adds him at the same time, to whatever list.
MemberOnce == \A g \in Quns, u \in Users : db.member[g][u] <= 1

\* A group comes with its creator and the members it was created with, in one step,
\* however its transaction ends; one that was not created has no members.
CreationIsWhole ==
  [][\A g \in Quns : db.qun[g] = NoQun =>
       IF db'.qun[g] = NoQun THEN MembersOf(db', g) = {}
       ELSE \E r \in Reqs :
              LET q == req[r] IN
              /\ q.op = "CreateQun" /\ q.qun = g
              /\ MembersOf(db', g) = {q.uid} \cup {q.list[i] : i \in DOMAIN q.list}]_vars

\* "only qun creater can delete": who leaves a group was listed by its creator.
OnlyCreatorRemoves ==
  [][\A g \in Quns : \A u \in MembersOf(db, g) \ MembersOf(db', g) :
       \E r \in Reqs :
         LET q == req[r] IN
         /\ q.op = "DelQunMember" /\ q.qun = g /\ q.user = db.qun[g].creator
         /\ \E i \in DOMAIN q.list : q.list[i] = u]_vars

Pushes == {"PushUser", "PushQun", "PushOrg", "PushTenant", "UserPush"}

\* A push reaches nobody who was not to be told at some time of the request, and
\* one that is answered OK, when nothing was lost in reading who, has reached all
\* who were to be told all the time.
PushReaches ==
  \A r \in Reqs :
    LET q == req[r] IN
    (q.at = "answered" /\ q.op \in Pushes) =>
      /\ q.reached \subseteq q.were
      /\ q.ret = "OK" /\ ~q.lost => q.stayed \subseteq q.reached

\* A contact gets a second row only from a request that could not look for the
\* first, or looked before it was there.
SecondContactRaced ==
  [][\A p \in Contacts :
       (db'.star[p] > db.star[p] /\ db'.star[p] > 1) =>
         \E r \in Reqs : LET q == req[r] IN
           q.op = "AddContact" /\ q.at = "exec" /\ <<q.uid, q.peer>> = p /\ q.lost]_vars

\* A token a client was given ends some day, and once it has ended no request that
\* is still at work with it brings it back.
GivenTokensEnd ==
  [][\A u \in given' :
       /\ token'[u] # "half"
       /\ u \in given /\ token[u] = "none" => token'[u] = "none"]_vars

\* Connections of handlers that ask for another one before they release theirs.
Hoarded ==
  {l \in leased : req[l[1]].op \in {"GetOrgInfo", "SyncOrg"}}

\* As long as those, and the ones that were left, are not the whole pool, every
\* request ends: no other handler waits for a connection while it has one.
Answered ==
  [](Cardinality(Hoarded) + left < MaxConns) =>
    \A r \in Reqs : Working(r) ~> ~Working(r)
=============================================================================
