------------------------------ MODULE AppProofs ------------------------------
(***************************************************************************)
(* Theorems about App, for any number of users, groups, requests and       *)
(* connections: what keeps the rows of members apart, returns connections  *)
(* to the pool and ends sessions, whichever calls fail.                    *)
(***************************************************************************)
EXTENDS App, TLAPS

Fields  == DOMAIN Blank
Columns == {"qun", "member", "star", "org", "roots"}

\* Tables, or what a transaction has written, with no member twice in a group.
Apart(x) == DOMAIN x = Columns /\ x.member \in [Quns -> [Users -> 0..1]]

Good(q) == DOMAIN q = Fields /\ Apart(q.view)

\* What a step may make of request r: the call stays the one it is.
Goes(r, q) == Good(q) /\ q.op = req[r].op /\ (q.at \in Resting \/ q.uid = req[r].uid)

Requests == DOMAIN req = Reqs /\ Apart(db) /\ \A r \in Reqs : Good(req[r])

Leases ==
  /\ leased \subseteq Reqs \X {"tx", "tenant", "org"}
  /\ ConnsReturn

LoggingIn(r) == req[r].op = "Login" /\ Working(r)

\* A user whose session is being stored was not given a token before, and no other
\* request stores one.
Sessions ==
  /\ token \in [Users -> {"none", "half", "live"}] /\ given \subseteq Users
  /\ \A u \in given : token[u] # "half"
  /\ \A r \in Reqs : LoggingIn(r) =>
       /\ req[r].uid \in Users \ given
       /\ \A x \in Reqs : LoggingIn(x) /\ req[x].uid = req[r].uid => x = r

AInv == Requests /\ Leases /\ Sessions

-----------------------------------------------------------------------------
(* What the tables and the requests keep. *)

\* One entry of a table is replaced, if it is there.
LEMMA Entry ==
  ASSUME NEW A, NEW B, NEW S, NEW m \in [A -> [B -> S]], NEW a, NEW b, NEW v,
         a \in A /\ b \in B => v \in S
  PROVE  [m EXCEPT ![a][b] = v] \in [A -> [B -> S]]
<1>1. CASE a \in A
  <2>1. [m[a] EXCEPT ![b] = v] \in [B -> S] BY <1>1
  <2>2. [m EXCEPT ![a] = [m[a] EXCEPT ![b] = v]] \in [A -> [B -> S]] BY <2>1
  <2> QED BY <2>2
<1>2. CASE a \notin A
  <2>1. \A w : [m EXCEPT ![a] = w] = m BY <1>2
  <2> QED BY <2>1
<1> QED BY <1>1, <1>2

\* No statement makes two rows of a member that has one at most.
LEMMA AfterApart ==
  ASSUME NEW x, Apart(x), NEW s
  PROVE  Apart(After(x, s))
<1> DEFINE m == x.member
<1>1. x.member \in [Quns -> [Users -> 0..1]] /\ DOMAIN x = Columns BY DEF Apart
<1>2. ASSUME NEW v PROVE /\ Apart([x EXCEPT !.qun = v]) /\ Apart([x EXCEPT !.star = v])
                         /\ Apart([x EXCEPT !.org = v])
  BY <1>1 DEF Apart, Columns
<1>3. ASSUME NEW v \in [Quns -> [Users -> 0..1]] PROVE Apart([x EXCEPT !.member = v])
  BY <1>1 DEF Apart, Columns
<1>4. [x.member EXCEPT ![s.qun][s.user] = Inserted(x.member[s.qun][s.user])]
         \in [Quns -> [Users -> 0..1]]
  <2> DEFINE v == Inserted(x.member[s.qun][s.user])
  <2>1. s.qun \in Quns /\ s.user \in Users => v \in 0..1
    BY <1>1 DEF Inserted
  <2> HIDE DEF v
  <2>2. [x.member EXCEPT ![s.qun][s.user] = v] \in [Quns -> [Users -> 0..1]]
    BY <1>1, <2>1, Entry
  <2> QED BY <2>2 DEF v
<1>5. [x.member EXCEPT ![s.qun][s.user] = 0] \in [Quns -> [Users -> 0..1]]
  <2>1. 0 \in 0..1 OBVIOUS
  <2> QED BY <1>1, <2>1, Entry
<1>6. \/ After(x, s) = x
      \/ \E v : \/ After(x, s) = [x EXCEPT !.qun = v]
                \/ After(x, s) = [x EXCEPT !.star = v]
                \/ After(x, s) = [x EXCEPT !.org = v]
      \/ After(x, s) = [x EXCEPT !.member =
                          [x.member EXCEPT ![s.qun][s.user] = Inserted(x.member[s.qun][s.user])]]
      \/ After(x, s) = [x EXCEPT !.member = [x.member EXCEPT ![s.qun][s.user] = 0]]
  <2> HIDE DEF Inserted
  <2> QED BY <1>1, Zenon DEF After
<1> QED BY <1>2, <1>3, <1>4, <1>5, <1>6

\* Nor does a transaction that sees its own writes.
LEMMA SeenApart ==
  ASSUME NEW x, NEW y, NEW L, Apart(x), Apart(y)
  PROVE  Apart(Seen(x, y, L))
<1>1. DOMAIN Seen(x, y, L) = Columns BY DEF Seen, Columns
<1>2. Seen(x, y, L).member \in {x.member, y.member} BY DEF Seen
<1> QED BY <1>1, <1>2 DEF Apart

\* A transaction that has written nothing.
LEMMA EmptyApart == Apart(Empty)
BY DEF Apart, Empty, Columns

\* The fields of a request.
LEMMA FieldNames ==
  {"op", "at", "ret", "user", "uid", "peer", "qun", "topic", "list", "todo", "locks",
   "view", "names", "reached", "were", "stayed", "lost"} = Fields
BY DEF Fields, Blank

\* Most changes to a request are good.
LEMMA Edits ==
  ASSUME NEW q, Good(q), NEW v
  PROVE  /\ Good([q EXCEPT !.at = v]) /\ Good([q EXCEPT !.ret = v])
         /\ Good([q EXCEPT !.names = v]) /\ Good([q EXCEPT !.todo = v])
         /\ Good([q EXCEPT !.lost = v]) /\ Good([q EXCEPT !.reached = v])
         /\ Good([q EXCEPT !.locks = v])
         /\ Good([q EXCEPT !.were = v]) /\ Good([q EXCEPT !.stayed = v])
         /\ Apart(v) => Good([q EXCEPT !.view = v])
<1> DEFINE F == Fields
<1>1. {"at", "ret", "names", "todo", "lost", "reached", "locks", "were", "stayed", "view"} \subseteq F
  BY FieldNames
<1> HIDE DEF F
<1>2. DOMAIN q = F /\ Apart(q.view) BY DEF Good, F
<1> QED BY <1>1, <1>2 DEF Good, F

\* An answer has nothing of the transaction left.
LEMMA Answers ==
  ASSUME NEW q, NEW ret
  PROVE  /\ Good(Answer(q, ret)) /\ Answer(q, ret).op = q.op /\ Answer(q, ret).at = "answered"
         /\ Good(Closed(q)) /\ Closed(q).op = q.op /\ Closed(q).at = "closed"
<1>1. Good(Blank) BY EmptyApart, FieldNames DEF Good, Blank
<1> QED BY <1>1 DEF Answer, Closed, Good, Blank

-----------------------------------------------------------------------------
(* The steps the handlers are made of. *)

\* What request q may still hold of the leases L, and what it needs.
Fits(r, q, L) ==
  /\ \A l \in L : l[1] = r => l[2] \in MayHold(q.at)
  /\ q.at = "exec" => Tx(r) \in L

\* A request another one leaves where it is.
Waits(x) ==
  /\ Good(req'[x]) /\ req'[x].op = req[x].op
  /\ req'[x].at = req[x].at /\ req'[x].uid = req[x].uid

\* A step of request r that gets or gives back leases of its own only.
LEMMA MovesHeld ==
  ASSUME AInv, NEW r \in Reqs, Working(r), NEW q, Goes(r, q), Apart(db'),
         DOMAIN req' = Reqs, req'[r] = q, \A x \in Reqs \ {r} : Waits(x),
         leased' \subseteq Reqs \X {"tx", "tenant", "org"}, Fits(r, q, leased'),
         \A l \in Reqs \X {"tx", "tenant", "org"} :
           l[1] # r => (l \in leased' <=> l \in leased)
  PROVE  Requests' /\ Leases'
<1>0. Requests /\ Leases /\ Sessions BY DEF AInv
<1>2. Requests'
  <2>1. \A x \in Reqs : Good(req'[x]) BY <1>0 DEF Requests, Goes, Waits
  <2> QED BY <2>1 DEF Requests, Good
<1>3. Leases'
  <2>1. ASSUME NEW l \in leased' PROVE l[2] \in MayHold(req'[l[1]].at)
    <3>1. l \in Reqs \X {"tx", "tenant", "org"} /\ l[1] \in Reqs OBVIOUS
    <3>2. CASE l[1] = r BY <3>2 DEF Fits
    <3>3. CASE l[1] # r
      <4>1. req'[l[1]].at = req[l[1]].at BY <3>1, <3>3 DEF Waits
      <4> QED BY <1>0, <3>1, <3>3, <4>1 DEF Leases, ConnsReturn
    <3> QED BY <3>2, <3>3
  <2>2. ASSUME NEW x \in Reqs, req'[x].at = "exec" PROVE Tx(x) \in leased'
    <3>1. CASE x = r BY <2>2, <3>1 DEF Fits
    <3>2. CASE x # r
      <4>1. Tx(x) \in leased BY <1>0, <2>2, <3>2 DEF Leases, ConnsReturn, Begun, Waits
      <4>2. Tx(x) \in Reqs \X {"tx", "tenant", "org"} /\ Tx(x)[1] = x BY DEF Tx
      <4> QED BY <3>2, <4>1, <4>2
    <3> QED BY <3>1, <3>2
  <2> QED BY <2>1, <2>2 DEF Leases, ConnsReturn, Begun, Tx, MayHold
<1> QED BY <1>2, <1>3

\* And that gives nobody a token.
LEMMA MovesAmong ==
  ASSUME AInv, NEW r \in Reqs, Working(r), NEW q, Goes(r, q), Apart(db'),
         DOMAIN req' = Reqs, req'[r] = q, \A x \in Reqs \ {r} : Waits(x),
         leased' \subseteq Reqs \X {"tx", "tenant", "org"}, Fits(r, q, leased'),
         \A l \in Reqs \X {"tx", "tenant", "org"} :
           l[1] # r => (l \in leased' <=> l \in leased),
         given' = given, token' \in [Users -> {"none", "half", "live"}],
         \A u \in given : token'[u] # "half"
  PROVE  AInv'
<1>1. Requests' /\ Leases' BY MovesHeld
<1>2. Sessions'
  <2>1. \A x \in Reqs : (req'[x].op = "Login" /\ req'[x].at \notin Resting) =>
                          LoggingIn(x) /\ req'[x].uid = req[x].uid
    BY DEF Goes, LoggingIn, Working, Waits
  <2> QED BY <2>1 DEF AInv, Sessions, LoggingIn, Working
<1> QED BY <1>1, <1>2 DEF AInv

\* A step that changes no other request.
LEMMA Moves ==
  ASSUME AInv, NEW r \in Reqs, Working(r), NEW q, Goes(r, q), Go(r, q), Apart(db'),
         leased' \subseteq Reqs \X {"tx", "tenant", "org"}, Fits(r, q, leased'),
         \A l \in Reqs \X {"tx", "tenant", "org"} :
           l[1] # r => (l \in leased' <=> l \in leased),
         given' = given, token' \in [Users -> {"none", "half", "live"}],
         \A u \in given : token'[u] # "half"
  PROVE  AInv'
<1>1. DOMAIN req' = Reqs /\ req'[r] = q /\ \A x \in Reqs \ {r} : req'[x] = req[x]
  BY DEF AInv, Requests, Go
<1>2. \A x \in Reqs \ {r} : Waits(x) BY <1>1 DEF AInv, Requests, Waits
<1> QED BY <1>1, <1>2, MovesAmong

\* A step that leaves the pool, the tables and the tokens alone.
Fine(r, q) == Working(r) /\ Goes(r, q) /\ Fits(r, q, leased)

\* What only moves the request keeps the invariant.
LEMMA Plain ==
  ASSUME AInv, NEW r \in Reqs, NEW q, Fine(r, q), Go(r, q), UNCHANGED <<db, leased, token, given>>
  PROVE  AInv'
<1>1. Apart(db') BY DEF AInv, Requests
<1>2. leased' \subseteq Reqs \X {"tx", "tenant", "org"} BY DEF AInv, Leases
<1>3. Working(r) /\ Goes(r, q) /\ Fits(r, q, leased') BY DEF Fine
<1>4. token' \in [Users -> {"none", "half", "live"}] /\ \A u \in given : token'[u] # "half"
  BY DEF AInv, Sessions
<1> QED BY <1>1, <1>2, <1>3, <1>4, Moves

\* Where a handler holds no connection.
Bare(r) == Working(r) /\ req[r].at \notin {"exec", "body", "exists", "org", "stars"}

\* It has none.
LEMMA BareHolds ==
  ASSUME AInv, NEW r \in Reqs, Bare(r)
  PROVE  \A l \in leased : l[1] # r
<1>1. MayHold(req[r].at) = {} BY DEF Bare, MayHold
<1> QED BY <1>1 DEF AInv, Leases, ConnsReturn

\* So it may go on anywhere but in a transaction.
LEMMA BareFine ==
  ASSUME AInv, NEW r \in Reqs, Bare(r), NEW q, Goes(r, q), q.at # "exec"
  PROVE  Fine(r, q)
BY BareHolds DEF Fine, Fits, Bare

\* Where a handler goes on.
LEMMA Onward ==
  ASSUME AInv, NEW r \in Reqs, NEW a
  PROVE  /\ Goes(r, To(r, a)) /\ To(r, a).at = a
         /\ Good(To(r, a)) /\ To(r, a).op = req[r].op /\ To(r, a).uid = req[r].uid
<1>1. Good(req[r]) BY DEF AInv, Requests
<1>2. Good(To(r, a)) BY <1>1, Edits DEF To
<1>3. DOMAIN req[r] = Fields BY <1>1 DEF Good
<1>4. To(r, a).at = a /\ To(r, a).op = req[r].op /\ To(r, a).uid = req[r].uid
  BY <1>3, FieldNames DEF To
<1> QED BY <1>2, <1>4 DEF Goes

\* What it answers.
LEMMA Ends ==
  ASSUME NEW r, NEW q, q.op = req[r].op, NEW ret
  PROVE  Goes(r, Answer(q, ret)) /\ Answer(q, ret).at # "exec"
         /\ Goes(r, Closed(q)) /\ Closed(q).at # "exec"
BY Answers DEF Goes, Resting

\* A read.
LEMMA ReadKeeps ==
  ASSUME AInv, NEW r \in Reqs, NEW found, NEW failed, Read(r, found, failed),
         \A q \in found \cup {failed} : Fine(r, q)
  PROVE  AInv'
<1>1. PICK q \in found \cup {failed} : Go(r, q) BY DEF Read
<1>2. UNCHANGED <<db, leased, token, given>> BY DEF Read, pool, tokens
<1> QED BY <1>1, <1>2, Plain

\* A transaction begins; its connection is released where it ends.
LEMMA BeginKeeps ==
  ASSUME AInv, NEW r \in Reqs, Bare(r), NEW ok, NEW failed, Begin(r, ok, failed),
         Goes(r, ok), ok.at \in {"exec", "body"}, Fine(r, failed)
  PROVE  AInv'
<1>1. UNCHANGED <<db, token, given>> BY DEF Begin, tokens
<1>2. CASE Go(r, ok) /\ leased' = leased \cup {Tx(r)}
  <2>1. Apart(db') BY <1>1 DEF AInv, Requests
  <2>2. leased \subseteq Reqs \X {"tx", "tenant", "org"} BY DEF AInv, Leases
  <2>3. Tx(r) \in Reqs \X {"tx", "tenant", "org"} /\ Tx(r)[1] = r /\ Tx(r)[2] = "tx" BY DEF Tx
  <2>4. leased' \subseteq Reqs \X {"tx", "tenant", "org"} BY <1>2, <2>2, <2>3
  <2>5. Fits(r, ok, leased')
    <3>1. "tx" \in MayHold(ok.at) BY DEF MayHold
    <3>2. \A l \in leased' : l[1] = r => l = Tx(r) BY <1>2, BareHolds
    <3> QED BY <1>2, <2>3, <3>1, <3>2 DEF Fits
  <2>6. \A l \in Reqs \X {"tx", "tenant", "org"} : l[1] # r => (l \in leased' <=> l \in leased)
    BY <1>2, <2>3
  <2>7. token' \in [Users -> {"none", "half", "live"}] /\ \A u \in given : token'[u] # "half"
    BY <1>1 DEF AInv, Sessions
  <2>8. Working(r) BY DEF Bare
  <2> QED BY <1>1, <1>2, <2>1, <2>4, <2>5, <2>6, <2>7, <2>8, Moves
<1>3. CASE Go(r, failed) /\ UNCHANGED leased BY <1>1, <1>3, Plain
<1> QED BY <1>2, <1>3 DEF Begin

\* A statement is executed.
LEMMA ExecKeeps == ASSUME AInv, NEW r \in Reqs, Exec(r) PROVE AInv'
<1> DEFINE q == req[r]
           v == After(Seen(db, q.view, q.locks), Head(q.todo))
           L == q.locks \cup Locks(Head(q.todo))
           t == [q EXCEPT !.todo = Tail(@)]
           k == [t EXCEPT !.locks = L]
           n == [k EXCEPT !.view = Seen(Empty, v, L)]
<1>0. Good(q) /\ q.at = "exec" BY DEF AInv, Requests, Exec
<1>1. UNCHANGED <<db, leased, token, given>> BY DEF Exec, pool, tokens
<1>2. Apart(v) BY SeenApart, AfterApart DEF AInv, Requests, Good
<1>3. Apart(Seen(Empty, v, L))
  <2> HIDE DEF v, L
  <2> QED BY <1>2, SeenApart, EmptyApart
<1>4. Good(t) /\ t.op = q.op /\ t.uid = q.uid /\ t.at = q.at
  <2>1. Good(t) BY <1>0, Edits
  <2> QED BY <1>0, <2>1, FieldNames DEF Good
<1>5. Good(k) /\ k.op = q.op /\ k.uid = q.uid /\ k.at = q.at
  <2> HIDE DEF t, L
  <2>1. Good(k) BY <1>4, Edits
  <2> QED BY <1>4, <2>1, FieldNames DEF Good
<1>6. Good(n) /\ n.op = q.op /\ n.uid = q.uid /\ n.at = q.at
  <2> HIDE DEF k, v, L
  <2>1. Good(n) BY <1>3, <1>5, Edits
  <2> QED BY <1>5, <2>1, FieldNames DEF Good
<1>7. Go(r, n) BY DEF Exec
<1> HIDE DEF n
<1>8. Fine(r, n)
  <2>1. Working(r) BY <1>0 DEF Working, Resting
  <2>2. Goes(r, n) BY <1>6 DEF Goes
  <2>3. Fits(r, n, leased) BY <1>6 DEF Fits, AInv, Leases, ConnsReturn, Begun
  <2> QED BY <2>1, <2>2, <2>3 DEF Fine
<1> QED BY <1>1, <1>7, <1>8, Plain

\* Where a handler may have a transaction and nothing else.
Between == {"exec", "body", "exists"}

\* It has no other connection.
LEMMA OnlyTx ==
  ASSUME AInv, NEW r \in Reqs, req[r].at \in Between
  PROVE  \A l \in leased : l[1] = r => l = Tx(r)
<1>1. \A l \in leased : l[1] = r => l[2] = "tx"
  BY DEF AInv, Leases, ConnsReturn, MayHold, Between
<1>2. leased \subseteq Reqs \X {"tx", "tenant", "org"} BY DEF AInv, Leases
<1> QED BY <1>1, <1>2 DEF Tx

\* It has none when its transaction ends.
LEMMA Released ==
  ASSUME AInv, NEW r \in Reqs, req[r].at \in Between, Release(r)
  PROVE  /\ leased' \subseteq Reqs \X {"tx", "tenant", "org"}
         /\ \A l \in leased' : l[1] # r
         /\ \A l \in Reqs \X {"tx", "tenant", "org"} :
              l[1] # r => (l \in leased' <=> l \in leased)
<1>1. leased \subseteq Reqs \X {"tx", "tenant", "org"} BY DEF AInv, Leases
<1> QED BY <1>1, OnlyTx DEF Release, Tx

\* What the request is told when its transaction has ended.
LEMMA Done ==
  ASSUME NEW r, NEW q, Goes(r, q), q.at # "exec"
  PROVE  LET n == [q EXCEPT !.locks = {}, !.view = Empty]
         IN  Goes(r, n) /\ n.at # "exec"
<1> DEFINE k == [q EXCEPT !.locks = {}]
           n == [k EXCEPT !.view = Empty]
<1>1. Good(q) BY DEF Goes
<1>2. Good(k) /\ k.op = q.op /\ k.uid = q.uid /\ k.at = q.at
  <2>1. Good(k) BY <1>1, Edits
  <2> QED BY <1>1, <2>1, FieldNames DEF Good
<1>3. Good(n) /\ n.op = q.op /\ n.uid = q.uid /\ n.at = q.at
  <2> HIDE DEF k
  <2>1. Good(n) BY <1>2, EmptyApart, Edits
  <2> QED BY <1>2, <2>1, FieldNames DEF Good
<1>4. n = [q EXCEPT !.locks = {}, !.view = Empty] OBVIOUS
<1> HIDE DEF n
<1> QED BY <1>3, <1>4 DEF Goes

\* A statement fails.
LEMMA ExecFailsKeeps ==
  ASSUME AInv, NEW r \in Reqs, NEW failed, Goes(r, failed), failed.at # "exec",
         ExecFails(r, failed)
  PROVE  AInv'
<1> DEFINE n == [failed EXCEPT !.locks = {}, !.view = Empty]
<1>1. Goes(r, n) /\ n.at # "exec" BY Done
<1>2. Go(r, n) /\ Release(r) /\ req[r].at = "exec" /\ UNCHANGED <<db, token, given>>
  BY DEF ExecFails, Rollback, tokens
<1> HIDE DEF n
<1>3. Working(r) BY <1>2 DEF Working, Resting
<1>4a. req[r].at \in Between BY <1>2 DEF Between
<1>4. Fits(r, n, leased') BY <1>1, <1>2, <1>4a, Released DEF Fits
<1>5. Apart(db') BY <1>2 DEF AInv, Requests
<1>6. token' \in [Users -> {"none", "half", "live"}] /\ \A u \in given : token'[u] # "half"
  BY <1>2 DEF AInv, Sessions
<1> QED BY <1>1, <1>2, <1>3, <1>4, <1>4a, <1>5, <1>6, Released, Moves

\* What history tells a request about tables that change.
LEMMA Witnessed ==
  ASSUME NEW q, Good(q), NEW t
  PROVE  /\ Good(Witness(q, t)) /\ Witness(q, t).op = q.op
         /\ Witness(q, t).at = q.at /\ Witness(q, t).uid = q.uid
<1> DEFINE Kept(n) == Good(n) /\ n.op = q.op /\ n.at = q.at /\ n.uid = q.uid
<1>0. Kept(q) OBVIOUS
<1>1. ASSUME NEW v, NEW w PROVE Kept([q EXCEPT !.were = v, !.stayed = w])
  <2> DEFINE k == [q EXCEPT !.were = v]
             n == [k EXCEPT !.stayed = w]
  <2>1. Good(k) /\ k.op = q.op /\ k.at = q.at /\ k.uid = q.uid
    <3>1. Good(k) BY Edits
    <3> QED BY <3>1, FieldNames DEF Good
  <2>2. Good(n) /\ n.op = q.op /\ n.at = q.at /\ n.uid = q.uid
    <3> HIDE DEF k
    <3>1. Good(n) BY <2>1, Edits
    <3> QED BY <2>1, <3>1, FieldNames DEF Good
  <2>3. n = [q EXCEPT !.were = v, !.stayed = w] OBVIOUS
  <2> HIDE DEF n
  <2> QED BY <2>2, <2>3
<1>2. ASSUME NEW v PROVE Kept([q EXCEPT !.lost = v])
  <2>1. Good([q EXCEPT !.lost = v]) BY Edits
  <2> QED BY <2>1, FieldNames DEF Good
<1>3. \/ Witness(q, t) = q
      \/ \E v, w : Witness(q, t) = [q EXCEPT !.were = v, !.stayed = w]
      \/ \E v : Witness(q, t) = [q EXCEPT !.lost = v]
  BY Zenon DEF Witness
<1> DEFINE W == Witness(q, t)
<1> HIDE DEF W
<1>4. CASE W = q BY <1>0, <1>4 DEF W
<1>5. ASSUME NEW v, NEW w, W = [q EXCEPT !.were = v, !.stayed = w] PROVE Kept(W)
  <2>1. Kept([q EXCEPT !.were = v, !.stayed = w]) BY <1>1
  <2> QED BY <1>5, <2>1
<1>6. ASSUME NEW v, W = [q EXCEPT !.lost = v] PROVE Kept(W)
  <2>1. Kept([q EXCEPT !.lost = v]) BY <1>2
  <2> QED BY <1>6, <2>1
<1>7. Kept(W) BY <1>3, <1>4, <1>5, <1>6 DEF W
<1> QED BY <1>7 DEF W

\* A transaction is committed.
LEMMA CommitKeeps ==
  ASSUME AInv, NEW r \in Reqs, NEW ok, NEW failed, Commit(r, ok, failed),
         Goes(r, ok), ok.at # "exec", Goes(r, failed), failed.at # "exec"
  PROVE  AInv'
<1>1. req[r].at = "exec" /\ Release(r) /\ UNCHANGED <<token, given>> BY DEF Commit, tokens
<1>2. PICK done \in BOOLEAN, told \in BOOLEAN :
        /\ db' = IF done THEN Seen(db, req[r].view, req[r].locks) ELSE db
        /\ req' = [x \in Reqs |->
             IF x # r THEN Witness(req[x], db')
             ELSE [(IF told THEN ok ELSE failed) EXCEPT !.locks = {}, !.view = Empty]]
  BY DEF Commit
<1> DEFINE f == IF told THEN ok ELSE failed
           n == [f EXCEPT !.locks = {}, !.view = Empty]
<1>3. Goes(r, n) /\ n.at # "exec"
  <2>1. Goes(r, f) /\ f.at # "exec" OBVIOUS
  <2> HIDE DEF f
  <2> QED BY <2>1, Done
<1>4. Apart(db')
  <2>1. Apart(db) /\ Apart(req[r].view) BY DEF AInv, Requests, Good
  <2> QED BY <1>2, <2>1, SeenApart
<1>5. DOMAIN req' = Reqs /\ req'[r] = n /\ \A x \in Reqs \ {r} : req'[x] = Witness(req[x], db')
  BY <1>2
<1> HIDE DEF n
<1>6. \A x \in Reqs \ {r} : Waits(x) BY <1>5, Witnessed DEF Waits, AInv, Requests
<1>7. Working(r) BY <1>1 DEF Working, Resting
<1>8a. req[r].at \in Between BY <1>1 DEF Between
<1>8. Fits(r, n, leased') BY <1>1, <1>3, <1>8a, Released DEF Fits
<1>9. token' \in [Users -> {"none", "half", "live"}] /\ \A u \in given : token'[u] # "half"
  BY <1>1 DEF AInv, Sessions
<1> QED BY <1>1, <1>3, <1>4, <1>5, <1>6, <1>7, <1>8, <1>8a, <1>9, Released, MovesAmong

\* A transaction as a whole.
LEMMA TransactKeeps ==
  ASSUME AInv, NEW r \in Reqs, NEW todo, NEW ok, NEW failed, Transact(r, todo, ok, failed),
         Goes(r, ok), ok.at # "exec", Goes(r, failed), failed.at # "exec"
  PROVE  AInv'
<1>1. CASE req[r].at = "begin" /\ Begin(r, [To(r, "exec") EXCEPT !.todo = todo], failed)
  <2> DEFINE n == [To(r, "exec") EXCEPT !.todo = todo]
  <2>1. Bare(r) BY <1>1 DEF Bare, Working, Resting
  <2>2. Good(n) /\ n.op = req[r].op /\ n.uid = req[r].uid /\ n.at = "exec"
    <3>1. Good(n) BY Onward, Edits
    <3> QED BY <3>1, Onward, FieldNames DEF Good
  <2>3. Goes(r, n) BY <2>2 DEF Goes
  <2>4. Fine(r, failed) BY <2>1, BareFine
  <2> HIDE DEF n
  <2>5. Begin(r, n, failed) BY <1>1 DEF n
  <2> QED BY <2>1, <2>2, <2>3, <2>4, <2>5, BeginKeeps
<1>2. CASE Exec(r) BY <1>2, ExecKeeps
<1>3. CASE ExecFails(r, [failed EXCEPT !.todo = <<>>])
  <2> DEFINE n == [failed EXCEPT !.todo = <<>>]
  <2>1. Good(n) /\ n.op = failed.op /\ n.uid = failed.uid /\ n.at = failed.at
    <3>1. Good(n) BY Edits DEF Goes
    <3> QED BY <3>1, FieldNames DEF Good, Goes
  <2> HIDE DEF n
  <2>2. Goes(r, n) /\ n.at # "exec" BY <2>1 DEF Goes
  <2>3. ExecFails(r, n) BY <1>3 DEF n
  <2> QED BY <2>2, <2>3, ExecFailsKeeps
<1>4. CASE Commit(r, ok, failed) BY <1>4, CommitKeeps
<1> QED BY <1>1, <1>2, <1>3, <1>4 DEF Transact

\* What a request becomes when more of it is changed.
LEMMA More ==
  ASSUME AInv, NEW r \in Reqs, NEW q, Goes(r, q)
  PROVE  /\ \A v : Goes(r, [q EXCEPT !.ret = v]) /\ [q EXCEPT !.ret = v].at = q.at
         /\ \A v : Goes(r, [q EXCEPT !.names = v]) /\ [q EXCEPT !.names = v].at = q.at
         /\ \A v : Goes(r, [q EXCEPT !.todo = v]) /\ [q EXCEPT !.todo = v].at = q.at
         /\ \A v : Goes(r, [q EXCEPT !.lost = v]) /\ [q EXCEPT !.lost = v].at = q.at
         /\ \A v : Goes(r, [q EXCEPT !.reached = v]) /\ [q EXCEPT !.reached = v].at = q.at
<1> SUFFICES ASSUME NEW v
             PROVE  /\ Goes(r, [q EXCEPT !.ret = v]) /\ [q EXCEPT !.ret = v].at = q.at
                    /\ Goes(r, [q EXCEPT !.names = v]) /\ [q EXCEPT !.names = v].at = q.at
                    /\ Goes(r, [q EXCEPT !.todo = v]) /\ [q EXCEPT !.todo = v].at = q.at
                    /\ Goes(r, [q EXCEPT !.lost = v]) /\ [q EXCEPT !.lost = v].at = q.at
                    /\ Goes(r, [q EXCEPT !.reached = v]) /\ [q EXCEPT !.reached = v].at = q.at
  OBVIOUS
<1>1. Good(q) BY DEF Goes
<1>2. /\ Good([q EXCEPT !.ret = v]) /\ Good([q EXCEPT !.names = v])
      /\ Good([q EXCEPT !.todo = v]) /\ Good([q EXCEPT !.lost = v])
      /\ Good([q EXCEPT !.reached = v])
  BY <1>1, Edits
<1>3. DOMAIN q = Fields BY <1>1 DEF Good
<1> QED BY <1>2, <1>3, FieldNames DEF Goes

\* The same with what comes next, field by field: what it returns ...
LEMMA MoreRet ==
  ASSUME AInv, NEW r \in Reqs, NEW q, Goes(r, q), NEW v
  PROVE  Goes(r, [q EXCEPT !.ret = v]) /\ [q EXCEPT !.ret = v].at = q.at
BY More, Zenon

\* ... the names it works on ...
LEMMA MoreNames ==
  ASSUME AInv, NEW r \in Reqs, NEW q, Goes(r, q), NEW v
  PROVE  Goes(r, [q EXCEPT !.names = v]) /\ [q EXCEPT !.names = v].at = q.at
BY More, Zenon

\* ... those it has left ...
LEMMA MoreTodo ==
  ASSUME AInv, NEW r \in Reqs, NEW q, Goes(r, q), NEW v
  PROVE  Goes(r, [q EXCEPT !.todo = v]) /\ [q EXCEPT !.todo = v].at = q.at
BY More, Zenon

\* ... those it lost ...
LEMMA MoreLost ==
  ASSUME AInv, NEW r \in Reqs, NEW q, Goes(r, q), NEW v
  PROVE  Goes(r, [q EXCEPT !.lost = v]) /\ [q EXCEPT !.lost = v].at = q.at
BY More, Zenon

\* ... and those it reached.
LEMMA MoreReached ==
  ASSUME AInv, NEW r \in Reqs, NEW q, Goes(r, q), NEW v
  PROVE  Goes(r, [q EXCEPT !.reached = v]) /\ [q EXCEPT !.reached = v].at = q.at
BY More, Zenon

\* The request as it is.
LEMMA Itself == ASSUME AInv, NEW r \in Reqs PROVE Goes(r, req[r])
BY DEF AInv, Requests, Goes

\* Receivers are told one by one.
LEMMA Dispatched ==
  ASSUME AInv, NEW r \in Reqs, NEW q, Goes(r, q), q.at \notin Resting, NEW S
  PROVE  Goes(r, Dispatch(q, S)) /\ Dispatch(q, S).at # "exec"
<1> DEFINE k == [q EXCEPT !.at = "push"]
           n == [k EXCEPT !.names = S]
<1>1. Good(q) /\ q.op = req[r].op BY DEF Goes
<1>2. CASE S = {}
  <2>1. Dispatch(q, S) = Answer(q, q.ret) BY <1>2 DEF Dispatch
  <2> QED BY <1>1, <2>1, Ends
<1>3. CASE S # {}
  <2>1. Good(k) BY <1>1, Edits
  <2>2. Goes(r, k) /\ k.at = "push" BY <1>1, <1>3, <2>1, FieldNames DEF Good, Goes
  <2>3. Goes(r, n) /\ n.at = "push"
    <3> HIDE DEF k
    <3> QED BY <2>2, MoreNames, Zenon
  <2>4. n = Dispatch(q, S) BY <1>3 DEF Dispatch
  <2> HIDE DEF n
  <2> QED BY <2>3, <2>4
<1> QED BY <1>2, <1>3

\* A push to one receiver, whatever comes of it.
LEMMA PushOneKeeps == ASSUME AInv, NEW r \in Reqs, PushOne(r) PROVE AInv'
<1>1. req[r].at = "push" /\ UNCHANGED <<db, leased, token, given>>
  BY DEF PushOne, pool, tokens
<1>2. Bare(r) BY <1>1 DEF Bare, Working, Resting
<1>3a. PICK u \in req[r].names : \E q \in push(req[r], u) : Go(r, Dispatch(q, q.names \ {u}))
  BY DEF PushOne
<1>3. PICK q \in push(req[r], u) : Go(r, Dispatch(q, q.names \ {u})) BY <1>3a
<1>4. Goes(r, q) /\ q.at = "push"
  <2> DEFINE p == req[r]
             failed == [p EXCEPT !.ret = "InternalErr"]
             reached == [p EXCEPT !.reached = p.reached \cup {u}]
  <2>0. Goes(r, p) /\ p.at = "push" BY <1>1, Itself
  <2>3. q \in {failed, reached} BY DEF push, Reached
  <2> HIDE DEF p
  <2>1. Goes(r, failed) /\ failed.at = "push" BY <2>0, MoreRet, Zenon
  <2>2. Goes(r, reached) /\ reached.at = "push" BY <2>0, MoreReached, Zenon
  <2> HIDE DEF failed, reached
  <2> QED BY <2>1, <2>2, <2>3
<1>5. q.at \notin Resting BY <1>4 DEF Resting
<1>6. Fine(r, Dispatch(q, q.names \ {u})) BY <1>2, <1>4, <1>5, Dispatched, BareFine
<1> QED BY <1>1, <1>3, <1>6, Plain

\* A message about the group itself.
LEMMA TellKeeps ==
  ASSUME AInv, NEW r \in Reqs, NEW at, NEW done, Tell(r, at, done), Bare(r),
         Goes(r, done), done.at # "exec"
  PROVE  AInv'
<1>1. UNCHANGED <<db, leased, token, given>> BY DEF Tell, pool, tokens
<1>2. PICK u \in req[r].names :
        Go(r, IF req[r].names = {u} THEN done
              ELSE [req[r] EXCEPT !.names = req[r].names \ {u}])
  BY DEF Tell
<1> DEFINE p == req[r]
           v == p.names \ {u}
           n == [p EXCEPT !.names = v]
<1>3. Goes(r, n) /\ n.at # "exec"
  <2>1. Goes(r, p) /\ p.at # "exec" BY Itself DEF Bare
  <2> HIDE DEF p, v
  <2>2. Goes(r, n) /\ n.at = p.at BY <2>1, MoreNames, Zenon
  <2> HIDE DEF n
  <2> QED BY <2>1, <2>2
<1> HIDE DEF n
<1>4. Go(r, done) \/ Go(r, n) BY <1>2 DEF n
<1>5. Fine(r, done) /\ Fine(r, n) BY <1>3, BareFine
<1> QED BY <1>1, <1>4, <1>5, Plain

\* The token lives on if it is there, and is not brought back.
LEMMA GetUserKeeps ==
  ASSUME AInv, NEW r \in Reqs, NEW next, next # "exec", getUserByToken(r, next)
  PROVE  AInv'
<1> DEFINE q == req[r]
<1>0. Sessions BY DEF AInv
<1>1. UNCHANGED <<db, leased, given>> BY DEF getUserByToken, pool, tokens
<1>2. q.at \in {"token", "user"} BY DEF getUserByToken
<1>3. Bare(r) BY <1>2 DEF Bare, Working, Resting
<1>4. PICK n \in {Answer(q, "AuthErr"), To(r, "user"), To(r, next)} : Go(r, n)
  BY DEF getUserByToken
<1>5. Goes(r, n) /\ n.at # "exec"
  <2>1. q.op = req[r].op OBVIOUS
  <2> HIDE DEF q
  <2>2. Goes(r, Answer(q, "AuthErr")) /\ Answer(q, "AuthErr").at # "exec" BY <2>1, Ends
  <2>3. Goes(r, To(r, "user")) /\ To(r, "user").at # "exec" BY Onward
  <2>4. Goes(r, To(r, next)) /\ To(r, next).at # "exec" BY Onward
  <2> QED BY <2>2, <2>3, <2>4
<1>6. Fine(r, n) BY <1>3, <1>5, BareFine
<1>7. token' \in {token, Refreshed(q.user)} BY DEF getUserByToken, tokens
<1>8. token' \in [Users -> {"none", "half", "live"}] /\ \A u \in given : token'[u] # "half"
  BY <1>0, <1>7 DEF Sessions, Refreshed
<1>9. /\ Apart(db') /\ leased' \subseteq Reqs \X {"tx", "tenant", "org"}
      /\ Working(r) /\ Fits(r, n, leased')
  BY <1>1, <1>6 DEF AInv, Requests, Leases, Fine
<1> QED BY <1>1, <1>4, <1>5, <1>8, <1>9, Moves

\* A read outside a transaction.
LEMMA ReadBare ==
  ASSUME AInv, NEW r \in Reqs, Bare(r), NEW found, NEW failed, Read(r, found, failed),
         \A q \in found \cup {failed} : Goes(r, q) /\ q.at # "exec"
  PROVE  AInv'
<1>1. \A q \in found \cup {failed} : Fine(r, q) BY BareFine
<1> QED BY <1>1, ReadKeeps

\* Where a transaction goes on.
LEMMA OnwardExec ==
  ASSUME AInv, NEW r \in Reqs, NEW v
  PROVE  Goes(r, [To(r, "exec") EXCEPT !.todo = v]) /\ [To(r, "exec") EXCEPT !.todo = v].at = "exec"
<1> DEFINE t == To(r, "exec")
<1>1. Goes(r, t) /\ t.at = "exec" BY Onward
<1> HIDE DEF t
<1>2. Goes(r, [t EXCEPT !.todo = v]) /\ [t EXCEPT !.todo = v].at = "exec" BY <1>1, MoreTodo, Zenon
<1> QED BY <1>2 DEF t

\* Where a handler goes on with something it has found.
LEMMA OnwardBare ==
  ASSUME AInv, NEW r \in Reqs, NEW a, a # "exec", NEW v
  PROVE  /\ Goes(r, [To(r, a) EXCEPT !.ret = v]) /\ [To(r, a) EXCEPT !.ret = v].at # "exec"
         /\ Goes(r, [To(r, a) EXCEPT !.names = v]) /\ [To(r, a) EXCEPT !.names = v].at # "exec"
         /\ Goes(r, [To(r, a) EXCEPT !.lost = v]) /\ [To(r, a) EXCEPT !.lost = v].at # "exec"
<1> DEFINE t == To(r, a)
<1>1. Goes(r, t) /\ t.at # "exec" BY Onward
<1> HIDE DEF t
<1>2. Goes(r, [t EXCEPT !.ret = v]) /\ [t EXCEPT !.ret = v].at # "exec"
  BY <1>1, MoreRet, Zenon
<1>3. Goes(r, [t EXCEPT !.names = v]) /\ [t EXCEPT !.names = v].at # "exec"
  BY <1>1, MoreNames, Zenon
<1>4. Goes(r, [t EXCEPT !.lost = v]) /\ [t EXCEPT !.lost = v].at # "exec"
  BY <1>1, MoreLost, Zenon
<1> QED BY <1>2, <1>3, <1>4 DEF t

\* An answer, to a request that could not read what it wanted.
LEMMA EndsWith ==
  ASSUME AInv, NEW r \in Reqs, NEW ret, NEW v
  PROVE  /\ Goes(r, Answer(req[r], ret)) /\ Answer(req[r], ret).at # "exec"
         /\ Goes(r, Closed(req[r])) /\ Closed(req[r]).at # "exec"
         /\ Goes(r, [Answer(req[r], ret) EXCEPT !.lost = v])
         /\ [Answer(req[r], ret) EXCEPT !.lost = v].at # "exec"
<1> DEFINE q == req[r]
<1>1. q.op = req[r].op OBVIOUS
<1> HIDE DEF q
<1>2. /\ Goes(r, Answer(q, ret)) /\ Answer(q, ret).at # "exec"
      /\ Goes(r, Closed(q)) /\ Closed(q).at # "exec"
  BY <1>1, Ends
<1> DEFINE t == Answer(q, ret)
<1>3. Goes(r, t) /\ t.at # "exec" BY <1>2
<1> HIDE DEF t
<1>4. Goes(r, [t EXCEPT !.lost = v]) /\ [t EXCEPT !.lost = v].at = t.at BY <1>3, MoreLost, Zenon
<1>5. Goes(r, [Answer(q, ret) EXCEPT !.lost = v]) /\ [Answer(q, ret) EXCEPT !.lost = v].at # "exec"
  BY <1>3, <1>4 DEF t
<1> QED BY <1>2, <1>5 DEF q

-----------------------------------------------------------------------------
(* The handlers. *)

\* Where a handler is, is where it holds no connection.
LEMMA BareAt ==
  ASSUME NEW r, req[r].at \notin Resting,
         req[r].at \notin {"exec", "body", "exists", "org", "stars"}
  PROVE  Bare(r)
BY DEF Bare, Working

\* A group is created.
LEMMA CreateQunKeeps == ASSUME AInv, NEW r \in Reqs, CreateQun(r) PROVE AInv'
<1>1. CASE getUserByToken(r, "begin") BY <1>1, GetUserKeeps
<1>2. CASE Transact(r, createQun(req[r]), To(r, "members"),
                    [To(r, "members") EXCEPT !.ret = "InternalErr"])
  <2> DEFINE ok == To(r, "members")
             failed == [To(r, "members") EXCEPT !.ret = "InternalErr"]
             todo == createQun(req[r])
  <2>1. Goes(r, ok) /\ ok.at # "exec" BY Onward
  <2>2. Goes(r, failed) /\ failed.at # "exec" BY OnwardBare, Zenon
  <2>3. Transact(r, todo, ok, failed) BY <1>2
  <2> HIDE DEF ok, failed, todo
  <2> QED BY <2>1, <2>2, <2>3, TransactKeeps
<1>3. CASE /\ req[r].at = "members"
           /\ Read(r, {[To(r, "tell") EXCEPT !.names = {req[r].uid}]},
                   Answer(req[r], "InternalErr"))
  <2> DEFINE ok == [To(r, "tell") EXCEPT !.names = {req[r].uid}]
             failed == Answer(req[r], "InternalErr")
  <2>1. Goes(r, ok) /\ ok.at # "exec" BY OnwardBare, Zenon
  <2>2. Goes(r, failed) /\ failed.at # "exec" BY EndsWith
  <2>3. Bare(r) BY <1>3, BareAt DEF Resting
  <2>4. Read(r, {ok}, failed) BY <1>3
  <2> HIDE DEF ok, failed
  <2> QED BY <2>1, <2>2, <2>3, <2>4, ReadBare
<1>4. CASE Tell(r, "tell", Answer(req[r], req[r].ret))
  <2> DEFINE done == Answer(req[r], req[r].ret)
  <2>1. Goes(r, done) /\ done.at # "exec" BY EndsWith
  <2>2. Bare(r) BY <1>4, BareAt DEF Resting, Tell
  <2>3. Tell(r, "tell", done) BY <1>4
  <2> HIDE DEF done
  <2> QED BY <2>1, <2>2, <2>3, TellKeeps
<1> QED BY <1>1, <1>2, <1>3, <1>4 DEF CreateQun

\* A group gets a new topic.
LEMMA UpdateQunTopicKeeps == ASSUME AInv, NEW r \in Reqs, UpdateQunTopicById(r) PROVE AInv'
<1> DEFINE q      == req[r]
           others == MembersOf(db, q.qun) \ {q.user}
<1>1. CASE getUserByToken(r, "begin") BY <1>1, GetUserKeeps
<1>2. CASE Transact(r, updateQunTopicById(q), [To(r, "self") EXCEPT !.names = {q.user}],
                    Answer(q, "InternalErr"))
  <2> DEFINE ok == [To(r, "self") EXCEPT !.names = {q.user}]
             failed == Answer(q, "InternalErr")
             todo == updateQunTopicById(q)
  <2>1. Goes(r, ok) /\ ok.at # "exec" BY OnwardBare, Zenon
  <2>2. Goes(r, failed) /\ failed.at # "exec" BY EndsWith
  <2>3. Transact(r, todo, ok, failed) BY <1>2
  <2> HIDE DEF ok, failed, todo
  <2> QED BY <2>1, <2>2, <2>3, TransactKeeps
<1>3. CASE Tell(r, "self", To(r, "members"))
  <2>1. Goes(r, To(r, "members")) /\ To(r, "members").at # "exec" BY Onward
  <2>2. Bare(r) BY <1>3, BareAt DEF Resting, Tell
  <2> QED BY <1>3, <2>1, <2>2, TellKeeps
<1>4. CASE /\ q.at = "members"
           /\ Read(r, {IF others = {} THEN Answer(q, "OK")
                       ELSE [To(r, "tell") EXCEPT !.names = others]}, Answer(q, "OK"))
  <2> DEFINE ok == [To(r, "tell") EXCEPT !.names = others]
             failed == Answer(q, "OK")
  <2>1. Goes(r, ok) /\ ok.at # "exec" BY OnwardBare, Zenon
  <2>2. Goes(r, failed) /\ failed.at # "exec" BY EndsWith
  <2>3. Bare(r) BY <1>4, BareAt DEF Resting
  <2>4. Read(r, {IF others = {} THEN failed ELSE ok}, failed) BY <1>4
  <2> HIDE DEF ok, failed, others
  <2> QED BY <2>1, <2>2, <2>3, <2>4, ReadBare
<1>5. CASE Tell(r, "tell", Answer(q, "OK"))
  <2> DEFINE done == Answer(q, "OK")
  <2>1. Goes(r, done) /\ done.at # "exec" BY EndsWith
  <2>2. Bare(r) BY <1>5, BareAt DEF Resting, Tell
  <2>3. Tell(r, "tell", done) BY <1>5
  <2> HIDE DEF done
  <2> QED BY <2>1, <2>2, <2>3, TellKeeps
<1> QED BY <1>1, <1>2, <1>3, <1>4, <1>5 DEF UpdateQunTopicById

\* Members are added and removed in the same steps.
LEMMA MembersKeep ==
  ASSUME AInv, NEW r \in Reqs, AddQunMember(r) \/ DelQunMember(r)
  PROVE  AInv'
<1> DEFINE failed == Answer(req[r], "InternalErr")
           ok     == Answer(req[r], "OK")
<1>0. Goes(r, failed) /\ failed.at # "exec" /\ Goes(r, ok) /\ ok.at # "exec" BY EndsWith
<1>1. CASE getUserByToken(r, "group") BY <1>1, GetUserKeeps
<1>2. ASSUME req[r].at = "group", NEW b \in BOOLEAN,
             Read(r, IF b THEN {To(r, "begin")} ELSE {}, failed)
      PROVE  AInv'
  <2> DEFINE found == IF b THEN {To(r, "begin")} ELSE {}
  <2>1. Goes(r, To(r, "begin")) /\ To(r, "begin").at # "exec" BY Onward
  <2>2. Bare(r) BY <1>2, BareAt DEF Resting
  <2>3. Read(r, found, failed) BY <1>2
  <2> HIDE DEF failed
  <2>4. \A q \in found \cup {failed} : Goes(r, q) /\ q.at # "exec" BY <1>0, <2>1
  <2> HIDE DEF found
  <2> QED BY <2>2, <2>3, <2>4, ReadBare
<1>3. ASSUME NEW todo, Transact(r, todo, To(r, "members"), failed) PROVE AInv'
  <2>1. Goes(r, To(r, "members")) /\ To(r, "members").at # "exec" BY Onward
  <2> HIDE DEF failed
  <2> QED BY <1>0, <1>3, <2>1, TransactKeeps
<1>4. ASSUME req[r].at = "members", Read(r, {ok}, failed) PROVE AInv'
  <2>1. Bare(r) BY <1>4, BareAt DEF Resting
  <2> HIDE DEF failed, ok
  <2> QED BY <1>0, <1>4, <2>1, ReadBare
<1>5. CASE AddQunMember(r)
  <2>1. Found(req[r].qun) \in BOOLEAN BY Zenon DEF Found
  <2> QED BY <1>1, <1>2, <1>3, <1>4, <1>5, <2>1 DEF AddQunMember
<1>6. CASE DelQunMember(r)
  <2>1. MayRemove(req[r]) \in BOOLEAN BY Zenon DEF MayRemove
  <2> QED BY <1>1, <1>2, <1>3, <1>4, <1>6, <2>1 DEF DelQunMember
<1> QED BY <1>5, <1>6

\* Who is told, once the receivers are known.
LEMMA DispatchedFrom ==
  ASSUME AInv, NEW r \in Reqs, Bare(r), NEW S
  PROVE  Goes(r, Dispatch(req[r], S)) /\ Dispatch(req[r], S).at # "exec"
<1> DEFINE q == req[r]
<1>1. Goes(r, q) /\ q.at \notin Resting BY Itself DEF Bare, Working
<1> HIDE DEF q
<1>2. Goes(r, Dispatch(q, S)) /\ Dispatch(q, S).at # "exec" BY <1>1, Dispatched
<1> QED BY <1>2 DEF q

\* A push that holds no connection of its own.
LEMMA PushKeeps == ASSUME AInv, NEW r \in Reqs, Push(r) PROVE AInv'
<1> DEFINE q == req[r]
<1>1. CASE getUserByToken(r, "from") BY <1>1, GetUserKeeps
<1>2. CASE getUserByToken(r, "names") BY <1>2, GetUserKeeps
<1>3. CASE PushOne(r) BY <1>3, PushOneKeeps
<1>4. CASE q.at = "from" /\ Read(r, {Dispatch(q, {q.peer})}, Closed(q))
  <2> DEFINE ok == Dispatch(q, {q.peer})
             failed == Closed(q)
  <2>1. Bare(r) BY <1>4, BareAt DEF Resting
  <2>2. Goes(r, ok) /\ ok.at # "exec" BY <2>1, DispatchedFrom, Zenon
  <2>3. Goes(r, failed) /\ failed.at # "exec" BY EndsWith
  <2>4. Read(r, {ok}, failed) BY <1>4
  <2> HIDE DEF ok, failed
  <2> QED BY <2>1, <2>2, <2>3, <2>4, ReadBare
<1>5. CASE q.at = "from" /\ Read(r, {To(r, "group")}, [To(r, "group") EXCEPT !.lost = TRUE])
  <2> DEFINE ok == To(r, "group")
             failed == [To(r, "group") EXCEPT !.lost = TRUE]
  <2>1. Bare(r) BY <1>5, BareAt DEF Resting
  <2>2. Goes(r, ok) /\ ok.at # "exec" BY Onward
  <2>3. Goes(r, failed) /\ failed.at # "exec" BY OnwardBare, Zenon
  <2>4. Read(r, {ok}, failed) BY <1>5
  <2> HIDE DEF ok, failed
  <2> QED BY <2>1, <2>2, <2>3, <2>4, ReadBare
<1>6. CASE /\ q.at = "group"
           /\ Read(r, IF ~Found(q.qun) THEN {} ELSE {IF q.lost THEN Closed(q) ELSE To(r, "names")},
                   Answer(q, "InternalErr"))
  <2> DEFINE gone == Closed(q)
             ok == To(r, "names")
             found == IF ~Found(q.qun) THEN {} ELSE {IF q.lost THEN gone ELSE ok}
             failed == Answer(q, "InternalErr")
  <2>1. Bare(r) BY <1>6, BareAt DEF Resting
  <2>2. Goes(r, ok) /\ ok.at # "exec" BY Onward
  <2>3. Goes(r, failed) /\ failed.at # "exec" BY EndsWith
  <2>4. Goes(r, gone) /\ gone.at # "exec" BY EndsWith
  <2>5. Read(r, found, failed) BY <1>6
  <2> HIDE DEF gone, ok, failed
  <2>6. \A x \in found \cup {failed} : Goes(r, x) /\ x.at # "exec" BY <2>2, <2>3, <2>4
  <2> HIDE DEF found
  <2> QED BY <2>1, <2>5, <2>6, ReadBare
<1>7. CASE /\ q.at = "names"
           /\ Read(r, {Dispatch(Gathered(q, S), S) : S \in getToUserNames(q)},
                   [Answer(q, "OK") EXCEPT !.lost = TRUE])
  <2> DEFINE ok(S) == Dispatch(Gathered(q, S), S)
             found == {ok(S) : S \in getToUserNames(q)}
             failed == [Answer(q, "OK") EXCEPT !.lost = TRUE]
  <2>1. Bare(r) BY <1>7, BareAt DEF Resting
  <2>2. ASSUME NEW S PROVE Goes(r, ok(S)) /\ ok(S).at # "exec"
    <3> DEFINE k == Gathered(q, S)
    <3>1. Goes(r, q) /\ q.at \notin Resting BY <2>1, Itself DEF Bare, Working
    <3>2. Goes(r, k) /\ k.at = q.at
      <4> HIDE DEF q
      <4> QED BY <3>1, MoreLost DEF Gathered
    <3> HIDE DEF k, q
    <3>3. Goes(r, Dispatch(k, S)) /\ Dispatch(k, S).at # "exec" BY <3>1, <3>2, Dispatched
    <3> QED BY <3>3 DEF k
  <2>3. Goes(r, failed) /\ failed.at # "exec" BY EndsWith, Zenon
  <2>4. Read(r, found, failed) BY <1>7
  <2> HIDE DEF ok, failed
  <2>5. \A x \in found \cup {failed} : Goes(r, x) /\ x.at # "exec" BY <2>2, <2>3
  <2> HIDE DEF found
  <2> QED BY <2>1, <2>4, <2>5, ReadBare
<1> QED BY <1>1, <1>2, <1>3, <1>4, <1>5, <1>6, <1>7 DEF Push

\* An application pushes.
LEMMA UserPushKeeps == ASSUME AInv, NEW r \in Reqs, UserPush(r) PROVE AInv'
<1> DEFINE q == req[r]
           S == {q.list[i] : i \in DOMAIN q.list}
<1>1. CASE PushOne(r) BY <1>1, PushOneKeeps
<1>2. CASE /\ q.at = "application"
           /\ Read(r, {IF Len(q.list) > MaxReceivers THEN Answer(q, "TooLong")
                       ELSE Dispatch(q, S)}, Answer(q, "AuthErr"))
  <2> DEFINE long == Answer(q, "TooLong")
             ok == Dispatch(q, S)
             found == {IF Len(q.list) > MaxReceivers THEN long ELSE ok}
             failed == Answer(q, "AuthErr")
  <2>1. Bare(r) BY <1>2, BareAt DEF Resting
  <2>2. Goes(r, ok) /\ ok.at # "exec" BY <2>1, DispatchedFrom, Zenon
  <2>3. Goes(r, failed) /\ failed.at # "exec" BY EndsWith
  <2>4. Goes(r, long) /\ long.at # "exec" BY EndsWith
  <2>5. Read(r, found, failed) BY <1>2
  <2> HIDE DEF long, ok, failed
  <2>6. \A x \in found \cup {failed} : Goes(r, x) /\ x.at # "exec" BY <2>2, <2>3, <2>4
  <2> HIDE DEF found
  <2> QED BY <2>1, <2>5, <2>6, ReadBare
<1> QED BY <1>1, <1>2 DEF UserPush

\* A contact is added or removed.
LEMMA ContactKeeps == ASSUME AInv, NEW r \in Reqs, AddOrRemoveContact(r) PROVE AInv'
<1> DEFINE q  == req[r]
           ok == Answer(q, "OK")
           failed == Answer(q, "InternalErr")
<1>0. Goes(r, failed) /\ failed.at # "exec" /\ Goes(r, ok) /\ ok.at # "exec" BY EndsWith
<1>1. CASE getUserByToken(r, "star") \/ getUserByToken(r, "begin") BY <1>1, GetUserKeeps
<1>2. CASE /\ q.at = "star"
           /\ Read(r, {IF isStar(q) THEN ok ELSE To(r, "begin")},
                   [To(r, "begin") EXCEPT !.lost = TRUE])
  <2> DEFINE on == To(r, "begin")
             blind == [To(r, "begin") EXCEPT !.lost = TRUE]
             found == {IF isStar(q) THEN ok ELSE on}
  <2>1. Bare(r) BY <1>2, BareAt DEF Resting
  <2>2. Goes(r, on) /\ on.at # "exec" BY Onward
  <2>3. Goes(r, blind) /\ blind.at # "exec" BY OnwardBare, Zenon
  <2>4. Read(r, found, blind) BY <1>2
  <2> HIDE DEF on, blind, ok
  <2>5. \A x \in found \cup {blind} : Goes(r, x) /\ x.at # "exec" BY <1>0, <2>2, <2>3
  <2> HIDE DEF found
  <2> QED BY <2>1, <2>4, <2>5, ReadBare
<1>3. ASSUME NEW todo, Transact(r, todo, ok, failed) PROVE AInv'
  <2> HIDE DEF ok, failed
  <2> QED BY <1>0, <1>3, TransactKeeps
<1> QED BY <1>1, <1>2, <1>3 DEF AddOrRemoveContact

\* What is read is in one query at a time.
LEMMA LookKeeps == ASSUME AInv, NEW r \in Reqs, Look(r) PROVE AInv'
<1> DEFINE q == req[r]
           Reads(at) == \E found \in SUBSET ({Answer(q, "OK")} \cup
                                             {To(r, x) : x \in {"group", "star", "count"}}) :
                          \E ret \in {"OK", "NotFound", "InternalErr"} :
                            q.at = at /\ Read(r, found, Answer(q, ret))
<1>1. ASSUME NEW next \in {"members", "member", "search", "version"}, getUserByToken(r, next)
      PROVE  AInv'
  BY <1>1, GetUserKeeps
<1>2. ASSUME NEW at \in {"members", "group", "member", "star", "search", "count", "version",
                         "uid", "list"}, Reads(at)
      PROVE  AInv'
  <2>1. PICK found \in SUBSET ({Answer(q, "OK")} \cup {To(r, x) : x \in {"group", "star", "count"}}),
             ret \in {"OK", "NotFound", "InternalErr"} :
               q.at = at /\ Read(r, found, Answer(q, ret))
    BY <1>2
  <2>2. Bare(r) BY <2>1, BareAt DEF Resting
  <2>3. \A x : Goes(r, Answer(q, x)) /\ Answer(q, x).at # "exec" BY EndsWith
  <2>4. \A x \in {"group", "star", "count"} : Goes(r, To(r, x)) /\ To(r, x).at # "exec" BY Onward
  <2> DEFINE failed == Answer(q, ret)
  <2>5. \A x \in found \cup {failed} : Goes(r, x) /\ x.at # "exec" BY <2>3, <2>4
  <2>6. Read(r, found, failed) BY <2>1
  <2> HIDE DEF failed
  <2> QED BY <2>2, <2>5, <2>6, ReadBare
<1>3. \/ \E next \in {"members", "member", "search", "version"} : getUserByToken(r, next)
      \/ \E at \in {"members", "group", "member", "star", "search", "count", "version",
                    "uid", "list"} : Reads(at)
  BY DEF Look, GetUsersInQun, GetMemberByUserName, SearchUser, CheckUpdate, UserErWeiMa,
         GetOrgUserList, At
<1> QED BY <1>1, <1>2, <1>3

\* Rows that are kept, until the handler ends.
LEMMA KeepKeeps ==
  ASSUME AInv, NEW r \in Reqs, NEW rows, NEW at, Keep(r, rows, To(r, at)),
         \/ req[r].at = "tenant" /\ rows = "tenant" /\ at = "org"
         \/ req[r].at = "org" /\ rows = "org" /\ at = "stars"
  PROVE  AInv'
<1> DEFINE ok == To(r, at)
           failed == Answer(req[r], "InternalErr")
<1>0. /\ leased \subseteq Reqs \X {"tx", "tenant", "org"}
      /\ \A l \in leased : l[2] \in MayHold(req[l[1]].at)
  BY DEF AInv, Leases, ConnsReturn
<1>1. UNCHANGED <<db, token, given>> BY DEF Keep, tokens
<1>2. Goes(r, ok) /\ ok.at = at /\ Goes(r, failed) /\ failed.at # "exec" BY Onward, EndsWith
<1>3. Working(r) BY DEF Working, Resting
<1>4. Apart(db') BY <1>1 DEF AInv, Requests
<1>5. token' \in [Users -> {"none", "half", "live"}] /\ \A u \in given : token'[u] # "half"
  BY <1>1 DEF AInv, Sessions
<1>6. \A l \in leased : l[1] = r => l[2] \in {"tenant"} /\ l[2] \in MayHold(at)
  BY <1>0 DEF MayHold
<1>7. rows \in MayHold(at) BY DEF MayHold
<1>8. \/ leased' \in {leased, leased \cup {<<r, rows>>}} /\ Go(r, ok)
      \/ leased' = {l \in leased : l[1] # r} /\ Go(r, failed)
  BY DEF Keep
<1> HIDE DEF ok, failed
<1>9. CASE leased' \in {leased, leased \cup {<<r, rows>>}} /\ Go(r, ok)
  <2>1. <<r, rows>> \in Reqs \X {"tx", "tenant", "org"} BY <1>7
  <2>2. leased' \subseteq Reqs \X {"tx", "tenant", "org"} BY <1>0, <1>9, <2>1
  <2>3. \A l \in leased' : l[1] = r => l[2] \in MayHold(at) BY <1>6, <1>7, <1>9
  <2>4. Fits(r, ok, leased') BY <1>2, <2>3 DEF Fits
  <2>5. \A l \in Reqs \X {"tx", "tenant", "org"} : l[1] # r => (l \in leased' <=> l \in leased)
    BY <1>9
  <2> QED BY <1>1, <1>2, <1>3, <1>4, <1>5, <1>9, <2>2, <2>4, <2>5, Moves
<1>10. CASE leased' = {l \in leased : l[1] # r} /\ Go(r, failed)
  <2>1. leased' \subseteq Reqs \X {"tx", "tenant", "org"} BY <1>0, <1>10
  <2>2. Fits(r, failed, leased') BY <1>2, <1>10 DEF Fits
  <2>3. \A l \in Reqs \X {"tx", "tenant", "org"} : l[1] # r => (l \in leased' <=> l \in leased)
    BY <1>10
  <2> QED BY <1>1, <1>2, <1>3, <1>4, <1>5, <1>10, <2>1, <2>2, <2>3, Moves
<1> QED BY <1>8, <1>9, <1>10

\* Rows that stay open are released where the handler ends.
LEMMA GetOrgInfoKeeps == ASSUME AInv, NEW r \in Reqs, GetOrgInfo(r) PROVE AInv'
<1> DEFINE ok == Answer(req[r], "OK")
           failed == Answer(req[r], "InternalErr")
<1>0. Goes(r, failed) /\ failed.at # "exec" /\ Goes(r, ok) /\ ok.at # "exec" BY EndsWith
<1>1. CASE getUserByToken(r, "orgs") BY <1>1, GetUserKeeps
<1>2. CASE req[r].at = "orgs" /\ Read(r, {To(r, "tenant"), ok}, failed)
  <2>1. Bare(r) BY <1>2, BareAt DEF Resting
  <2>2. Goes(r, To(r, "tenant")) /\ To(r, "tenant").at # "exec" BY Onward
  <2> HIDE DEF ok, failed
  <2> QED BY <1>0, <1>2, <2>1, <2>2, ReadBare
<1>3. CASE req[r].at = "tenant" /\ Keep(r, "tenant", To(r, "org")) BY <1>3, KeepKeeps
<1>4. CASE req[r].at = "org" /\ Keep(r, "org", To(r, "stars")) BY <1>4, KeepKeeps
<1>5. CASE /\ req[r].at = "stars" /\ leased' = {l \in leased : l[1] # r} /\ Go(r, ok)
           /\ UNCHANGED <<db, left, dead, tokens, used, mix>>
  <2>1. UNCHANGED <<db, token, given>> BY <1>5 DEF tokens
  <2>2. Working(r) BY <1>5 DEF Working, Resting
  <2>3. Apart(db') BY <2>1 DEF AInv, Requests
  <2>4. leased' \subseteq Reqs \X {"tx", "tenant", "org"} BY <1>5 DEF AInv, Leases
  <2>5. token' \in [Users -> {"none", "half", "live"}] /\ \A u \in given : token'[u] # "half"
    BY <2>1 DEF AInv, Sessions
  <2> HIDE DEF ok
  <2>6. Fits(r, ok, leased') BY <1>0, <1>5 DEF Fits
  <2>7. \A l \in Reqs \X {"tx", "tenant", "org"} : l[1] # r => (l \in leased' <=> l \in leased)
    BY <1>5
  <2> QED BY <1>0, <1>5, <2>1, <2>2, <2>3, <2>4, <2>5, <2>6, <2>7, Moves
<1> QED BY <1>1, <1>2, <1>3, <1>4, <1>5 DEF GetOrgInfo

\* A transaction that is left open takes its connection out of the pool for good.
LEMMA LeaveKeeps ==
  ASSUME AInv, NEW r \in Reqs, NEW q, Leave(r, q), req[r].at \in Between,
         Goes(r, q), q.at # "exec"
  PROVE  AInv'
<1>1. Go(r, q) /\ Release(r) /\ UNCHANGED <<db, token, given>> BY DEF Leave, tokens
<1>2. Working(r) BY DEF Working, Resting, Between
<1>3. Fits(r, q, leased') BY <1>1, Released DEF Fits
<1>4. Apart(db') BY <1>1 DEF AInv, Requests
<1>5. token' \in [Users -> {"none", "half", "live"}] /\ \A u \in given : token'[u] # "half"
  BY <1>1 DEF AInv, Sessions
<1> QED BY <1>1, <1>2, <1>3, <1>4, <1>5, Released, Moves

\* A transaction that SyncOrg leaves open is no lease any more.
LEMMA SyncOrgKeeps == ASSUME AInv, NEW r \in Reqs, SyncOrg(r) PROVE AInv'
<1> DEFINE q == req[r]
           ok == Answer(q, "OK")
           failed == Answer(q, "InternalErr")
           bad == Answer(q, "ParamErr")
           gone == Closed(q)
<1>0. /\ Goes(r, failed) /\ failed.at # "exec" /\ Goes(r, ok) /\ ok.at # "exec"
      /\ Goes(r, bad) /\ bad.at # "exec" /\ Goes(r, gone) /\ gone.at # "exec"
  BY EndsWith
<1> HIDE DEF ok, failed, bad, gone
<1>1. CASE q.at = "sync" /\ Begin(r, To(r, "body"), To(r, "body"))
  <2>1. Bare(r) BY <1>1, BareAt DEF Resting
  <2>2. Goes(r, To(r, "body")) /\ To(r, "body").at = "body" BY Onward
  <2>3. Fine(r, To(r, "body")) BY <2>1, <2>2, BareFine
  <2> QED BY <1>1, <2>1, <2>2, <2>3, BeginKeeps
<1>2. CASE q.at = "body" /\ Leave(r, bad) BY <1>0, <1>2, LeaveKeeps DEF Between
<1>3. CASE q.at = "body" /\ Go(r, To(r, "exists")) /\ UNCHANGED <<db, pool, tokens, used, mix>>
  <2>1. Goes(r, To(r, "exists")) /\ To(r, "exists").at = "exists" BY Onward
  <2>2. Working(r) /\ req[r].at \in Between BY <1>3 DEF Working, Resting, Between
  <2>3. Fits(r, To(r, "exists"), leased)
    <3>1. \A l \in leased : l[1] = r => l[2] = "tx" BY <2>2, OnlyTx DEF Tx
    <3> QED BY <2>1, <3>1 DEF Fits, MayHold
  <2>4. UNCHANGED <<db, leased, token, given>> BY <1>3 DEF pool, tokens
  <2> QED BY <1>3, <2>1, <2>2, <2>3, <2>4, Plain DEF Fine
<1>4. CASE /\ q.at = "exists" /\ Begun(r)
           /\ \E x \in {FALSE, isExists} :
                Read(r, {}, [To(r, "exec") EXCEPT !.todo = syncOrg(q, x)])
  <2>1. PICK x : Read(r, {}, [To(r, "exec") EXCEPT !.todo = syncOrg(q, x)]) BY <1>4
  <2> DEFINE on == [To(r, "exec") EXCEPT !.todo = syncOrg(q, x)]
  <2>2. Goes(r, on) /\ on.at = "exec" BY OnwardExec, Zenon
  <2>3. Read(r, {}, on) BY <2>1
  <2> HIDE DEF on
  <2>4. Working(r) /\ req[r].at \in Between BY <1>4 DEF Working, Resting, Between
  <2>5. \A l \in leased : l[1] = r => l[2] = "tx" BY <2>4, OnlyTx DEF Tx
  <2>6. Fine(r, on) BY <1>4, <2>2, <2>4, <2>5 DEF Fine, Fits, Begun, MayHold
  <2> QED BY <2>3, <2>6, ReadKeeps
<1>5. CASE q.at = "exists" /\ ~Begun(r) /\ Read(r, {}, gone)
  <2>1. Working(r) /\ req[r].at \in Between BY <1>5 DEF Working, Resting, Between
  <2>2. \A l \in leased : l[1] # r BY <1>5, <2>1, OnlyTx DEF Begun
  <2>3. Fine(r, gone) BY <1>0, <2>1, <2>2 DEF Fine, Fits
  <2> QED BY <1>5, <2>3, ReadKeeps
<1>6. CASE Exec(r) BY <1>6, ExecKeeps
<1>7. CASE /\ q.at = "exec" /\ Go(r, [q EXCEPT !.todo = Tail(q.todo)])
           /\ UNCHANGED <<db, pool, tokens, used, mix>>
  <2> DEFINE v == Tail(q.todo)
             n == [q EXCEPT !.todo = v]
  <2>1. Goes(r, q) /\ q.at = "exec" BY <1>7, Itself
  <2>2. Goes(r, n) /\ n.at = "exec"
    <3> HIDE DEF q, v
    <3> QED BY <2>1, MoreTodo, Zenon
  <2>3. Go(r, n) BY <1>7
  <2> HIDE DEF n
  <2>4. Working(r) BY <1>7 DEF Working, Resting
  <2>5. Fits(r, n, leased) BY <1>7, <2>2 DEF Fits, AInv, Leases, ConnsReturn, Begun
  <2>6. UNCHANGED <<db, leased, token, given>> BY <1>7 DEF pool, tokens
  <2> QED BY <2>2, <2>3, <2>4, <2>5, <2>6, Plain DEF Fine
<1>8. CASE q.at = "exec" /\ Leave(r, gone) BY <1>0, <1>8, LeaveKeeps DEF Between
<1>9. CASE Commit(r, ok, failed) BY <1>0, <1>9, CommitKeeps
<1> QED BY <1>1, <1>2, <1>3, <1>4, <1>5, <1>6, <1>7, <1>8, <1>9
        DEF SyncOrg, ok, failed, bad, gone

\* A token is given when it has an expiry, to a user nobody else logs in.
LEMMA LoginKeeps == ASSUME AInv, NEW r \in Reqs, Login(r) PROVE AInv'
<1> DEFINE q == req[r]
           u == q.uid
           failed == Answer(q, "InternalErr")
           bad == Answer(q, "ParamErr")
           ok == Answer(q, "OK")
<1>0. /\ Goes(r, failed) /\ failed.at # "exec" /\ Goes(r, ok) /\ ok.at # "exec"
      /\ Goes(r, bad) /\ bad.at # "exec"
  BY EndsWith
<1>1. ok.at \in Resting /\ failed.at \in Resting BY Answers DEF Resting
<1> HIDE DEF ok, failed, bad
<1>2. q.op = "Login" /\ q.at \in {"login", "hset", "expire"} BY DEF Login
<1>3. Bare(r) BY <1>2, BareAt DEF Resting
<1>4. LoggingIn(r) BY <1>2, <1>3 DEF LoggingIn, Bare
<1>5. u \in Users \ given BY <1>4 DEF AInv, Sessions
<1>6. token \in [Users -> {"none", "half", "live"}] /\ \A x \in given : token[x] # "half"
  BY DEF AInv, Sessions
<1>7. ASSUME NEW x \in {"none", "half", "live"}, token' = [token EXCEPT ![u] = x]
      PROVE  /\ token' \in [Users -> {"none", "half", "live"}] /\ token'[u] = x
             /\ \A y \in given : token'[y] # "half"
  BY <1>5, <1>6, <1>7
<1>8. ASSUME NEW x \in {"none", "half", "live"}, token' = [token EXCEPT ![u] = x],
             UNCHANGED <<db, leased, given>>, NEW n \in {failed, ok, To(r, "expire")}, Go(r, n)
      PROVE  AInv'
  <2>1. Goes(r, n) /\ n.at # "exec" BY <1>0, Onward
  <2>2. Fine(r, n) BY <1>3, <2>1, BareFine
  <2>3. /\ Apart(db') /\ leased' \subseteq Reqs \X {"tx", "tenant", "org"}
        /\ Working(r) /\ Fits(r, n, leased')
    BY <1>8, <2>2 DEF AInv, Requests, Leases, Fine
  <2> QED BY <1>7, <1>8, <2>1, <2>3, Moves
<1>9. CASE q.at = "login" /\ Read(r, {To(r, "hset")}, bad)
  <2>1. Goes(r, To(r, "hset")) /\ To(r, "hset").at # "exec" BY Onward
  <2> QED BY <1>0, <1>3, <1>9, <2>1, ReadBare
<1>10. CASE /\ UNCHANGED <<db, leased, given>>
            /\ \E x \in {"none", "half", "live"} : token' = [token EXCEPT ![u] = x]
            /\ Go(r, To(r, "expire")) \/ Go(r, failed)
  BY <1>8, <1>10
<1>11. CASE /\ UNCHANGED <<db, leased>> /\ Go(r, ok) /\ given' = given \cup {u}
            /\ \E x \in {"half", "live"} : token' = [token EXCEPT ![u] = x]
            /\ token'[u] = "live"
  <2>1. Fine(r, ok) BY <1>0, <1>3, BareFine
  <2>2. DOMAIN req' = Reqs /\ req'[r] = ok /\ \A x \in Reqs \ {r} : req'[x] = req[x]
    BY <1>11 DEF AInv, Requests, Go
  <2>3. \A x \in Reqs \ {r} : Waits(x) BY <2>2 DEF AInv, Requests, Waits
  <2>4. /\ Apart(db') /\ leased' \subseteq Reqs \X {"tx", "tenant", "org"}
        /\ Working(r) /\ Fits(r, ok, leased') /\ leased' = leased
    BY <1>11, <2>1 DEF AInv, Requests, Leases, Fine
  <2>5. Requests' /\ Leases' BY <1>0, <2>2, <2>3, <2>4, MovesHeld
  <2>6. Sessions'
    <3>1. \A x \in Reqs : (req'[x].op = "Login" /\ req'[x].at \notin Resting) =>
                            x # r /\ LoggingIn(x) /\ req'[x].uid = req[x].uid
      BY <1>1, <2>2 DEF LoggingIn, Working
    <3>2. /\ token' \in [Users -> {"none", "half", "live"}] /\ given' \subseteq Users
          /\ \A y \in given' : token'[y] # "half"
      BY <1>5, <1>7, <1>11 DEF AInv, Sessions
    <3>3. \A x \in Reqs : LoggingIn(x) /\ x # r => req[x].uid \in Users \ given'
      BY <1>4, <1>11 DEF AInv, Sessions
    <3>4. \A x, y \in Reqs : LoggingIn(x) /\ LoggingIn(y) /\ req[x].uid = req[y].uid => x = y
      BY DEF AInv, Sessions
    <3> QED BY <3>1, <3>2, <3>3, <3>4 DEF Sessions, LoggingIn, Working
  <2> QED BY <2>5, <2>6 DEF AInv
<1>12. CASE /\ UNCHANGED <<db, leased, given>> /\ Go(r, failed)
            /\ \E x \in {"half", "live"} : token' = [token EXCEPT ![u] = x]
  BY <1>8, <1>12
<1> QED BY <1>9, <1>10, <1>11, <1>12 DEF Login, Expires, pool, ok, failed, bad

\* A token that ends.
LEMMA ExpireKeeps == ASSUME AInv, NEW u \in Users, Expire(u) PROVE AInv'
<1>1. UNCHANGED <<db, leased, req, given>> BY DEF Expire, pool
<1>2. token' \in [Users -> {"none", "half", "live"}] /\ \A x \in given : token'[x] # "half"
  BY DEF Expire, AInv, Sessions
<1> QED BY <1>1, <1>2 DEF AInv, Requests, Leases, ConnsReturn, Begun, Tx, Sessions,
                          LoggingIn, Working, Apart, Good, MayHold

\* Who logs in has no token yet.
LEMMA NewUser == \A p \in Named("Login") : p[1] \in Users \ given
BY DEF Named

\* What clients can send.
LEMMA CallsGood ==
  ASSUME NEW op, NEW c \in Calls(op)
  PROVE  /\ Good(c) /\ c.op = op /\ c.at = Start(op)
         /\ op = "Login" => c.uid \in Users \ given
<1>1. PICK u, p, g, t, l : p \in Named(op) /\ c = Call(op, u, p, g, t, l) BY DEF Calls
<1>2. /\ DOMAIN c = Fields /\ c.view = Empty
      /\ c.op = op /\ c.at = Start(op) /\ c.uid = p[1]
  BY <1>1 DEF Call, Fields, Blank
<1>3. Good(c) BY <1>2, EmptyApart DEF Good
<1>4. ASSUME op = "Login" PROVE p[1] \in Users \ given
  <2>1. p \in Named("Login") BY <1>1, <1>4
  <2> QED BY <2>1, NewUser
<1> QED BY <1>2, <1>3, <1>4

\* What history adds to it.
LEMMA Told ==
  ASSUME NEW c, Good(c), NEW d
  PROVE  LET n == [c EXCEPT !.were = d, !.stayed = d]
         IN  Good(n) /\ n.op = c.op /\ n.at = c.at /\ n.uid = c.uid
<1> DEFINE k == [c EXCEPT !.were = d]
           n == [k EXCEPT !.stayed = d]
<1>1. Good(k) /\ k.op = c.op /\ k.at = c.at /\ k.uid = c.uid
  <2>1. Good(k) BY Edits
  <2> QED BY <2>1, FieldNames DEF Good
<1>2. Good(n) /\ n.op = k.op /\ n.at = k.at /\ n.uid = k.uid
  <2> HIDE DEF k
  <2>1. Good(n) BY <1>1, Edits
  <2> QED BY <1>1, <2>1, FieldNames DEF Good
<1> QED BY <1>1, <1>2

\* A request arrives where there is none; what was there before held nothing.
LEMMA ArriveKeeps == ASSUME AInv, NEW r \in Reqs, Arrive(r) PROVE AInv'
<1>1. UNCHANGED <<db, leased, token, given>> /\ req[r].at \in Resting
  BY DEF Arrive, pool, tokens, Working
<1>2. PICK op \in mix : \E q \in Calls(op) :
        Admitted(q) /\ Go(r, [q EXCEPT !.were = Due(q), !.stayed = Due(q)])
  BY DEF Arrive
<1>3. PICK c \in Calls(op) : Admitted(c) /\ Go(r, [c EXCEPT !.were = Due(c), !.stayed = Due(c)])
  BY <1>2
<1> DEFINE q == [c EXCEPT !.were = Due(c), !.stayed = Due(c)]
<1>4. Good(q) /\ q.op = op /\ q.at # "exec" /\ q.uid = c.uid /\ Go(r, q)
  <2>1. Good(c) /\ c.op = op /\ c.at = Start(op) BY CallsGood
  <2>2. Good(q) /\ q.op = c.op /\ q.at = c.at /\ q.uid = c.uid BY <2>1, Told, Zenon
  <2>3. Go(r, q) BY <1>3
  <2>4. Start(op) # "exec" BY DEF Start
  <2> HIDE DEF q
  <2> QED BY <2>1, <2>2, <2>3, <2>4
<1>9. /\ op = "Login" => c.uid \in Users \ given
      /\ op = "Login" => \A x \in Reqs : LoggingIn(x) => req[x].uid # c.uid
  BY <1>3, CallsGood DEF Admitted, LoggingIn
<1> HIDE DEF q
<1>5. DOMAIN req' = Reqs /\ req'[r] = q /\ \A x \in Reqs \ {r} : req'[x] = req[x]
  BY <1>4 DEF AInv, Requests, Go
<1>6. Requests' BY <1>1, <1>4, <1>5 DEF AInv, Requests, Apart, Good
<1>7. Leases'
  <2>1. \A l1 \in leased : l1[1] # r
    <3>1. MayHold(req[r].at) = {} BY <1>1 DEF MayHold, Resting
    <3> QED BY <3>1 DEF AInv, Leases, ConnsReturn
  <2>2. \A l1 \in leased : l1[1] \in Reqs BY DEF AInv, Leases
  <2> QED BY <1>1, <1>4, <1>5, <2>1, <2>2 DEF AInv, Leases, ConnsReturn, Begun, Tx, MayHold
<1>8. Sessions'
  <2>1. \A x \in Reqs \ {r} : (req'[x].op = "Login" /\ req'[x].at \notin Resting) <=> LoggingIn(x)
    BY <1>5 DEF LoggingIn, Working
  <2>2. req'[r].op = "Login" => q.uid \in Users \ given /\ \A x \in Reqs \ {r} :
                                   LoggingIn(x) => req[x].uid # q.uid
    BY <1>4, <1>5, <1>9
  <2> QED BY <1>1, <1>5, <2>1, <2>2 DEF AInv, Sessions, LoggingIn, Working
<1> QED BY <1>6, <1>7, <1>8 DEF AInv

\* No session, no lease and no request at the start.
LEMMA AInvInit == Init => AInv
<1> SUFFICES ASSUME Init PROVE AInv OBVIOUS
<1>1. /\ req = [r \in Reqs |-> Blank] /\ leased = {}
      /\ token = [u \in Users |-> IF "Login" \in mix THEN "none" ELSE "live"]
      /\ given = {u \in Users : token[u] = "live"}
  BY DEF Init
<1>2. Apart(db)
  <2>1. PICK roots \in BOOLEAN :
          db = [qun    |-> [g \in Quns |-> IF g \in OldQuns THEN Old ELSE NoQun],
                member |-> [g \in Quns |-> [u \in Users |-> IF g \in OldQuns THEN 1 ELSE 0]],
                star   |-> [p \in Contacts |-> 0],
                org    |-> "none",
                roots  |-> roots]
    BY DEF Init
  <2> QED BY <2>1 DEF Apart, Columns
<1>3. Good(Blank) BY EmptyApart DEF Good, Fields, Blank
<1>4. Blank.at = "idle" BY DEF Blank
<1> QED BY <1>1, <1>2, <1>3, <1>4
        DEF AInv, Requests, Leases, ConnsReturn, Sessions, LoggingIn, Working, Resting

\* Every step keeps the invariant, and so does none.
LEMMA AInvNext == AInv /\ [Next]_vars => AInv'
<1> SUFFICES ASSUME AInv, [Next]_vars PROVE AInv' OBVIOUS
<1>1. ASSUME NEW r \in Reqs, Handle(r) PROVE AInv'
  BY <1>1, CreateQunKeeps, UpdateQunTopicKeeps, MembersKeep, PushKeeps, UserPushKeeps,
     ContactKeeps, GetOrgInfoKeeps, SyncOrgKeeps, LookKeeps, LoginKeeps DEF Handle
<1>2. CASE UNCHANGED vars
  BY <1>2 DEF AInv, Requests, Leases, ConnsReturn, Begun, Tx, Sessions, LoggingIn, Working,
              Apart, Good, MayHold, vars
<1> QED BY <1>1, <1>2, ArriveKeeps, ExpireKeeps DEF Next

\* The invariant of the proofs holds of every behaviour.
LEMMA AInvAlways == Spec => []AInv
BY AInvInit, AInvNext, PTL DEF Spec

\* A step that gives no token: the user's lives on, or nothing changes.
Kept == token' = token \/ \E u : token' = Refreshed(u)

\* The steps the handlers are made of give none ...
LEMMA StepsKept ==
  ASSUME NEW r, NEW x, NEW y, NEW z,
         \/ Read(r, x, y) \/ Transact(r, x, y, z) \/ PushOne(r) \/ Tell(r, x, y)
         \/ Keep(r, x, y) \/ Leave(r, x) \/ getUserByToken(r, x) \/ Begin(r, x, y)
         \/ Exec(r) \/ Commit(r, x, y)
  PROVE  Kept
<1>1. CASE Begin(r, x, y) \/ Exec(r) \/ Commit(r, x, y)
  BY <1>1 DEF Begin, Exec, Commit, Kept, tokens
<1>2. CASE Transact(r, x, y, z)
  <2>1. ASSUME NEW ok, NEW failed, Begin(r, ok, failed) PROVE Kept
    BY <2>1 DEF Begin, Kept, tokens
  <2>2. ASSUME NEW failed, ExecFails(r, failed) PROVE Kept
    BY <2>2 DEF ExecFails, Kept, tokens
  <2>3. ASSUME NEW ok, NEW failed, Commit(r, ok, failed) PROVE Kept
    BY <2>3 DEF Commit, Kept, tokens
  <2>4. CASE Exec(r) BY <2>4 DEF Exec, Kept, tokens
  <2> QED BY <1>2, <2>1, <2>2, <2>3, <2>4 DEF Transact
<1>3. CASE getUserByToken(r, x) BY <1>3 DEF getUserByToken, Kept, tokens
<1>4. CASE \/ Read(r, x, y) \/ PushOne(r) \/ Tell(r, x, y) \/ Keep(r, x, y) \/ Leave(r, x)
  BY <1>4 DEF Read, PushOne, Tell, Keep, Leave, Kept, tokens
<1> QED BY <1>1, <1>2, <1>3, <1>4

\* ... nor does any handler but Login.
LEMMA HandlersKept ==
  ASSUME NEW r, Handle(r), ~Login(r)
  PROVE  Kept
<1>1. CASE CreateQun(r) BY <1>1, StepsKept DEF CreateQun
<1>2. CASE UpdateQunTopicById(r) BY <1>2, StepsKept DEF UpdateQunTopicById
<1>3. CASE AddQunMember(r) BY <1>3, StepsKept DEF AddQunMember
<1>4. CASE DelQunMember(r) BY <1>4, StepsKept DEF DelQunMember
<1>5. CASE Push(r) BY <1>5, StepsKept DEF Push
<1>6. CASE UserPush(r) BY <1>6, StepsKept DEF UserPush
<1>7. CASE AddOrRemoveContact(r) BY <1>7, StepsKept DEF AddOrRemoveContact
<1>8. CASE GetOrgInfo(r)
  <2>1. token' = token \/ \E x : getUserByToken(r, x) \/ \E y : Read(r, x, y) \/ Keep(r, x, y)
    BY <1>8 DEF GetOrgInfo, tokens
  <2> QED BY <2>1, StepsKept DEF Kept
<1>9. CASE SyncOrg(r)
  <2>1. \/ token' = token \/ Exec(r)
        \/ \E x : Leave(r, x) \/ \E y : Read(r, x, y) \/ Begin(r, x, y) \/ Commit(r, x, y)
    BY <1>9 DEF SyncOrg, tokens
  <2> QED BY <2>1, StepsKept DEF Kept
<1>10. CASE Look(r)
  BY <1>10, StepsKept DEF Look, GetUsersInQun, GetMemberByUserName, SearchUser, CheckUpdate,
                          UserErWeiMa, GetOrgUserList
<1> QED BY <1>1, <1>2, <1>3, <1>4, <1>5, <1>6, <1>7, <1>8, <1>9, <1>10 DEF Handle

\* Who logs in was given no token before.
LEMMA OthersEnd ==
  ASSUME AInv, Next, NEW u \in given, token[u] = "none"
  PROVE  token'[u] = "none"
<1>0. token \in [Users -> {"none", "half", "live"}] /\ u \in Users BY DEF AInv, Sessions
<1>1. CASE Kept BY <1>0, <1>1 DEF Kept, Refreshed
<1>2. ASSUME NEW r \in Reqs, Login(r) PROVE token'[u] = "none"
  <2>1. token' = token \/ \E x : token' = [token EXCEPT ![req[r].uid] = x]
    BY <1>2 DEF Login, Read, tokens
  <2>2. LoggingIn(r) BY <1>2 DEF Login, Read, LoggingIn, Working, Resting
  <2>3. req[r].uid # u BY <2>2 DEF AInv, Sessions
  <2> QED BY <1>0, <2>1, <2>3
<1>3. ASSUME NEW r \in Reqs, Arrive(r) PROVE token'[u] = "none"
  BY <1>3 DEF Arrive, tokens
<1>4. ASSUME NEW x \in Users, Expire(x) PROVE token'[u] = "none"
  BY <1>0, <1>4 DEF Expire
<1> QED BY <1>1, <1>2, <1>3, <1>4, HandlersKept DEF Next

-----------------------------------------------------------------------------
(* The theorems. *)

\* Nobody is twice in a group, whatever lists are sent and whichever requests meet:
\* the INSERT leaves a member that is there, in what its transaction sees.
THEOREM MembersStayApart == Spec => []MemberOnce
<1>1. AInv => MemberOnce BY DEF AInv, Requests, Apart, MemberOnce
<1> QED BY <1>1, AInvAlways, PTL

\* A connection of the pool is with a request that will release it: every path of
\* every handler commits, rolls back or closes what it has begun, but for SyncOrg,
\* whose connection is then counted as left.
THEOREM NoLeaseIsLost == Spec => []ConnsReturn
<1>1. AInv => ConnsReturn BY DEF AInv, Leases
<1> QED BY <1>1, AInvAlways, PTL

\* A session that a client was given has an expiry, and once it has ended no request
\* under way brings it back.
THEOREM SessionsEnd == Spec => GivenTokensEnd
<1>1. ASSUME AInv, [Next]_vars
      PROVE  [\A u \in given' :
                /\ token'[u] # "half"
                /\ u \in given /\ token[u] = "none" => token'[u] = "none"]_vars
  <2> SUFFICES ASSUME Next
               PROVE  \A u \in given' :
                        /\ token'[u] # "half"
                        /\ u \in given /\ token[u] = "none" => token'[u] = "none"
    BY <1>1
  <2>1. AInv' BY AInvNext, <1>1
  <2>2. \A u \in given' : token'[u] # "half" BY <2>1 DEF AInv, Sessions
  <2> QED BY <1>1, <2>2, OthersEnd
<1> QED BY <1>1, AInvAlways, PTL DEF Spec, GivenTokensEnd
=============================================================================
