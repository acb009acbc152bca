--------------------------- MODULE AppTablesProofs ---------------------------
(***************************************************************************)
(* Theorems about what App's requests make of the tables and tell their    *)
(* clients: the types of its state, a group that comes whole, members only *)
(* its creator removes, contacts that are doubled only by a race, pushes   *)
(* that reach who they should.  They rest on one invariant, TInv: what an  *)
(* open transaction sees differs from the tables by what its own request   *)
(* wrote, locks keep it so while others commit, and what was looked up     *)
(* before a transaction begins holds to its end.                           *)
(***************************************************************************)
EXTENDS AppProofs, FiniteSetTheorems, SequenceTheorems

Listed(q) == {q.list[i] : i \in DOMAIN q.list}

-----------------------------------------------------------------------------
(* Lists. *)

\* A set of naturals has a least element.
LEMMA HasLeast ==
  ASSUME NEW S \in SUBSET Nat, S # {}
  PROVE  \E x \in S : \A y \in S : x <= y
<1> DEFINE Below == {0..x : x \in S}
<1>1. Below \subseteq FiniteSubsetsOf(Nat) /\ Below # {}
  <2>1. \A x \in S : 0..x \subseteq Nat /\ IsFiniteSet(0..x) BY FS_Interval
  <2> QED BY <2>1 DEF FiniteSubsetsOf
<1>2. PICK B \in Below : \A C \in Below : <<C, B>> \notin StrictSubsetOrdering(Nat)
  <2> HIDE DEF Below
  <2> QED BY <1>1, FS_StrictSubsetOrderingWellFounded, WFMin
<1>3. PICK x \in S : B = 0..x OBVIOUS
<1>4. \A y \in S : x <= y
  <2> SUFFICES ASSUME NEW y \in S, ~(x <= y) PROVE FALSE OBVIOUS
  <2>1. x \in Nat /\ y \in Nat /\ y < x OBVIOUS
  <2>2. 0..y \subseteq 0..x /\ x \in 0..x /\ x \notin 0..y /\ 0..x \subseteq Nat BY <2>1
  <2>3. <<0..y, 0..x>> \in StrictSubsetOrdering(Nat) BY <2>2 DEF StrictSubsetOrdering
  <2> QED BY <1>2, <1>3, <2>3
<1> QED BY <1>4

\* What the loop of CreateQun has collected after each of the first n users of s.
Collects(s, x, n, f) ==
  f = [i \in 0..n |->
         IF i = 0 THEN <<>>
         ELSE IF s[i] = x THEN f[i - 1]
         ELSE Append(f[i - 1], s[i])]

\* It can be told for every n.
LEMMA Collected ==
  ASSUME NEW s, NEW x, NEW n \in Nat
  PROVE  \E f : Collects(s, x, n, f)
<1> DEFINE Bad == {m \in Nat : ~ \E f : Collects(s, x, m, f)}
<1> SUFFICES ASSUME Bad # {} PROVE FALSE OBVIOUS
<1>1. PICK m \in Bad : \A k \in Bad : m <= k
  <2>1. Bad \in SUBSET Nat OBVIOUS
  <2> HIDE DEF Bad
  <2> QED BY <2>1, HasLeast
<1>2. CASE m = 0
  <2> DEFINE f == [i \in 0..0 |-> <<>>]
  <2>1. Collects(s, x, 0, f) BY DEF Collects
  <2> QED BY <1>2, <2>1
<1>3. CASE m # 0
  <2>1. m \in Nat /\ m - 1 \in Nat /\ m - 1 \notin Bad BY <1>1, <1>3
  <2>2. PICK f : Collects(s, x, m - 1, f) BY <2>1
  <2> DEFINE last == IF s[m] = x THEN f[m - 1] ELSE Append(f[m - 1], s[m])
             g == [i \in 0..m |-> IF i = m THEN last ELSE f[i]]
  <2>3. \A i \in 0..(m - 1) : f[i] = IF i = 0 THEN <<>>
                                     ELSE IF s[i] = x THEN f[i - 1] ELSE Append(f[i - 1], s[i])
    <3> DEFINE h == [i \in 0..(m - 1) |->
                       IF i = 0 THEN <<>>
                       ELSE IF s[i] = x THEN f[i - 1] ELSE Append(f[i - 1], s[i])]
    <3>1. f = h BY <2>2 DEF Collects
    <3>2. \A i \in 0..(m - 1) : h[i] = IF i = 0 THEN <<>>
                                     ELSE IF s[i] = x THEN f[i - 1] ELSE Append(f[i - 1], s[i])
      OBVIOUS
    <3> HIDE DEF h
    <3> QED BY <3>1, <3>2
  <2>4. \A i \in 0..m : g[i] = IF i = 0 THEN <<>>
                               ELSE IF s[i] = x THEN g[i - 1] ELSE Append(g[i - 1], s[i])
    <3> SUFFICES ASSUME NEW i \in 0..m
                 PROVE  g[i] = IF i = 0 THEN <<>>
                               ELSE IF s[i] = x THEN g[i - 1] ELSE Append(g[i - 1], s[i])
      OBVIOUS
    <3>1. CASE i = m
      <4>1. g[i] = last /\ g[i - 1] = f[m - 1] /\ i # 0 BY <1>3, <2>1, <3>1
      <4> QED BY <3>1, <4>1
    <3>2. CASE i # m
      <4>1. i \in 0..(m - 1) BY <2>1, <3>2
      <4>2. g[i] = f[i] BY <3>2
      <4>3. i # 0 => g[i - 1] = f[i - 1] BY <2>1, <3>2, <4>1
      <4> HIDE DEF g
      <4> QED BY <2>3, <4>1, <4>2, <4>3
    <3> QED BY <3>1, <3>2
  <2>5. Collects(s, x, m, g)
    <3>1. g = [i \in 0..m |-> g[i]] OBVIOUS
    <3> HIDE DEF g
    <3> QED BY <2>4, <3>1 DEF Collects
  <2> QED BY <2>5
<1> QED BY <1>2, <1>3

\* The list o has the users of the first n of s but for x, each of them.
Leaves(s, x, n, o) ==
  \A u : (\E i \in DOMAIN o : o[i] = u) <=> (u # x /\ \E i \in 1..n : s[i] = u)

\* As the loop has it.
LEMMA CollectsOthers ==
  ASSUME NEW S, NEW s \in Seq(S), NEW x, NEW f, Collects(s, x, Len(s), f)
  PROVE  f[Len(s)] \in Seq(S) /\ Leaves(s, x, Len(s), f[Len(s)])
<1> DEFINE OK(m) == f[m] \in Seq(S) /\ Leaves(s, x, m, f[m])
           Bad == {m \in 0..Len(s) : ~OK(m)}
<1>0. Len(s) \in Nat /\ Len(s) \in 0..Len(s) /\ \A i \in 1..Len(s) : s[i] \in S OBVIOUS
<1>1. \A i \in 0..Len(s) : f[i] = IF i = 0 THEN <<>>
                                  ELSE IF s[i] = x THEN f[i - 1] ELSE Append(f[i - 1], s[i])
  <2> DEFINE h == [i \in 0..Len(s) |->
                     IF i = 0 THEN <<>>
                     ELSE IF s[i] = x THEN f[i - 1] ELSE Append(f[i - 1], s[i])]
  <2>1. f = h BY DEF Collects
  <2>2. \A i \in 0..Len(s) : h[i] = IF i = 0 THEN <<>>
                                    ELSE IF s[i] = x THEN f[i - 1] ELSE Append(f[i - 1], s[i])
    OBVIOUS
  <2> HIDE DEF h
  <2> QED BY <2>1, <2>2
<1>2. SUFFICES ASSUME Bad # {} PROVE FALSE
  <2> HIDE DEF OK
  <2>1. OK(Len(s)) BY <1>0, <1>2
  <2> QED BY <2>1 DEF OK
<1>3. PICK m \in Bad : \A k \in Bad : m <= k
  <2>1. Bad \in SUBSET Nat BY <1>0
  <2> HIDE DEF Bad
  <2> QED BY <1>2, <2>1, HasLeast
<1>4. CASE m = 0
  <2>1. f[m] = <<>> /\ 1..m = {} BY <1>0, <1>1, <1>4
  <2>2. OK(m) BY <2>1 DEF Leaves
  <2> HIDE DEF OK
  <2> QED BY <1>3, <2>2
<1>5. CASE m # 0
  <2>1. m \in 1..Len(s) /\ m - 1 \in 0..Len(s) BY <1>0, <1>3, <1>5
  <2>2. OK(m - 1)
    <3> HIDE DEF OK
    <3> QED BY <1>3, <2>1
  <2>3. f[m] = IF s[m] = x THEN f[m - 1] ELSE Append(f[m - 1], s[m]) BY <1>1, <2>1
  <2>4. s[m] \in S BY <1>0, <2>1
  <2>5. 1..m = 1..(m - 1) \cup {m} BY <1>0, <2>1
  <2>6. CASE s[m] = x
    <3>1. f[m] = f[m - 1] BY <2>3, <2>6
    <3>2. OK(m) BY <2>2, <2>5, <2>6, <3>1 DEF Leaves
    <3> HIDE DEF OK
    <3> QED BY <1>3, <3>2
  <2>7. CASE s[m] # x
    <3> DEFINE t == f[m - 1]
    <3>1. f[m] = Append(t, s[m]) BY <2>3, <2>7
    <3>2. t \in Seq(S) /\ Leaves(s, x, m - 1, t) BY <2>2
    <3> HIDE DEF t
    <3>3. /\ f[m] \in Seq(S) /\ DOMAIN f[m] = 1..(Len(t) + 1) /\ DOMAIN t = 1..Len(t)
          /\ Len(t) \in Nat
          /\ f[m][Len(t) + 1] = s[m] /\ \A i \in DOMAIN t : f[m][i] = t[i]
      BY <2>4, <3>1, <3>2
    <3>4. \A u : (\E i \in DOMAIN f[m] : f[m][i] = u) <=> (u = s[m] \/ \E i \in DOMAIN t : t[i] = u)
      BY <3>3
    <3>5. OK(m) BY <2>5, <2>7, <3>2, <3>3, <3>4 DEF Leaves
    <3> HIDE DEF OK
    <3> QED BY <1>3, <3>5
  <2> QED BY <2>6, <2>7
<1> QED BY <1>4, <1>5

\* The loop of CreateQun leaves out the creator and nobody else.
LEMMA OthersIs ==
  ASSUME NEW q, NEW S, q.list \in Seq(S)
  PROVE  Others(q) \in Seq(S) /\ Leaves(q.list, q.uid, Len(q.list), Others(q))
<1> DEFINE f == CHOOSE f : Collects(q.list, q.uid, Len(q.list), f)
<1>1. Len(q.list) \in Nat OBVIOUS
<1>2. Collects(q.list, q.uid, Len(q.list), f) BY <1>1, Collected
<1>3. Others(q) = f[Len(q.list)] BY DEF Others, Collects
<1>4. ASSUME NEW s, s = q.list, NEW x, x = q.uid, NEW h, Collects(s, x, Len(s), h)
      PROVE  h[Len(s)] \in Seq(S) /\ Leaves(s, x, Len(s), h[Len(s)])
  BY <1>4, CollectsOthers
<1> HIDE DEF f
<1> QED BY <1>2, <1>3, <1>4

\* What the statements of a list of users make of each of them.
LEMMA MembersAre ==
  ASSUME NEW S, NEW q, q.list \in Seq(S)
  PROVE  /\ addQunmember(q) \in Seq({InsertQunUser(q.qun, u) : u \in Listed(q)})
         /\ delQunMember(q) \in Seq({DeleteQunUser(q.qun, u) : u \in Listed(q)})
<1>1. DOMAIN q.list = 1..Len(q.list) /\ Len(q.list) \in Nat OBVIOUS
<1>2. \A i \in DOMAIN q.list : q.list[i] \in Listed(q) BY DEF Listed
<1> QED BY <1>1, <1>2 DEF addQunmember, delQunMember

\* createQun writes the group and every founder, and nothing else.
LEMMA CreateQunIs ==
  ASSUME NEW q, NEW S, q.list \in Seq(S), q.uid \in S, NEW D, DOMAIN q = D,
         {"list", "uid", "qun"} \subseteq D
  PROVE  LET W == {InsertQun(q)} \cup {InsertQunUser(q.qun, u) : u \in {q.uid} \cup Listed(q)}
         IN  /\ createQun(q) \in Seq(W)
             /\ \A w \in W : \E i \in DOMAIN createQun(q) : createQun(q)[i] = w
<1> DEFINE W == {InsertQun(q)} \cup {InsertQunUser(q.qun, u) : u \in {q.uid} \cup Listed(q)}
           o == Others(q)
           l == Append(o, q.uid)
           p == [q EXCEPT !.list = l]
           a == addQunmember(p)
           h == <<InsertQun(q)>>
<1>1. o \in Seq(S) /\ Leaves(q.list, q.uid, Len(q.list), o) BY OthersIs
<1>2. p.list = l /\ p.qun = q.qun BY Zenon
<1>3. createQun(q) = h \o a BY DEF createQun
<1>4. \A u : (\E i \in DOMAIN o : o[i] = u) <=> (u # q.uid /\ u \in Listed(q))
  <2>1. DOMAIN q.list = 1..Len(q.list) OBVIOUS
  <2> QED BY <1>1, <2>1 DEF Leaves, Listed
<1> HIDE DEF o
<1>5. /\ l \in Seq(S) /\ DOMAIN l = 1..(Len(o) + 1) /\ DOMAIN o = 1..Len(o) /\ Len(o) \in Nat
      /\ l[Len(o) + 1] = q.uid /\ \A i \in DOMAIN o : l[i] = o[i]
  BY <1>1
<1>6. \A u : (\E i \in DOMAIN l : l[i] = u) <=> u \in {q.uid} \cup Listed(q)
  BY <1>4, <1>5
<1> HIDE DEF l
<1>7. a = [i \in DOMAIN l |-> InsertQunUser(q.qun, l[i])] BY <1>2 DEF addQunmember
<1> HIDE DEF a, p
<1>8. /\ a \in Seq(W) /\ DOMAIN a = DOMAIN l /\ \A i \in DOMAIN l : a[i] = InsertQunUser(q.qun, l[i])
  <2>1. \A i \in DOMAIN l : InsertQunUser(q.qun, l[i]) \in W BY <1>6
  <2> HIDE DEF W
  <2> QED BY <1>5, <1>7, <2>1
<1>9. h \in Seq(W) /\ Len(h) = 1 /\ h[1] = InsertQun(q)
  <2>1. InsertQun(q) \in W OBVIOUS
  <2> HIDE DEF W
  <2> QED BY <2>1
<1>10. /\ h \o a \in Seq(W) /\ DOMAIN (h \o a) = 1..(1 + Len(a)) /\ DOMAIN a = 1..Len(a)
       /\ (h \o a)[1] = InsertQun(q) /\ \A i \in DOMAIN a : (h \o a)[i + 1] = a[i]
       /\ Len(a) \in Nat
  <2> HIDE DEF W, h
  <2>1. Len(a) \in Nat /\ DOMAIN a = 1..Len(a) BY <1>8
  <2>2. /\ h \o a \in Seq(W) /\ Len(h \o a) = 1 + Len(a) /\ (h \o a)[1] = h[1]
        /\ \A i \in 1..Len(a) : (h \o a)[i + 1] = a[i]
    <3>1. /\ h \o a \in Seq(W) /\ Len(h \o a) = Len(h) + Len(a)
          /\ \A i \in 1..(Len(h) + Len(a)) :
               (h \o a)[i] = IF i <= Len(h) THEN h[i] ELSE a[i - Len(h)]
      BY <1>8, <1>9, ConcatProperties
    <3> DEFINE t == h \o a
    <3> HIDE DEF t
    <3>2. /\ t \in Seq(W) /\ Len(t) = 1 + Len(a)
          /\ \A i \in 1..(1 + Len(a)) : t[i] = IF i <= 1 THEN h[i] ELSE a[i - 1]
      BY <1>9, <3>1 DEF t
    <3>3. t[1] = h[1] /\ \A i \in 1..Len(a) : t[i + 1] = a[i] BY <2>1, <3>2
    <3> QED BY <3>2, <3>3 DEF t
  <2>3. DOMAIN (h \o a) = 1..(1 + Len(a)) BY <2>2
  <2> QED BY <1>9, <2>1, <2>2, <2>3
<1> HIDE DEF h
<1>11. ASSUME NEW w \in W PROVE \E i \in DOMAIN createQun(q) : createQun(q)[i] = w
  <2>1. CASE w = InsertQun(q) BY <1>3, <1>10, <2>1
  <2>2. ASSUME NEW u \in {q.uid} \cup Listed(q), w = InsertQunUser(q.qun, u)
        PROVE  \E i \in DOMAIN createQun(q) : createQun(q)[i] = w
    <3>1. PICK i \in DOMAIN l : l[i] = u BY <1>6
    <3>2. i \in DOMAIN a /\ a[i] = w BY <1>8, <2>2, <3>1
    <3>3. i + 1 \in DOMAIN (h \o a) /\ (h \o a)[i + 1] = w BY <1>10, <3>2
    <3> QED BY <1>3, <3>3
  <2> QED BY <2>1, <2>2
<1> QED BY <1>3, <1>10, <1>11

-----------------------------------------------------------------------------
(* What statements make of the tables. *)

\* The statements that write a group write what a group is.
Sound(s) == s.sql \in {"insert qun", "update qun"} => s.user \in Users /\ s.to \in Topics

\* A table of which one row, or one entry, is replaced.
With(m, a, v)     == [m EXCEPT ![a] = v]
WithAt(m, a, b, v) == [m EXCEPT ![a][b] = v]

\* Tables w are tables t, but for what L locks.
Within(t, w, L) ==
  /\ \A g \in Quns : g \in L \/ w.qun[g] = t.qun[g]
  /\ "qun_user" \in L \/ w.member = t.member
  /\ "user_user" \in L \/ w.star = t.star
  /\ "org" \in L \/ w.org = t.org
  /\ w.roots = t.roots

\* The parts of tables.
LEMMA TablesAre ==
  ASSUME NEW t \in Tables
  PROVE  /\ t = [qun |-> t.qun, member |-> t.member, star |-> t.star, org |-> t.org, roots |-> t.roots]
         /\ t.qun \in [Quns -> Group \cup {NoQun}] /\ t.member \in [Quns -> [Users -> Nat]]
         /\ t.star \in [Contacts -> Nat] /\ t.org \in {"none", "unset", "placed"}
         /\ t.roots \in BOOLEAN
BY DEF Tables

\* Nothing is written at the start.
LEMMA EmptyTables == Empty \in Tables
BY DEF Empty, Tables

\* A transaction sees tables.
LEMMA SeenTables ==
  ASSUME NEW t \in Tables, NEW v \in Tables, NEW L
  PROVE  Seen(t, v, L) \in Tables /\ Within(t, Seen(t, v, L), L)
<1>1. /\ t.qun \in [Quns -> Group \cup {NoQun}] /\ v.qun \in [Quns -> Group \cup {NoQun}]
      /\ {t.member, v.member} \subseteq [Quns -> [Users -> Nat]]
      /\ {t.star, v.star} \subseteq [Contacts -> Nat]
      /\ {t.org, v.org} \subseteq {"none", "unset", "placed"} /\ t.roots \in BOOLEAN
  BY TablesAre
<1>2. Seen(t, v, L) \in Tables BY <1>1 DEF Seen, Tables
<1>3. Within(t, Seen(t, v, L), L) BY DEF Seen, Within
<1> QED BY <1>2, <1>3

\* What a statement makes of each part.
LEMMA AfterParts ==
  ASSUME NEW t \in Tables, NEW s
  PROVE  /\ s.sql = "insert qun" =>
              After(t, s).qun = With(t.qun, s.qun, [creator |-> s.user, name |-> s.to])
         /\ s.sql = "update qun" /\ s.qun \in Quns /\ t.qun[s.qun] # NoQun =>
              After(t, s).qun = With(t.qun, s.qun, [t.qun[s.qun] EXCEPT !.name = s.to])
         /\ s.sql \notin {"insert qun", "update qun"} => After(t, s).qun = t.qun
         /\ s.sql = "update qun" /\ ~(s.qun \in Quns /\ t.qun[s.qun] # NoQun) =>
              After(t, s).qun = t.qun
         /\ s.sql = "insert qun_user" => After(t, s).member =
              WithAt(t.member, s.qun, s.user, Inserted(t.member[s.qun][s.user]))
         /\ s.sql = "delete qun_user" => After(t, s).member = WithAt(t.member, s.qun, s.user, 0)
         /\ s.sql \notin {"insert qun_user", "delete qun_user"} => After(t, s).member = t.member
         /\ s.sql = "insert user_user" => After(t, s).star =
              With(t.star, <<s.user, s.to>>, t.star[<<s.user, s.to>>] + 1)
         /\ s.sql = "delete user_user" => After(t, s).star = With(t.star, <<s.user, s.to>>, 0)
         /\ s.sql \notin {"insert user_user", "delete user_user"} => After(t, s).star = t.star
         /\ After(t, s).org \in {t.org, "unset", "placed"}
         /\ s.sql \notin {"insert org", "first location", "next location"} =>
              After(t, s).org = t.org
         /\ After(t, s).roots = t.roots
         /\ After(t, s) = [qun |-> After(t, s).qun, member |-> After(t, s).member,
                           star |-> After(t, s).star, org |-> After(t, s).org,
                           roots |-> After(t, s).roots]
<1>1. t = [qun |-> t.qun, member |-> t.member, star |-> t.star, org |-> t.org, roots |-> t.roots]
  BY TablesAre
<1>2. CASE s.sql = "insert qun" BY <1>1, <1>2 DEF After, With, WithAt
<1>3. CASE s.sql = "update qun" BY <1>1, <1>3 DEF After, With, WithAt
<1>4. CASE s.sql = "insert qun_user" BY <1>1, <1>4 DEF After, With, WithAt
<1>5. CASE s.sql = "delete qun_user" BY <1>1, <1>5 DEF After, With, WithAt
<1>6. CASE s.sql = "insert user_user" BY <1>1, <1>6 DEF After, With, WithAt
<1>7. CASE s.sql = "delete user_user" BY <1>1, <1>7 DEF After, With, WithAt
<1>8. CASE s.sql = "insert org" BY <1>1, <1>8 DEF After, With, WithAt
<1>9. CASE s.sql \in {"first location", "next location"} BY <1>1, <1>9 DEF After, With, WithAt
<1>10. CASE s.sql \notin {"insert qun", "update qun", "insert qun_user", "delete qun_user",
                          "insert user_user", "delete user_user", "insert org",
                          "first location", "next location"}
  BY <1>1, <1>10 DEF After, With, WithAt
<1> QED BY <1>2, <1>3, <1>4, <1>5, <1>6, <1>7, <1>8, <1>9, <1>10

\* What a statement makes of the groups ...
LEMMA AfterQun ==
  ASSUME NEW t \in Tables, NEW s
  PROVE  \/ After(t, s).qun = t.qun
         \/ /\ s.sql \in {"insert qun", "update qun"}
            /\ \E v : /\ After(t, s).qun = With(t.qun, s.qun, v)
                      /\ Sound(s) /\ s.qun \in Quns => v \in Group
<1>0. t.qun \in [Quns -> Group \cup {NoQun}] BY TablesAre
<1>1. CASE s.sql = "insert qun"
  <2> DEFINE v == [creator |-> s.user, name |-> s.to]
  <2>1. After(t, s).qun = With(t.qun, s.qun, v)
    <3>1. s.sql = "insert qun" =>
            After(t, s).qun = With(t.qun, s.qun, [creator |-> s.user, name |-> s.to])
      BY AfterParts
    <3> QED BY <1>1, <3>1
  <2>2. Sound(s) => v \in Group BY <1>1 DEF Sound, Group
  <2> HIDE DEF v
  <2> QED BY <1>1, <2>1, <2>2
<1>2. CASE s.sql = "update qun" /\ s.qun \in Quns /\ t.qun[s.qun] # NoQun
  <2> DEFINE v == [t.qun[s.qun] EXCEPT !.name = s.to]
  <2>1. After(t, s).qun = With(t.qun, s.qun, v)
    <3>1. s.sql = "update qun" /\ s.qun \in Quns /\ t.qun[s.qun] # NoQun =>
            After(t, s).qun = With(t.qun, s.qun, [t.qun[s.qun] EXCEPT !.name = s.to])
      BY AfterParts
    <3> QED BY <1>2, <3>1
  <2>2. t.qun[s.qun] \in Group BY <1>0, <1>2
  <2>3. Sound(s) => v \in Group BY <1>2, <2>2 DEF Sound, Group
  <2> HIDE DEF v
  <2> QED BY <1>2, <2>1, <2>3
<1>3. CASE s.sql # "insert qun" /\ ~(s.sql = "update qun" /\ s.qun \in Quns /\ t.qun[s.qun] # NoQun)
  BY <1>3, AfterParts
<1> QED BY <1>1, <1>2, <1>3

\* ... the members ...
LEMMA AfterMember ==
  ASSUME NEW t \in Tables, NEW s
  PROVE  /\ s.sql = "insert qun_user" => After(t, s).member =
              WithAt(t.member, s.qun, s.user, Inserted(t.member[s.qun][s.user]))
         /\ s.sql = "delete qun_user" => After(t, s).member = WithAt(t.member, s.qun, s.user, 0)
         /\ s.sql \notin {"insert qun_user", "delete qun_user"} => After(t, s).member = t.member
BY AfterParts

\* ... and the contacts.
LEMMA AfterStar ==
  ASSUME NEW t \in Tables, NEW s
  PROVE  /\ s.sql = "insert user_user" => After(t, s).star =
              With(t.star, <<s.user, s.to>>, t.star[<<s.user, s.to>>] + 1)
         /\ s.sql = "delete user_user" => After(t, s).star = With(t.star, <<s.user, s.to>>, 0)
         /\ s.sql \notin {"insert user_user", "delete user_user"} => After(t, s).star = t.star
BY AfterParts

\* A row that is replaced by one of its kind, if it is there ...
LEMMA Row ==
  ASSUME NEW A, NEW S, NEW m \in [A -> S], NEW a, NEW v, a \in A => v \in S
  PROVE  With(m, a, v) \in [A -> S]
BY DEF With

\* ... and an entry.
LEMMA EntryOf ==
  ASSUME NEW A, NEW B, NEW S, NEW m \in [A -> [B -> S]], NEW a, NEW b, NEW v,
         a \in A /\ b \in B => v \in S
  PROVE  WithAt(m, a, b, v) \in [A -> [B -> S]]
BY Entry, Zenon DEF WithAt

\* Tables stay tables ...
LEMMA AfterTables ==
  ASSUME NEW t \in Tables, NEW s, Sound(s)
  PROVE  After(t, s) \in Tables
<1> DEFINE w == After(t, s)
<1>0. /\ t.qun \in [Quns -> Group \cup {NoQun}] /\ t.member \in [Quns -> [Users -> Nat]]
      /\ t.star \in [Contacts -> Nat] /\ t.org \in {"none", "unset", "placed"}
      /\ t.roots \in BOOLEAN
  BY TablesAre
<1>1. w.qun \in [Quns -> Group \cup {NoQun}]
  <2>1. CASE w.qun = t.qun BY <1>0, <2>1
  <2>2. ASSUME NEW v, w.qun = With(t.qun, s.qun, v), s.qun \in Quns => v \in Group
        PROVE  w.qun \in [Quns -> Group \cup {NoQun}]
    <3> HIDE DEF w
    <3>1. s.qun \in Quns => v \in Group \cup {NoQun} BY <2>2
    <3>2. With(t.qun, s.qun, v) \in [Quns -> Group \cup {NoQun}] BY <1>0, <3>1, Row
    <3> QED BY <2>2, <3>2
  <2>3. \/ w.qun = t.qun
        \/ \E v : w.qun = With(t.qun, s.qun, v) /\ (s.qun \in Quns => v \in Group)
    <3>1. \/ w.qun = t.qun
          \/ \E v : w.qun = With(t.qun, s.qun, v) /\ (Sound(s) /\ s.qun \in Quns => v \in Group)
      BY AfterQun
    <3> HIDE DEF w
    <3> QED BY <3>1
  <2> HIDE DEF w
  <2> QED BY <2>1, <2>2, <2>3
<1>2. w.member \in [Quns -> [Users -> Nat]]
  <2>1. CASE s.sql = "insert qun_user"
    <3> DEFINE v == Inserted(t.member[s.qun][s.user])
    <3>1. s.qun \in Quns /\ s.user \in Users => v \in Nat BY <1>0 DEF Inserted
    <3>2. w.member = WithAt(t.member, s.qun, s.user, v) BY <2>1, AfterMember
    <3> HIDE DEF v, w
    <3>3. WithAt(t.member, s.qun, s.user, v) \in [Quns -> [Users -> Nat]]
      BY <1>0, <3>1, EntryOf, Zenon
    <3> QED BY <3>2, <3>3
  <2>2. CASE s.sql = "delete qun_user"
    <3>1. w.member = WithAt(t.member, s.qun, s.user, 0) BY <2>2, AfterMember
    <3>2. 0 \in Nat OBVIOUS
    <3>3. WithAt(t.member, s.qun, s.user, 0) \in [Quns -> [Users -> Nat]]
      BY <1>0, <3>2, EntryOf, Zenon
    <3> QED BY <3>1, <3>3
  <2>3. CASE s.sql \notin {"insert qun_user", "delete qun_user"}
    <3>1. w.member = t.member BY <2>3, AfterParts
    <3> QED BY <1>0, <3>1
  <2> QED BY <2>1, <2>2, <2>3
<1>3. w.star \in [Contacts -> Nat]
  <2> DEFINE p == <<s.user, s.to>>
             v == t.star[p] + 1
  <2>1. p \in Contacts => v \in Nat BY <1>0
  <2>2. \/ w.star = With(t.star, p, v) \/ w.star = With(t.star, p, 0)
        \/ w.star = t.star
    <3> HIDE DEF w
    <3> QED BY AfterStar DEF w
  <2> HIDE DEF v, p, w
  <2>3. With(t.star, p, v) \in [Contacts -> Nat] BY <1>0, <2>1, Row, Zenon
  <2>4. With(t.star, p, 0) \in [Contacts -> Nat] BY <1>0, Row
  <2> QED BY <1>0, <2>2, <2>3, <2>4
<1>4. w.org \in {"none", "unset", "placed"} /\ w.roots \in BOOLEAN BY <1>0, AfterParts
<1>5. w = [qun |-> w.qun, member |-> w.member, star |-> w.star, org |-> w.org, roots |-> w.roots]
  BY AfterParts
<1> HIDE DEF w
<1>6. w \in Tables BY <1>1, <1>2, <1>3, <1>4, <1>5 DEF Tables
<1> QED BY <1>6 DEF w

\* ... and are changed within what the statement locks.
LEMMA AfterWithin ==
  ASSUME NEW t \in Tables, NEW s
  PROVE  Within(t, After(t, s), Locks(s))
<1> DEFINE w == After(t, s)
           K == Locks(s)
<1>0. t.qun \in [Quns -> Group \cup {NoQun}] BY TablesAre
<1>1. \A g \in Quns : g \in K \/ w.qun[g] = t.qun[g]
  <2> SUFFICES ASSUME NEW g \in Quns, g \notin K PROVE w.qun[g] = t.qun[g] OBVIOUS
  <2>1. s.sql \in {"insert qun", "update qun"} => s.qun # g BY DEF Locks
  <2>2. CASE w.qun = t.qun BY <2>2
  <2>3. ASSUME NEW v, w.qun = With(t.qun, s.qun, v), s.qun # g PROVE w.qun[g] = t.qun[g]
    <3> HIDE DEF w
    <3> QED BY <1>0, <2>3 DEF With
  <2>4. \/ w.qun = t.qun
        \/ s.sql \in {"insert qun", "update qun"} /\ \E v : w.qun = With(t.qun, s.qun, v)
    BY AfterQun
  <2> HIDE DEF w
  <2> QED BY <2>1, <2>2, <2>3, <2>4
<1>2. "qun_user" \in K \/ w.member = t.member BY AfterParts DEF Locks
<1>3. "user_user" \in K \/ w.star = t.star BY AfterParts DEF Locks
<1>4. "org" \in K \/ w.org = t.org BY AfterParts DEF Locks
<1>5. w.roots = t.roots BY AfterParts
<1> HIDE DEF w, K
<1>6. Within(t, w, K) BY <1>1, <1>2, <1>3, <1>4, <1>5 DEF Within
<1> QED BY <1>6 DEF w, K

\* What a transaction holds of its writes is what it sees of them again.
LEMMA SeenAgain ==
  ASSUME NEW t \in Tables, NEW w \in Tables, NEW L, Within(t, w, L)
  PROVE  Seen(t, Seen(Empty, w, L), L) = w
<1> DEFINE v == Seen(Empty, w, L)
           n == Seen(t, v, L)
<1>0. /\ t.qun \in [Quns -> Group \cup {NoQun}] /\ w.qun \in [Quns -> Group \cup {NoQun}]
  BY TablesAre
<1>1. n.qun = w.qun
  <2>1. \A g \in Quns : n.qun[g] = w.qun[g] BY DEF Seen, Within
  <2>2. n.qun = [g \in Quns |-> n.qun[g]] BY DEF Seen
  <2> HIDE DEF n
  <2> QED BY <1>0, <2>1, <2>2
<1>2. n.member = w.member /\ n.star = w.star /\ n.org = w.org /\ n.roots = w.roots
  BY DEF Seen, Within
<1>3. n = [qun |-> n.qun, member |-> n.member, star |-> n.star, org |-> n.org, roots |-> n.roots]
  BY DEF Seen
<1>4. w = [qun |-> w.qun, member |-> w.member, star |-> w.star, org |-> w.org, roots |-> w.roots]
  BY TablesAre
<1> HIDE DEF n
<1>5. n = w BY <1>1, <1>2, <1>3, <1>4
<1> QED BY <1>5 DEF n

\* A statement changes what its transaction sees, and nothing else.
LEMMA ExecSees ==
  ASSUME NEW t \in Tables, NEW v \in Tables, NEW L, NEW s, Sound(s)
  PROVE  LET w == After(Seen(t, v, L), s)
             K == L \cup Locks(s)
         IN  Seen(Empty, w, K) \in Tables /\ Seen(t, Seen(Empty, w, K), K) = w
<1> DEFINE u == Seen(t, v, L)
           w == After(u, s)
           K == L \cup Locks(s)
<1>1. u \in Tables /\ Within(t, u, L) BY SeenTables
<1> HIDE DEF u
<1>2. w \in Tables /\ Within(u, w, Locks(s)) BY <1>1, AfterTables, AfterWithin
<1> HIDE DEF w
<1>3. Within(t, w, K) BY <1>1, <1>2 DEF Within
<1> HIDE DEF K
<1>4. Seen(Empty, w, K) \in Tables /\ Seen(t, Seen(Empty, w, K), K) = w
  BY <1>2, <1>3, EmptyTables, SeenTables, SeenAgain
<1> QED BY <1>4 DEF u, w, K

\* What another transaction commits does not change what this one has locked.
LEMMA OthersCommit ==
  ASSUME NEW t \in Tables, NEW v \in Tables, NEW L, NEW n, NEW K, Within(t, n, K), L \cap K = {}
  PROVE  LET w == Seen(t, v, L)
             x == Seen(n, v, L)
         IN  /\ \A g \in Quns : \/ n.qun[g] = t.qun[g] /\ x.qun[g] = w.qun[g]
                                \/ x.qun[g] = n.qun[g] /\ w.qun[g] = t.qun[g]
             /\ \/ n.member = t.member /\ x.member = w.member
                \/ x.member = n.member /\ w.member = t.member
             /\ \/ n.star = t.star /\ x.star = w.star
                \/ x.star = n.star /\ w.star = t.star
<1>1. \A g \in Quns : \/ n.qun[g] = t.qun[g] /\ Seen(n, v, L).qun[g] = Seen(t, v, L).qun[g]
                      \/ Seen(n, v, L).qun[g] = n.qun[g] /\ Seen(t, v, L).qun[g] = t.qun[g]
  BY DEF Within, Seen
<1>2. \/ n.member = t.member /\ Seen(n, v, L).member = Seen(t, v, L).member
      \/ Seen(n, v, L).member = n.member /\ Seen(t, v, L).member = t.member
  BY DEF Within, Seen
<1>3. \/ n.star = t.star /\ Seen(n, v, L).star = Seen(t, v, L).star
      \/ Seen(n, v, L).star = n.star /\ Seen(t, v, L).star = t.star
  BY DEF Within, Seen
<1> QED BY <1>1, <1>2, <1>3

-----------------------------------------------------------------------------
(* The invariant. *)

LockNames == Quns \cup {NoQun, "qun_user", "user_user", "org"}

\* Who a group is created with.
Founders(q) == {q.uid} \cup Listed(q)

\* What the transaction of a request may write.
Writes(q) ==
  CASE q.op = "CreateQun"          -> {InsertQun(q)} \cup {InsertQunUser(q.qun, u) : u \in Founders(q)}
    [] q.op = "AddQunMember"       -> {InsertQunUser(q.qun, u) : u \in Listed(q)}
    [] q.op = "DelQunMember"       -> {DeleteQunUser(q.qun, u) : u \in Listed(q)}
    [] q.op = "UpdateQunTopicById" -> {UpdateTopic(q)}
    [] q.op = "AddContact"         -> {InsertStar(q)}
    [] q.op = "RemoveContact"      -> {DeleteStar(q)}
    [] q.op = "SyncOrg"            -> {InsertOrg(q), FirstLocation(q), NextLocation(q)}
    [] OTHER                       -> {}

\* What a client sent.
Called(q) ==
  /\ {q.user, q.uid, q.peer} \subseteq Users /\ q.qun \in Quns \cup {NoQun}
  /\ q.topic \in Topics /\ q.list \in Seq(Users)

\* Pushes to more than one user, whose names are read first.
ToMany == {"PushQun", "PushOrg", "PushTenant"}

Typed(q) ==
  /\ Called(q) /\ q.at \in Labels /\ q.lost \in BOOLEAN
  /\ q.locks \subseteq LockNames /\ q.view \in Tables
  /\ q.at = "exec" => q.todo \in Seq(Writes(q))
  /\ q.at = "names" => q.op \in ToMany

Typing == db \in Tables /\ \A r \in Reqs : Typed(req[r])

\* Nothing is locked outside a transaction, and nothing by two.
Isolated ==
  /\ \A r \in Reqs : req[r].at # "exec" => req[r].locks = {} /\ req[r].view = Empty
  /\ \A r, x \in Reqs : r # x => req[r].locks \cap req[x].locks = {}

\* How the members, groups and contacts that request q sees may differ from those
\* of tables t: by what it wrote itself.
OwnMembers(t, w, q) ==
  \A g \in Quns, u \in Users : w.member[g][u] # t.member[g][u] =>
    /\ g = q.qun
    /\ \/ q.op = "CreateQun" /\ u \in Founders(q) /\ w.member[g][u] # 0
       \/ q.op = "AddQunMember" /\ u \in Listed(q) /\ w.member[g][u] # 0
       \/ q.op = "DelQunMember" /\ u \in Listed(q) /\ w.member[g][u] = 0

OwnGroups(t, w, q) ==
  \A g \in Quns : w.qun[g] # t.qun[g] =>
    /\ g = q.qun
    /\ \/ q.op = "CreateQun"
       \/ /\ q.op = "UpdateQunTopicById" /\ t.qun[g] # NoQun /\ w.qun[g] # NoQun
          /\ w.qun[g].creator = t.qun[g].creator

OwnContacts(t, w, q) ==
  \A p \in Contacts : w.star[p] > t.star[p] =>
    q.op = "AddContact" /\ p = <<q.uid, q.peer>> /\ w.star[p] = t.star[p] + 1

\* What is not written yet is still to be.
Pending(s, q) == \E i \in DOMAIN q.todo : q.todo[i] = s

StillToWrite(t, w, q) ==
  /\ q.op = "AddContact" =>
       q.todo = <<>> \/ (q.todo = createContact(q) /\ w.star = t.star)
  /\ q.op = "CreateQun" =>
       /\ w.qun[q.qun] # NoQun \/ Pending(InsertQun(q), q)
       /\ \A u \in Founders(q) : w.member[q.qun][u] # 0 \/ Pending(InsertQunUser(q.qun, u), q)

OwnWrites(t, q) ==
  LET w == Seen(t, q.view, q.locks)
  IN  /\ OwnMembers(t, w, q) /\ OwnGroups(t, w, q) /\ OwnContacts(t, w, q)
      /\ StillToWrite(t, w, q)

Writing == \A r \in Reqs : req[r].at = "exec" => OwnWrites(db, req[r])

\* A group is created by one request at a time, and has nobody in it before.
Creates(q) == q.op = "CreateQun" /\ q.at \in {"token", "user", "begin", "exec"}

QunsMade ==
  /\ used \subseteq Quns
  /\ \A g \in Quns : db.qun[g] # NoQun => g \in used
  /\ \A g \in Quns : db.qun[g] = NoQun => \A u \in Users : db.member[g][u] = 0
  /\ \A r \in Reqs : Creates(req[r]) =>
       /\ req[r].qun \in used /\ db.qun[req[r].qun] = NoQun
       /\ \A x \in Reqs : Creates(req[x]) /\ req[x].qun = req[r].qun => x = r

\* What was looked up before the transaction still holds in it.
Checked(q) ==
  /\ q.op = "AddQunMember" => Found(q.qun)
  /\ q.op = "DelQunMember" => MayRemove(q)
  /\ q.op = "AddContact" => q.lost \/ ~isStar(q)

Looked(q) ==
  /\ q.op = "AddContact" /\ q.at \notin Resting => <<q.uid, q.peer>> \in Contacts
  /\ q.at \in {"begin", "exec"} => Checked(q)

AllLooked == \A r \in Reqs : Looked(req[r])

\* Who was reached, who is left to be, and who was to be told.
Receives(q) ==
  q.op \in Pushes =>
    /\ q.at \notin Resting \cup {"push"} =>
         /\ q.reached = {} /\ q.ret = "OK"
         /\ q.stayed \subseteq Due(q) /\ Due(q) \subseteq q.were
    /\ q.at = "push" =>
         /\ q.reached \subseteq q.were /\ q.names \ {NoName} \subseteq q.were
         /\ q.ret = "OK" /\ ~q.lost /\ NoName \notin q.names =>
              q.stayed \subseteq q.names \cup q.reached
    /\ q.at = "answered" =>
         /\ q.reached \subseteq q.were
         /\ q.ret = "OK" /\ ~q.lost => q.stayed \subseteq q.reached

AllReceive == \A r \in Reqs : Receives(req[r])

Ready == AInv /\ Typing /\ Isolated

TInv == Typing /\ Isolated /\ Writing /\ QunsMade /\ AllLooked /\ AllReceive

-----------------------------------------------------------------------------
(* Requests, field by field. *)

\* Request n is q but for the fields F.
But(n, q, F) == DOMAIN n = Fields /\ \A f \in Fields \ F : n[f] = q[f]

\* One field is set ...
LEMMA ButWhere ==
  ASSUME NEW q, DOMAIN q = Fields, NEW v
  PROVE  /\ But([q EXCEPT !.at = v], q, {"at"}) /\ [q EXCEPT !.at = v].at = v
         /\ But([q EXCEPT !.ret = v], q, {"ret"}) /\ [q EXCEPT !.ret = v].ret = v
         /\ But([q EXCEPT !.names = v], q, {"names"}) /\ [q EXCEPT !.names = v].names = v
         /\ But([q EXCEPT !.reached = v], q, {"reached"}) /\ [q EXCEPT !.reached = v].reached = v
         /\ But([q EXCEPT !.lost = v], q, {"lost"}) /\ [q EXCEPT !.lost = v].lost = v
<1> DEFINE F == Fields
<1>1. F = {"op", "at", "ret", "user", "uid", "peer", "qun", "topic", "list", "todo", "locks",
           "view", "names", "reached", "were", "stayed", "lost"}
  BY FieldNames
<1> HIDE DEF F
<1>2. DOMAIN q = F BY DEF F
<1> QED BY <1>1, <1>2 DEF But, F

\* ... of those of a transaction, or of history.
LEMMA ButWhat ==
  ASSUME NEW q, DOMAIN q = Fields, NEW v
  PROVE  /\ But([q EXCEPT !.todo = v], q, {"todo"}) /\ [q EXCEPT !.todo = v].todo = v
         /\ But([q EXCEPT !.locks = v], q, {"locks"}) /\ [q EXCEPT !.locks = v].locks = v
         /\ But([q EXCEPT !.view = v], q, {"view"}) /\ [q EXCEPT !.view = v].view = v
         /\ But([q EXCEPT !.were = v], q, {"were"}) /\ [q EXCEPT !.were = v].were = v
         /\ But([q EXCEPT !.stayed = v], q, {"stayed"}) /\ [q EXCEPT !.stayed = v].stayed = v
<1> DEFINE F == Fields
<1>1. F = {"op", "at", "ret", "user", "uid", "peer", "qun", "topic", "list", "todo", "locks",
           "view", "names", "reached", "were", "stayed", "lost"}
  BY FieldNames
<1> HIDE DEF F
<1>2. DOMAIN q = F BY DEF F
<1> QED BY <1>1, <1>2 DEF But, F

\* The same for one field: where a request is ...
LEMMA ButAt ==
  ASSUME NEW q, DOMAIN q = Fields, NEW v, NEW n, n = [q EXCEPT !.at = v]
  PROVE  But(n, q, {"at"}) /\ n.at = v
BY ButWhere, Zenon

\* ... what it will answer ...
LEMMA ButRet ==
  ASSUME NEW q, DOMAIN q = Fields, NEW v, NEW n, n = [q EXCEPT !.ret = v]
  PROVE  But(n, q, {"ret"}) /\ n.ret = v
BY ButWhere, Zenon

\* ... who is left to be told ...
LEMMA ButNames ==
  ASSUME NEW q, DOMAIN q = Fields, NEW v, NEW n, n = [q EXCEPT !.names = v]
  PROVE  But(n, q, {"names"}) /\ n.names = v
BY ButWhere, Zenon

\* ... who was reached ...
LEMMA ButReached ==
  ASSUME NEW q, DOMAIN q = Fields, NEW v, NEW n, n = [q EXCEPT !.reached = v]
  PROVE  But(n, q, {"reached"}) /\ n.reached = v
BY ButWhere, Zenon

\* ... whether what was read is wrong ...
LEMMA ButLost ==
  ASSUME NEW q, DOMAIN q = Fields, NEW v, NEW n, n = [q EXCEPT !.lost = v]
  PROVE  But(n, q, {"lost"}) /\ n.lost = v
BY ButWhere, Zenon

\* ... and what is still to be written.
LEMMA ButTodo ==
  ASSUME NEW q, DOMAIN q = Fields, NEW v, NEW n, n = [q EXCEPT !.todo = v]
  PROVE  But(n, q, {"todo"}) /\ n.todo = v
BY ButWhat, Zenon

\* More fields.
LEMMA ButAlso ==
  ASSUME NEW q, NEW k, NEW n, NEW A, NEW B, But(k, q, A), But(n, k, B)
  PROVE  But(n, q, A \cup B)
BY DEF But

\* Where a request goes on ...
LEMMA ToAt ==
  ASSUME AInv, NEW r \in Reqs, NEW a, NEW n, n = To(r, a)
  PROVE  But(n, req[r], {"at"}) /\ n.at = a
<1> DEFINE p == req[r]
<1>1. DOMAIN p = Fields BY DEF AInv, Requests, Good
<1>2. n = [p EXCEPT !.at = a] BY DEF To
<1> HIDE DEF p
<1>3. But(n, p, {"at"}) /\ n.at = a BY <1>1, <1>2, ButAt
<1> QED BY <1>3 DEF p

\* ... with one thing more.
LEMMA ToBut ==
  ASSUME AInv, NEW r \in Reqs, NEW a, NEW f, f # "at", NEW n, But(n, To(r, a), {f})
  PROVE  But(n, req[r], {"at", f}) /\ n.at = a
<1> DEFINE t == To(r, a)
<1>1. But(t, req[r], {"at"}) /\ t.at = a BY ToAt
<1> HIDE DEF t
<1>2. But(n, t, {f}) BY DEF t
<1>3. But(n, req[r], {"at"} \cup {f}) BY <1>1, <1>2, ButAlso
<1>4. {"at"} \cup {f} = {"at", f} OBVIOUS
<1>5. n.at = t.at BY <1>2, FieldNames DEF But
<1> QED BY <1>1, <1>3, <1>4, <1>5

\* What it goes on with: what it will answer ...
LEMMA ToRet ==
  ASSUME AInv, NEW r \in Reqs, NEW a, NEW v, NEW n, n = [To(r, a) EXCEPT !.ret = v]
  PROVE  But(n, req[r], {"at", "ret"}) /\ n.at = a
<1> DEFINE t == To(r, a)
<1>1. DOMAIN t = Fields BY ToAt DEF But
<1>2. n = [t EXCEPT !.ret = v] OBVIOUS
<1> HIDE DEF t
<1>3. But(n, t, {"ret"}) /\ n.ret = v BY <1>1, <1>2, ButRet
<1> QED BY <1>3, ToBut DEF t

\* ... who is to be told ...
LEMMA ToNames ==
  ASSUME AInv, NEW r \in Reqs, NEW a, NEW v, NEW n, n = [To(r, a) EXCEPT !.names = v]
  PROVE  But(n, req[r], {"at", "names"}) /\ n.at = a
<1> DEFINE t == To(r, a)
<1>1. DOMAIN t = Fields BY ToAt DEF But
<1>2. n = [t EXCEPT !.names = v] OBVIOUS
<1> HIDE DEF t
<1>3. But(n, t, {"names"}) /\ n.names = v BY <1>1, <1>2, ButNames
<1> QED BY <1>3, ToBut DEF t

\* ... what was lost ...
LEMMA ToLost ==
  ASSUME AInv, NEW r \in Reqs, NEW a, NEW n, n = [To(r, a) EXCEPT !.lost = TRUE]
  PROVE  But(n, req[r], {"at", "lost"}) /\ n.at = a /\ n.lost = TRUE
<1> DEFINE t == To(r, a)
<1>1. DOMAIN t = Fields BY ToAt DEF But
<1>2. n = [t EXCEPT !.lost = TRUE] OBVIOUS
<1> HIDE DEF t
<1>3. But(n, t, {"lost"}) /\ n.lost = TRUE BY <1>1, <1>2, ButLost
<1> QED BY <1>3, ToBut DEF t

\* ... statements ...
LEMMA ToTodo ==
  ASSUME AInv, NEW r \in Reqs, NEW a, NEW v, NEW n, n = [To(r, a) EXCEPT !.todo = v]
  PROVE  But(n, req[r], {"at", "todo"}) /\ n.at = a
<1> DEFINE t == To(r, a)
<1>1. DOMAIN t = Fields BY ToAt DEF But
<1>2. n = [t EXCEPT !.todo = v] OBVIOUS
<1> HIDE DEF t
<1>3. But(n, t, {"todo"}) /\ n.todo = v BY <1>1, <1>2, ButTodo
<1> QED BY <1>3, ToBut DEF t

\* ... which are these.
LEMMA ToTodoIs ==
  ASSUME AInv, NEW r \in Reqs, NEW a, NEW v, NEW n, n = [To(r, a) EXCEPT !.todo = v]
  PROVE  n.todo = v
<1> DEFINE t == To(r, a)
<1>1. DOMAIN t = Fields BY ToAt DEF But
<1>2. n = [t EXCEPT !.todo = v] OBVIOUS
<1> HIDE DEF t
<1> QED BY <1>1, <1>2, ButTodo

\* No request is one a client may have sent.
LEMMA BlankCalled ==
  Called(Blank) /\ Blank.locks = {} /\ Blank.view = Empty /\ Blank.lost = FALSE /\ DOMAIN Blank = Fields
<1>1. anyone \in Users BY TablesAssumption DEF anyone
<1>2. Blank.topic \in Topics BY TablesAssumption DEF Blank
<1>3. <<>> \in Seq(Users) OBVIOUS
<1> QED BY <1>1, <1>2, <1>3 DEF Blank, Called, Fields

\* What an answer keeps of the request.
LEMMA AnswerIs ==
  ASSUME NEW q, NEW ret
  PROVE  LET n == Answer(q, ret) IN
         /\ DOMAIN n = Fields /\ n.op = q.op /\ n.at = "answered" /\ n.ret = ret /\ n.lost = q.lost
         /\ n.reached = q.reached /\ n.were = q.were /\ n.stayed = q.stayed
         /\ Called(n) /\ n.locks = {} /\ n.view = Empty
<1> DEFINE n == Answer(q, ret)
<1>1. /\ DOMAIN n = Fields /\ n.op = q.op /\ n.at = "answered" /\ n.ret = ret /\ n.lost = q.lost
      /\ n.reached = q.reached /\ n.were = q.were /\ n.stayed = q.stayed
      /\ n.locks = Blank.locks /\ n.view = Blank.view
      /\ n.user = Blank.user /\ n.uid = Blank.uid /\ n.peer = Blank.peer /\ n.qun = Blank.qun
      /\ n.topic = Blank.topic /\ n.list = Blank.list
  BY DEF Answer, Blank, Fields
<1> HIDE DEF n
<1>2. Called(n) /\ n.locks = {} /\ n.view = Empty BY <1>1, BlankCalled DEF Called
<1> QED BY <1>1, <1>2 DEF n

\* And a connection that is closed.
LEMMA ClosedIs ==
  ASSUME NEW q
  PROVE  LET n == Closed(q) IN
         /\ DOMAIN n = Fields /\ n.op = q.op /\ n.at = "closed" /\ n.lost = FALSE
         /\ Called(n) /\ n.locks = {} /\ n.view = Empty
<1> DEFINE n == Closed(q)
<1>1. /\ DOMAIN n = Fields /\ n.op = q.op /\ n.at = "closed" /\ n.lost = Blank.lost
      /\ n.locks = Blank.locks /\ n.view = Blank.view
      /\ n.user = Blank.user /\ n.uid = Blank.uid /\ n.peer = Blank.peer /\ n.qun = Blank.qun
      /\ n.topic = Blank.topic /\ n.list = Blank.list
  BY DEF Closed, Blank, Fields
<1> HIDE DEF n
<1>2. Called(n) /\ n.locks = {} /\ n.view = Empty BY <1>1, BlankCalled DEF Called
<1> QED BY <1>1, <1>2, BlankCalled DEF n

-----------------------------------------------------------------------------
(* How a request goes on. *)

SameCall(n, q) ==
  /\ n.user = q.user /\ n.uid = q.uid /\ n.peer = q.peer /\ n.qun = q.qun
  /\ n.topic = q.topic /\ n.list = q.list

\* Request p becomes q, which is in no transaction.
Turn(p, q) ==
  /\ DOMAIN q = Fields /\ q.op = p.op /\ Called(q)
  /\ q.at \in Labels /\ q.at # "exec" /\ q.lost \in BOOLEAN
  /\ q.locks = {} /\ q.view = Empty
  /\ q.at \notin Resting => SameCall(q, p)
  /\ q.at = "names" => q.op \in ToMany

\* A transaction is begun after what it rests on was looked up; a group that is
\* created was so from the start.
Enters(p, q) ==
  /\ q.at = "begin" => Checked(q)
  /\ Creates(q) => p.at \in {"token", "user"}

Turns(r, q) ==
  /\ Turn(req[r], q) /\ Enters(req[r], q)
  /\ Receives(req[r]) => Receives(q)

\* What it becomes when its transaction has ended.
Ending(p, q) ==
  /\ DOMAIN q = Fields /\ q.op = p.op /\ q.op \notin Pushes /\ Called(q) /\ q.lost \in BOOLEAN
  /\ q.at \in Resting \/ (q.at \in {"members", "self"} /\ SameCall(q, p))

\* The statements it begins a transaction with.
Starts(p, todo) ==
  /\ todo \in Seq(Writes(p)) /\ p.op \notin Pushes /\ p.at # "exec" /\ p.at \notin Resting
  /\ p.at = "begin" \/ p.op = "SyncOrg"
  /\ p.op = "AddContact" => todo = createContact(p)
  /\ p.op = "CreateQun" => \A w \in Writes(p) : \E i \in DOMAIN todo : todo[i] = w

\* What a step of a handler is, to the tables.
Steps(r) ==
  /\ UNCHANGED used
  /\ \/ Exec(r)
     \/ \E ok, failed : Commit(r, ok, failed) /\ Ending(req[r], ok) /\ Ending(req[r], failed)
     \/ UNCHANGED db /\ \E q : Turns(r, q) /\ Go(r, q)
     \/ UNCHANGED db /\ \E todo : Starts(req[r], todo) /\ Go(r, [To(r, "exec") EXCEPT !.todo = todo])
     \/ /\ UNCHANGED db /\ req[r].op = "SyncOrg" /\ req[r].at = "exec" /\ req[r].todo # <<>>
        /\ Go(r, [req[r] EXCEPT !.todo = Tail(@)])

\* Where a handler does its work but for transactions and pushes.
AtWork(at) == at \in Labels /\ at \notin Resting \cup {"exec", "push"}

\* The types of a request at work.
LEMMA ReadyIs ==
  ASSUME Ready, NEW r \in Reqs
  PROVE  /\ DOMAIN req[r] = Fields /\ Called(req[r]) /\ req[r].lost \in BOOLEAN /\ req[r].at \in Labels
         /\ req[r].at # "exec" => req[r].locks = {} /\ req[r].view = Empty
BY DEF Ready, AInv, Requests, Good, Typing, Typed, Isolated

\* Who receives is a matter of pushes.
LEMMA NoPush == ASSUME NEW q, q.op \notin Pushes PROVE Receives(q)
BY DEF Receives

\* It goes on somewhere else, with what it has found.
LEMMA OnTurns ==
  ASSUME Ready, NEW r \in Reqs, AtWork(req[r].at), NEW n, AtWork(n.at), n.lost \in BOOLEAN,
         But(n, req[r], {"at", "ret", "names", "lost"}), Enters(req[r], n),
         req[r].op \in Pushes => n.ret = req[r].ret, n.at = "names" => req[r].op \in ToMany
  PROVE  Turns(r, n)
<1> DEFINE p == req[r]
<1>1. /\ DOMAIN p = Fields /\ Called(p) /\ p.at \notin Resting \cup {"exec", "push"}
      /\ p.locks = {} /\ p.view = Empty
  BY ReadyIs DEF AtWork
<1>2. /\ n.op = p.op /\ SameCall(n, p) /\ n.locks = p.locks /\ n.view = p.view
      /\ n.reached = p.reached /\ n.were = p.were /\ n.stayed = p.stayed
  BY FieldNames DEF But, SameCall
<1>6. n.at = "names" => n.op \in ToMany BY <1>2
<1> HIDE DEF p
<1>3. Turn(p, n) BY <1>1, <1>2, <1>6 DEF Turn, But, Called, SameCall, AtWork
<1>4. Due(n) = Due(p) BY <1>2 DEF Due, SameCall
<1>5. Receives(p) => Receives(n)
  <2>1. CASE p.op \notin Pushes BY <1>2, <2>1, NoPush
  <2>2. CASE p.op \in Pushes
    <3>1. n.ret = p.ret BY <2>2 DEF p
    <3> QED BY <1>1, <1>2, <1>4, <2>2, <3>1 DEF Receives, AtWork, Resting
  <2> QED BY <2>1, <2>2
<1> QED BY <1>3, <1>5 DEF Turns, p

\* It ends, as one that reached whom it had to.
LEMMA EndTurns ==
  ASSUME Ready, NEW r \in Reqs, NEW q, q.op = req[r].op, q.lost \in BOOLEAN, NEW ret,
         Receives(req[r]) /\ q.op \in Pushes =>
           /\ q.reached \subseteq q.were
           /\ ret = "OK" /\ ~q.lost => q.stayed \subseteq q.reached
  PROVE  Turns(r, Answer(q, ret)) /\ Turns(r, Closed(q))
<1> DEFINE n == Answer(q, ret)
           c == Closed(q)
<1>1. /\ DOMAIN n = Fields /\ n.op = q.op /\ n.at = "answered" /\ n.ret = ret /\ n.lost = q.lost
      /\ n.reached = q.reached /\ n.were = q.were /\ n.stayed = q.stayed
      /\ Called(n) /\ n.locks = {} /\ n.view = Empty
  BY AnswerIs
<1>2. /\ DOMAIN c = Fields /\ c.op = q.op /\ c.at = "closed" /\ c.lost = FALSE
      /\ Called(c) /\ c.locks = {} /\ c.view = Empty
  BY ClosedIs
<1> HIDE DEF n, c
<1>3. Turn(req[r], n) /\ Turn(req[r], c) BY <1>1, <1>2 DEF Turn, Labels, Resting
<1>4. Enters(req[r], n) /\ Enters(req[r], c) BY <1>1, <1>2 DEF Enters, Creates
<1>5. Receives(req[r]) => Receives(n) BY <1>1 DEF Receives, Resting
<1>6. Receives(c) BY <1>2 DEF Receives, Resting
<1>7. Turns(r, n) /\ Turns(r, c) BY <1>3, <1>4, <1>5, <1>6 DEF Turns
<1> QED BY <1>7 DEF n, c

\* A handler ends where it is, but a push is not answered OK.
LEMMA StopTurns ==
  ASSUME Ready, NEW r \in Reqs, AtWork(req[r].at), NEW ret
  PROVE  /\ req[r].op \notin Pushes \/ ret # "OK" => Turns(r, Answer(req[r], ret))
         /\ Turns(r, Closed(req[r]))
         /\ Turns(r, [Answer(req[r], ret) EXCEPT !.lost = TRUE])
<1> DEFINE q == req[r]
<1>1. q.op = req[r].op /\ q.lost \in BOOLEAN BY ReadyIs
<1>2. Receives(q) /\ q.op \in Pushes => q.reached \subseteq q.were
  BY DEF Receives, AtWork
<1>3. ASSUME NEW x, q.op \notin Pushes \/ x # "OK"
      PROVE  Turns(r, Answer(q, x)) /\ Turns(r, Closed(q))
  <2> HIDE DEF q
  <2> QED BY <1>1, <1>2, <1>3, EndTurns DEF q
<1>4. Turns(r, [Answer(q, ret) EXCEPT !.lost = TRUE])
  <2> DEFINE a == Answer(q, ret)
             n == [a EXCEPT !.lost = TRUE]
  <2>1. /\ DOMAIN a = Fields /\ a.op = q.op /\ a.at = "answered"
        /\ a.reached = q.reached /\ a.were = q.were
        /\ Called(a) /\ a.locks = {} /\ a.view = Empty
    BY AnswerIs
  <2> HIDE DEF a, q
  <2>2. But(n, a, {"lost"}) /\ n.lost = TRUE BY <2>1, ButLost
  <2> HIDE DEF n
  <2>3. /\ DOMAIN n = Fields /\ n.op = q.op /\ n.at = "answered"
        /\ n.reached = q.reached /\ n.were = q.were
        /\ n.locks = {} /\ n.view = Empty
        /\ SameCall(n, a)
    BY <2>1, <2>2, FieldNames DEF But, SameCall
  <2>4. Called(n) BY <2>1, <2>3 DEF Called, SameCall
  <2>5. Turn(q, n) BY <2>2, <2>3, <2>4 DEF Turn, Labels, Resting
  <2>6. Enters(q, n) BY <2>3 DEF Enters, Creates
  <2>7. Receives(q) => Receives(n) BY <1>2, <2>2, <2>3 DEF Receives, Resting
  <2>8. Turns(r, n) BY <2>5, <2>6, <2>7 DEF Turns, q
  <2> QED BY <2>8 DEF n, a
<1>5. \E x : x # "OK"
  <2>1. "other" # "OK" OBVIOUS
  <2> QED BY <2>1
<1> QED BY <1>3, <1>4, <1>5

\* The receivers are known, but for those that were lost in reading them, and are
\* told one by one.
LEMMA SendTurns ==
  ASSUME Ready, NEW r \in Reqs, AtWork(req[r].at), NEW S,
         NEW p, But(p, req[r], {"lost"}), p.lost \in BOOLEAN,
         S \ {NoName} \subseteq Due(req[r]),
         ~p.lost /\ NoName \notin S => Due(req[r]) \subseteq S
  PROVE  Turns(r, Dispatch(p, S))
<1> DEFINE k == [p EXCEPT !.at = "push"]
           n == [k EXCEPT !.names = S]
           w == req[r]
<1>0. /\ DOMAIN w = Fields /\ Called(w) /\ w.locks = {} /\ w.view = Empty
      /\ w.at \notin Resting \cup {"exec", "push"} /\ But(p, w, {"lost"})
  BY ReadyIs DEF AtWork
<1> HIDE DEF w
<1>1. /\ DOMAIN p = Fields /\ p.locks = {} /\ p.view = Empty /\ p.op = w.op /\ SameCall(p, w)
      /\ p.reached = w.reached /\ p.were = w.were /\ p.stayed = w.stayed /\ p.ret = w.ret
  BY <1>0, FieldNames DEF But, SameCall
<1>2. Receives(w) /\ w.op \in Pushes =>
        /\ w.reached = {} /\ w.ret = "OK" /\ w.stayed \subseteq Due(w) /\ Due(w) \subseteq w.were
  BY <1>0 DEF Receives
<1>5. S \ {NoName} \subseteq Due(w) /\ (~p.lost /\ NoName \notin S => Due(w) \subseteq S) BY DEF w
<1>3. CASE S = {}
  <2>1. Dispatch(p, S) = Answer(p, p.ret) BY <1>3 DEF Dispatch
  <2>2. Turns(r, Answer(p, p.ret))
    <3> DEFINE v == p.ret
    <3>1. Receives(w) /\ p.op \in Pushes =>
            /\ p.reached \subseteq p.were
            /\ v = "OK" /\ ~p.lost => p.stayed \subseteq p.reached
      BY <1>1, <1>2, <1>3, <1>5
    <3> HIDE DEF v
    <3>2. p.op = req[r].op BY <1>1 DEF w
    <3>3. Turns(r, Answer(p, v)) BY <3>1, <3>2, EndTurns DEF w
    <3> QED BY <3>3 DEF v
  <2> QED BY <2>1, <2>2
<1>4. CASE S # {}
  <2>1. Dispatch(p, S) = n BY <1>4 DEF Dispatch
  <2>2. But(k, p, {"at"}) /\ k.at = "push" BY <1>1, ButAt
  <2> HIDE DEF k
  <2>3. But(n, k, {"names"}) /\ n.names = S BY <2>2, ButNames DEF But
  <2> HIDE DEF n
  <2>4. /\ DOMAIN n = Fields /\ n.op = p.op /\ n.at = "push" /\ n.ret = p.ret /\ n.lost = p.lost
        /\ n.reached = p.reached /\ n.were = p.were /\ n.stayed = p.stayed
        /\ n.locks = {} /\ n.view = Empty /\ SameCall(n, p)
    BY <1>1, <2>2, <2>3, FieldNames DEF But, SameCall
  <2>5. Turn(w, n) BY <1>0, <1>1, <2>4 DEF Turn, Labels, Called, SameCall
  <2>6. Enters(w, n) BY <2>4 DEF Enters, Creates
  <2>7. Receives(w) => Receives(n)
    BY <1>1, <1>2, <1>5, <2>3, <2>4 DEF Receives, Resting
  <2>8. Turns(r, n) BY <2>5, <2>6, <2>7 DEF Turns, w
  <2> QED BY <2>1, <2>8
<1> QED BY <1>3, <1>4

\* A request that has lost nothing meanwhile.
LEMMA Unlost ==
  ASSUME Ready, NEW r \in Reqs
  PROVE  But(req[r], req[r], {"lost"}) /\ req[r].lost \in BOOLEAN
BY ReadyIs DEF But

\* One of them is told, or is not.
LEMMA ToldTurns ==
  ASSUME Ready, NEW r \in Reqs, req[r].op \in Pushes, PushOne(r)
  PROVE  \E q : Turns(r, q) /\ Go(r, q)
<1> DEFINE p == req[r]
<1>1. /\ DOMAIN p = Fields /\ Called(p) /\ p.lost \in BOOLEAN /\ p.locks = {} /\ p.view = Empty
      /\ p.at = "push" /\ p.op \in Pushes
  BY ReadyIs DEF PushOne
<1>2a. PICK u \in p.names : \E x \in push(p, u) : Go(r, Dispatch(x, x.names \ {u}))
  BY DEF PushOne
<1>2. PICK q \in push(p, u) : Go(r, Dispatch(q, q.names \ {u})) BY <1>2a
<1>3. \/ But(q, p, {"ret"}) /\ q.ret = "InternalErr"
      \/ But(q, p, {"reached"}) /\ q.reached = p.reached \cup {u} /\ u # NoName
  <2> HIDE DEF p
  <2> DEFINE v == p.reached \cup {u}
             a == [p EXCEPT !.ret = "InternalErr"]
             b == [p EXCEPT !.reached = v]
  <2>1. q = a \/ (q = b /\ u # NoName) BY DEF push, Reached
  <2> HIDE DEF v
  <2>2. But(a, p, {"ret"}) /\ a.ret = "InternalErr" BY <1>1, ButRet
  <2>3. But(b, p, {"reached"}) /\ b.reached = v BY <1>1, ButReached
  <2> HIDE DEF a, b
  <2> QED BY <2>1, <2>2, <2>3 DEF v
<1> HIDE DEF p
<1>4. /\ DOMAIN q = Fields /\ q.op = p.op /\ q.at = "push" /\ q.lost = p.lost /\ q.names = p.names
      /\ q.were = p.were /\ q.stayed = p.stayed /\ q.locks = {} /\ q.view = Empty
      /\ SameCall(q, p)
      /\ \/ q.ret = "InternalErr" /\ q.reached = p.reached
         \/ q.ret = p.ret /\ q.reached = p.reached \cup {u} /\ u # NoName
  BY <1>1, <1>3, FieldNames DEF But, SameCall
<1> DEFINE S == q.names \ {u}
           k == [q EXCEPT !.at = "push"]
           n == [k EXCEPT !.names = S]
<1>5. Receives(p) =>
        /\ q.reached \subseteq q.were /\ S \ {NoName} \subseteq q.were
        /\ q.ret = "OK" /\ ~q.lost /\ NoName \notin q.names => q.stayed \subseteq S \cup q.reached
  BY <1>1, <1>2, <1>4 DEF Receives, Resting
<1>6. Receives(p) /\ S = {} => (q.ret = "OK" /\ ~q.lost => q.stayed \subseteq q.reached)
  <2>1. S = {} /\ q.ret = "OK" => u # NoName /\ NoName \notin q.names BY <1>4
  <2> QED BY <1>5, <2>1
<1> HIDE DEF S
<1>7. CASE S = {}
  <2>1. Dispatch(q, S) = Answer(q, q.ret) BY <1>7 DEF Dispatch
  <2>2. Turns(r, Answer(q, q.ret))
    <3> DEFINE v == q.ret
    <3>1. q.op = req[r].op /\ q.lost \in BOOLEAN BY <1>1, <1>4 DEF p
    <3>2. Receives(req[r]) /\ q.op \in Pushes =>
             /\ q.reached \subseteq q.were
             /\ v = "OK" /\ ~q.lost => q.stayed \subseteq q.reached
      BY <1>5, <1>6, <1>7 DEF p
    <3> HIDE DEF v
    <3>3. Turns(r, Answer(q, v)) BY <3>1, <3>2, EndTurns
    <3> QED BY <3>3 DEF v
  <2>3. Go(r, Answer(q, q.ret)) BY <1>2, <2>1 DEF S
  <2> QED BY <2>2, <2>3
<1>8. CASE S # {}
  <2>1. Dispatch(q, S) = n BY <1>8 DEF Dispatch
  <2>2. But(k, q, {"at"}) /\ k.at = "push" BY <1>4, ButAt
  <2> HIDE DEF k
  <2>3. But(n, k, {"names"}) /\ n.names = S BY <2>2, ButNames DEF But
  <2> HIDE DEF n
  <2>4. /\ DOMAIN n = Fields /\ n.op = p.op /\ n.at = "push" /\ n.ret = q.ret /\ n.lost = p.lost
        /\ n.reached = q.reached /\ n.were = q.were /\ n.stayed = q.stayed
        /\ n.locks = {} /\ n.view = Empty /\ SameCall(n, p)
    BY <1>4, <2>2, <2>3, FieldNames DEF But, SameCall
  <2>5. Turn(p, n) BY <1>1, <2>4 DEF Turn, Labels, Called, SameCall
  <2>6. Enters(p, n) BY <2>4 DEF Enters, Creates
  <2>7. Receives(p) => Receives(n)
    <3>1. /\ q.ret = "OK" /\ NoName \notin S => NoName \notin q.names
          /\ n.lost = q.lost
      BY <1>4, <2>4 DEF S
    <3> QED BY <1>5, <2>3, <2>4, <3>1 DEF Receives, Resting
  <2>8. Turns(r, n) BY <2>5, <2>6, <2>7 DEF Turns, p
  <2>9. Go(r, n) BY <1>2, <2>1 DEF S
  <2> QED BY <2>8, <2>9
<1> QED BY <1>7, <1>8

-----------------------------------------------------------------------------
(* The steps the handlers are made of. *)

\* A handler goes on where it need not have looked up anything.
LEMMA OnTo ==
  ASSUME Ready, NEW r \in Reqs, AtWork(req[r].at), NEW a, AtWork(a),
         a \notin {"token", "user", "begin"}, a = "names" => req[r].op \in ToMany, NEW v
  PROVE  /\ Turns(r, To(r, a))
         /\ Turns(r, [To(r, a) EXCEPT !.names = v])
         /\ req[r].op \notin Pushes => Turns(r, [To(r, a) EXCEPT !.ret = v])
         /\ Turns(r, [To(r, a) EXCEPT !.lost = TRUE])
<1>0. AInv BY DEF Ready
<1>1. ASSUME NEW n, NEW F, F \subseteq {"at", "ret", "names", "lost"}, But(n, req[r], F), n.at = a,
             n.lost \in BOOLEAN, req[r].op \in Pushes => n.ret = req[r].ret
      PROVE  Turns(r, n)
  <2>1. But(n, req[r], {"at", "ret", "names", "lost"}) BY <1>1 DEF But
  <2>2. Enters(req[r], n) BY <1>1 DEF Enters, Creates, AtWork
  <2> QED BY <1>1, <2>1, <2>2, OnTurns
<1>2. Turns(r, To(r, a))
  <2> DEFINE n == To(r, a)
  <2>1. But(n, req[r], {"at"}) /\ n.at = a BY <1>0, ToAt
  <2> HIDE DEF n
  <2>2. n.lost = req[r].lost /\ n.ret = req[r].ret BY <2>1, FieldNames DEF But
  <2>3. Turns(r, n) BY <1>1, <2>1, <2>2, ReadyIs
  <2> QED BY <2>3 DEF n
<1>3. Turns(r, [To(r, a) EXCEPT !.names = v])
  <2> DEFINE n == [To(r, a) EXCEPT !.names = v]
  <2>0. n = [To(r, a) EXCEPT !.names = v] OBVIOUS
  <2> HIDE DEF n
  <2>1. But(n, req[r], {"at", "names"}) /\ n.at = a BY <1>0, <2>0, ToNames
  <2>2. n.lost = req[r].lost /\ n.ret = req[r].ret BY <2>1, FieldNames DEF But
  <2>3. Turns(r, n) BY <1>1, <2>1, <2>2, ReadyIs
  <2> QED BY <2>3 DEF n
<1>4. ASSUME req[r].op \notin Pushes PROVE Turns(r, [To(r, a) EXCEPT !.ret = v])
  <2> DEFINE n == [To(r, a) EXCEPT !.ret = v]
  <2>0. n = [To(r, a) EXCEPT !.ret = v] OBVIOUS
  <2> HIDE DEF n
  <2>1. But(n, req[r], {"at", "ret"}) /\ n.at = a BY <1>0, <2>0, ToRet
  <2>2. n.lost = req[r].lost BY <2>1, FieldNames DEF But
  <2>3. Turns(r, n) BY <1>1, <1>4, <2>1, <2>2, ReadyIs
  <2> QED BY <2>3 DEF n
<1>5. Turns(r, [To(r, a) EXCEPT !.lost = TRUE])
  <2> DEFINE n == [To(r, a) EXCEPT !.lost = TRUE]
  <2>0. n = [To(r, a) EXCEPT !.lost = TRUE] OBVIOUS
  <2> HIDE DEF n
  <2>1. But(n, req[r], {"at", "lost"}) /\ n.at = a /\ n.lost = TRUE
    BY <1>0, <2>0, ToLost
  <2>2. n.ret = req[r].ret BY <2>1, FieldNames DEF But
  <2>3. Turns(r, n) BY <1>1, <2>1, <2>2
  <2> QED BY <2>3 DEF n
<1> QED BY <1>2, <1>3, <1>4, <1>5

\* It comes to its transaction.
LEMMA OnBegin ==
  ASSUME Ready, NEW r \in Reqs, AtWork(req[r].at), NEW F, F \subseteq {"at", "lost"},
         NEW n, But(n, req[r], F), n.at = "begin", n.lost \in BOOLEAN,
         req[r].op = "CreateQun" => req[r].at = "user",
         req[r].op = "AddQunMember" => Found(req[r].qun),
         req[r].op = "DelQunMember" => MayRemove(req[r]),
         req[r].op = "AddContact" => n.lost \/ ~isStar(req[r])
  PROVE  Turns(r, n)
<1>1. But(n, req[r], {"at", "ret", "names", "lost"}) BY DEF But
<1>2. n.ret = req[r].ret /\ n.op = req[r].op /\ SameCall(n, req[r])
  BY FieldNames DEF But, SameCall
<1>3. Enters(req[r], n) BY <1>2 DEF Enters, Creates, Checked, MayRemove, isStar, SameCall
<1> QED BY <1>1, <1>2, <1>3, OnTurns DEF AtWork, Labels, Resting

\* A token is looked up.
LEMMA GetUserSteps ==
  ASSUME Ready, NEW r \in Reqs, NEW next, AtWork(next), next \notin {"token", "user"},
         next = "begin" => req[r].op \notin {"AddQunMember", "DelQunMember", "AddContact"},
         next = "names" => req[r].op \in ToMany,
         getUserByToken(r, next)
  PROVE  Steps(r)
<1> DEFINE p == req[r]
<1>0. AInv BY DEF Ready
<1>1. UNCHANGED <<db, used>> /\ p.at \in {"token", "user"} /\ AtWork(p.at)
  BY DEF getUserByToken, AtWork, Labels, Resting
<1>2. PICK n \in {Answer(p, "AuthErr"), To(r, "user"), To(r, next)} :
        Go(r, n) /\ (n = To(r, "user") => p.at = "token") /\ (n = To(r, next) => p.at = "user")
  <2>1. \/ p.at = "token" /\ (Go(r, Answer(p, "AuthErr")) \/ Go(r, To(r, "user")))
        \/ p.at = "user" /\ (Go(r, Answer(p, "AuthErr")) \/ Go(r, To(r, next)))
    BY DEF getUserByToken
  <2>2. To(r, "user").at = "user" /\ To(r, next).at = next BY <1>0, ToAt
  <2>3. Answer(p, "AuthErr").at = "answered" BY AnswerIs
  <2> DEFINE a == Answer(p, "AuthErr")
             t == To(r, "user")
             n == To(r, next)
  <2> HIDE DEF p, a, t, n
  <2>4. t # n /\ a # n /\ a # t BY <2>2, <2>3 DEF a, t, n, AtWork, Resting
  <2> QED BY <2>1, <2>4 DEF a, t, n
<1>3. Turns(r, Answer(p, "AuthErr")) BY <1>1, StopTurns
<1>4. ASSUME p.at = "token" PROVE Turns(r, To(r, "user"))
  <2> DEFINE t == To(r, "user")
  <2>1. But(t, req[r], {"at"}) /\ t.at = "user" BY <1>0, ToAt
  <2> HIDE DEF t
  <2>2. But(t, req[r], {"at", "ret", "names", "lost"}) BY <2>1 DEF But
  <2>3. t.lost = p.lost /\ t.ret = p.ret BY <2>1, FieldNames DEF But
  <2>4. Enters(p, t) BY <1>4, <2>1 DEF Enters
  <2>5. AtWork(t.at) /\ t.at # "names" BY <2>1 DEF AtWork, Labels, Resting
  <2>6. Turns(r, t) BY <1>1, <2>2, <2>3, <2>4, <2>5, OnTurns, ReadyIs
  <2> QED BY <2>6 DEF t
<1>5. ASSUME p.at = "user" PROVE Turns(r, To(r, next))
  <2>1. CASE next # "begin" BY <1>1, <2>1, OnTo
  <2>2. CASE next = "begin"
    <3> DEFINE t == To(r, next)
    <3>1. But(t, req[r], {"at"}) /\ t.at = "begin" BY <1>0, <2>2, ToAt
    <3> HIDE DEF t
    <3>2. t.lost \in BOOLEAN
      <4>1. t.lost = p.lost BY <3>1, FieldNames DEF But
      <4> QED BY <4>1, ReadyIs
    <3>3. {"at"} \subseteq {"at", "lost"} OBVIOUS
    <3>4. Turns(r, t) BY <1>1, <1>5, <2>2, <3>1, <3>2, <3>3, OnBegin
    <3> QED BY <3>4 DEF t
  <2> QED BY <2>1, <2>2
<1>6. Turns(r, n) BY <1>2, <1>3, <1>4, <1>5
<1> QED BY <1>1, <1>2, <1>6 DEF Steps

\* Something is read.
LEMMA ReadSteps ==
  ASSUME NEW r \in Reqs, NEW found, NEW failed, Read(r, found, failed),
         \A q \in found \cup {failed} : Turns(r, q)
  PROVE  Steps(r)
<1>1. PICK q \in found \cup {failed} : Go(r, q) BY DEF Read
<1>2. UNCHANGED <<db, used>> BY DEF Read
<1> QED BY <1>1, <1>2 DEF Steps

\* The group is told.
LEMMA TellSteps ==
  ASSUME Ready, NEW r \in Reqs, NEW at, AtWork(at), at \notin {"token", "user", "begin", "names"},
         NEW done, Tell(r, at, done), Turns(r, done)
  PROVE  Steps(r)
<1> DEFINE p == req[r]
<1>1. UNCHANGED <<db, used>> /\ p.at = at BY DEF Tell
<1>2. PICK u \in p.names :
        Go(r, IF p.names = {u} THEN done ELSE [p EXCEPT !.names = p.names \ {u}])
  BY DEF Tell
<1> DEFINE v == p.names \ {u}
           n == [p EXCEPT !.names = v]
<1>3. Turns(r, n)
  <2>1. DOMAIN p = Fields /\ p.lost \in BOOLEAN BY ReadyIs
  <2> HIDE DEF p, v
  <2>2. But(n, p, {"names"}) BY <2>1, ButNames
  <2> HIDE DEF n
  <2>3. n.at = p.at /\ n.lost = p.lost /\ n.ret = p.ret BY <2>2, FieldNames DEF But
  <2>4. But(n, p, {"at", "ret", "names", "lost"}) BY <2>2 DEF But
  <2>5. Enters(p, n) BY <1>1, <2>3 DEF Enters, Creates, AtWork
  <2>6. AtWork(p.at) /\ AtWork(n.at) /\ n.at # "names" BY <1>1, <2>3
  <2> QED BY <2>1, <2>3, <2>4, <2>5, <2>6, OnTurns DEF p
<1>4. Go(r, done) \/ Go(r, n) BY <1>2
<1> HIDE DEF n
<1> QED BY <1>1, <1>3, <1>4 DEF Steps

\* What is written is forgotten where the transaction ends.
LEMMA Cleared ==
  ASSUME Ready, NEW r \in Reqs, NEW f, Ending(req[r], f)
  PROVE  LET n == [f EXCEPT !.locks = {}, !.view = Empty]
         IN  /\ Turn(req[r], n) /\ n.at \in Resting \cup {"members", "self"} /\ n.op \notin Pushes
             /\ Turns(r, n)
<1> DEFINE k == [f EXCEPT !.locks = {}]
           n == [k EXCEPT !.view = Empty]
<1>1. DOMAIN f = Fields BY DEF Ending
<1>2. But(k, f, {"locks"}) /\ k.locks = {} BY <1>1, ButWhat, Zenon
<1>3. But(n, k, {"view"}) /\ n.view = Empty
  <2> HIDE DEF k
  <2>1. DOMAIN k = Fields BY <1>2 DEF But
  <2> QED BY <2>1, ButWhat, Zenon
<1>4. n = [f EXCEPT !.locks = {}, !.view = Empty] OBVIOUS
<1> HIDE DEF k, n
<1>5. /\ DOMAIN n = Fields /\ n.op = f.op /\ n.at = f.at /\ n.lost = f.lost
      /\ n.locks = {} /\ n.view = Empty /\ SameCall(n, f)
  BY <1>2, <1>3, FieldNames DEF But, SameCall
<1>6. n.at \in Resting \cup {"members", "self"} /\ n.op \notin Pushes BY <1>5 DEF Ending
<1>7. Turn(req[r], n) BY <1>5, <1>6 DEF Turn, Ending, Called, SameCall, Labels, Resting
<1>8. Enters(req[r], n) BY <1>6 DEF Enters, Creates, Resting
<1>9. Turns(r, n) BY <1>6, <1>7, <1>8, NoPush DEF Turns
<1> QED BY <1>4, <1>6, <1>7, <1>9

\* A transaction is executed, and fails or is committed.
LEMMA TransactSteps ==
  ASSUME Ready, NEW r \in Reqs, NEW todo, NEW ok, NEW failed, Transact(r, todo, ok, failed),
         req[r].at = "begin" => Starts(req[r], todo) /\ Turns(r, failed),
         Ending(req[r], ok), Ending(req[r], failed)
  PROVE  Steps(r)
<1>1. CASE req[r].at = "begin" /\ Begin(r, [To(r, "exec") EXCEPT !.todo = todo], failed)
  <2>1. UNCHANGED <<db, used>> BY <1>1 DEF Begin
  <2>2. Go(r, [To(r, "exec") EXCEPT !.todo = todo]) \/ Go(r, failed) BY <1>1 DEF Begin
  <2> QED BY <1>1, <2>1, <2>2 DEF Steps
<1>2. CASE Exec(r) BY <1>2 DEF Steps, Exec
<1>3. CASE ExecFails(r, [failed EXCEPT !.todo = <<>>])
  <2> DEFINE f == [failed EXCEPT !.todo = <<>>]
             n == [f EXCEPT !.locks = {}, !.view = Empty]
  <2>1. DOMAIN failed = Fields BY DEF Ending
  <2>2. But(f, failed, {"todo"}) BY <2>1, ButWhat, Zenon
  <2>3. UNCHANGED <<db, used>> /\ Go(r, n) BY <1>3 DEF ExecFails
  <2> HIDE DEF f
  <2>4. /\ DOMAIN f = Fields /\ f.op = failed.op /\ f.at = failed.at /\ f.lost = failed.lost
        /\ SameCall(f, failed)
    BY <2>2, FieldNames DEF But, SameCall
  <2>5. Ending(req[r], f) BY <2>4 DEF Ending, Called, SameCall
  <2>6. Turns(r, n) BY <2>5, Cleared
  <2> HIDE DEF n
  <2> QED BY <2>3, <2>6 DEF Steps
<1>4. CASE Commit(r, ok, failed)
  <2>1. UNCHANGED used BY <1>4 DEF Commit
  <2> QED BY <1>4, <2>1 DEF Steps
<1> QED BY <1>1, <1>2, <1>3, <1>4 DEF Transact

\* A transaction ends with an answer ...
LEMMA AnswerEnds ==
  ASSUME Ready, NEW r \in Reqs, req[r].op \notin Pushes, NEW ret
  PROVE  Ending(req[r], Answer(req[r], ret))
<1> DEFINE q == req[r]
           n == Answer(q, ret)
<1>1. DOMAIN n = Fields /\ n.op = q.op /\ n.at = "answered" /\ Called(n) BY AnswerIs
<1>2. q.lost \in BOOLEAN /\ n.lost = q.lost BY ReadyIs, AnswerIs
<1> HIDE DEF n
<1>3. n.op \notin Pushes BY <1>1
<1> HIDE DEF q
<1>4. n.lost \in BOOLEAN BY <1>2, Zenon
<1>5. Ending(q, n) BY <1>1, <1>3, <1>4 DEF Ending, Resting
<1> QED BY <1>5 DEF n, q

\* ... or with what is told of it.
LEMMA OnEnds ==
  ASSUME Ready, NEW r \in Reqs, req[r].op \notin Pushes, NEW a \in {"members", "self"}, NEW v
  PROVE  /\ Ending(req[r], To(r, a)) /\ Ending(req[r], [To(r, a) EXCEPT !.ret = v])
         /\ Ending(req[r], [To(r, a) EXCEPT !.names = v])
<1>0. AInv BY DEF Ready
<1>1. ASSUME NEW n, NEW F, F \subseteq {"at", "ret", "names"}, But(n, req[r], F), n.at = a
      PROVE  Ending(req[r], n)
  <2>1. /\ DOMAIN n = Fields /\ n.op = req[r].op /\ n.lost = req[r].lost /\ SameCall(n, req[r])
    BY <1>1, FieldNames DEF But, SameCall
  <2>2. Called(n) /\ n.lost \in BOOLEAN BY <2>1, ReadyIs DEF Called, SameCall
  <2> QED BY <1>1, <2>1, <2>2 DEF Ending
<1>2. Ending(req[r], To(r, a))
  <2> DEFINE n == To(r, a)
  <2>1. But(n, req[r], {"at"}) /\ n.at = a BY <1>0, ToAt
  <2> HIDE DEF n
  <2>2. Ending(req[r], n) BY <1>1, <2>1
  <2> QED BY <2>2 DEF n
<1>3. Ending(req[r], [To(r, a) EXCEPT !.ret = v])
  <2> DEFINE n == [To(r, a) EXCEPT !.ret = v]
  <2>0. n = [To(r, a) EXCEPT !.ret = v] OBVIOUS
  <2> HIDE DEF n
  <2>1. But(n, req[r], {"at", "ret"}) /\ n.at = a BY <1>0, <2>0, ToRet
  <2>2. Ending(req[r], n) BY <1>1, <2>1
  <2> QED BY <2>2 DEF n
<1>4. Ending(req[r], [To(r, a) EXCEPT !.names = v])
  <2> DEFINE n == [To(r, a) EXCEPT !.names = v]
  <2>0. n = [To(r, a) EXCEPT !.names = v] OBVIOUS
  <2> HIDE DEF n
  <2>1. But(n, req[r], {"at", "names"}) /\ n.at = a BY <1>0, <2>0, ToNames
  <2>2. Ending(req[r], n) BY <1>1, <2>1
  <2> QED BY <2>2 DEF n
<1> QED BY <1>2, <1>3, <1>4

\* The statements of each transaction are those it may write.
LEMMA BeginStarts ==
  ASSUME Ready, NEW r \in Reqs, req[r].at = "begin"
  PROVE  /\ req[r].op = "CreateQun" => Starts(req[r], createQun(req[r]))
         /\ req[r].op = "AddQunMember" => Starts(req[r], addQunmember(req[r]))
         /\ req[r].op = "DelQunMember" => Starts(req[r], delQunMember(req[r]))
         /\ req[r].op = "UpdateQunTopicById" => Starts(req[r], updateQunTopicById(req[r]))
         /\ req[r].op = "AddContact" => Starts(req[r], createContact(req[r]))
         /\ req[r].op = "RemoveContact" => Starts(req[r], deleteContact(req[r]))
<1> DEFINE p == req[r]
<1>1. DOMAIN p = Fields /\ p.list \in Seq(Users) /\ p.uid \in Users BY ReadyIs DEF Called
<1>2. p.at = "begin" /\ "begin" \notin Resting BY DEF Resting
<1> HIDE DEF p
<1>3. ASSUME p.op = "CreateQun" PROVE Starts(p, createQun(p))
  <2>1. Writes(p) = {InsertQun(p)} \cup {InsertQunUser(p.qun, u) : u \in {p.uid} \cup Listed(p)}
    BY <1>3 DEF Writes, Founders
  <2>2. {"list", "uid", "qun"} \subseteq Fields BY FieldNames
  <2>3. /\ createQun(p) \in Seq(Writes(p))
        /\ \A w \in Writes(p) : \E i \in DOMAIN createQun(p) : createQun(p)[i] = w
    BY <1>1, <2>1, <2>2, CreateQunIs
  <2> QED BY <1>2, <1>3, <2>3 DEF Starts, Pushes
<1>4. ASSUME p.op = "AddQunMember" PROVE Starts(p, addQunmember(p))
  <2>1. Writes(p) = {InsertQunUser(p.qun, u) : u \in Listed(p)} BY <1>4 DEF Writes
  <2>2. addQunmember(p) \in Seq(Writes(p)) BY <1>1, <2>1, MembersAre
  <2> QED BY <1>2, <1>4, <2>2 DEF Starts, Pushes
<1>5. ASSUME p.op = "DelQunMember" PROVE Starts(p, delQunMember(p))
  <2>1. Writes(p) = {DeleteQunUser(p.qun, u) : u \in Listed(p)} BY <1>5 DEF Writes
  <2>2. delQunMember(p) \in Seq(Writes(p)) BY <1>1, <2>1, MembersAre
  <2> QED BY <1>2, <1>5, <2>2 DEF Starts, Pushes
<1>6. ASSUME NEW W, NEW w \in W PROVE <<w>> \in Seq(W) OBVIOUS
<1>7. ASSUME p.op = "UpdateQunTopicById" PROVE Starts(p, updateQunTopicById(p))
  <2>1. Writes(p) = {UpdateTopic(p)} BY <1>7 DEF Writes
  <2>2. updateQunTopicById(p) \in Seq(Writes(p)) BY <1>6, <2>1 DEF updateQunTopicById
  <2> QED BY <1>2, <1>7, <2>2 DEF Starts, Pushes
<1>8. ASSUME p.op = "AddContact" PROVE Starts(p, createContact(p))
  <2>1. Writes(p) = {InsertStar(p)} BY <1>8 DEF Writes
  <2>2. createContact(p) \in Seq(Writes(p)) BY <1>6, <2>1 DEF createContact
  <2> QED BY <1>2, <1>8, <2>2 DEF Starts, Pushes
<1>9. ASSUME p.op = "RemoveContact" PROVE Starts(p, deleteContact(p))
  <2>1. Writes(p) = {DeleteStar(p)} BY <1>9 DEF Writes
  <2>2. deleteContact(p) \in Seq(Writes(p)) BY <1>6, <2>1 DEF deleteContact
  <2> QED BY <1>2, <1>9, <2>2 DEF Starts, Pushes
<1> QED BY <1>3, <1>4, <1>5, <1>7, <1>8, <1>9 DEF p

-----------------------------------------------------------------------------
(* The handlers. *)

\* A group is created.
LEMMA CreateQunSteps ==
  ASSUME Ready, NEW r \in Reqs, CreateQun(r)
  PROVE  Steps(r)
<1> DEFINE q == req[r]
<1>0. q.op = "CreateQun" /\ q.op \notin Pushes BY DEF CreateQun, Pushes
<1>1. CASE getUserByToken(r, "begin")
  BY <1>0, <1>1, GetUserSteps DEF AtWork, Labels, Resting
<1>2. CASE Transact(r, createQun(q), To(r, "members"), [To(r, "members") EXCEPT !.ret = "InternalErr"])
  <2> DEFINE ok == To(r, "members")
             failed == [To(r, "members") EXCEPT !.ret = "InternalErr"]
             todo == createQun(q)
  <2>1. Ending(q, ok) /\ Ending(q, failed) BY <1>0, OnEnds
  <2>2. ASSUME q.at = "begin" PROVE Starts(q, todo) /\ Turns(r, failed)
    <3>1. Starts(q, todo) BY <1>0, <2>2, BeginStarts
    <3>2. AtWork(q.at) /\ AtWork("members") BY <2>2 DEF AtWork, Labels, Resting
    <3>3. Turns(r, failed) BY <1>0, <3>2, OnTo
    <3> QED BY <3>1, <3>3
  <2>3. Transact(r, todo, ok, failed) BY <1>2
  <2> HIDE DEF ok, failed, todo
  <2> QED BY <2>1, <2>2, <2>3, TransactSteps
<1>3. CASE /\ q.at = "members"
           /\ Read(r, {[To(r, "tell") EXCEPT !.names = {q.uid}]}, Answer(q, "InternalErr"))
  <2> DEFINE ok == [To(r, "tell") EXCEPT !.names = {q.uid}]
             failed == Answer(q, "InternalErr")
  <2>1. AtWork(q.at) /\ AtWork("tell") BY <1>3 DEF AtWork, Labels, Resting
  <2>2. Turns(r, ok) BY <2>1, OnTo, Zenon
  <2>3. Turns(r, failed) BY <1>0, <2>1, StopTurns
  <2>4. Read(r, {ok}, failed) BY <1>3
  <2> HIDE DEF ok, failed
  <2> QED BY <2>2, <2>3, <2>4, ReadSteps
<1>4. CASE Tell(r, "tell", Answer(q, q.ret))
  <2> DEFINE done == Answer(q, q.ret)
  <2>1. AtWork("tell") /\ q.at = "tell" BY <1>4 DEF AtWork, Labels, Resting, Tell
  <2>2. Turns(r, done) BY <1>0, <2>1, StopTurns
  <2>3. Tell(r, "tell", done) BY <1>4
  <2> HIDE DEF done
  <2> QED BY <2>1, <2>2, <2>3, TellSteps
<1> QED BY <1>1, <1>2, <1>3, <1>4 DEF CreateQun

\* A group gets a new topic.
LEMMA UpdateQunTopicSteps ==
  ASSUME Ready, NEW r \in Reqs, UpdateQunTopicById(r)
  PROVE  Steps(r)
<1> DEFINE q == req[r]
           others == MembersOf(db, q.qun) \ {q.user}
<1>0. q.op = "UpdateQunTopicById" /\ q.op \notin Pushes BY DEF UpdateQunTopicById, Pushes
<1>1. CASE getUserByToken(r, "begin")
  BY <1>0, <1>1, GetUserSteps DEF AtWork, Labels, Resting
<1>2. CASE Transact(r, updateQunTopicById(q), [To(r, "self") EXCEPT !.names = {q.user}],
                    Answer(q, "InternalErr"))
  <2> DEFINE ok == [To(r, "self") EXCEPT !.names = {q.user}]
             failed == Answer(q, "InternalErr")
             todo == updateQunTopicById(q)
  <2>1. Ending(q, ok) BY <1>0, OnEnds, Zenon
  <2>2. Ending(q, failed) BY <1>0, AnswerEnds
  <2>3. ASSUME q.at = "begin" PROVE Starts(q, todo) /\ Turns(r, failed)
    <3>1. Starts(q, todo) BY <1>0, <2>3, BeginStarts
    <3>2. AtWork(q.at) BY <2>3 DEF AtWork, Labels, Resting
    <3>3. Turns(r, failed) BY <1>0, <3>2, StopTurns
    <3> QED BY <3>1, <3>3
  <2>4. Transact(r, todo, ok, failed) BY <1>2
  <2> HIDE DEF ok, failed, todo
  <2> QED BY <2>1, <2>2, <2>3, <2>4, TransactSteps
<1>3. CASE Tell(r, "self", To(r, "members"))
  <2>1. AtWork("self") /\ AtWork("members") /\ q.at = "self"
    BY <1>3 DEF AtWork, Labels, Resting, Tell
  <2>2. Turns(r, To(r, "members")) BY <2>1, OnTo
  <2> QED BY <1>3, <2>1, <2>2, TellSteps
<1>4. CASE /\ q.at = "members"
           /\ Read(r, {IF others = {} THEN Answer(q, "OK")
                       ELSE [To(r, "tell") EXCEPT !.names = others]}, Answer(q, "OK"))
  <2> DEFINE ok == [To(r, "tell") EXCEPT !.names = others]
             failed == Answer(q, "OK")
  <2>1. AtWork(q.at) /\ AtWork("tell") BY <1>4 DEF AtWork, Labels, Resting
  <2>2. Turns(r, ok) BY <2>1, OnTo, Zenon
  <2>3. Turns(r, failed) BY <1>0, <2>1, StopTurns
  <2>4. Read(r, {IF others = {} THEN failed ELSE ok}, failed) BY <1>4
  <2> HIDE DEF ok, failed, others
  <2> QED BY <2>2, <2>3, <2>4, ReadSteps
<1>5. CASE Tell(r, "tell", Answer(q, "OK"))
  <2> DEFINE done == Answer(q, "OK")
  <2>1. AtWork("tell") /\ q.at = "tell" BY <1>5 DEF AtWork, Labels, Resting, Tell
  <2>2. Turns(r, done) BY <1>0, <2>1, StopTurns
  <2>3. Tell(r, "tell", done) BY <1>5
  <2> HIDE DEF done
  <2> QED BY <2>1, <2>2, <2>3, TellSteps
<1> QED BY <1>1, <1>2, <1>3, <1>4, <1>5 DEF UpdateQunTopicById

\* Members are added and removed.
LEMMA MembersSteps ==
  ASSUME Ready, NEW r \in Reqs, AddQunMember(r) \/ DelQunMember(r)
  PROVE  Steps(r)
<1> DEFINE p == req[r]
           failed == Answer(p, "InternalErr")
           ok     == Answer(p, "OK")
<1>0. p.op \in {"AddQunMember", "DelQunMember"} /\ p.op \notin Pushes
  BY DEF AddQunMember, DelQunMember, Pushes
<1>1. CASE getUserByToken(r, "group")
  BY <1>1, GetUserSteps DEF AtWork, Labels, Resting
<1>2. ASSUME p.at = "group", NEW found, Read(r, found, failed),
             found \subseteq {To(r, "begin")},
             found # {} => \/ p.op = "AddQunMember" /\ Found(p.qun)
                           \/ p.op = "DelQunMember" /\ MayRemove(p)
      PROVE  Steps(r)
  <2>1. AtWork(p.at) BY <1>2 DEF AtWork, Labels, Resting
  <2>2. Turns(r, failed) BY <1>0, <2>1, StopTurns
  <2>3. ASSUME found # {} PROVE Turns(r, To(r, "begin"))
    <3> DEFINE t == To(r, "begin")
    <3>0. AInv BY DEF Ready
    <3>1. But(t, req[r], {"at"}) /\ t.at = "begin" BY <3>0, ToAt
    <3> HIDE DEF t
    <3>2. t.lost \in BOOLEAN
      <4>1. t.lost = p.lost BY <3>1, FieldNames DEF But
      <4> QED BY <4>1, ReadyIs
    <3>3. {"at"} \subseteq {"at", "lost"} OBVIOUS
    <3>4. Turns(r, t) BY <1>2, <2>1, <2>3, <3>1, <3>2, <3>3, OnBegin
    <3> QED BY <3>4 DEF t
  <2> HIDE DEF failed
  <2>4. \A q \in found \cup {failed} : Turns(r, q) BY <1>2, <2>2, <2>3
  <2> QED BY <1>2, <2>4, ReadSteps
<1>3. ASSUME NEW todo, Transact(r, todo, To(r, "members"), failed),
             p.at = "begin" => Starts(p, todo)
      PROVE  Steps(r)
  <2> DEFINE on == To(r, "members")
  <2>1. Ending(p, on) BY <1>0, OnEnds
  <2>2. Ending(p, failed) BY <1>0, AnswerEnds
  <2>3. ASSUME p.at = "begin" PROVE Turns(r, failed)
    <3>1. AtWork(p.at) BY <2>3 DEF AtWork, Labels, Resting
    <3> QED BY <1>0, <3>1, StopTurns
  <2> HIDE DEF failed, on
  <2>4. Transact(r, todo, on, failed) BY <1>3 DEF on
  <2> QED BY <1>3, <2>1, <2>2, <2>3, <2>4, TransactSteps
<1>4. ASSUME p.at = "members", Read(r, {ok}, failed) PROVE Steps(r)
  <2>1. AtWork(p.at) BY <1>4 DEF AtWork, Labels, Resting
  <2>2. Turns(r, ok) /\ Turns(r, failed) BY <1>0, <2>1, StopTurns
  <2> HIDE DEF failed, ok
  <2> QED BY <1>4, <2>2, ReadSteps
<1>5. CASE AddQunMember(r)
  <2>1. p.op = "AddQunMember" BY <1>5 DEF AddQunMember
  <2>2. CASE p.at = "group" /\ Read(r, IF Found(p.qun) THEN {To(r, "begin")} ELSE {}, failed)
    <3> DEFINE found == IF Found(p.qun) THEN {To(r, "begin")} ELSE {}
    <3>1. found \subseteq {To(r, "begin")} /\ (found # {} => Found(p.qun)) OBVIOUS
    <3>2. Read(r, found, failed) BY <2>2
    <3> HIDE DEF found, failed
    <3> QED BY <1>2, <2>1, <2>2, <3>1, <3>2
  <2>3. CASE Transact(r, addQunmember(p), To(r, "members"), failed)
    <3> DEFINE todo == addQunmember(p)
    <3>1. p.at = "begin" => Starts(p, todo) BY <2>1, BeginStarts
    <3> HIDE DEF todo, failed
    <3>2. Transact(r, todo, To(r, "members"), failed) BY <2>3 DEF todo
    <3> QED BY <1>3, <3>1, <3>2
  <2> QED BY <1>1, <1>4, <1>5, <2>2, <2>3 DEF AddQunMember
<1>6. CASE DelQunMember(r)
  <2>1. p.op = "DelQunMember" BY <1>6 DEF DelQunMember
  <2>2. CASE p.at = "group" /\ Read(r, IF MayRemove(p) THEN {To(r, "begin")} ELSE {}, failed)
    <3> DEFINE found == IF MayRemove(p) THEN {To(r, "begin")} ELSE {}
    <3>1. found \subseteq {To(r, "begin")} /\ (found # {} => MayRemove(p)) OBVIOUS
    <3>2. Read(r, found, failed) BY <2>2
    <3> HIDE DEF found, failed
    <3> QED BY <1>2, <2>1, <2>2, <3>1, <3>2
  <2>3. CASE Transact(r, delQunMember(p), To(r, "members"), failed)
    <3> DEFINE todo == delQunMember(p)
    <3>1. p.at = "begin" => Starts(p, todo) BY <2>1, BeginStarts
    <3> HIDE DEF todo, failed
    <3>2. Transact(r, todo, To(r, "members"), failed) BY <2>3 DEF todo
    <3> QED BY <1>3, <3>1, <3>2
  <2> QED BY <1>1, <1>4, <1>6, <2>2, <2>3 DEF DelQunMember
<1> QED BY <1>5, <1>6

\* A push.
LEMMA PushSteps ==
  ASSUME Ready, NEW r \in Reqs, Push(r)
  PROVE  Steps(r)
<1> DEFINE q == req[r]
<1>1. CASE getUserByToken(r, "from")
  BY <1>1, GetUserSteps DEF AtWork, Labels, Resting
<1>7. CASE q.op \in {"PushOrg", "PushTenant"} /\ getUserByToken(r, "names")
  BY <1>7, GetUserSteps DEF AtWork, Labels, Resting, ToMany
<1>2. CASE q.op \in {"PushUser", "PushQun", "PushOrg", "PushTenant"} /\ PushOne(r)
  <2>1. q.op \in Pushes /\ PushOne(r) BY <1>2 DEF Pushes
  <2>2. UNCHANGED <<db, used>> BY <1>2 DEF PushOne
  <2> QED BY <2>1, <2>2, ToldTurns DEF Steps
<1>3. CASE q.op = "PushUser" /\ q.at = "from" /\ Read(r, {Dispatch(q, {q.peer})}, Closed(q))
  <2> DEFINE ok == Dispatch(q, {q.peer})
             failed == Closed(q)
  <2>1. AtWork(q.at) BY <1>3 DEF AtWork, Labels, Resting
  <2>2. Due(q) = {q.peer} BY <1>3 DEF Due
  <2>3. Turns(r, ok) BY <2>1, <2>2, SendTurns, Unlost
  <2>4. Turns(r, failed) BY <2>1, StopTurns
  <2>5. Read(r, {ok}, failed) BY <1>3
  <2> HIDE DEF ok, failed
  <2> QED BY <2>3, <2>4, <2>5, ReadSteps
<1>4. CASE q.at = "from" /\ Read(r, {To(r, "group")}, [To(r, "group") EXCEPT !.lost = TRUE])
  <2> DEFINE ok == To(r, "group")
             failed == [To(r, "group") EXCEPT !.lost = TRUE]
  <2>1. AtWork(q.at) /\ AtWork("group") BY <1>4 DEF AtWork, Labels, Resting
  <2>2. Turns(r, ok) /\ Turns(r, failed) BY <2>1, OnTo
  <2>3. Read(r, {ok}, failed) BY <1>4
  <2> HIDE DEF ok, failed
  <2> QED BY <2>2, <2>3, ReadSteps
<1>5. CASE /\ q.op = "PushQun" /\ q.at = "group"
           /\ Read(r, IF ~Found(q.qun) THEN {} ELSE {IF q.lost THEN Closed(q) ELSE To(r, "names")},
                   Answer(q, "InternalErr"))
  <2> DEFINE gone == Closed(q)
             ok == To(r, "names")
             found == IF ~Found(q.qun) THEN {} ELSE {IF q.lost THEN gone ELSE ok}
             failed == Answer(q, "InternalErr")
  <2>1. AtWork(q.at) /\ AtWork("names") BY <1>5 DEF AtWork, Labels, Resting
  <2>2. Turns(r, ok) BY <1>5, <2>1, OnTo DEF ToMany
  <2>3. Turns(r, failed) /\ Turns(r, gone) BY <2>1, StopTurns
  <2>4. Read(r, found, failed) BY <1>5
  <2> HIDE DEF gone, ok, failed
  <2>5. \A x \in found \cup {failed} : Turns(r, x) BY <2>2, <2>3
  <2> HIDE DEF found
  <2> QED BY <2>4, <2>5, ReadSteps
<1>6. CASE /\ q.at = "names"
           /\ Read(r, {Dispatch(Gathered(q, S), S) : S \in getToUserNames(q)},
                   [Answer(q, "OK") EXCEPT !.lost = TRUE])
  <2> DEFINE found == {Dispatch(Gathered(q, S), S) : S \in getToUserNames(q)}
             failed == [Answer(q, "OK") EXCEPT !.lost = TRUE]
  <2>1. AtWork(q.at) BY <1>6 DEF AtWork, Labels, Resting
  <2>2. Turns(r, failed) BY <2>1, StopTurns, Zenon
  <2>3. Read(r, found, failed) BY <1>6
  <2>4. q.op \in {"PushQun", "PushOrg", "PushTenant"} BY <1>6 DEF Ready, Typing, Typed, ToMany
  <2>5. ASSUME NEW S \in getToUserNames(q) PROVE Turns(r, Dispatch(Gathered(q, S), S))
    <3> DEFINE all == UNION getToUserNames(q)
               v == S # all
               k == [q EXCEPT !.lost = v]
    <3>1. S \ {NoName} \subseteq Due(q) /\ (S = all /\ NoName \notin S => Due(q) \subseteq S)
      BY <2>4 DEF getToUserNames, getUserNamesInQun, getUserListByOrgId, getUserListByTenantId, Due
    <3>2. v \in BOOLEAN /\ (~v => S = all) OBVIOUS
    <3> HIDE DEF v
    <3>3. DOMAIN q = Fields BY ReadyIs
    <3>4. But(k, q, {"lost"}) /\ k.lost = v BY <3>3, ButLost
    <3> HIDE DEF k, all
    <3>5. Turns(r, Dispatch(k, S)) BY <2>1, <3>1, <3>2, <3>4, SendTurns
    <3> QED BY <3>5 DEF k, v, all, Gathered
  <2> HIDE DEF failed
  <2>6. \A x \in found \cup {failed} : Turns(r, x) BY <2>2, <2>5
  <2> HIDE DEF found
  <2> QED BY <2>3, <2>6, ReadSteps
<1> QED BY <1>1, <1>2, <1>3, <1>4, <1>5, <1>6, <1>7 DEF Push

\* A push of an application.
LEMMA UserPushSteps ==
  ASSUME Ready, NEW r \in Reqs, UserPush(r)
  PROVE  Steps(r)
<1> DEFINE q == req[r]
<1>0. q.op = "UserPush" /\ q.op \in Pushes BY DEF UserPush, Pushes
<1>1. CASE PushOne(r)
  <2>1. UNCHANGED <<db, used>> BY <1>1 DEF PushOne
  <2> QED BY <1>0, <1>1, <2>1, ToldTurns DEF Steps
<1>2. CASE /\ q.at = "application"
           /\ Read(r, {IF Len(q.list) > MaxReceivers THEN Answer(q, "TooLong")
                       ELSE Dispatch(q, {q.list[i] : i \in DOMAIN q.list})}, Answer(q, "AuthErr"))
  <2> DEFINE S == {q.list[i] : i \in DOMAIN q.list}
             long == Answer(q, "TooLong")
             ok == Dispatch(q, S)
             failed == Answer(q, "AuthErr")
  <2>1. AtWork(q.at) BY <1>2 DEF AtWork, Labels, Resting
  <2>2. Due(q) = S BY <1>0 DEF Due
  <2>3. Turns(r, long) /\ Turns(r, failed) BY <2>1, StopTurns
  <2> HIDE DEF S
  <2>4. Turns(r, ok) BY <2>1, <2>2, SendTurns, Unlost
  <2>5. Read(r, {IF Len(q.list) > MaxReceivers THEN long ELSE ok}, failed) BY <1>2 DEF S
  <2> HIDE DEF long, ok, failed
  <2> QED BY <2>3, <2>4, <2>5, ReadSteps
<1> QED BY <1>1, <1>2 DEF UserPush

\* A contact is added or removed.
LEMMA ContactSteps ==
  ASSUME Ready, NEW r \in Reqs, AddOrRemoveContact(r)
  PROVE  Steps(r)
<1> DEFINE q == req[r]
           ok == Answer(q, "OK")
           failed == Answer(q, "InternalErr")
<1>0. q.op \in {"AddContact", "RemoveContact"} /\ q.op \notin Pushes
  BY DEF AddOrRemoveContact, Pushes
<1>1. CASE q.op = "AddContact" /\ getUserByToken(r, "star")
  BY <1>1, GetUserSteps DEF AtWork, Labels, Resting
<1>2. CASE q.op = "RemoveContact" /\ getUserByToken(r, "begin")
  BY <1>2, GetUserSteps DEF AtWork, Labels, Resting
<1>3. ASSUME NEW todo, Transact(r, todo, ok, failed), q.at = "begin" => Starts(q, todo)
      PROVE  Steps(r)
  <2>1. Ending(q, ok) /\ Ending(q, failed) BY <1>0, AnswerEnds
  <2>2. ASSUME q.at = "begin" PROVE Turns(r, failed)
    <3>1. AtWork(q.at) BY <2>2 DEF AtWork, Labels, Resting
    <3> QED BY <1>0, <3>1, StopTurns
  <2> HIDE DEF ok, failed
  <2> QED BY <1>3, <2>1, <2>2, TransactSteps
<1>4. CASE q.op = "AddContact" /\ Transact(r, createContact(q), ok, failed)
  <2> DEFINE todo == createContact(q)
  <2>1. q.at = "begin" => Starts(q, todo) BY <1>4, BeginStarts
  <2> HIDE DEF ok, failed
  <2> QED BY <1>3, <1>4, <2>1
<1>5. CASE q.op = "RemoveContact" /\ Transact(r, deleteContact(q), ok, failed)
  <2> DEFINE todo == deleteContact(q)
  <2>1. q.at = "begin" => Starts(q, todo) BY <1>5, BeginStarts
  <2> HIDE DEF ok, failed
  <2> QED BY <1>3, <1>5, <2>1
<1>6. CASE /\ q.op = "AddContact" /\ q.at = "star"
           /\ Read(r, {IF isStar(q) THEN Answer(q, "OK") ELSE To(r, "begin")},
                   [To(r, "begin") EXCEPT !.lost = TRUE])
  <2> DEFINE t == To(r, "begin")
             n == [To(r, "begin") EXCEPT !.lost = TRUE]
  <2>0. AInv BY DEF Ready
  <2>1. AtWork(q.at) BY <1>6 DEF AtWork, Labels, Resting
  <2>2. Turns(r, ok) BY <1>0, <2>1, StopTurns
  <2>3. ASSUME ~isStar(q) PROVE Turns(r, t)
    <3>1. But(t, q, {"at"}) /\ t.at = "begin" BY <2>0, ToAt
    <3> HIDE DEF t
    <3>2. t.lost \in BOOLEAN
      <4>1. t.lost = q.lost BY <3>1, FieldNames DEF But
      <4> QED BY <4>1, ReadyIs
    <3>3. {"at"} \subseteq {"at", "lost"} OBVIOUS
    <3> QED BY <1>6, <2>1, <2>3, <3>1, <3>2, <3>3, OnBegin
  <2>4. Turns(r, n)
    <3>0. n = [To(r, "begin") EXCEPT !.lost = TRUE] OBVIOUS
    <3> HIDE DEF n
    <3>1. But(n, q, {"at", "lost"}) /\ n.at = "begin" /\ n.lost = TRUE BY <2>0, <3>0, ToLost
    <3>2. {"at", "lost"} \subseteq {"at", "lost"} /\ n.lost \in BOOLEAN BY <3>1
    <3> QED BY <1>6, <2>1, <3>1, <3>2, OnBegin
  <2>5. Read(r, {IF isStar(q) THEN ok ELSE t}, n) BY <1>6
  <2> HIDE DEF ok, t, n
  <2>6. \A x \in {IF isStar(q) THEN ok ELSE t} \cup {n} : Turns(r, x) BY <2>2, <2>3, <2>4
  <2> QED BY <2>5, <2>6, ReadSteps
<1> QED BY <1>1, <1>2, <1>4, <1>5, <1>6 DEF AddOrRemoveContact

\* A handler that only reads goes on, or answers.
LEMMA LookingSteps ==
  ASSUME Ready, NEW r \in Reqs, AtWork(req[r].at), req[r].op \notin Pushes,
         NEW found, NEW failed, Read(r, found, failed),
         \A q \in found \cup {failed} :
           \/ \E ret : q = Answer(req[r], ret)
           \/ \E a \in {"group", "star", "count", "hset", "tenant"} : q = To(r, a)
  PROVE  Steps(r)
<1>1. ASSUME NEW ret PROVE Turns(r, Answer(req[r], ret)) BY StopTurns
<1>2. ASSUME NEW a \in {"group", "star", "count", "hset", "tenant"} PROVE Turns(r, To(r, a))
  <2>1. AtWork(a) BY DEF AtWork, Labels, Resting
  <2> QED BY <2>1, OnTo
<1>3. \A q \in found \cup {failed} : Turns(r, q) BY <1>1, <1>2
<1> QED BY <1>3, ReadSteps

\* Handlers that only read.
LEMMA LookSteps ==
  ASSUME Ready, NEW r \in Reqs, Look(r)
  PROVE  Steps(r)
<1> DEFINE q == req[r]
           OK == Answer(q, "OK")
           NotFound == Answer(q, "NotFound")
           Failed == Answer(q, "InternalErr")
<1>0. q.op \in {"GetUsersInQun", "GetMemberByUserName", "SearchUser", "CheckUpdate",
                "UserErWeiMa", "GetOrgUserList"}
  BY DEF Look, GetUsersInQun, GetMemberByUserName, SearchUser, CheckUpdate, UserErWeiMa,
         GetOrgUserList, At
<1>1. \/ \E next \in {"members", "member", "search", "version"} : getUserByToken(r, next)
      \/ /\ q.at \in {"members", "group", "member", "star", "search", "count", "version", "uid", "list"}
         /\ \E found, failed :
              /\ Read(r, found, failed)
              /\ found \subseteq {OK, To(r, "group"), To(r, "star"), To(r, "count")}
              /\ failed \in {OK, NotFound, Failed}
  <2> HIDE DEF OK, NotFound, Failed
  <2>1. CASE GetUsersInQun(r)
    BY <2>1 DEF GetUsersInQun, OK, NotFound, Failed
  <2>2. CASE GetMemberByUserName(r)
    BY <2>2 DEF GetMemberByUserName, OK, NotFound, Failed
  <2>3. CASE SearchUser(r)
    BY <2>3 DEF SearchUser, OK, NotFound, Failed
  <2>4. CASE CheckUpdate(r)
    BY <2>4 DEF CheckUpdate, OK, NotFound, Failed
  <2>5. CASE UserErWeiMa(r) \/ GetOrgUserList(r)
    BY <2>5 DEF UserErWeiMa, GetOrgUserList, At, OK, NotFound, Failed
  <2> QED BY <2>1, <2>2, <2>3, <2>4, <2>5 DEF Look
<1>2. q.op \notin Pushes BY <1>0 DEF Pushes
<1>3. ASSUME NEW next \in {"members", "member", "search", "version"}, getUserByToken(r, next)
      PROVE  Steps(r)
  <2>1. AtWork(next) /\ next \notin {"token", "user", "begin", "names"} BY <1>3 DEF AtWork, Labels, Resting
  <2> QED BY <1>3, <2>1, GetUserSteps
<1>4. ASSUME q.at \in {"members", "group", "member", "star", "search", "count", "version", "uid", "list"},
             NEW found, NEW failed, Read(r, found, failed),
             found \subseteq {OK, To(r, "group"), To(r, "star"), To(r, "count")},
             failed \in {OK, NotFound, Failed}
      PROVE  Steps(r)
  <2>1. AtWork(q.at) BY <1>4 DEF AtWork, Labels, Resting
  <2>2. ASSUME NEW x \in found \cup {failed}
        PROVE  \/ \E ret : x = Answer(q, ret)
               \/ \E a \in {"group", "star", "count", "hset", "tenant"} : x = To(r, a)
    <3>1. x \in {Answer(q, "OK"), Answer(q, "NotFound"), Answer(q, "InternalErr"),
                 To(r, "group"), To(r, "star"), To(r, "count")}
      BY <1>4, <2>2
    <3> HIDE DEF q
    <3> QED BY <3>1
  <2>3. Read(r, found, failed) BY <1>4
  <2> QED BY <1>2, <2>1, <2>2, <2>3, LookingSteps
<1> QED BY <1>1, <1>3, <1>4

\* The organisations of a user.
LEMMA GetOrgInfoSteps ==
  ASSUME Ready, NEW r \in Reqs, GetOrgInfo(r)
  PROVE  Steps(r)
<1> DEFINE q == req[r]
           ok == Answer(q, "OK")
           failed == Answer(q, "InternalErr")
<1>0. q.op = "GetOrgInfo" /\ q.op \notin Pushes BY DEF GetOrgInfo, Pushes
<1>1. CASE getUserByToken(r, "orgs")
  <2>1. AtWork("orgs") BY DEF AtWork, Labels, Resting
  <2> QED BY <1>1, <2>1, GetUserSteps
<1>2. ASSUME AtWork(q.at) PROVE Turns(r, ok) /\ Turns(r, failed)
  BY <1>0, <1>2, StopTurns
<1>3. ASSUME AtWork(q.at), NEW a \in {"tenant", "org", "stars"} PROVE Turns(r, To(r, a))
  <2>1. AtWork(a) BY DEF AtWork, Labels, Resting
  <2> QED BY <1>3, <2>1, OnTo
<1>4. CASE q.at = "orgs" /\ Read(r, {To(r, "tenant"), Answer(q, "OK")}, Answer(q, "InternalErr"))
  <2> DEFINE on == To(r, "tenant")
  <2>1. AtWork(q.at) BY <1>4 DEF AtWork, Labels, Resting
  <2>2. Turns(r, ok) /\ Turns(r, failed) /\ Turns(r, on) BY <1>2, <1>3, <2>1
  <2>3. Read(r, {on, ok}, failed) BY <1>4
  <2> HIDE DEF ok, failed, on
  <2> QED BY <2>2, <2>3, ReadSteps
<1>5. ASSUME NEW rows, NEW a \in {"org", "stars"}, q.at \in {"tenant", "org"}, Keep(r, rows, To(r, a))
      PROVE  Steps(r)
  <2> DEFINE on == To(r, a)
  <2>1. AtWork(q.at) BY <1>5 DEF AtWork, Labels, Resting
  <2>2. Turns(r, failed) /\ Turns(r, on) BY <1>2, <1>3, <2>1
  <2>3. UNCHANGED <<db, used>> /\ (Go(r, on) \/ Go(r, failed)) BY <1>5 DEF Keep
  <2> HIDE DEF failed, on
  <2> QED BY <2>2, <2>3 DEF Steps
<1>6. CASE q.at = "stars" /\ Go(r, Answer(q, "OK")) /\ UNCHANGED <<db, used>>
  <2>1. AtWork(q.at) BY <1>6 DEF AtWork, Labels, Resting
  <2>2. Turns(r, ok) BY <1>2, <2>1
  <2> HIDE DEF ok
  <2> QED BY <1>6, <2>2 DEF Steps, ok
<1> QED BY <1>1, <1>4, <1>5, <1>6 DEF GetOrgInfo

\* An organisation is made known.
LEMMA SyncOrgSteps ==
  ASSUME Ready, NEW r \in Reqs, SyncOrg(r)
  PROVE  Steps(r)
<1> DEFINE q == req[r]
           bad == Answer(q, "ParamErr")
           closed == Closed(q)
<1>0. q.op = "SyncOrg" /\ q.op \notin Pushes BY DEF SyncOrg, Pushes
<1>1. CASE q.at = "sync" /\ Begin(r, To(r, "body"), To(r, "body"))
  <2> DEFINE on == To(r, "body")
  <2>1. AtWork(q.at) /\ AtWork("body") BY <1>1 DEF AtWork, Labels, Resting
  <2>2. Turns(r, on) BY <2>1, OnTo
  <2>3. UNCHANGED <<db, used>> /\ Go(r, on) BY <1>1 DEF Begin
  <2> HIDE DEF on
  <2> QED BY <2>2, <2>3 DEF Steps
<1>2. CASE q.at = "body" /\ Leave(r, Answer(q, "ParamErr"))
  <2>1. AtWork(q.at) BY <1>2 DEF AtWork, Labels, Resting
  <2>2. Turns(r, bad) BY <1>0, <2>1, StopTurns
  <2>3. UNCHANGED <<db, used>> /\ Go(r, bad) BY <1>2 DEF Leave
  <2> HIDE DEF bad
  <2> QED BY <2>2, <2>3 DEF Steps
<1>3. CASE q.at = "body" /\ Go(r, To(r, "exists")) /\ UNCHANGED <<db, pool, tokens, used, mix>>
  <2> DEFINE on == To(r, "exists")
  <2>1. AtWork(q.at) /\ AtWork("exists") BY <1>3 DEF AtWork, Labels, Resting
  <2>2. Turns(r, on) BY <2>1, OnTo
  <2>3. UNCHANGED <<db, used>> /\ Go(r, on) BY <1>3
  <2> HIDE DEF on
  <2> QED BY <2>2, <2>3 DEF Steps
<1>4. ASSUME q.at = "exists", NEW x \in BOOLEAN,
             Read(r, {}, [To(r, "exec") EXCEPT !.todo = syncOrg(q, x)])
      PROVE  Steps(r)
  <2> DEFINE todo == syncOrg(q, x)
             n == [To(r, "exec") EXCEPT !.todo = todo]
  <2>1. UNCHANGED <<db, used>> /\ Go(r, n) BY <1>4 DEF Read
  <2>2. todo \in Seq(Writes(q))
    <3>1. Writes(q) = {InsertOrg(q), FirstLocation(q), NextLocation(q)} BY <1>0 DEF Writes
    <3> DEFINE W == Writes(q)
               a == InsertOrg(q)
               b == FirstLocation(q)
               c == NextLocation(q)
    <3>2. a \in W /\ b \in W /\ c \in W BY <3>1
    <3> HIDE DEF W, a, b, c
    <3>3. <<>> \in Seq(W) /\ <<a, b, c>> \in Seq(W) BY <3>2
    <3> QED BY <3>3 DEF syncOrg, W, a, b, c
  <2>3. Starts(q, todo) BY <1>0, <1>4, <2>2 DEF Starts, Resting
  <2> HIDE DEF todo
  <2> QED BY <2>1, <2>3 DEF Steps
<1>5. CASE q.at = "exists" /\ Read(r, {}, Closed(q))
  <2>1. AtWork(q.at) BY <1>5 DEF AtWork, Labels, Resting
  <2>2. Turns(r, closed) BY <2>1, StopTurns
  <2>3. Read(r, {}, closed) BY <1>5
  <2> HIDE DEF closed
  <2> QED BY <2>2, <2>3, ReadSteps
<1>6. CASE Exec(r) BY <1>6 DEF Steps, Exec
<1>7. CASE /\ q.at = "exec" /\ q.todo # <<>> /\ Go(r, [q EXCEPT !.todo = Tail(@)])
           /\ UNCHANGED <<db, pool, tokens, used, mix>>
  BY <1>0, <1>7 DEF Steps
<1>8. CASE q.at = "exec" /\ Leave(r, Closed(q))
  <2>1. UNCHANGED <<db, used>> /\ Go(r, closed) BY <1>8 DEF Leave
  <2>2. q.op = req[r].op /\ q.lost \in BOOLEAN BY ReadyIs
  <2>3. Turns(r, closed)
    <3> HIDE DEF q
    <3> QED BY <1>0, <2>2, EndTurns DEF closed
  <2> HIDE DEF closed
  <2> QED BY <2>1, <2>3 DEF Steps
<1>9. CASE Commit(r, Answer(q, "OK"), Answer(q, "InternalErr"))
  <2>1. UNCHANGED used BY <1>9 DEF Commit
  <2>2. Ending(q, Answer(q, "OK")) /\ Ending(q, Answer(q, "InternalErr")) BY <1>0, AnswerEnds
  <2> QED BY <1>9, <2>1, <2>2 DEF Steps
<1>10. \A x \in {FALSE, isExists} : x \in BOOLEAN BY DEF isExists
<1>11. CASE /\ q.at = "exists"
            /\ IF Begun(r)
                 THEN \E x \in {FALSE, isExists} :
                        Read(r, {}, [To(r, "exec") EXCEPT !.todo = syncOrg(q, x)])
                 ELSE Read(r, {}, Closed(q))
  BY <1>4, <1>5, <1>10, <1>11
<1> QED BY <1>1, <1>2, <1>3, <1>6, <1>7, <1>8, <1>9, <1>11 DEF SyncOrg

\* A user logs in.
LEMMA LoginSteps ==
  ASSUME Ready, NEW r \in Reqs, Login(r)
  PROVE  Steps(r)
<1> DEFINE q == req[r]
           ok == Answer(q, "OK")
           failed == Answer(q, "InternalErr")
           on == To(r, "expire")
<1>0. q.op = "Login" /\ q.op \notin Pushes BY DEF Login, Pushes
<1>1. CASE q.at = "login" /\ Read(r, {To(r, "hset")}, Answer(q, "ParamErr"))
  <2>1. AtWork(q.at) BY <1>1 DEF AtWork, Labels, Resting
  <2> QED BY <1>0, <1>1, <2>1, LookingSteps
<1>2. CASE /\ q.at = "hset" /\ UNCHANGED <<db, used>>
           /\ Go(r, on) \/ Go(r, failed)
  <2>1. AtWork(q.at) /\ AtWork("expire") BY <1>2 DEF AtWork, Labels, Resting
  <2>2. Turns(r, failed) BY <1>0, <2>1, StopTurns
  <2>3. Turns(r, on) BY <2>1, OnTo
  <2> HIDE DEF failed, on
  <2> QED BY <1>2, <2>2, <2>3 DEF Steps
<1>3. CASE q.at = "expire" /\ UNCHANGED <<db, used>> /\ (Go(r, ok) \/ Go(r, failed))
  <2>1. AtWork(q.at) BY <1>3 DEF AtWork, Labels, Resting
  <2>2. Turns(r, failed) /\ Turns(r, ok) BY <1>0, <2>1, StopTurns
  <2> HIDE DEF failed, ok
  <2> QED BY <1>3, <2>2 DEF Steps
<1> QED BY <1>1, <1>2, <1>3 DEF Login

\* Every step of a handler.
LEMMA HandleSteps ==
  ASSUME Ready, NEW r \in Reqs, Handle(r)
  PROVE  Steps(r)
BY CreateQunSteps, UpdateQunTopicSteps, MembersSteps, PushSteps, UserPushSteps, ContactSteps,
   GetOrgInfoSteps, SyncOrgSteps, LookSteps, LoginSteps DEF Handle

-----------------------------------------------------------------------------
(* What one request does. *)

\* The steps handlers are made of are taken by a request at work ...
LEMMA StepsWork ==
  ASSUME NEW r, NEW x, NEW y, NEW z, Transact(r, x, y, z) \/ PushOne(r) \/ getUserByToken(r, x)
  PROVE  req[r].at \in {"begin", "exec", "push", "token", "user"}
<1>1. CASE Transact(r, x, y, z) BY <1>1 DEF Transact, Exec, ExecFails, Commit
<1>2. CASE PushOne(r) BY <1>2 DEF PushOne
<1>3. CASE getUserByToken(r, x) BY <1>3 DEF getUserByToken
<1> QED BY <1>1, <1>2, <1>3

\* ... and so are all handlers.
LEMMA HandleWorks ==
  ASSUME NEW r, Handle(r)
  PROVE  req[r].at \notin Resting
<1>1. CASE CreateQun(r) \/ UpdateQunTopicById(r)
  BY <1>1, StepsWork DEF CreateQun, UpdateQunTopicById, Tell, Resting
<1>2. CASE AddQunMember(r) \/ DelQunMember(r)
  BY <1>2, StepsWork DEF AddQunMember, DelQunMember, Resting
<1>3. CASE Push(r) \/ UserPush(r) BY <1>3, StepsWork DEF Push, UserPush, Resting
<1>4. CASE AddOrRemoveContact(r) BY <1>4, StepsWork DEF AddOrRemoveContact, Resting
<1>5. CASE GetOrgInfo(r) \/ Login(r) BY <1>5, StepsWork DEF GetOrgInfo, Login, Resting
<1>6. CASE SyncOrg(r) BY <1>6 DEF SyncOrg, Exec, Commit, Resting
<1>7. CASE Look(r)
  BY <1>7, StepsWork DEF Look, GetUsersInQun, GetMemberByUserName, SearchUser, CheckUpdate,
                         UserErWeiMa, GetOrgUserList, At, Resting
<1> QED BY <1>1, <1>2, <1>3, <1>4, <1>5, <1>6, <1>7 DEF Handle

\* The same call writes the same.
LEMMA SameWrites ==
  ASSUME NEW n, NEW q, n.op = q.op, SameCall(n, q)
  PROVE  /\ Writes(n) = Writes(q) /\ Founders(n) = Founders(q) /\ Listed(n) = Listed(q)
         /\ InsertQun(n) = InsertQun(q) /\ createContact(n) = createContact(q)
<1>1. Listed(n) = Listed(q) /\ Founders(n) = Founders(q) BY DEF Listed, Founders, SameCall
<1>2. /\ InsertQun(n) = InsertQun(q) /\ UpdateTopic(n) = UpdateTopic(q)
      /\ InsertStar(n) = InsertStar(q) /\ DeleteStar(n) = DeleteStar(q)
      /\ InsertOrg(n) = InsertOrg(q) /\ FirstLocation(n) = FirstLocation(q)
      /\ NextLocation(n) = NextLocation(q) /\ n.qun = q.qun
  BY DEF InsertQun, UpdateTopic, InsertStar, DeleteStar, InsertOrg, FirstLocation, NextLocation, SameCall
<1>3. Writes(n) = Writes(q) BY <1>1, <1>2 DEF Writes
<1> QED BY <1>1, <1>2, <1>3 DEF createContact

\* What request r may be, while the tables stay as they are.
Suits(r, n) ==
  /\ Typed(n) /\ Looked(n) /\ Receives(n)
  /\ n.at # "exec" => n.locks = {} /\ n.view = Empty
  /\ \A x \in Reqs \ {r} : n.locks \cap req[x].locks = {}
  /\ n.at = "exec" => OwnWrites(db, n)
  /\ Creates(n) => \A x \in Reqs \ {r} : Creates(req[x]) => req[x].qun # n.qun

\* One request becomes another one.
LEMMA OneKeeps ==
  ASSUME TInv, NEW r \in Reqs, NEW n, Suits(r, n), DOMAIN req' = Reqs, req'[r] = n,
         \A x \in Reqs \ {r} : req'[x] = req[x],
         UNCHANGED db, used \subseteq used', used' \subseteq Quns,
         Creates(n) => n.qun \in used' /\ db.qun[n.qun] = NoQun
  PROVE  TInv'
<1>1. Typing'
  <2>1. \A x \in Reqs : Typed(req'[x]) BY DEF TInv, Typing, Suits
  <2> QED BY <2>1 DEF TInv, Typing
<1>2. Isolated' BY DEF TInv, Isolated, Suits
<1>3. Writing'
  <2>1. \A x \in Reqs : req'[x].at = "exec" => OwnWrites(db, req'[x])
    BY DEF TInv, Writing, Suits
  <2> QED BY <2>1 DEF Writing
<1>4. QunsMade'
  <2>1. \A x \in Reqs : Creates(req'[x]) =>
          /\ req'[x].qun \in used' /\ db.qun[req'[x].qun] = NoQun
          /\ \A y \in Reqs : Creates(req'[y]) /\ req'[y].qun = req'[x].qun => y = x
    BY DEF TInv, QunsMade, Suits
  <2> QED BY <2>1 DEF TInv, QunsMade
<1>5. AllLooked'
  <2>1. \A x \in Reqs : Looked(req'[x]) BY DEF TInv, AllLooked, Suits
  <2> QED BY <2>1 DEF AllLooked, Looked, Checked, MayRemove, Found, isStar
<1>6. AllReceive'
  <2>1. \A x \in Reqs : Receives(req'[x]) BY DEF TInv, AllReceive, Suits
  <2> QED BY <2>1 DEF AllReceive, Receives, Due, MembersOf
<1> QED BY <1>1, <1>2, <1>3, <1>4, <1>5, <1>6 DEF TInv

\* A handler goes on with one.
LEMMA GoKeeps ==
  ASSUME AInv, TInv, NEW r \in Reqs, NEW n, Suits(r, n), Go(r, n), UNCHANGED <<db, used>>,
         Creates(n) => Creates(req[r]) /\ n.qun = req[r].qun
  PROVE  TInv'
<1>1. DOMAIN req' = Reqs /\ req'[r] = n /\ \A x \in Reqs \ {r} : req'[x] = req[x]
  BY DEF AInv, Requests, Go
<1>2. used \subseteq used' /\ used' \subseteq Quns BY DEF TInv, QunsMade
<1>3. Creates(n) => n.qun \in used' /\ db.qun[n.qun] = NoQun BY DEF TInv, QunsMade
<1> QED BY <1>1, <1>2, <1>3, OneKeeps

\* It goes on, or ends, outside a transaction.
LEMMA TurnKeeps ==
  ASSUME AInv, TInv, NEW r \in Reqs, NEW n, req[r].at \notin Resting, Turns(r, n), Go(r, n),
         UNCHANGED <<db, used>>
  PROVE  TInv'
<1> DEFINE p == req[r]
<1>1. Turn(p, n) /\ Enters(p, n) /\ Receives(n) BY DEF Turns, TInv, AllReceive
<1>2. n.op = p.op /\ (n.at \notin Resting => SameCall(n, p)) /\ n.at # "exec" BY <1>1 DEF Turn
<1>3. Creates(n) => Creates(p) /\ n.qun = p.qun
  BY <1>1, <1>2 DEF Enters, Creates, Resting, SameCall
<1>4. Typed(n) BY <1>1, EmptyTables DEF Turn, Typed
<1>5. Looked(n)
  <2>1. n.op = "AddContact" /\ n.at \notin Resting => <<n.uid, n.peer>> \in Contacts
    BY <1>2 DEF TInv, AllLooked, Looked, SameCall
  <2>2. n.at = "begin" => Checked(n) BY <1>1 DEF Enters
  <2> QED BY <1>2, <2>1, <2>2 DEF Looked
<1>6. Creates(n) => \A x \in Reqs \ {r} : Creates(req[x]) => req[x].qun # n.qun
  BY <1>3 DEF TInv, QunsMade
<1>7. Suits(r, n) BY <1>1, <1>2, <1>4, <1>5, <1>6 DEF Suits, Turn
<1> QED BY <1>3, <1>7, GoKeeps

\* At its begin a transaction has written nothing.
LEMMA NothingSeen ==
  ASSUME NEW t \in Tables
  PROVE  Seen(t, Empty, {}) = t
<1>1. Seen(t, Empty, {}) \in Tables /\ Within(t, Seen(t, Empty, {}), {}) BY EmptyTables, SeenTables
<1> DEFINE n == Seen(t, Empty, {})
<1>2. n.qun = [g \in Quns |-> t.qun[g]] BY DEF Seen
<1>3. n.qun = t.qun
  <2>1. t.qun \in [Quns -> Group \cup {NoQun}] BY TablesAre
  <2> HIDE DEF n
  <2> QED BY <1>2, <2>1
<1>4. /\ n = [qun |-> n.qun, member |-> n.member, star |-> n.star, org |-> n.org, roots |-> n.roots]
      /\ t = [qun |-> t.qun, member |-> t.member, star |-> t.star, org |-> t.org, roots |-> t.roots]
  BY <1>1, TablesAre
<1>5. n.member = t.member /\ n.star = t.star /\ n.org = t.org /\ n.roots = t.roots
  BY <1>1 DEF Within
<1> HIDE DEF n
<1>6. n = t BY <1>3, <1>4, <1>5
<1> QED BY <1>6 DEF n

\* A transaction begins.
LEMMA StartKeeps ==
  ASSUME AInv, TInv, NEW r \in Reqs, NEW todo, Starts(req[r], todo),
         Go(r, [To(r, "exec") EXCEPT !.todo = todo]), UNCHANGED <<db, used>>
  PROVE  TInv'
<1> DEFINE p == req[r]
           n == [To(r, "exec") EXCEPT !.todo = todo]
<1>0. n = [To(r, "exec") EXCEPT !.todo = todo] OBVIOUS
<1>1. Go(r, n) OBVIOUS
<1> HIDE DEF n
<1>2. But(n, req[r], {"at", "todo"}) /\ n.at = "exec" /\ n.todo = todo
  <2>1. But(n, req[r], {"at", "todo"}) /\ n.at = "exec" BY <1>0, ToTodo
  <2>2. n.todo = todo BY <1>0, ToTodoIs
  <2> QED BY <2>1, <2>2
<1>3. /\ n.op = p.op /\ SameCall(n, p) /\ n.locks = p.locks /\ n.view = p.view /\ n.lost = p.lost
  BY <1>2, FieldNames DEF But, SameCall
<1>4. /\ Called(p) /\ p.lost \in BOOLEAN /\ p.locks = {} /\ p.view = Empty /\ p.at # "exec"
      /\ p.op \notin Pushes /\ p.at \notin Resting /\ db \in Tables
  BY DEF TInv, Typing, Typed, Isolated, Starts
<1>5. /\ Writes(n) = Writes(p) /\ Founders(n) = Founders(p)
      /\ InsertQun(n) = InsertQun(p) /\ createContact(n) = createContact(p) /\ n.qun = p.qun
  BY <1>3, SameWrites DEF SameCall
<1> HIDE DEF p
<1>6. Typed(n)
  <2>1. n.lost \in BOOLEAN BY <1>3, <1>4, Zenon
  <2>2. Called(n) BY <1>3, <1>4 DEF Called, SameCall
  <2>3. n.todo \in Seq(Writes(n)) BY <1>2, <1>5 DEF Starts, p
  <2> QED BY <1>2, <1>3, <1>4, <2>1, <2>2, <2>3, EmptyTables DEF Typed, Labels
<1>7. Creates(n) => Creates(p) /\ n.qun = p.qun
  BY <1>2, <1>3 DEF Creates, SameCall, Starts, p
<1>8. Looked(n)
  <2>1. n.op = "AddContact" => <<n.uid, n.peer>> \in Contacts
    BY <1>3, <1>4 DEF TInv, AllLooked, Looked, SameCall, p
  <2>2. Checked(n)
    <3>1. CASE p.at = "begin"
      <4>1. Checked(p) BY <3>1 DEF TInv, AllLooked, Looked, p
      <4>2. n.lost = p.lost BY <1>3
      <4> QED BY <1>3, <4>1, <4>2 DEF Checked, SameCall, MayRemove, isStar
    <3>2. CASE p.op = "SyncOrg" BY <1>3, <3>2 DEF Checked
    <3> QED BY <3>1, <3>2 DEF Starts, p
  <2> QED BY <2>1, <2>2 DEF Looked
<1>9. OwnWrites(db, n)
  <2>1. Seen(db, n.view, n.locks) = db BY <1>3, <1>4, NothingSeen
  <2>2. OwnMembers(db, db, n) /\ OwnGroups(db, db, n) BY DEF OwnMembers, OwnGroups
  <2>3. OwnContacts(db, db, n)
    <3>1. db.star \in [Contacts -> Nat] BY <1>4, TablesAre
    <3> QED BY <3>1 DEF OwnContacts
  <2>4. StillToWrite(db, db, n)
    <3>1. n.op = "AddContact" => n.todo = createContact(n) BY <1>2, <1>3, <1>5 DEF Starts, p
    <3>2. ASSUME n.op = "CreateQun"
          PROVE  \A w \in Writes(n) : Pending(w, n)
      BY <1>2, <1>3, <1>5, <3>2 DEF Starts, Pending, p
    <3>3. n.op = "CreateQun" => /\ InsertQun(n) \in Writes(n)
                                /\ \A u \in Founders(n) : InsertQunUser(n.qun, u) \in Writes(n)
      BY DEF Writes
    <3> QED BY <3>1, <3>2, <3>3 DEF StillToWrite
  <2> QED BY <2>1, <2>2, <2>3, <2>4 DEF OwnWrites
<1>10. Creates(n) => \A x \in Reqs \ {r} : Creates(req[x]) => req[x].qun # n.qun
  BY <1>7 DEF TInv, QunsMade, p
<1>11. Receives(n) BY <1>3, <1>4, NoPush
<1>12. \A x \in Reqs \ {r} : n.locks \cap req[x].locks = {} BY <1>3, <1>4
<1>13. Suits(r, n) BY <1>2, <1>6, <1>8, <1>9, <1>10, <1>11, <1>12 DEF Suits
<1> QED BY <1>1, <1>7, <1>13, GoKeeps DEF p

\* The error of a statement is ignored.
LEMMA SkipKeeps ==
  ASSUME AInv, TInv, NEW r \in Reqs, req[r].op = "SyncOrg", req[r].at = "exec", req[r].todo # <<>>,
         Go(r, [req[r] EXCEPT !.todo = Tail(@)]), UNCHANGED <<db, used>>
  PROVE  TInv'
<1> DEFINE p == req[r]
           v == Tail(p.todo)
           n == [p EXCEPT !.todo = v]
<1>0. DOMAIN p = Fields BY DEF AInv, Requests, Good
<1>1. /\ p.todo \in Seq(Writes(p)) /\ p.todo # <<>> /\ p.op = "SyncOrg" /\ p.at = "exec"
      /\ Typed(p) /\ p.lost \in BOOLEAN /\ Looked(p) /\ OwnWrites(db, p)
      /\ \A x \in Reqs \ {r} : p.locks \cap req[x].locks = {}
  BY DEF TInv, Typing, Typed, Isolated, AllLooked, Writing
<1>2. v \in Seq(Writes(p))
  <2> DEFINE W == Writes(p)
             s == p.todo
  <2>1. s \in Seq(W) /\ s # <<>> BY <1>1
  <2> HIDE DEF W, s
  <2>2. Tail(s) \in Seq(W) BY <2>1
  <2> QED BY <2>2 DEF W, s
<1>3. Go(r, n) OBVIOUS
<1> HIDE DEF v, p
<1>4. But(n, p, {"todo"}) /\ n.todo = v BY <1>0, ButTodo
<1> HIDE DEF n
<1>5. /\ n.op = p.op /\ n.at = p.at /\ SameCall(n, p) /\ n.locks = p.locks /\ n.view = p.view
      /\ n.lost = p.lost
  BY <1>4, FieldNames DEF But, SameCall
<1>6. Typed(n)
  <2>1. n.lost \in BOOLEAN BY <1>1, <1>5, Zenon
  <2>2. n.todo \in Seq(Writes(n)) BY <1>2, <1>4, <1>5, SameWrites
  <2> QED BY <1>1, <1>5, <2>1, <2>2 DEF Typed, Called, SameCall
<1>7. Looked(n) BY <1>1, <1>5 DEF Looked, Checked
<1>8. OwnWrites(db, n)
  BY <1>1, <1>5 DEF OwnWrites, OwnMembers, OwnGroups, OwnContacts, StillToWrite, SameCall
<1>9. Receives(n) /\ ~Creates(n) BY <1>1, <1>5, NoPush DEF Pushes, Creates
<1>10. Suits(r, n) BY <1>1, <1>5, <1>6, <1>7, <1>8, <1>9 DEF Suits
<1> QED BY <1>3, <1>9, <1>10, GoKeeps

-----------------------------------------------------------------------------
(* What a statement of a request writes. *)

\* A statement that adds a member is an INSERT into qun_user ...
LEMMA InsertIs ==
  ASSUME NEW g, NEW u, NEW s, s = InsertQunUser(g, u)
  PROVE  s.sql = "insert qun_user"
BY DEF InsertQunUser, Statement

\* ... for the group ...
LEMMA InsertQunIs ==
  ASSUME NEW g, NEW u, NEW s, s = InsertQunUser(g, u)
  PROVE  s.qun = g
BY DEF InsertQunUser, Statement

\* ... and the user it is given.
LEMMA InsertUserIs ==
  ASSUME NEW g, NEW u, NEW s, s = InsertQunUser(g, u)
  PROVE  s.user = u
BY DEF InsertQunUser, Statement

\* One that removes a member is a DELETE from qun_user ...
LEMMA DeleteIs ==
  ASSUME NEW g, NEW u, NEW s, s = DeleteQunUser(g, u)
  PROVE  s.sql = "delete qun_user"
BY DEF DeleteQunUser, Statement

\* ... for the group too ...
LEMMA DeleteQunIs ==
  ASSUME NEW g, NEW u, NEW s, s = DeleteQunUser(g, u)
  PROVE  s.qun = g
BY DEF DeleteQunUser, Statement

\* ... and for the user.
LEMMA DeleteUserIs ==
  ASSUME NEW g, NEW u, NEW s, s = DeleteQunUser(g, u)
  PROVE  s.user = u
BY DEF DeleteQunUser, Statement

\* The other statements hold what their request was called with.
LEMMA StatementsAre ==
  ASSUME NEW q
  PROVE  /\ InsertQun(q).sql = "insert qun" /\ InsertQun(q).qun = q.qun
         /\ InsertQun(q).user = q.uid /\ InsertQun(q).to = q.topic
         /\ UpdateTopic(q).sql = "update qun" /\ UpdateTopic(q).qun = q.qun
         /\ UpdateTopic(q).user = q.user /\ UpdateTopic(q).to = q.topic
         /\ InsertStar(q).sql = "insert user_user" /\ InsertStar(q).user = q.uid
         /\ InsertStar(q).to = q.peer
         /\ DeleteStar(q).sql = "delete user_user" /\ DeleteStar(q).user = q.uid
         /\ DeleteStar(q).to = q.peer
         /\ InsertOrg(q).sql = "insert org" /\ FirstLocation(q).sql = "first location"
         /\ NextLocation(q).sql = "next location"
BY DEF InsertQun, UpdateTopic, InsertStar, DeleteStar, InsertOrg, FirstLocation, NextLocation,
       Statement

\* The statements of each operation.
LEMMA Written ==
  ASSUME NEW q, NEW s \in Writes(q)
  PROVE  \/ /\ q.op = "CreateQun" /\ s = InsertQun(q)
            /\ s.sql = "insert qun" /\ s.qun = q.qun /\ s.user = q.uid /\ s.to = q.topic
         \/ /\ \/ q.op = "CreateQun" /\ s.user \in Founders(q)
               \/ q.op = "AddQunMember" /\ s.user \in Listed(q)
            /\ s.sql = "insert qun_user" /\ s.qun = q.qun /\ s = InsertQunUser(q.qun, s.user)
         \/ /\ q.op = "DelQunMember" /\ s.user \in Listed(q)
            /\ s.sql = "delete qun_user" /\ s.qun = q.qun
         \/ /\ q.op = "UpdateQunTopicById"
            /\ s.sql = "update qun" /\ s.qun = q.qun /\ s.user = q.user /\ s.to = q.topic
         \/ /\ q.op = "AddContact" /\ s = InsertStar(q)
            /\ s.sql = "insert user_user" /\ s.user = q.uid /\ s.to = q.peer
         \/ /\ q.op = "RemoveContact"
            /\ s.sql = "delete user_user" /\ s.user = q.uid /\ s.to = q.peer
         \/ q.op = "SyncOrg" /\ s.sql \in {"insert org", "first location", "next location"}
<1>1. CASE q.op = "CreateQun"
  <2>1. s = InsertQun(q) \/ \E u \in Founders(q) : s = InsertQunUser(q.qun, u)
    BY <1>1 DEF Writes
  <2>2. CASE s = InsertQun(q) BY <1>1, <2>2, StatementsAre
  <2>3. CASE \E u \in Founders(q) : s = InsertQunUser(q.qun, u)
    <3>0. PICK u \in Founders(q) : s = InsertQunUser(q.qun, u) BY <2>3
    <3>1. s.sql = "insert qun_user" BY <3>0, InsertIs
    <3>2. s.qun = q.qun BY <3>0, InsertQunIs
    <3>3. s.user = u BY <3>0, InsertUserIs
    <3> QED BY <1>1, <3>0, <3>1, <3>2, <3>3
  <2> QED BY <2>1, <2>2, <2>3
<1>2. CASE q.op = "AddQunMember"
  <2>1. PICK u \in Listed(q) : s = InsertQunUser(q.qun, u) BY <1>2 DEF Writes
  <2>2. s.sql = "insert qun_user" /\ s.qun = q.qun /\ s.user = u
    <3>1. s.sql = "insert qun_user" BY <2>1, InsertIs
    <3>2. s.qun = q.qun BY <2>1, InsertQunIs
    <3>3. s.user = u BY <2>1, InsertUserIs
    <3> QED BY <3>1, <3>2, <3>3
  <2> QED BY <1>2, <2>1, <2>2
<1>3. CASE q.op = "DelQunMember"
  <2>1. PICK u \in Listed(q) : s = DeleteQunUser(q.qun, u) BY <1>3 DEF Writes
  <2>2. s.sql = "delete qun_user" /\ s.qun = q.qun /\ s.user = u
    <3>1. s.sql = "delete qun_user" BY <2>1, DeleteIs
    <3>2. s.qun = q.qun BY <2>1, DeleteQunIs
    <3>3. s.user = u BY <2>1, DeleteUserIs
    <3> QED BY <3>1, <3>2, <3>3
  <2> QED BY <1>3, <2>1, <2>2
<1>4. CASE q.op = "UpdateQunTopicById"
  <2>1. s = UpdateTopic(q) BY <1>4 DEF Writes
  <2> QED BY <1>4, <2>1, StatementsAre
<1>5. CASE q.op = "AddContact"
  <2>1. s = InsertStar(q) BY <1>5 DEF Writes
  <2> QED BY <1>5, <2>1, StatementsAre
<1>6. CASE q.op = "RemoveContact"
  <2>1. s = DeleteStar(q) BY <1>6 DEF Writes
  <2> QED BY <1>6, <2>1, StatementsAre
<1>7. CASE q.op = "SyncOrg"
  <2>1. s \in {InsertOrg(q), FirstLocation(q), NextLocation(q)} BY <1>7 DEF Writes
  <2> QED BY <1>7, <2>1, StatementsAre
<1>8. q.op \in {"CreateQun", "AddQunMember", "DelQunMember", "UpdateQunTopicById", "AddContact",
                "RemoveContact", "SyncOrg"}
  BY DEF Writes
<1> QED BY <1>1, <1>2, <1>3, <1>4, <1>5, <1>6, <1>7, <1>8

\* They are sound, and lock what has a name.
LEMMA WrittenSound ==
  ASSUME NEW q, Called(q), NEW s \in Writes(q)
  PROVE  Sound(s) /\ Locks(s) \subseteq LockNames /\ q.op \notin Pushes
<1>1. q.uid \in Users /\ q.user \in Users /\ q.topic \in Topics /\ q.qun \in Quns \cup {NoQun}
  BY DEF Called
<1>2. Sound(s) BY <1>1, Written DEF Sound
<1>3. Locks(s) \subseteq LockNames BY <1>1, Written DEF Locks, LockNames
<1>4. q.op \notin Pushes BY Written DEF Pushes
<1> QED BY <1>2, <1>3, <1>4

\* One count of members is replaced.
LEMMA MemberIs ==
  ASSUME NEW m \in [Quns -> [Users -> Nat]], NEW a, NEW b, NEW v, NEW c \in Quns, NEW d \in Users
  PROVE  WithAt(m, a, b, v)[c][d] = IF c = a /\ d = b THEN v ELSE m[c][d]
<1>1. CASE c = a
  <2>1. WithAt(m, a, b, v)[c] = [m[c] EXCEPT ![b] = v] BY <1>1 DEF WithAt
  <2>2. m[c] \in [Users -> Nat] OBVIOUS
  <2> QED BY <1>1, <2>1, <2>2
<1>2. CASE c # a
  <2>1. WithAt(m, a, b, v)[c] = m[c] BY <1>2 DEF WithAt
  <2> QED BY <1>2, <2>1
<1> QED BY <1>1, <1>2

\* Of the members it changes its own ...
LEMMA MembersWritten ==
  ASSUME NEW t \in Tables, NEW u \in Tables, NEW q, OwnMembers(t, u, q), NEW s \in Writes(q)
  PROVE  /\ OwnMembers(t, After(u, s), q)
         /\ q.op = "CreateQun" /\ q.qun \in Quns => \A d \in Users :
              u.member[q.qun][d] # 0 \/ s = InsertQunUser(q.qun, d) =>
                After(u, s).member[q.qun][d] # 0
<1> DEFINE m == After(u, s).member
<1>0. u.member \in [Quns -> [Users -> Nat]] BY TablesAre
<1>1. CASE s.sql = "insert qun_user"
  <2> DEFINE v == Inserted(u.member[s.qun][s.user])
  <2>1. s.qun \in Quns /\ s.user \in Users => v \in Nat /\ v # 0 BY <1>0 DEF Inserted
  <2>2. m = WithAt(u.member, s.qun, s.user, v) BY <1>1, AfterMember
  <2> HIDE DEF v, m
  <2>3. \A c \in Quns, d \in Users :
          m[c][d] = IF c = s.qun /\ d = s.user THEN v ELSE u.member[c][d]
    <3>1. s.qun \in Quns /\ s.user \in Users => v \in Nat BY <2>1
    <3>2. ASSUME NEW c \in Quns, NEW d \in Users
          PROVE  WithAt(u.member, s.qun, s.user, v)[c][d] =
                   IF c = s.qun /\ d = s.user THEN v ELSE u.member[c][d]
      BY <1>0, <3>1, MemberIs
    <3> QED BY <2>2, <3>2
  <2>4. /\ s.qun = q.qun
        /\ \/ q.op = "CreateQun" /\ s.user \in Founders(q)
           \/ q.op = "AddQunMember" /\ s.user \in Listed(q)
    BY <1>1, Written
  <2>5. OwnMembers(t, After(u, s), q) BY <2>1, <2>3, <2>4 DEF OwnMembers, m
  <2>6. ASSUME NEW d, s = InsertQunUser(q.qun, d) PROVE s.qun = q.qun /\ s.user = d
    BY <2>6, InsertQunIs, InsertUserIs
  <2>7. ASSUME NEW d \in Users, q.qun \in Quns, u.member[q.qun][d] # 0 \/ s = InsertQunUser(q.qun, d)
        PROVE  m[q.qun][d] # 0
    BY <2>1, <2>3, <2>6, <2>7
  <2> QED BY <2>5, <2>7 DEF m
<1>2. CASE s.sql = "delete qun_user"
  <2>1. m = WithAt(u.member, s.qun, s.user, 0) BY <1>2, AfterMember
  <2>2. 0 \in Nat OBVIOUS
  <2> HIDE DEF m
  <2>3. \A c \in Quns, d \in Users :
          m[c][d] = IF c = s.qun /\ d = s.user THEN 0 ELSE u.member[c][d]
    <3>1. ASSUME NEW c \in Quns, NEW d \in Users
          PROVE  WithAt(u.member, s.qun, s.user, 0)[c][d] =
                   IF c = s.qun /\ d = s.user THEN 0 ELSE u.member[c][d]
      BY <1>0, <2>2, MemberIs
    <3> QED BY <2>1, <3>1
  <2>4. q.op = "DelQunMember" /\ s.user \in Listed(q) /\ s.qun = q.qun BY <1>2, Written
  <2>5. OwnMembers(t, After(u, s), q) BY <2>3, <2>4 DEF OwnMembers, m
  <2> QED BY <2>4, <2>5
<1>3. CASE s.sql \notin {"insert qun_user", "delete qun_user"}
  <2>1. After(u, s).member = u.member BY <1>3, AfterMember
  <2>2. OwnMembers(t, After(u, s), q) BY <2>1 DEF OwnMembers
  <2>3. ASSUME NEW d, s = InsertQunUser(q.qun, d) PROVE FALSE
    <3>1. s.sql = "insert qun_user" BY <2>3, InsertIs
    <3> QED BY <1>3, <3>1
  <2> QED BY <2>1, <2>2, <2>3
<1> QED BY <1>1, <1>2, <1>3

\* ... of the groups ...
LEMMA GroupsWritten ==
  ASSUME NEW t \in Tables, NEW u \in Tables, NEW q, OwnGroups(t, u, q), NEW s \in Writes(q), Called(q)
  PROVE  /\ OwnGroups(t, After(u, s), q)
         /\ q.op = "CreateQun" /\ q.qun \in Quns =>
              (u.qun[q.qun] # NoQun \/ s = InsertQun(q) => After(u, s).qun[q.qun] # NoQun)
<1> DEFINE m == After(u, s).qun
<1>0. u.qun \in [Quns -> Group \cup {NoQun}] BY TablesAre
<1>1. CASE s.sql = "insert qun"
  <2> DEFINE v == [creator |-> s.user, name |-> s.to]
  <2>1. q.op = "CreateQun" /\ s.qun = q.qun /\ s.user = q.uid /\ s.to = q.topic BY <1>1, Written
  <2>2. v \in Group /\ v # NoQun BY <2>1, TablesAssumption DEF Group, Called
  <2>3. m = With(u.qun, s.qun, v)
    <3>1. s.sql = "insert qun" =>
            After(u, s).qun = With(u.qun, s.qun, [creator |-> s.user, name |-> s.to])
      BY AfterParts
    <3> QED BY <1>1, <3>1
  <2> HIDE DEF v, m
  <2>4. v \in Group \cup {NoQun} BY <2>2
  <2>5. \A b \in Quns : m[b] = IF b = s.qun THEN v ELSE u.qun[b]
    <3>1. ASSUME NEW b \in Quns
          PROVE  With(u.qun, s.qun, v)[b] = IF b = s.qun THEN v ELSE u.qun[b]
      BY <1>0, <2>4 DEF With
    <3> QED BY <2>3, <3>1
  <2>6. OwnGroups(t, After(u, s), q) BY <2>1, <2>5 DEF OwnGroups, m
  <2>7. q.qun \in Quns => m[q.qun] # NoQun BY <2>1, <2>2, <2>5
  <2> QED BY <2>6, <2>7 DEF m
<1>2. CASE s.sql = "update qun" /\ s.qun \in Quns /\ u.qun[s.qun] # NoQun
  <2> DEFINE v == [u.qun[s.qun] EXCEPT !.name = s.to]
  <2>1. q.op = "UpdateQunTopicById" /\ s.qun = q.qun /\ s.to = q.topic BY <1>2, Written
  <2>2. v \in Group /\ v # NoQun /\ v.creator = u.qun[s.qun].creator
    <3>1. u.qun[s.qun] \in Group BY <1>0, <1>2
    <3> QED BY <2>1, <3>1, TablesAssumption DEF Group, Called
  <2>3. m = With(u.qun, s.qun, v)
    <3>1. s.sql = "update qun" /\ s.qun \in Quns /\ u.qun[s.qun] # NoQun =>
            After(u, s).qun = With(u.qun, s.qun, [u.qun[s.qun] EXCEPT !.name = s.to])
      BY AfterParts
    <3> QED BY <1>2, <3>1
  <2> HIDE DEF v, m
  <2>4. v \in Group \cup {NoQun} BY <2>2
  <2>5. \A b \in Quns : m[b] = IF b = s.qun THEN v ELSE u.qun[b]
    <3>1. ASSUME NEW b \in Quns
          PROVE  With(u.qun, s.qun, v)[b] = IF b = s.qun THEN v ELSE u.qun[b]
      BY <1>0, <2>4 DEF With
    <3> QED BY <2>3, <3>1
  <2>6. t.qun[s.qun] # NoQun /\ v.creator = t.qun[s.qun].creator
    <3>1. CASE u.qun[s.qun] = t.qun[s.qun] BY <1>2, <2>2, <3>1
    <3>2. CASE u.qun[s.qun] # t.qun[s.qun]
      <4>1. t.qun[s.qun] # NoQun /\ u.qun[s.qun].creator = t.qun[s.qun].creator
        BY <1>2, <2>1, <3>2 DEF OwnGroups
      <4> QED BY <2>2, <4>1
    <3> QED BY <3>1, <3>2
  <2>7. OwnGroups(t, After(u, s), q)
    <3> SUFFICES ASSUME NEW g \in Quns, m[g] # t.qun[g]
                 PROVE  /\ g = q.qun /\ t.qun[g] # NoQun /\ m[g] # NoQun
                        /\ m[g].creator = t.qun[g].creator
      BY <2>1 DEF OwnGroups, m
    <3>1. CASE g = s.qun BY <2>1, <2>2, <2>5, <2>6, <3>1
    <3>2. CASE g # s.qun BY <2>1, <2>5, <3>2 DEF OwnGroups
    <3> QED BY <3>1, <3>2
  <2> QED BY <2>1, <2>7
<1>3. CASE s.sql # "insert qun" /\ ~(s.sql = "update qun" /\ s.qun \in Quns /\ u.qun[s.qun] # NoQun)
  <2>1. After(u, s).qun = u.qun BY <1>3, AfterParts
  <2>2. OwnGroups(t, After(u, s), q) BY <2>1 DEF OwnGroups
  <2>3. s # InsertQun(q) BY <1>3, StatementsAre
  <2> QED BY <2>1, <2>2, <2>3
<1> QED BY <1>1, <1>2, <1>3

\* ... and of the contacts.
LEMMA ContactsWritten ==
  ASSUME NEW t \in Tables, NEW u \in Tables, NEW q, OwnContacts(t, u, q), NEW s \in Writes(q),
         q.op = "AddContact" => u.star = t.star
  PROVE  OwnContacts(t, After(u, s), q)
<1> DEFINE m == After(u, s).star
<1>0. u.star \in [Contacts -> Nat] /\ t.star \in [Contacts -> Nat] BY TablesAre
<1>1. CASE s.sql = "insert user_user"
  <2> DEFINE p == <<s.user, s.to>>
             v == u.star[p] + 1
  <2>1. m = With(u.star, p, v) BY <1>1, AfterStar
  <2>2. q.op = "AddContact" /\ p = <<q.uid, q.peer>> BY <1>1, Written
  <2>3. p \in Contacts => v \in Nat BY <1>0
  <2> HIDE DEF m, p
  <2>4. \A b \in Contacts : m[b] = IF b = p THEN v ELSE u.star[b]
    <3> HIDE DEF v
    <3>1. ASSUME NEW b \in Contacts
          PROVE  With(u.star, p, v)[b] = IF b = p THEN v ELSE u.star[b]
      BY <1>0, <2>3 DEF With
    <3> QED BY <2>1, <3>1
  <2>5. u.star = t.star BY <2>2
  <2> QED BY <1>0, <2>2, <2>4, <2>5 DEF OwnContacts, m
<1>2. CASE s.sql = "delete user_user"
  <2> DEFINE p == <<s.user, s.to>>
  <2>1. m = With(u.star, p, 0) BY <1>2, AfterStar
  <2> HIDE DEF m, p
  <2>2. 0 \in Nat OBVIOUS
  <2>3. \A b \in Contacts : m[b] = IF b = p THEN 0 ELSE u.star[b]
    <3>1. ASSUME NEW b \in Contacts
          PROVE  With(u.star, p, 0)[b] = IF b = p THEN 0 ELSE u.star[b]
      BY <1>0, <2>2 DEF With
    <3> QED BY <2>1, <3>1
  <2>4. ASSUME NEW b \in Contacts, m[b] > t.star[b]
        PROVE  q.op = "AddContact" /\ b = <<q.uid, q.peer>> /\ m[b] = t.star[b] + 1
    <3>1. t.star[b] \in Nat /\ u.star[b] \in Nat BY <1>0
    <3>2. b # p BY <2>3, <2>4, <3>1
    <3>3. m[b] = u.star[b] BY <2>3, <3>2
    <3> QED BY <2>4, <3>3 DEF OwnContacts
  <2> QED BY <2>4 DEF OwnContacts, m
<1>3. CASE s.sql \notin {"insert user_user", "delete user_user"}
  <2>1. After(u, s).star = u.star BY <1>3, AfterStar
  <2> QED BY <2>1 DEF OwnContacts
<1> QED BY <1>1, <1>2, <1>3

-----------------------------------------------------------------------------
(* A statement is executed. *)

\* The first of the statements, and those after it.
LEMMA FirstAndRest ==
  ASSUME NEW W, NEW t \in Seq(W), t # <<>>
  PROVE  /\ Head(t) \in W /\ Tail(t) \in Seq(W)
         /\ \A i \in DOMAIN t : t[i] = Head(t) \/ \E j \in DOMAIN Tail(t) : Tail(t)[j] = t[i]
<1>1. Head(t) \in W /\ Tail(t) \in Seq(W) OBVIOUS
<1>2. ASSUME NEW i \in DOMAIN t, t[i] # Head(t)
      PROVE  \E j \in DOMAIN Tail(t) : Tail(t)[j] = t[i]
  <2>1. i # 1 /\ i \in 1..Len(t) BY <1>2
  <2>2. i - 1 \in DOMAIN Tail(t) /\ Tail(t)[i - 1] = t[i] BY <2>1
  <2> QED BY <2>2
<1> QED BY <1>1, <1>2

\* It leaves less to be written.
LEMMA LessToWrite ==
  ASSUME NEW t \in Tables, NEW u \in Tables, NEW q, Called(q), StillToWrite(t, u, q),
         q.todo \in Seq(Writes(q)), q.todo # <<>>, q.op = "CreateQun" => q.qun \in Quns,
         OwnMembers(t, u, q), OwnGroups(t, u, q), NEW n, n.op = q.op, SameCall(n, q),
         n.todo = Tail(q.todo)
  PROVE  StillToWrite(t, After(u, Head(q.todo)), n)
<1> DEFINE s == Head(q.todo)
           w == After(u, s)
<1>1. s \in Writes(q) /\ n.todo \in Seq(Writes(q)) BY FirstAndRest
<1>2. \A x : Pending(x, q) => x = s \/ Pending(x, n)
  <2>1. \A i \in DOMAIN q.todo : q.todo[i] = s \/ \E j \in DOMAIN n.todo : n.todo[j] = q.todo[i]
    BY FirstAndRest
  <2> HIDE DEF s
  <2> QED BY <2>1 DEF Pending
<1>3. Founders(n) = Founders(q) /\ InsertQun(n) = InsertQun(q) /\ n.qun = q.qun
  BY SameWrites DEF SameCall
<1>4. n.op = "AddContact" => n.todo = <<>>
  <2> SUFFICES ASSUME n.op = "AddContact" PROVE n.todo = <<>> OBVIOUS
  <2>1. q.todo = createContact(q) BY DEF StillToWrite
  <2> QED BY <2>1 DEF createContact
<1>5. ASSUME n.op = "CreateQun"
      PROVE  /\ w.qun[n.qun] # NoQun \/ Pending(InsertQun(n), n)
             /\ \A d \in Founders(n) : w.member[n.qun][d] # 0 \/ Pending(InsertQunUser(n.qun, d), n)
  <2>1. q.op = "CreateQun" /\ q.qun \in Quns BY <1>5
  <2>2. u.qun[q.qun] # NoQun \/ s = InsertQun(q) => w.qun[q.qun] # NoQun
    BY <1>1, <2>1, GroupsWritten
  <2>3. \A d \in Users : u.member[q.qun][d] # 0 \/ s = InsertQunUser(q.qun, d) => w.member[q.qun][d] # 0
    BY <1>1, <2>1, MembersWritten
  <2>4. Founders(q) \subseteq Users BY DEF Founders, Listed, Called
  <2>5. /\ u.qun[q.qun] # NoQun \/ Pending(InsertQun(q), q)
        /\ \A d \in Founders(q) : u.member[q.qun][d] # 0 \/ Pending(InsertQunUser(q.qun, d), q)
    BY <2>1 DEF StillToWrite
  <2> HIDE DEF w, s
  <2>6. w.qun[q.qun] # NoQun \/ Pending(InsertQun(q), n) BY <1>2, <2>2, <2>5
  <2>7. ASSUME NEW d \in Founders(q)
        PROVE  w.member[q.qun][d] # 0 \/ Pending(InsertQunUser(q.qun, d), n)
    <3>1. u.member[q.qun][d] # 0 \/ Pending(InsertQunUser(q.qun, d), q) BY <2>5, <2>7
    <3>2. Pending(InsertQunUser(q.qun, d), q) =>
            InsertQunUser(q.qun, d) = s \/ Pending(InsertQunUser(q.qun, d), n)
      BY <1>2
    <3>3. d \in Users BY <2>4
    <3>4. u.member[q.qun][d] # 0 \/ s = InsertQunUser(q.qun, d) => w.member[q.qun][d] # 0
      BY <2>3, <3>3
    <3> QED BY <3>1, <3>2, <3>4
  <2> QED BY <1>3, <2>6, <2>7
<1> HIDE DEF w
<1>6. StillToWrite(t, w, n)
  <2>1. n.op = "AddContact" => n.todo = <<>> \/ (n.todo = createContact(n) /\ w.star = t.star)
    BY <1>4
  <2> QED BY <1>5, <2>1 DEF StillToWrite
<1> QED BY <1>6 DEF w

\* What a request of the same call wrote itself.
LEMMA OwnSame ==
  ASSUME NEW t, NEW w, NEW q, NEW n, n.op = q.op, SameCall(n, q)
  PROVE  /\ OwnMembers(t, w, q) => OwnMembers(t, w, n)
         /\ OwnGroups(t, w, q) => OwnGroups(t, w, n)
         /\ OwnContacts(t, w, q) => OwnContacts(t, w, n)
<1>1. Founders(n) = Founders(q) /\ Listed(n) = Listed(q) BY SameWrites
<1>2. OwnMembers(t, w, q) => OwnMembers(t, w, n) BY <1>1 DEF OwnMembers, SameCall
<1>3. OwnGroups(t, w, q) => OwnGroups(t, w, n) BY DEF OwnGroups, SameCall
<1>4. OwnContacts(t, w, q) => OwnContacts(t, w, n) BY DEF OwnContacts, SameCall
<1> QED BY <1>2, <1>3, <1>4

\* A statement is executed.
LEMMA ExecWrites ==
  ASSUME AInv, TInv, NEW r \in Reqs, Exec(r), UNCHANGED used
  PROVE  TInv'
<1> DEFINE p == req[r]
           u == Seen(db, p.view, p.locks)
           s == Head(p.todo)
           w == After(u, s)
           K == p.locks \cup Locks(s)
           v == Seen(Empty, w, K)
           t == Tail(p.todo)
           n == [p EXCEPT !.todo = t, !.locks = K, !.view = v]
<1>0. DOMAIN p = Fields BY DEF AInv, Requests, Good
<1>1. /\ p.at = "exec" /\ p.todo # <<>> /\ Go(r, n) /\ UNCHANGED db
      /\ Locks(s) \cap UNION {req[x].locks : x \in Reqs \ {r}} = {}
  BY DEF Exec, Locked
<1>2. Typed(p) /\ Looked(p) /\ OwnWrites(db, p) /\ db \in Tables
  BY <1>1 DEF TInv, Typing, AllLooked, Writing
<1>3. /\ Called(p) /\ p.todo \in Seq(Writes(p)) /\ p.lost \in BOOLEAN /\ p.view \in Tables
      /\ p.locks \subseteq LockNames
  BY <1>1, <1>2 DEF Typed
<1>4. \A x \in Reqs \ {r} : p.locks \cap req[x].locks = {} BY DEF TInv, Isolated
<1>5. p.op = "CreateQun" => p.qun \in Quns BY <1>1 DEF TInv, QunsMade, Creates
<1>6. p.op = "AddContact" => <<p.uid, p.peer>> \in Contacts BY <1>1, <1>2 DEF Looked, Resting
<1>7. s \in Writes(p) /\ t \in Seq(Writes(p)) BY <1>1, <1>3, FirstAndRest
<1>8. OwnMembers(db, u, p) /\ OwnGroups(db, u, p) /\ OwnContacts(db, u, p) /\ StillToWrite(db, u, p)
  BY <1>2 DEF OwnWrites
<1>9. \A x \in Reqs \ {r} : K \cap req[x].locks = {} BY <1>1, <1>4
<1>10. n = [p EXCEPT !.todo = t, !.locks = K, !.view = v] OBVIOUS
<1>11. u \in Tables BY <1>2, <1>3, SeenTables
<1>12. Sound(s) /\ Locks(s) \subseteq LockNames /\ p.op \notin Pushes BY <1>3, <1>7, WrittenSound
<1>13. v \in Tables /\ Seen(db, v, K) = w BY <1>2, <1>3, <1>12, ExecSees
<1>14. OwnMembers(db, w, p) BY <1>2, <1>7, <1>8, <1>11, MembersWritten
<1>15. OwnGroups(db, w, p) BY <1>2, <1>3, <1>7, <1>8, <1>11, GroupsWritten
<1>16. OwnContacts(db, w, p)
  <2>1. p.op = "AddContact" => u.star = db.star BY <1>1, <1>8 DEF StillToWrite
  <2> QED BY <1>2, <1>7, <1>8, <1>11, <2>1, ContactsWritten
<1>17. K \subseteq LockNames BY <1>3, <1>12
<1> HIDE DEF n, v, K
<1>18. But(n, p, {"todo", "locks", "view"}) /\ n.todo = t /\ n.locks = K /\ n.view = v
  <2> DEFINE F == Fields
  <2>1. F = {"op", "at", "ret", "user", "uid", "peer", "qun", "topic", "list", "todo", "locks",
             "view", "names", "reached", "were", "stayed", "lost"}
    BY FieldNames
  <2> HIDE DEF F, p, t
  <2>2. DOMAIN p = F BY <1>0 DEF F
  <2> QED BY <1>10, <2>1, <2>2 DEF But, F
<1>19. n.op = p.op /\ n.at = p.at /\ SameCall(n, p) /\ n.lost = p.lost
  BY <1>18, FieldNames DEF But, SameCall
<1>20. StillToWrite(db, w, n)
  BY <1>1, <1>2, <1>3, <1>5, <1>8, <1>11, <1>18, <1>19, LessToWrite
<1> HIDE DEF p, w, t, s, u
<1>21. Typed(n)
  <2>1. n.lost \in BOOLEAN BY <1>3, <1>19, Zenon
  <2>2. n.todo \in Seq(Writes(n)) BY <1>7, <1>18, <1>19, SameWrites
  <2>3. Called(n) BY <1>3, <1>19 DEF Called, SameCall
  <2> QED BY <1>1, <1>13, <1>17, <1>18, <1>19, <2>1, <2>2, <2>3 DEF Typed, Labels
<1>22. Looked(n)
  <2>1. n.lost = p.lost BY <1>19
  <2> QED BY <1>1, <1>2, <1>19, <2>1 DEF Looked, Checked, SameCall, MayRemove, isStar
<1>23. OwnWrites(db, n)
  <2>1. OwnMembers(db, w, n) /\ OwnGroups(db, w, n) /\ OwnContacts(db, w, n)
    BY <1>14, <1>15, <1>16, <1>19, OwnSame
  <2> QED BY <1>13, <1>18, <1>20, <2>1 DEF OwnWrites
<1>24. Creates(n) => Creates(p) /\ n.qun = p.qun BY <1>19 DEF Creates, SameCall
<1>25. Creates(n) => \A x \in Reqs \ {r} : Creates(req[x]) => req[x].qun # n.qun
  BY <1>24 DEF TInv, QunsMade, p
<1>26. Receives(n) BY <1>12, <1>19, NoPush
<1>27. n.at = "exec" /\ \A x \in Reqs \ {r} : n.locks \cap req[x].locks = {}
  BY <1>1, <1>9, <1>18, <1>19
<1>28. Suits(r, n) BY <1>21, <1>22, <1>23, <1>25, <1>26, <1>27 DEF Suits
<1>29. UNCHANGED <<db, used>> BY <1>1
<1> QED BY <1>1, <1>24, <1>28, <1>29, GoKeeps DEF p

-----------------------------------------------------------------------------
(* What others are told by history when the tables change. *)

\* A push to a group is told who was a member ...
LEMMA WitnessPush ==
  ASSUME NEW q, DOMAIN q = Fields, NEW t, NEW k, k = Witness(q, t), q.op = "PushQun", q.qun # NoQun
  PROVE  But(k, q, {"were", "stayed"})
<1> DEFINE v == q.were \cup MembersOf(t, q.qun)
           w == q.stayed \cap MembersOf(t, q.qun)
           h == [q EXCEPT !.were = v]
           n == [h EXCEPT !.stayed = w]
<1>1. k = n BY DEF Witness
<1> HIDE DEF v, w
<1>2. But(h, q, {"were"}) BY ButWhat, Zenon
<1>3. DOMAIN h = Fields BY <1>2 DEF But
<1> HIDE DEF h
<1>4. But(n, h, {"stayed"}) BY <1>3, ButWhat, Zenon
<1> HIDE DEF n
<1> QED BY <1>1, <1>2, <1>4 DEF But

\* ... at some time, and all the time.
LEMMA WitnessWho ==
  ASSUME NEW q, DOMAIN q = Fields, NEW t, NEW k, k = Witness(q, t), q.op = "PushQun", q.qun # NoQun
  PROVE  /\ k.were = q.were \cup MembersOf(t, q.qun)
         /\ k.stayed = q.stayed \cap MembersOf(t, q.qun)
<1> DEFINE v == q.were \cup MembersOf(t, q.qun)
           w == q.stayed \cap MembersOf(t, q.qun)
<1>1. k = [q EXCEPT !.were = v, !.stayed = w] BY DEF Witness
<1> HIDE DEF v, w
<1>2. {"were", "stayed"} \subseteq DOMAIN q BY FieldNames
<1>3. k.were = v /\ k.stayed = w BY <1>1, <1>2
<1> QED BY <1>3 DEF v, w

\* One that adds a contact is told that contacts have changed ...
LEMMA WitnessAdd ==
  ASSUME NEW q, DOMAIN q = Fields, NEW t, NEW k, k = Witness(q, t), q.lost \in BOOLEAN,
         q.op = "AddContact", q.at \in {"begin", "exec"}
  PROVE  But(k, q, {"were", "stayed", "lost"}) /\ k.lost \in BOOLEAN
<1> DEFINE b == q.lost \/ t.star # db.star
<1>1. k = [q EXCEPT !.lost = b] BY DEF Witness
<1>2. b \in BOOLEAN OBVIOUS
<1> HIDE DEF b
<1>3. But(k, q, {"lost"}) /\ k.lost = b BY <1>1, ButLost
<1>4. But(k, q, {"were", "stayed", "lost"}) BY <1>3 DEF But
<1>5. k.lost \in BOOLEAN BY <1>2, <1>3, Zenon
<1> QED BY <1>4, <1>5

\* ... if they have.
LEMMA WitnessLost ==
  ASSUME NEW q, DOMAIN q = Fields, NEW t, NEW k, k = Witness(q, t), q.lost \in BOOLEAN,
         q.op = "AddContact", q.at \in {"begin", "exec"}
  PROVE  k.lost \/ (~q.lost /\ t.star = db.star)
<1> DEFINE b == q.lost \/ t.star # db.star
<1>1. k = [q EXCEPT !.lost = b] BY DEF Witness
<1>2. b \/ (~q.lost /\ t.star = db.star) OBVIOUS
<1> HIDE DEF b
<1>3. But(k, q, {"lost"}) /\ k.lost = b BY <1>1, ButLost
<1> QED BY <1>2, <1>3, Zenon

\* Others are told nothing.
LEMMA WitnessNone ==
  ASSUME NEW q, DOMAIN q = Fields, NEW t, NEW k, k = Witness(q, t),
         ~(q.op = "PushQun" /\ q.qun # NoQun), ~(q.op = "AddContact" /\ q.at \in {"begin", "exec"})
  PROVE  k = q
BY DEF Witness

\* What they are does not change.
LEMMA WitnessBut ==
  ASSUME NEW q, DOMAIN q = Fields, q.lost \in BOOLEAN, NEW t, NEW k, k = Witness(q, t)
  PROVE  But(k, q, {"were", "stayed", "lost"}) /\ k.lost \in BOOLEAN
<1>1. CASE q.op = "PushQun" /\ q.qun # NoQun
  <2>1. But(k, q, {"were", "stayed"}) BY <1>1, WitnessPush
  <2>2. k.lost = q.lost BY <2>1, FieldNames DEF But
  <2>3. k.lost \in BOOLEAN BY <2>2, Zenon
  <2>4. But(k, q, {"were", "stayed", "lost"}) BY <2>1 DEF But
  <2> QED BY <2>3, <2>4
<1>2. CASE q.op = "AddContact" /\ q.at \in {"begin", "exec"} BY <1>2, WitnessAdd
<1>3. CASE ~(q.op = "PushQun" /\ q.qun # NoQun) /\ ~(q.op = "AddContact" /\ q.at \in {"begin", "exec"})
  <2>1. k = q BY <1>3, WitnessNone
  <2>2. But(k, q, {"were", "stayed", "lost"}) BY <2>1 DEF But
  <2>3. k.lost \in BOOLEAN BY <2>1, Zenon
  <2> QED BY <2>2, <2>3
<1> QED BY <1>1, <1>2, <1>3

\* A push goes on with who was to be told so far.
LEMMA WitnessReceives ==
  ASSUME NEW q, DOMAIN q = Fields, q.lost \in BOOLEAN, NEW k, k = Witness(q, db'), Receives(q)
  PROVE  Receives(k)'
<1>1. CASE q.op = "PushQun" /\ q.qun # NoQun
  <2>1. But(k, q, {"were", "stayed"}) BY <1>1, WitnessPush
  <2>2. /\ k.were = q.were \cup MembersOf(db', q.qun) /\ k.stayed = q.stayed \cap MembersOf(db', q.qun)
    BY <1>1, WitnessWho
  <2>3. k.lost = q.lost BY <2>1, FieldNames DEF But
  <2>4. /\ k.op = q.op /\ k.at = q.at /\ k.reached = q.reached /\ k.ret = q.ret /\ k.names = q.names
        /\ k.qun = q.qun
    BY <2>1, FieldNames DEF But
  <2>5. k.op \in Pushes => Due(k)' = MembersOf(db', q.qun) BY <1>1, <2>4 DEF Due
  <2> QED BY <2>2, <2>3, <2>4, <2>5 DEF Receives
<1>2. CASE q.op = "AddContact" /\ q.at \in {"begin", "exec"}
  <2>1. k.op = q.op BY <1>2, WitnessAdd, FieldNames DEF But
  <2> QED BY <1>2, <2>1 DEF Receives, Pushes
<1>3. CASE ~(q.op = "PushQun" /\ q.qun # NoQun) /\ ~(q.op = "AddContact" /\ q.at \in {"begin", "exec"})
  <2>1. k = q BY <1>3, WitnessNone
  <2>2. Due(k)' = Due(q)
    <3>1. q.op = "PushQun" => q.qun \notin Quns BY <1>3, TablesAssumption
    <3> QED BY <2>1, <3>1 DEF Due, MembersOf
  <2> QED BY <2>1, <2>2 DEF Receives
<1> QED BY <1>1, <1>2, <1>3

-----------------------------------------------------------------------------
(* A transaction is committed. *)

\* What request r makes of the tables.
Commits(r, t) ==
  /\ req[r].at = "exec" /\ t \in Tables /\ Within(db, t, req[r].locks)
  /\ OwnMembers(db, t, req[r]) /\ OwnGroups(db, t, req[r]) /\ OwnContacts(db, t, req[r])
  /\ t # db /\ req[r].op = "CreateQun" =>
       /\ t.qun[req[r].qun] # NoQun
       /\ \A u \in Founders(req[r]) : t.member[req[r].qun][u] # 0

\* It commits what it has written, or nothing.
LEMMA CommitIs ==
  ASSUME TInv, NEW r \in Reqs, NEW ok, NEW failed, Commit(r, ok, failed)
  PROVE  Commits(r, db')
<1> DEFINE p == req[r]
           w == Seen(db, p.view, p.locks)
<1>1. p.at = "exec" /\ p.todo = <<>> BY DEF Commit
<1>2. db' = w \/ db' = db BY DEF Commit
<1>3. Typed(p) /\ OwnWrites(db, p) /\ db \in Tables BY <1>1 DEF TInv, Typing, Writing
<1>4. CASE db' = w
  <2>1. w \in Tables /\ Within(db, w, p.locks) BY <1>3, SeenTables DEF Typed
  <2>2. OwnMembers(db, w, p) /\ OwnGroups(db, w, p) /\ OwnContacts(db, w, p) /\ StillToWrite(db, w, p)
    BY <1>3 DEF OwnWrites
  <2>3. \A s : ~Pending(s, p) BY <1>1 DEF Pending
  <2> HIDE DEF w, p
  <2>4. p.op = "CreateQun" => /\ w.qun[p.qun] # NoQun
                              /\ \A u \in Founders(p) : w.member[p.qun][u] # 0
    BY <2>2, <2>3 DEF StillToWrite
  <2> QED BY <1>1, <1>4, <2>1, <2>2, <2>4 DEF Commits, p
<1>5. CASE db' = db
  <2>1. OwnMembers(db, db, p) /\ OwnGroups(db, db, p) BY DEF OwnMembers, OwnGroups
  <2>2. OwnContacts(db, db, p)
    <3>1. db.star \in [Contacts -> Nat] BY <1>3, TablesAre
    <3> QED BY <3>1 DEF OwnContacts
  <2>3. Within(db, db, p.locks) BY DEF Within
  <2> QED BY <1>1, <1>3, <1>5, <2>1, <2>2, <2>3 DEF Commits
<1> QED BY <1>2, <1>4, <1>5

\* A group is there for good, and with it its creator ...
LEMMA GroupsStay ==
  ASSUME TInv, NEW r \in Reqs, NEW t, Commits(r, t), NEW g \in Quns, db.qun[g] # NoQun
  PROVE  t.qun[g] # NoQun /\ t.qun[g].creator = db.qun[g].creator
<1>1. CASE t.qun[g] = db.qun[g] BY <1>1
<1>2. CASE t.qun[g] # db.qun[g]
  <2>1. g = req[r].qun /\ req[r].op # "CreateQun"
    <3>1. g = req[r].qun BY <1>2 DEF Commits, OwnGroups
    <3>2. Creates(req[r]) => db.qun[req[r].qun] = NoQun BY DEF TInv, QunsMade
    <3> QED BY <3>1, <3>2 DEF Creates, Commits
  <2> QED BY <1>2, <2>1 DEF Commits, OwnGroups
<1> QED BY <1>1, <1>2

\* ... once it was created, by the request it was for.
LEMMA GroupsCome ==
  ASSUME NEW r \in Reqs, NEW t, Commits(r, t), NEW g \in Quns, db.qun[g] = NoQun, t.qun[g] # NoQun
  PROVE  req[r].op = "CreateQun" /\ g = req[r].qun /\ Creates(req[r]) /\ t # db
BY DEF Commits, OwnGroups, Creates

\* It comes with its members, and these only with it.
LEMMA MembersCome ==
  ASSUME TInv, NEW r \in Reqs, NEW t, Commits(r, t), NEW g \in Quns, db.qun[g] = NoQun,
         NEW u \in Users
  PROVE  t.member[g][u] # 0 <=> t.qun[g] # NoQun /\ u \in Founders(req[r])
<1> DEFINE p == req[r]
<1>1. db.member[g][u] = 0 BY DEF TInv, QunsMade
<1>2. Looked(p) /\ p.at = "exec" BY DEF TInv, AllLooked, Commits
<1>3. p.op = "AddQunMember" /\ g = p.qun => FALSE BY <1>2 DEF Looked, Checked, Found
<1>4. ASSUME t.member[g][u] # 0 PROVE t.qun[g] # NoQun /\ u \in Founders(p)
  <2>1. g = p.qun /\ p.op = "CreateQun" /\ u \in Founders(p)
    BY <1>1, <1>3, <1>4 DEF Commits, OwnMembers
  <2>2. t # db BY <1>1, <1>4
  <2> QED BY <2>1, <2>2 DEF Commits
<1>5. ASSUME t.qun[g] # NoQun, u \in Founders(p) PROVE t.member[g][u] # 0
  <2>1. p.op = "CreateQun" /\ g = p.qun /\ t # db BY <1>5, GroupsCome
  <2> QED BY <1>5, <2>1 DEF Commits
<1> QED BY <1>4, <1>5

\* What another transaction has written stays its own.
LEMMA OthersWrites ==
  ASSUME TInv, NEW r \in Reqs, NEW t, Commits(r, t), NEW x \in Reqs \ {r}, req[x].at = "exec"
  PROVE  OwnWrites(t, req[x])
<1> DEFINE q == req[x]
           w == Seen(db, q.view, q.locks)
           y == Seen(t, q.view, q.locks)
<1>1. q.locks \cap req[r].locks = {} BY DEF TInv, Isolated
<1>2. Typed(q) /\ OwnWrites(db, q) /\ db \in Tables BY DEF TInv, Typing, Writing
<1>3. q.view \in Tables /\ Called(q) BY <1>2 DEF Typed
<1>4. Within(db, t, req[r].locks) BY DEF Commits
<1>5. /\ \A g \in Quns : \/ t.qun[g] = db.qun[g] /\ y.qun[g] = w.qun[g]
                         \/ y.qun[g] = t.qun[g] /\ w.qun[g] = db.qun[g]
      /\ \/ t.member = db.member /\ y.member = w.member
         \/ y.member = t.member /\ w.member = db.member
      /\ \/ t.star = db.star /\ y.star = w.star
         \/ y.star = t.star /\ w.star = db.star
  BY <1>1, <1>2, <1>3, <1>4, OthersCommit
<1>6. OwnMembers(db, w, q) /\ OwnGroups(db, w, q) /\ OwnContacts(db, w, q) /\ StillToWrite(db, w, q)
  BY <1>2 DEF OwnWrites
<1>7. Creates(q) => q.qun \in Quns /\ db.qun[q.qun] = NoQun /\ \A u \in Users : db.member[q.qun][u] = 0
  BY DEF TInv, QunsMade
<1>8. q.op = "CreateQun" => Creates(q) BY DEF Creates
<1>9. t.star \in [Contacts -> Nat] BY TablesAre DEF Commits
<1>10. Founders(q) \subseteq Users BY <1>3 DEF Founders, Listed, Called
<1> HIDE DEF w, y, q
<1>11. OwnMembers(t, y, q)
  <2>1. CASE t.member = db.member /\ y.member = w.member BY <1>6, <2>1 DEF OwnMembers
  <2>2. CASE y.member = t.member BY <2>2 DEF OwnMembers
  <2> QED BY <1>5, <2>1, <2>2
<1>12. OwnGroups(t, y, q)
  <2> SUFFICES ASSUME NEW g \in Quns, y.qun[g] # t.qun[g]
               PROVE  /\ g = q.qun
                      /\ \/ q.op = "CreateQun"
                         \/ /\ q.op = "UpdateQunTopicById" /\ t.qun[g] # NoQun /\ y.qun[g] # NoQun
                            /\ y.qun[g].creator = t.qun[g].creator
    BY DEF OwnGroups
  <2>1. t.qun[g] = db.qun[g] /\ y.qun[g] = w.qun[g] BY <1>5
  <2> QED BY <1>6, <2>1 DEF OwnGroups
<1>13. OwnContacts(t, y, q)
  <2>1. CASE t.star = db.star /\ y.star = w.star BY <1>6, <2>1 DEF OwnContacts
  <2>2. CASE y.star = t.star BY <1>9, <2>2 DEF OwnContacts
  <2> QED BY <1>5, <2>1, <2>2
<1>14. StillToWrite(t, y, q)
  <2>1. q.op = "AddContact" => q.todo = <<>> \/ (q.todo = createContact(q) /\ y.star = t.star)
    BY <1>5, <1>6 DEF StillToWrite
  <2>2. ASSUME q.op = "CreateQun"
        PROVE  /\ y.qun[q.qun] # NoQun \/ Pending(InsertQun(q), q)
               /\ \A u \in Founders(q) : y.member[q.qun][u] # 0 \/ Pending(InsertQunUser(q.qun, u), q)
    <3>1. q.qun \in Quns /\ db.qun[q.qun] = NoQun /\ \A u \in Users : db.member[q.qun][u] = 0
      BY <1>7, <1>8, <2>2
    <3>2. /\ w.qun[q.qun] # NoQun \/ Pending(InsertQun(q), q)
          /\ \A u \in Founders(q) : w.member[q.qun][u] # 0 \/ Pending(InsertQunUser(q.qun, u), q)
      BY <1>6, <2>2 DEF StillToWrite
    <3>3. y.qun[q.qun] # NoQun \/ Pending(InsertQun(q), q) BY <1>5, <3>1, <3>2
    <3>4. ASSUME NEW u \in Founders(q)
          PROVE  y.member[q.qun][u] # 0 \/ Pending(InsertQunUser(q.qun, u), q)
      BY <1>5, <1>10, <3>1, <3>2
    <3> QED BY <3>3, <3>4
  <2> QED BY <2>1, <2>2 DEF StillToWrite
<1> QED BY <1>11, <1>12, <1>13, <1>14 DEF OwnWrites, y, q

\* Another request is as it was, but for what history tells it ...
LEMMA OtherIs ==
  ASSUME AInv, TInv, NEW x \in Reqs, NEW k, k = Witness(req[x], db')
  PROVE  But(k, req[x], {"were", "stayed", "lost"}) /\ k.lost \in BOOLEAN
<1> DEFINE q == req[x]
<1>1. DOMAIN q = Fields BY DEF AInv, Requests, Good
<1>2. q.lost \in BOOLEAN BY DEF TInv, Typing, Typed
<1>3. k = Witness(q, db') OBVIOUS
<1> HIDE DEF q
<1>4. But(k, q, {"were", "stayed", "lost"}) /\ k.lost \in BOOLEAN BY <1>1, <1>2, <1>3, WitnessBut
<1> QED BY <1>4 DEF q

\* ... which is none of these.
LEMMA OtherSame ==
  ASSUME AInv, TInv, NEW x \in Reqs, NEW k, k = Witness(req[x], db')
  PROVE  /\ k.op = req[x].op /\ k.at = req[x].at /\ k.locks = req[x].locks /\ k.view = req[x].view
         /\ k.todo = req[x].todo /\ SameCall(k, req[x])
BY OtherIs, FieldNames DEF But, SameCall

\* It keeps its types ...
LEMMA OtherTyped ==
  ASSUME AInv, TInv, NEW x \in Reqs, NEW k, k = Witness(req[x], db')
  PROVE  Typed(k)
<1>1. Typed(req[x]) BY DEF TInv, Typing
<1>2. k.lost \in BOOLEAN BY OtherIs
<1>3. /\ k.op = req[x].op /\ k.at = req[x].at /\ k.locks = req[x].locks /\ k.view = req[x].view
      /\ k.todo = req[x].todo /\ SameCall(k, req[x])
  BY OtherSame
<1>4. Called(k) BY <1>1, <1>3 DEF Typed, Called, SameCall
<1>5. Writes(k) = Writes(req[x]) BY <1>3, SameWrites
<1> QED BY <1>1, <1>2, <1>3, <1>4, <1>5 DEF Typed

\* ... what it wrote ...
LEMMA OtherWrote ==
  ASSUME AInv, TInv, NEW r \in Reqs, Commits(r, db'), NEW x \in Reqs \ {r}, NEW k,
         k = Witness(req[x], db'), k.at = "exec"
  PROVE  OwnWrites(db', k)
<1> DEFINE q == req[x]
           y == Seen(db', q.view, q.locks)
<1>1. /\ k.op = q.op /\ k.at = q.at /\ k.locks = q.locks /\ k.view = q.view
      /\ k.todo = q.todo /\ SameCall(k, q)
  BY OtherSame
<1>2. OwnWrites(db', q)
  <2> DEFINE t == db'
  <2>1. Commits(r, t) OBVIOUS
  <2> HIDE DEF t
  <2>2. OwnWrites(t, q) BY <1>1, <2>1, OthersWrites
  <2> QED BY <2>2 DEF t
<1>3. OwnMembers(db', y, q) /\ OwnGroups(db', y, q) /\ OwnContacts(db', y, q)
      /\ StillToWrite(db', y, q)
  BY <1>2 DEF OwnWrites
<1>4. OwnMembers(db', y, k) /\ OwnGroups(db', y, k) /\ OwnContacts(db', y, k)
  BY <1>1, <1>3, OwnSame
<1>5. StillToWrite(db', y, k)
  <2>1. /\ Founders(k) = Founders(q) /\ InsertQun(k) = InsertQun(q) /\ k.qun = q.qun
        /\ createContact(k) = createContact(q)
    BY <1>1, SameWrites DEF SameCall
  <2>2. \A s : Pending(s, q) => Pending(s, k) BY <1>1 DEF Pending
  <2> HIDE DEF q, y
  <2> QED BY <1>1, <1>3, <2>1, <2>2 DEF StillToWrite
<1>6. Seen(db', k.view, k.locks) = y BY <1>1
<1> HIDE DEF y
<1> QED BY <1>4, <1>5, <1>6 DEF OwnWrites

\* ... and what it has looked up.
LEMMA OtherLooked ==
  ASSUME AInv, TInv, NEW r \in Reqs, Commits(r, db'), NEW x \in Reqs, NEW k,
         k = Witness(req[x], db')
  PROVE  Looked(k)'
<1> DEFINE q == req[x]
<1>0. Looked(q) /\ Called(q) BY DEF TInv, AllLooked, Typing, Typed
<1>1. /\ k.op = q.op /\ k.at = q.at /\ SameCall(k, q) BY OtherSame
<1>2. k' = k OBVIOUS
<1>3. \A g \in Quns : db.qun[g] # NoQun =>
        db'.qun[g] # NoQun /\ db'.qun[g].creator = db.qun[g].creator
  <2> DEFINE t == db'
  <2>1. Commits(r, t) OBVIOUS
  <2> HIDE DEF t
  <2>2. \A g \in Quns : db.qun[g] # NoQun => t.qun[g] # NoQun /\ t.qun[g].creator = db.qun[g].creator
    BY <2>1, GroupsStay
  <2> QED BY <2>2 DEF t
<1>4. q.op = "AddContact" /\ q.at \in {"begin", "exec"} => k.lost \/ (~q.lost /\ db'.star = db.star)
  <2>1. DOMAIN q = Fields BY DEF AInv, Requests, Good
  <2>2. q.lost \in BOOLEAN BY DEF TInv, Typing, Typed
  <2>3. k = Witness(q, db') OBVIOUS
  <2> HIDE DEF q
  <2> QED BY <2>1, <2>2, <2>3, WitnessLost
<1> HIDE DEF q
<1>5. k.op = "AddContact" /\ k.at \notin Resting => <<k.uid, k.peer>> \in Contacts
  BY <1>0, <1>1 DEF Looked, SameCall
<1>6. ASSUME k.at \in {"begin", "exec"} PROVE Checked(k)'
  <2>1. Checked(q) BY <1>0, <1>1, <1>6 DEF Looked
  <2>2. k.op = "AddQunMember" => Found(k.qun)'
    BY <1>1, <1>3, <2>1 DEF Checked, Found, SameCall
  <2>3. k.op = "DelQunMember" => MayRemove(k)'
    BY <1>1, <1>3, <2>1 DEF Checked, MayRemove, Found, SameCall
  <2>4. k.op = "AddContact" => k.lost \/ ~isStar(k)'
    BY <1>1, <1>4, <1>6, <2>1 DEF Checked, isStar, SameCall
  <2> QED BY <2>2, <2>3, <2>4 DEF Checked
<1> QED BY <1>5, <1>6 DEF Looked

\* The groups after it.
LEMMA CommitMakes ==
  ASSUME TInv, NEW r \in Reqs, Commits(r, db'), UNCHANGED used,
         \A x \in Reqs : Creates(req'[x]) => x # r /\ Creates(req[x]) /\ req'[x].qun = req[x].qun
  PROVE  QunsMade'
<1> DEFINE t == db'
<1>0. Commits(r, t) OBVIOUS
<1> HIDE DEF t
<1>1. used \subseteq Quns BY DEF TInv, QunsMade
<1>2. ASSUME NEW g \in Quns, t.qun[g] # NoQun PROVE g \in used
  <2>1. CASE db.qun[g] # NoQun BY <2>1 DEF TInv, QunsMade
  <2>2. CASE db.qun[g] = NoQun
    <3>1. g = req[r].qun /\ Creates(req[r]) BY <1>0, <1>2, <2>2, GroupsCome
    <3> QED BY <3>1 DEF TInv, QunsMade
  <2> QED BY <2>1, <2>2
<1>3. ASSUME NEW g \in Quns, t.qun[g] = NoQun, NEW u \in Users PROVE t.member[g][u] = 0
  <2>1. db.qun[g] = NoQun BY <1>0, <1>3, GroupsStay
  <2> QED BY <1>0, <1>3, <2>1, MembersCome
<1>4. ASSUME NEW x \in Reqs, Creates(req'[x])
      PROVE  /\ req'[x].qun \in used /\ t.qun[req'[x].qun] = NoQun
             /\ \A y \in Reqs : Creates(req'[y]) /\ req'[y].qun = req'[x].qun => y = x
  <2> DEFINE g == req'[x].qun
  <2>1. x # r /\ Creates(req[x]) /\ g = req[x].qun BY <1>4
  <2>2. g \in used /\ db.qun[g] = NoQun /\ g \in Quns
        /\ \A y \in Reqs : Creates(req[y]) /\ req[y].qun = g => y = x
    BY <2>1 DEF TInv, QunsMade
  <2>3. t.qun[g] = NoQun
    <3> HIDE DEF g
    <3> SUFFICES ASSUME t.qun[g] # NoQun PROVE FALSE OBVIOUS
    <3>1. g = req[r].qun /\ Creates(req[r]) BY <1>0, <2>2, GroupsCome
    <3> QED BY <2>1, <2>2, <3>1
  <2> QED BY <2>2, <2>3
<1>5. used' = used OBVIOUS
<1> QED BY <1>1, <1>2, <1>3, <1>4, <1>5 DEF QunsMade, t

\* A transaction is committed.
LEMMA CommitWrites ==
  ASSUME AInv, TInv, NEW r \in Reqs, NEW ok, NEW failed, Commit(r, ok, failed),
         Ending(req[r], ok), Ending(req[r], failed), UNCHANGED used
  PROVE  TInv'
<1>0. Ready BY DEF Ready, TInv
<1>1. PICK done \in BOOLEAN, told \in BOOLEAN :
        req' = [x \in Reqs |->
                 IF x # r THEN Witness(req[x], db')
                 ELSE [(IF told THEN ok ELSE failed) EXCEPT !.locks = {}, !.view = Empty]]
  BY DEF Commit
<1> DEFINE f == IF told THEN ok ELSE failed
           n == [f EXCEPT !.locks = {}, !.view = Empty]
<1>2. Turn(req[r], n) /\ n.at \in Resting \cup {"members", "self"} /\ n.op \notin Pushes
  <2>1. Ending(req[r], f) OBVIOUS
  <2> HIDE DEF f
  <2> QED BY <1>0, <2>1, Cleared
<1>3. /\ req'[r] = n /\ \A x \in Reqs \ {r} : req'[x] = Witness(req[x], db') BY <1>1
<1> HIDE DEF n
<1>4. Commits(r, db') BY CommitIs
<1>5. ASSUME NEW x \in Reqs \ {r}
      PROVE  /\ req'[x].op = req[x].op /\ req'[x].at = req[x].at /\ req'[x].locks = req[x].locks
             /\ req'[x].view = req[x].view /\ SameCall(req'[x], req[x])
  <2> DEFINE k == req'[x]
  <2>1. k = Witness(req[x], db') BY <1>3
  <2> HIDE DEF k
  <2>2. /\ k.op = req[x].op /\ k.at = req[x].at /\ k.locks = req[x].locks /\ k.view = req[x].view
        /\ SameCall(k, req[x])
    BY <2>1, OtherSame
  <2> QED BY <2>2 DEF k
<1>6. Typing'
  <2>1. ASSUME NEW x \in Reqs \ {r} PROVE Typed(req'[x])
    <3> DEFINE k == req'[x]
    <3>1. k = Witness(req[x], db') BY <1>3
    <3> HIDE DEF k
    <3>2. Typed(k) BY <3>1, OtherTyped
    <3> QED BY <3>2 DEF k
  <2>2. Typed(n) BY <1>2, EmptyTables DEF Turn, Typed
  <2>3. db' \in Tables BY <1>4 DEF Commits
  <2>4. \A x \in Reqs : Typed(req'[x]) BY <1>3, <2>1, <2>2
  <2> QED BY <2>3, <2>4 DEF Typing
<1>7. Isolated'
  <2>1. n.locks = {} /\ n.view = Empty /\ n.at # "exec" BY <1>2 DEF Turn
  <2>2. \A x \in Reqs : req'[x].at # "exec" => req'[x].locks = {} /\ req'[x].view = Empty
    BY <1>3, <1>5, <2>1 DEF TInv, Isolated
  <2>3. \A x, y \in Reqs : x # y => req'[x].locks \cap req'[y].locks = {}
    BY <1>3, <1>5, <2>1 DEF TInv, Isolated
  <2> QED BY <2>2, <2>3 DEF Isolated
<1>8. Writing'
  <2>1. ASSUME NEW x \in Reqs \ {r}, req'[x].at = "exec" PROVE OwnWrites(db', req'[x])
    <3> DEFINE k == req'[x]
    <3>1. k = Witness(req[x], db') /\ k.at = "exec" BY <1>3, <2>1
    <3> HIDE DEF k
    <3>2. OwnWrites(db', k) BY <1>4, <3>1, OtherWrote
    <3> QED BY <3>2 DEF k
  <2>2. req'[r].at # "exec" BY <1>2, <1>3 DEF Turn
  <2>3. \A x \in Reqs : req'[x].at = "exec" => OwnWrites(db', req'[x]) BY <2>1, <2>2
  <2> QED BY <2>3 DEF Writing
<1>9. QunsMade'
  <2>1. ASSUME NEW x \in Reqs, Creates(req'[x])
        PROVE  x # r /\ Creates(req[x]) /\ req'[x].qun = req[x].qun
    <3>1. x # r BY <1>2, <1>3, <2>1 DEF Creates, Resting
    <3>2. req'[x].op = req[x].op /\ req'[x].at = req[x].at /\ req'[x].qun = req[x].qun
      BY <1>5, <3>1 DEF SameCall
    <3> QED BY <2>1, <3>1, <3>2 DEF Creates
  <2> QED BY <1>4, <2>1, CommitMakes
<1>10. AllLooked'
  <2>1. ASSUME NEW x \in Reqs \ {r} PROVE Looked(req[x])'
    <3>1. PICK k : k = Witness(req[x], db') /\ req'[x] = k BY <1>3
    <3>2. Looked(k)' BY <1>4, <3>1, OtherLooked
    <3> QED BY <3>1, <3>2 DEF Looked, Checked, Found, MayRemove, isStar
  <2>2. Looked(req[r])'
    <3>1. n.op = "AddContact" /\ n.at \notin Resting => <<n.uid, n.peer>> \in Contacts
      <4>1. n.at \notin Resting => SameCall(n, req[r]) BY <1>2 DEF Turn
      <4>2. n.op = req[r].op BY <1>2 DEF Turn
      <4>3. req[r].at = "exec" BY <1>4 DEF Commits
      <4> QED BY <4>1, <4>2, <4>3 DEF TInv, AllLooked, Looked, Resting, SameCall
    <3>2. n.at \notin {"begin", "exec"} BY <1>2 DEF Resting
    <3> QED BY <1>3, <3>1, <3>2 DEF Looked
  <2> QED BY <2>1, <2>2 DEF AllLooked
<1>11. AllReceive'
  <2>1. ASSUME NEW x \in Reqs \ {r} PROVE Receives(req[x])'
    <3>1. PICK q : q = req[x] OBVIOUS
    <3>0. PICK k : k = Witness(q, db') /\ req'[x] = k BY <1>3, <3>1
    <3>2. DOMAIN q = Fields BY <3>1 DEF AInv, Requests, Good
    <3>3. Receives(q) BY <3>1 DEF TInv, AllReceive
    <3>4. q.lost \in BOOLEAN BY <3>1 DEF TInv, Typing, Typed
    <3>5. Receives(k)' BY <3>0, <3>2, <3>3, <3>4, WitnessReceives
    <3> QED BY <3>0, <3>5 DEF Receives, Due
  <2>2. Receives(req[r])' BY <1>2, <1>3 DEF Receives
  <2> QED BY <2>1, <2>2 DEF AllReceive
<1> QED BY <1>6, <1>7, <1>8, <1>9, <1>10, <1>11 DEF TInv

-----------------------------------------------------------------------------
(* A request arrives. *)

\* Who clients name in a call.
LEMMA NamedAre ==
  ASSUME AInv, NEW op
  PROVE  \A p \in Named(op) : p[1] \in Users /\ p[2] \in Users
<1>1. anyone \in Users BY TablesAssumption DEF anyone
<1>2. given \subseteq Users BY DEF AInv, Sessions
<1>3. Contacts \subseteq Users \X Users BY TablesAssumption
<1> HIDE DEF anyone
<1>4. Named(op) \subseteq Users \X Users BY <1>1, <1>3 DEF Named
<1> QED BY <1>4

\* A call names what there is ...
LEMMA CallsNamed ==
  ASSUME AInv, TInv, NEW op, NEW c \in Calls(op)
  PROVE  Called(c)
<1>1. PICK u, p, g, t, l : /\ u \in Senders(op) /\ p \in Named(op) /\ g \in Groups(op)
                           /\ t \in Titles(op) /\ l \in Sent(op)
                           /\ c = Call(op, u, p, g, t, l)
  BY DEF Calls
<1>2. /\ c.user = u /\ c.uid = p[1] /\ c.peer = p[2] /\ c.qun = g /\ c.topic = t /\ c.list = l
  BY <1>1 DEF Call, Blank
<1>3. u \in Users
  <2>1. anyone \in Users BY TablesAssumption DEF anyone
  <2>2. given \subseteq Users BY DEF AInv, Sessions
  <2> QED BY <1>1, <2>1, <2>2 DEF Senders
<1>4. p[1] \in Users /\ p[2] \in Users BY <1>1, NamedAre
<1>5. g \in Quns \cup {NoQun}
  <2>1. used \subseteq Quns BY DEF TInv, QunsMade
  <2> QED BY <1>1, <2>1 DEF Groups, Known
<1>6. t \in Topics
  <2>1. Blank.topic \in Topics BY BlankCalled DEF Called
  <2> QED BY <1>1, <2>1 DEF Titles
<1>7. l \in Seq(Users)
  <2>1. Lists \subseteq Seq(Users) BY AppAssumption
  <2>2. l \in Lists \/ l = <<>>
    <3>1. l \in Sent(op) BY <1>1
    <3> QED BY <3>1 DEF Sent
  <2>3. l = <<>> => l \in Seq(Users) OBVIOUS
  <2> QED BY <2>1, <2>2, <2>3
<1> QED BY <1>2, <1>3, <1>4, <1>5, <1>6, <1>7 DEF Called

\* ... is not under way ...
LEMMA CallsBlank ==
  ASSUME NEW op, NEW c \in Calls(op)
  PROVE  /\ DOMAIN c = Fields /\ c.ret = "OK" /\ c.lost = FALSE /\ c.reached = {}
         /\ c.locks = {} /\ c.view = Empty /\ c.op = op /\ c.at = Start(op)
<1>1. PICK u, p, g, t, l : c = Call(op, u, p, g, t, l) BY DEF Calls
<1> QED BY <1>1 DEF Call, Blank, Fields

\* ... and is for a new group, or about a contact that is one.
LEMMA CallsAbout ==
  ASSUME NEW op, NEW c \in Calls(op)
  PROVE  /\ op = "CreateQun" => c.qun \in Quns \ used
         /\ op = "AddContact" => <<c.uid, c.peer>> \in Contacts
<1>1. PICK u, p, g, t, l : p \in Named(op) /\ g \in Groups(op) /\ c = Call(op, u, p, g, t, l)
  BY DEF Calls
<1>2. c.uid = p[1] /\ c.peer = p[2] /\ c.qun = g BY <1>1 DEF Call, Blank
<1>3. op = "CreateQun" => g \in Quns \ used BY <1>1 DEF Groups
<1>4. op = "AddContact" => p \in Contacts BY <1>1 DEF Named
<1>5. Contacts \subseteq Users \X Users BY TablesAssumption
<1>6. op = "AddContact" => p = <<p[1], p[2]>> BY <1>4, <1>5
<1> QED BY <1>2, <1>3, <1>4, <1>6

\* A request is served.
LEMMA ArriveWrites ==
  ASSUME AInv, TInv, NEW r \in Reqs, Arrive(r)
  PROVE  TInv'
<1>1. UNCHANGED db BY DEF Arrive
<1>2. PICK op \in mix : \E q \in Calls(op) :
        /\ Go(r, [q EXCEPT !.were = Due(q), !.stayed = Due(q)])
        /\ used' = IF op = "CreateQun" THEN used \cup {q.qun} ELSE used
  BY DEF Arrive
<1>3. PICK c \in Calls(op) : /\ Go(r, [c EXCEPT !.were = Due(c), !.stayed = Due(c)])
                             /\ used' = IF op = "CreateQun" THEN used \cup {c.qun} ELSE used
  BY <1>2
<1> DEFINE d == Due(c)
           n == [c EXCEPT !.were = d, !.stayed = d]
<1>4. Go(r, n) BY <1>3
<1>5. /\ DOMAIN c = Fields /\ c.ret = "OK" /\ c.lost = FALSE /\ c.reached = {}
      /\ c.locks = {} /\ c.view = Empty /\ c.op = op /\ c.at = Start(op)
  BY CallsBlank
<1>6. Called(c) BY CallsNamed
<1>7. But(n, c, {"were", "stayed"}) /\ n.were = d /\ n.stayed = d
  <2> HIDE DEF d
  <2>1. n = [c EXCEPT !.were = d, !.stayed = d] OBVIOUS
  <2> HIDE DEF n
  <2>2. DOMAIN c = Fields BY <1>5
  <2> DEFINE F == Fields
  <2>3. F = {"op", "at", "ret", "user", "uid", "peer", "qun", "topic", "list", "todo", "locks",
             "view", "names", "reached", "were", "stayed", "lost"}
    BY FieldNames
  <2> HIDE DEF F
  <2>4. DOMAIN c = F BY <2>2 DEF F
  <2> QED BY <2>1, <2>3, <2>4 DEF But, F
<1> HIDE DEF n
<1>8. /\ n.op = op /\ n.at = Start(op) /\ n.ret = "OK" /\ n.lost = c.lost /\ n.reached = {}
      /\ n.locks = {} /\ n.view = Empty /\ SameCall(n, c)
  BY <1>5, <1>7, FieldNames DEF But, SameCall
<1>9. Start(op) \in {"application", "login", "sync", "list", "uid", "token"} BY DEF Start
<1>10. Typed(n)
  <2>1. n.lost \in BOOLEAN
    <3>1. c.lost \in BOOLEAN BY <1>5
    <3> QED BY <1>8, <3>1, Zenon
  <2>2. Called(n) BY <1>6, <1>8 DEF Called, SameCall
  <2> QED BY <1>8, <1>9, <2>1, <2>2, EmptyTables DEF Typed, Labels
<1>11. Looked(n)
  <2>1. op = "AddContact" => <<c.uid, c.peer>> \in Contacts BY CallsAbout
  <2> QED BY <1>8, <1>9, <2>1 DEF Looked, SameCall
<1>12. Receives(n)
  <2>1. Due(n) = d BY <1>5, <1>8 DEF Due, SameCall
  <2> HIDE DEF d
  <2> QED BY <1>7, <1>8, <1>9, <2>1 DEF Receives, Resting
<1>13. op = "CreateQun" => c.qun \in Quns \ used BY CallsAbout
<1>14. Creates(n) => /\ \A x \in Reqs \ {r} : Creates(req[x]) => req[x].qun # n.qun
                     /\ n.qun \in used' /\ db.qun[n.qun] = NoQun
  <2> SUFFICES ASSUME Creates(n)
               PROVE  /\ \A x \in Reqs \ {r} : Creates(req[x]) => req[x].qun # n.qun
                      /\ n.qun \in used' /\ db.qun[n.qun] = NoQun
    OBVIOUS
  <2>1. op = "CreateQun" /\ n.qun = c.qun BY <1>8 DEF Creates, SameCall
  <2> QED BY <1>3, <1>13, <2>1 DEF TInv, QunsMade
<1>15. used \subseteq used' /\ used' \subseteq Quns BY <1>3, <1>13 DEF TInv, QunsMade
<1>16. \A x \in Reqs \ {r} : n.locks \cap req[x].locks = {} BY <1>8
<1>17. n.at # "exec" BY <1>8, <1>9
<1>18. Suits(r, n) BY <1>8, <1>10, <1>11, <1>12, <1>14, <1>16, <1>17 DEF Suits
<1>19. DOMAIN req' = Reqs /\ req'[r] = n /\ \A x \in Reqs \ {r} : req'[x] = req[x]
  BY <1>4 DEF AInv, Requests, Go
<1> QED BY <1>1, <1>14, <1>15, <1>18, <1>19, OneKeeps

-----------------------------------------------------------------------------
(* All steps. *)

\* The tables at the start.
LEMMA AtFirst ==
  ASSUME Init
  PROVE  /\ db \in Tables /\ used \subseteq Quns
         /\ \A g \in Quns : db.qun[g] # NoQun => g \in used
         /\ \A g \in Quns : db.qun[g] = NoQun => \A u \in Users : db.member[g][u] = 0
<1>1. PICK roots \in BOOLEAN :
        db = [qun    |-> [g \in Quns |-> IF g \in OldQuns THEN Old ELSE NoQun],
              member |-> [g \in Quns |-> [u \in Users |-> IF g \in OldQuns THEN 1 ELSE 0]],
              star   |-> [p \in Contacts |-> 0],
              org    |-> "none",
              roots  |-> roots]
  BY DEF Init
<1>2. Old \in Group /\ Old # NoQun
  <2>1. anyone \in Users /\ (CHOOSE t \in Topics : TRUE) \in Topics BY TablesAssumption DEF anyone
  <2>2. Old \in Group BY <2>1 DEF Old, Group
  <2> QED BY <2>2, TablesAssumption
<1>3. used = OldQuns /\ OldQuns \subseteq Quns BY AppAssumption DEF Init
<1>4. db \in Tables
  <2>1. [g \in Quns |-> IF g \in OldQuns THEN Old ELSE NoQun] \in [Quns -> Group \cup {NoQun}]
    BY <1>2
  <2>2. [g \in Quns |-> [u \in Users |-> IF g \in OldQuns THEN 1 ELSE 0]] \in [Quns -> [Users -> Nat]]
    OBVIOUS
  <2>3. [p \in Contacts |-> 0] \in [Contacts -> Nat] OBVIOUS
  <2> QED BY <1>1, <2>1, <2>2, <2>3 DEF Tables
<1>5. \A g \in Quns : db.qun[g] = (IF g \in OldQuns THEN Old ELSE NoQun) BY <1>1
<1>6. \A g \in Quns, u \in Users : db.member[g][u] = (IF g \in OldQuns THEN 1 ELSE 0) BY <1>1
<1> QED BY <1>2, <1>3, <1>4, <1>5, <1>6

\* The invariant holds at the start.
LEMMA TInvInit == Init => TInv
<1> SUFFICES ASSUME Init PROVE TInv OBVIOUS
<1>1. \A r \in Reqs : req[r] = Blank BY DEF Init
<1>2. Blank.at = "idle" /\ Blank.op = "none" BY DEF Blank
<1>3. Called(Blank) /\ Blank.locks = {} /\ Blank.view = Empty /\ Blank.lost = FALSE BY BlankCalled
<1>4. Typed(Blank) BY <1>2, <1>3, EmptyTables DEF Typed, Labels, Resting
<1>5. Receives(Blank) BY <1>2 DEF Receives, Pushes
<1>6. Looked(Blank) BY <1>2 DEF Looked
<1>7. ~Creates(Blank) BY <1>2 DEF Creates
<1>8. Typing BY <1>1, <1>4, AtFirst DEF Typing
<1>9. Isolated BY <1>1, <1>3 DEF Isolated
<1>10. Writing BY <1>1, <1>2 DEF Writing
<1>11. QunsMade BY <1>1, <1>7, AtFirst DEF QunsMade
<1>12. AllLooked /\ AllReceive BY <1>1, <1>5, <1>6 DEF AllLooked, AllReceive
<1> QED BY <1>8, <1>9, <1>10, <1>11, <1>12 DEF TInv

\* Every step of a handler keeps it ...
LEMMA HandleWrites ==
  ASSUME AInv, TInv, NEW r \in Reqs, Handle(r)
  PROVE  TInv'
<1>1. Ready BY DEF Ready, TInv
<1>2. Steps(r) BY <1>1, HandleSteps
<1>3. req[r].at \notin Resting BY HandleWorks
<1>4. UNCHANGED used BY <1>2 DEF Steps
<1>5. CASE Exec(r) BY <1>4, <1>5, ExecWrites
<1>6. ASSUME NEW ok, NEW failed, Commit(r, ok, failed), Ending(req[r], ok), Ending(req[r], failed)
      PROVE  TInv'
  BY <1>4, <1>6, CommitWrites
<1>7. ASSUME UNCHANGED db, NEW q, Turns(r, q), Go(r, q) PROVE TInv'
  BY <1>3, <1>4, <1>7, TurnKeeps
<1>8. ASSUME UNCHANGED db, NEW todo, Starts(req[r], todo), Go(r, [To(r, "exec") EXCEPT !.todo = todo])
      PROVE  TInv'
  BY <1>4, <1>8, StartKeeps
<1>9. CASE /\ UNCHANGED db /\ req[r].op = "SyncOrg" /\ req[r].at = "exec" /\ req[r].todo # <<>>
           /\ Go(r, [req[r] EXCEPT !.todo = Tail(@)])
  BY <1>4, <1>9, SkipKeeps
<1> QED BY <1>2, <1>5, <1>6, <1>7, <1>8, <1>9 DEF Steps

\* ... nothing else touches what it is about ...
LEMMA QuietKeeps ==
  ASSUME TInv, UNCHANGED <<db, req, used>>
  PROVE  TInv'
<1>1. Typing' /\ Isolated' /\ Writing' /\ QunsMade' BY DEF TInv, Typing, Isolated, Writing, QunsMade
<1>2. AllLooked' BY DEF TInv, AllLooked, Looked, Checked, Found, MayRemove, isStar
<1>3. AllReceive' BY DEF TInv, AllReceive, Receives, Due
<1> QED BY <1>1, <1>2, <1>3 DEF TInv

\* ... so every step does, and so does none.
LEMMA TInvNext == AInv /\ TInv /\ [Next]_vars => TInv'
<1> SUFFICES ASSUME AInv, TInv, [Next]_vars PROVE TInv' OBVIOUS
<1>1. CASE UNCHANGED vars BY <1>1, QuietKeeps DEF vars
<1>2. ASSUME NEW u \in Users, Expire(u) PROVE TInv' BY <1>2, QuietKeeps DEF Expire
<1> QED BY <1>1, <1>2, ArriveWrites, HandleWrites DEF Next

\* The invariant holds of every behaviour.
LEMMA TInvAlways == Spec => [](AInv /\ TInv)
BY AInvInit, AInvNext, TInvInit, TInvNext, PTL DEF Spec

-----------------------------------------------------------------------------
(* The pool of connections. *)

Pool ==
  /\ IsFiniteSet(leased) /\ left \in Nat /\ Cardinality(leased) + left <= MaxConns
  /\ dead \subseteq LockNames

\* What a step may make of the pool: connections are released, one is leased where
\* there is one, or a transaction that was open is left.
Leasing ==
  /\ \A l \in dead' : l \in dead \/ \E r \in Reqs : l \in req[r].locks
  /\ \/ leased' \subseteq leased /\ left' = left
     \/ HasConn /\ left' = left /\ \E l : leased' = leased \cup {l}
     \/ left' = left + 1 /\ \E l \in leased : leased' = leased \ {l}

\* The pool keeps its limit.
LEMMA LeasingKeeps ==
  ASSUME Pool, Typing, Leasing
  PROVE  Pool'
<1>0. /\ IsFiniteSet(leased) /\ left \in Nat /\ Cardinality(leased) \in Nat /\ MaxConns \in Nat
      /\ Cardinality(leased) + left <= MaxConns
  BY FS_CardinalityType, AppAssumption DEF Pool
<1>1. dead' \subseteq LockNames BY DEF Pool, Typing, Typed, Leasing
<1>2. CASE leased' \subseteq leased /\ left' = left
  <2>1. IsFiniteSet(leased') /\ Cardinality(leased') <= Cardinality(leased)
    BY <1>0, <1>2, FS_Subset
  <2>2. Cardinality(leased') \in Nat BY <2>1, FS_CardinalityType
  <2> QED BY <1>0, <1>1, <1>2, <2>1, <2>2 DEF Pool
<1>3. ASSUME HasConn, left' = left, NEW l, leased' = leased \cup {l} PROVE Pool'
  <2>1. IsFiniteSet(leased') /\ Cardinality(leased') \in {Cardinality(leased), Cardinality(leased) + 1}
    BY <1>0, <1>3, FS_AddElement
  <2>2. Cardinality(leased) + left < MaxConns BY <1>3 DEF HasConn
  <2> QED BY <1>0, <1>1, <1>3, <2>1, <2>2 DEF Pool
<1>4. ASSUME left' = left + 1, NEW l \in leased, leased' = leased \ {l} PROVE Pool'
  <2>1. IsFiniteSet(leased') /\ Cardinality(leased') = Cardinality(leased) - 1
    BY <1>0, <1>4, FS_RemoveElement
  <2> QED BY <1>0, <1>1, <1>4, <2>1 DEF Pool
<1> QED BY <1>2, <1>3, <1>4 DEF Leasing

\* The steps the handlers are made of keep it ...
LEMMA StepsLease ==
  ASSUME NEW r \in Reqs, NEW x, NEW y, NEW z,
         \/ Read(r, x, y) \/ Transact(r, x, y, z) \/ PushOne(r) \/ Tell(r, x, y)
         \/ Keep(r, x, y) \/ Leave(r, x) \/ getUserByToken(r, x) \/ Begin(r, x, y)
         \/ Exec(r) \/ Commit(r, x, y)
  PROVE  Leasing
<1>1. ASSUME NEW ok, NEW failed, Begin(r, ok, failed) PROVE Leasing
  BY <1>1 DEF Begin, Leasing
<1>2. ASSUME NEW ok, NEW failed, Commit(r, ok, failed) PROVE Leasing
  BY <1>2 DEF Commit, Release, Leasing
<1>3. CASE Exec(r) BY <1>3 DEF Exec, Leasing, pool
<1>4. CASE Transact(r, x, y, z)
  <2>1. ASSUME NEW failed, ExecFails(r, failed) PROVE Leasing
    BY <2>1 DEF ExecFails, Rollback, Release, Leasing
  <2> QED BY <1>1, <1>2, <1>3, <1>4, <2>1 DEF Transact
<1>5. CASE getUserByToken(r, x) BY <1>5 DEF getUserByToken, Leasing, pool
<1>6. CASE Read(r, x, y) \/ PushOne(r) \/ Tell(r, x, y)
  BY <1>6 DEF Read, PushOne, Tell, Leasing, pool
<1>7. CASE Keep(r, x, y) BY <1>7 DEF Keep, Leasing
<1>8. CASE Leave(r, x)
  <2>1. dead' = dead \cup req[r].locks /\ leased' = leased \ {Tx(r)} BY <1>8 DEF Leave, Release
  <2>2. CASE Begun(r)
    <3>1. Tx(r) \in leased /\ left' = left + 1 BY <1>8, <2>2 DEF Leave, Begun
    <3> QED BY <2>1, <3>1 DEF Leasing
  <2>3. CASE ~Begun(r)
    <3>1. left' = left BY <1>8, <2>3 DEF Leave
    <3> QED BY <2>1, <3>1 DEF Leasing
  <2> QED BY <2>2, <2>3
<1> QED BY <1>1, <1>2, <1>3, <1>4, <1>5, <1>6, <1>7, <1>8

\* ... and so do the handlers.
LEMMA HandlersLease ==
  ASSUME NEW r \in Reqs, Handle(r)
  PROVE  Leasing
<1>1. CASE CreateQun(r) BY <1>1, StepsLease DEF CreateQun
<1>2. CASE UpdateQunTopicById(r) BY <1>2, StepsLease DEF UpdateQunTopicById
<1>3. CASE AddQunMember(r) BY <1>3, StepsLease DEF AddQunMember
<1>4. CASE DelQunMember(r) BY <1>4, StepsLease DEF DelQunMember
<1>5. CASE Push(r) BY <1>5, StepsLease DEF Push
<1>6. CASE UserPush(r) BY <1>6, StepsLease DEF UserPush
<1>7. CASE AddOrRemoveContact(r) BY <1>7, StepsLease DEF AddOrRemoveContact
<1>8. CASE GetOrgInfo(r)
  <2>1. \/ leased' \subseteq leased /\ left' = left /\ dead' = dead
        \/ \E x : getUserByToken(r, x) \/ \E y : Read(r, x, y) \/ Keep(r, x, y)
    BY <1>8 DEF GetOrgInfo
  <2> QED BY <2>1, StepsLease DEF Leasing
<1>9. CASE SyncOrg(r)
  <2>1. \/ UNCHANGED pool \/ Exec(r)
        \/ \E x : Leave(r, x) \/ \E y : Read(r, x, y) \/ Begin(r, x, y) \/ Commit(r, x, y)
    BY <1>9 DEF SyncOrg
  <2> QED BY <2>1, StepsLease DEF Leasing, pool
<1>10. CASE Look(r)
  BY <1>10, StepsLease DEF Look, GetUsersInQun, GetMemberByUserName, SearchUser, CheckUpdate,
                          UserErWeiMa, GetOrgUserList
<1>11. CASE Login(r)
  <2>1. UNCHANGED pool \/ \E x, y : Read(r, x, y) BY <1>11 DEF Login
  <2> QED BY <2>1, StepsLease DEF Leasing, pool
<1> QED BY <1>1, <1>2, <1>3, <1>4, <1>5, <1>6, <1>7, <1>8, <1>9, <1>10, <1>11 DEF Handle

\* At the start no connection is in use.
LEMMA PoolInit == Init => Pool
<1> SUFFICES ASSUME Init PROVE Pool OBVIOUS
<1>1. leased = {} /\ left = 0 /\ dead = {} BY DEF Init
<1>2. IsFiniteSet(leased) /\ Cardinality(leased) = 0 BY <1>1, FS_EmptySet
<1>3. MaxConns \in Nat BY AppAssumption
<1> QED BY <1>1, <1>2, <1>3 DEF Pool

\* Every step keeps it.
LEMMA PoolNext == TInv /\ Pool /\ [Next]_vars => Pool'
<1> SUFFICES ASSUME TInv, Pool, [Next]_vars PROVE Pool' OBVIOUS
<1>0. Typing BY DEF TInv
<1>1. CASE UNCHANGED vars
  <2>1. Leasing BY <1>1 DEF vars, Leasing
  <2> QED BY <1>0, <2>1, LeasingKeeps
<1>2. ASSUME NEW u \in Users, Expire(u) PROVE Pool'
  <2>1. Leasing BY <1>2 DEF Expire, pool, Leasing
  <2> QED BY <1>0, <2>1, LeasingKeeps
<1>3. ASSUME NEW r \in Reqs, Arrive(r) PROVE Pool'
  <2>1. Leasing BY <1>3 DEF Arrive, pool, Leasing
  <2> QED BY <1>0, <2>1, LeasingKeeps
<1>4. ASSUME NEW r \in Reqs, Handle(r) PROVE Pool'
  <2>1. Leasing BY <1>4, HandlersLease
  <2> QED BY <1>0, <2>1, LeasingKeeps
<1> QED BY <1>1, <1>2, <1>3, <1>4 DEF Next

-----------------------------------------------------------------------------
(* The theorems. *)

\* The tables hold rows of their types through every transaction, and the pool opens
\* no more connections than it may, those of transactions nobody will end included.
THEOREM TypesHold == Spec => []TypeOK
<1>1. AInv /\ TInv /\ Pool => TypeOK
  <2> SUFFICES ASSUME AInv, TInv, Pool PROVE TypeOK OBVIOUS
  <2>1. leased \subseteq Reqs \X {"tx", "tenant", "org"} BY DEF AInv, Leases
  <2>2. token \in [Users -> {"none", "half", "live"}] /\ given \subseteq Users BY DEF AInv, Sessions
  <2>3. DOMAIN req = Reqs BY DEF AInv, Requests
  <2>4. db \in Tables /\ \A r \in Reqs : req[r].at \in Labels /\ req[r].view \in Tables
    BY DEF TInv, Typing, Typed
  <2>5. used \subseteq Quns BY DEF TInv, QunsMade
  <2> QED BY <2>1, <2>2, <2>3, <2>4, <2>5 DEF TypeOK, Pool, LockNames
<1> QED BY <1>1, TInvAlways, PoolInit, PoolNext, PTL DEF Spec

\* A push reaches nobody who was never to be told, and when it answers OK, having
\* read who was, it has reached everyone who was to be told all along.
THEOREM PushesReach == Spec => []PushReaches
<1>1. TInv => PushReaches
  BY DEF TInv, AllReceive, Receives, PushReaches, Resting
<1> QED BY <1>1, TInvAlways, PTL

\* The tables change where a transaction is committed, and nowhere else.
LEMMA TablesChange ==
  ASSUME AInv, TInv, Next
  PROVE  UNCHANGED db \/ \E r \in Reqs : Commits(r, db')
<1>1. ASSUME NEW r \in Reqs, Handle(r) PROVE UNCHANGED db \/ Commits(r, db')
  <2>1. Steps(r) BY <1>1, HandleSteps DEF Ready, TInv
  <2>2. UNCHANGED db \/ \E ok, failed : Commit(r, ok, failed) BY <2>1 DEF Steps, Exec
  <2> QED BY <2>2, CommitIs
<1>2. ASSUME NEW r \in Reqs, Arrive(r) PROVE UNCHANGED db BY <1>2 DEF Arrive
<1>3. ASSUME NEW u \in Users, Expire(u) PROVE UNCHANGED db BY <1>3 DEF Expire
<1> QED BY <1>1, <1>2, <1>3 DEF Next

\* Nobody is in a group that was not created, and one that is comes at once with its
\* creator and those listed, and nobody else.
THEOREM CreationsWhole == Spec => CreationIsWhole
<1> DEFINE Whole == \A g \in Quns : db.qun[g] = NoQun =>
             IF db'.qun[g] = NoQun THEN MembersOf(db', g) = {}
             ELSE \E r \in Reqs :
                    LET q == req[r] IN
                    /\ q.op = "CreateQun" /\ q.qun = g
                    /\ MembersOf(db', g) = {q.uid} \cup {q.list[i] : i \in DOMAIN q.list}
<1>1. ASSUME AInv, TInv, [Next]_vars PROVE [Whole]_vars
  <2>1. CASE Next
    <3> SUFFICES ASSUME NEW g \in Quns, db.qun[g] = NoQun
                 PROVE  IF db'.qun[g] = NoQun THEN MembersOf(db', g) = {}
                        ELSE \E r \in Reqs :
                               /\ req[r].op = "CreateQun" /\ req[r].qun = g
                               /\ MembersOf(db', g) = Founders(req[r])
      BY DEF Founders, Listed
    <3>1. TInv' BY <1>1, TInvNext
    <3>2. CASE db'.qun[g] = NoQun
      <4>1. \A u \in Users : db'.member[g][u] = 0 BY <3>1, <3>2 DEF TInv, QunsMade
      <4> QED BY <3>2, <4>1 DEF MembersOf
    <3>3. CASE db'.qun[g] # NoQun
      <4>1. PICK r \in Reqs : Commits(r, db') BY <1>1, <2>1, <3>3, TablesChange
      <4> DEFINE t == db'
      <4>2. Commits(r, t) /\ t.qun[g] # NoQun BY <3>3, <4>1
      <4> HIDE DEF t
      <4>3. req[r].op = "CreateQun" /\ g = req[r].qun BY <4>2, GroupsCome
      <4>4. \A u \in Users : t.member[g][u] # 0 <=> u \in Founders(req[r])
        BY <1>1, <4>2, MembersCome
      <4>5. t.member \in [Quns -> [Users -> Nat]] BY <4>2, TablesAre DEF Commits
      <4>6. Founders(req[r]) \subseteq Users
        BY <1>1 DEF TInv, Typing, Typed, Called, Founders, Listed
      <4>7. MembersOf(t, g) = Founders(req[r]) BY <4>4, <4>5, <4>6 DEF MembersOf
      <4> QED BY <3>3, <4>3, <4>7 DEF t
    <3> QED BY <3>2, <3>3
  <2>2. CASE UNCHANGED vars BY <2>2
  <2> QED BY <1>1, <2>1, <2>2
<1> QED BY <1>1, TInvAlways, PTL DEF Spec, CreationIsWhole

\* Who leaves a group was listed in a call with the token of its creator: he is looked
\* up before the transaction, and stays what he is to its end.
THEOREM CreatorsRemove == Spec => OnlyCreatorRemoves
<1> DEFINE Own == \A g \in Quns : \A u \in MembersOf(db, g) \ MembersOf(db', g) :
             \E r \in Reqs :
               LET q == req[r] IN
               /\ q.op = "DelQunMember" /\ q.qun = g /\ q.user = db.qun[g].creator
               /\ \E i \in DOMAIN q.list : q.list[i] = u
<1>1. ASSUME AInv, TInv, [Next]_vars PROVE [Own]_vars
  <2>1. CASE Next
    <3> SUFFICES ASSUME NEW g \in Quns, NEW u \in MembersOf(db, g) \ MembersOf(db', g)
                 PROVE  \E r \in Reqs :
                          /\ req[r].op = "DelQunMember" /\ req[r].qun = g
                          /\ req[r].user = db.qun[g].creator
                          /\ \E i \in DOMAIN req[r].list : req[r].list[i] = u
      OBVIOUS
    <3>1. u \in Users /\ db.member[g][u] > 0 BY DEF MembersOf
    <3>2. PICK r \in Reqs : Commits(r, db') BY <1>1, <2>1, TablesChange
    <3> DEFINE t == db'
    <3>3. Commits(r, t) /\ u \notin MembersOf(t, g) BY <3>2
    <3> HIDE DEF t
    <3>4. t.member \in [Quns -> [Users -> Nat]] BY <3>3, TablesAre DEF Commits
    <3>5. t.member[g][u] = 0 BY <3>1, <3>3, <3>4 DEF MembersOf
    <3>6. req[r].op = "DelQunMember" /\ g = req[r].qun /\ u \in Listed(req[r])
      BY <3>1, <3>3, <3>5 DEF Commits, OwnMembers
    <3>7. MayRemove(req[r])
      BY <1>1, <3>3, <3>6 DEF TInv, AllLooked, Looked, Checked, Commits
    <3> QED BY <3>6, <3>7 DEF MayRemove, Listed
  <2>2. CASE UNCHANGED vars BY <2>2
  <2> QED BY <1>1, <2>1, <2>2
<1> QED BY <1>1, TInvAlways, PTL DEF Spec, OnlyCreatorRemoves

\* A contact has a second row only from a request whose look at the first failed, or
\* was before it was written.
THEOREM SecondContactsRace == Spec => SecondContactRaced
<1> DEFINE Raced == \A p \in Contacts :
             (db'.star[p] > db.star[p] /\ db'.star[p] > 1) =>
               \E r \in Reqs : LET q == req[r] IN
                 q.op = "AddContact" /\ q.at = "exec" /\ <<q.uid, q.peer>> = p /\ q.lost
<1>1. ASSUME AInv, TInv, [Next]_vars PROVE [Raced]_vars
  <2>1. CASE Next
    <3> SUFFICES ASSUME NEW p \in Contacts, db'.star[p] > db.star[p], db'.star[p] > 1
                 PROVE  \E r \in Reqs : /\ req[r].op = "AddContact" /\ req[r].at = "exec"
                                        /\ <<req[r].uid, req[r].peer>> = p /\ req[r].lost
      OBVIOUS
    <3>0. db.star \in [Contacts -> Nat] BY <1>1, TablesAre DEF TInv, Typing
    <3>1. db.star[p] \in Nat BY <3>0
    <3>2. db' # db BY <3>1
    <3>3. PICK r \in Reqs : Commits(r, db') BY <1>1, <2>1, <3>2, TablesChange
    <3>4. req[r].op = "AddContact" /\ p = <<req[r].uid, req[r].peer>> /\ db'.star[p] = db.star[p] + 1
      BY <3>3 DEF Commits, OwnContacts
    <3>5. isStar(req[r]) BY <3>1, <3>4 DEF isStar
    <3>6. req[r].at = "exec" BY <3>3 DEF Commits
    <3>7. req[r].lost
      BY <1>1, <3>4, <3>5, <3>6 DEF TInv, AllLooked, Looked, Checked
    <3> QED BY <3>4, <3>6, <3>7
  <2>2. CASE UNCHANGED vars BY <2>2
  <2> QED BY <1>1, <2>1, <2>2
<1> QED BY <1>1, TInvAlways, PTL DEF Spec, SecondContactRaced
=============================================================================
