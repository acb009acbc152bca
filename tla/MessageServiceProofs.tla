------------------------- MODULE MessageServiceProofs -------------------------
(***************************************************************************)
(* Theorems about MessageService, for any number of keys, requests and     *)
(* messages: with either storage the service keeps the promise of          *)
(* MessageStore.                                                           *)
(***************************************************************************)
EXTENDS MessageService, TLAPS

\* What both storages share is what the service has of it.
LEMMA Shared ==
  /\ Redis!Stored = Stored /\ Redis!Mids = Mids /\ Redis!Times = Times
  /\ MySQL!Stored = Stored /\ MySQL!Mids = Mids /\ MySQL!Times = Times
  /\ \A S : Redis!Requests(S) = Requests(S) /\ MySQL!Requests(S) = Requests(S)
  /\ \A a : Redis!Idle(a) = Idle(a) /\ MySQL!Idle(a) = Idle(a)
  /\ \A at, a : Redis!Resting(at, a) = Resting(at, a) /\ MySQL!Resting(at, a) = Resting(at, a)
  /\ \A at, k, mid, from, msgs :
       /\ Redis!Begun(at, k, mid, from, msgs) = Begun(at, k, mid, from, msgs)
       /\ MySQL!Begun(at, k, mid, from, msgs) = Begun(at, k, mid, from, msgs)
BY DEF Redis!Begun, MySQL!Begun, Begun, Redis!Stored, Redis!Mids, Redis!Times, MySQL!Stored, MySQL!Mids, MySQL!Times,
       Redis!Requests, MySQL!Requests, Requests, Stored, Mids, Times,
       Redis!Idle, MySQL!Idle, Idle, Redis!Resting, MySQL!Resting, Resting

\* And so is what all three modules have of FiniteSets.
LEMMA SharedCardinality ==
  \A S : Redis!Cardinality(S) = Cardinality(S) /\ Store!Cardinality(S) = Cardinality(S)
BY DEF Redis!Cardinality, Store!Cardinality, Cardinality

\* The last second in which a message may expire is one.
LEMMA Expiries ==
  Times \subseteq Nat /\ \A t \in 0..MaxTime, u \in Ttls : t + u \in Times
<1>1. PICK t \in Ttls : \A u \in Ttls : u <= t BY ConfAssumption
<1>2. (CHOOSE x \in Ttls : \A u \in Ttls : u <= x) \in
        {x \in Ttls : \A u \in Ttls : u <= x}
  BY <1>1
<1> DEFINE x == CHOOSE x \in Ttls : \A u \in Ttls : u <= x
<1>3. x \in Ttls /\ \A u \in Ttls : u <= x BY <1>2
<1>4. Times = 0..(MaxTime + x) BY DEF Times
<1> HIDE DEF x
<1> QED BY <1>3, <1>4, ConfAssumption

\* The second in which a message expires.
LEMMA ExpiryType == \A m \in Stored : m.expire \in Int
<1>1. Times \subseteq Nat BY Expiries
<1>2. \A m \in Stored : m.expire \in Times BY DEF Stored
<1>3. Nat \subseteq Int OBVIOUS
<1> QED BY <1>1, <1>2, <1>3, Zenon

-----------------------------------------------------------------------------
(* Redis. *)

Deletion == [key : Keys, mids : SUBSET Mids]

\* A message of a key that is in its sorted set, or that a request has read there.
Seen(k, m) ==
  \/ m \in held[k]
  \/ \E p \in Procs : req[p].at = "filter" /\ req[p].key = k /\ m \in req[p].msgs

\* A message of a key that a request is about to add.
Pending(p, k, m) == req[p].at = "zadd" /\ req[p].key = k /\ m \in req[p].msgs

\* An id of a key the cleaner was told to delete.
ToldOf(k, mid) == \E w \in Redis!Told : w.key = k /\ mid \in w.mids

\* The locals of a request.
RedisLocals(r) ==
  /\ r \in Requests({"idle", "zadd", "trim", "look", "filter"})
  /\ r.from <= now
  /\ r.at # "idle" => r.key \in Keys
  /\ r.at \in {"zadd", "trim"} => r.answer = {}
  /\ r.at = "zadd" => \E m \in Stored : r.msgs = {m}

RedisTypes ==
  /\ now \in 0..MaxTime
  /\ held \in [Keys -> SUBSET Stored]
  /\ used \in [Keys -> SUBSET Mids]
  /\ DOMAIN req = Procs /\ req = [p \in Procs |-> req[p]] /\ \A p \in Procs : RedisLocals(req[p])
  /\ delCH \in Seq(Deletion) /\ Len(delCH) <= DelCap
  /\ cleaner \in [key : Keys \cup {NoKey}, mids : SUBSET Mids]
  /\ cleaner.mids # {} => cleaner.key \in Keys

\* An id is given to one message of a key: the one that is about to be added, is
\* seen, or has expired and may be deleted.
Ids ==
  \A k \in Keys :
    /\ \A m \in Stored : Seen(k, m) => m.mid \in used[k]
    /\ \A m, n \in Stored : Seen(k, m) /\ Seen(k, n) /\ m.mid = n.mid => m = n
    /\ \A p \in Procs, m \in Stored : Pending(p, k, m) =>
         /\ m.mid \in used[k] /\ ~ToldOf(k, m.mid)
         /\ \A n \in Stored : Seen(k, n) => n.mid # m.mid
         /\ \A q \in Procs, n \in Stored : Pending(q, k, n) /\ n.mid = m.mid => q = p
    /\ \A mid \in Mids : ToldOf(k, mid) =>
         /\ mid \in used[k]
         /\ \A m \in Stored : Seen(k, m) /\ m.mid = mid => m.expire < now

RedisInv == RedisTypes /\ Ids

\* What may change without a message getting a second id, or an id a second message.
LEMMA IdsKept ==
  ASSUME RedisInv, now \in 0..MaxTime, now' \in 0..MaxTime, now <= now',
         \A k \in Keys : used[k] \subseteq used'[k],
         \A k \in Keys, m \in Stored : Seen(k, m)' => Seen(k, m),
         \A k \in Keys, m \in Stored, p \in Procs : Pending(p, k, m)' => Pending(p, k, m),
         \A k \in Keys, mid \in Mids : ToldOf(k, mid)' => ToldOf(k, mid)
  PROVE  Ids'
<1>1. now \in Int /\ now' \in Int BY ConfAssumption
<1>2. ASSUME NEW k \in Keys, NEW mid \in Mids, ToldOf(k, mid)' PROVE
         /\ mid \in used'[k]
         /\ \A m \in Stored : Seen(k, m)' /\ m.mid = mid => m.expire < now'
  <2>1. ToldOf(k, mid) /\ mid \in used'[k] BY <1>2 DEF RedisInv, Ids
  <2>2. ASSUME NEW m \in Stored, Seen(k, m)', m.mid = mid PROVE m.expire < now'
    <3>1. m.expire < now BY <2>1, <2>2 DEF RedisInv, Ids
    <3> QED BY <1>1, <3>1, ExpiryType
  <2> QED BY <2>1, <2>2
<1>3. ASSUME NEW k \in Keys PROVE
         /\ \A m \in Stored : Seen(k, m)' => m.mid \in used'[k]
         /\ \A m, n \in Stored : Seen(k, m)' /\ Seen(k, n)' /\ m.mid = n.mid => m = n
  BY DEF RedisInv, Ids
<1>4. ASSUME NEW k \in Keys, NEW p \in Procs, NEW m \in Stored, Pending(p, k, m)' PROVE
         /\ m.mid \in used'[k] /\ ~ToldOf(k, m.mid)'
         /\ \A n \in Stored : Seen(k, n)' => n.mid # m.mid
         /\ \A q \in Procs, n \in Stored : Pending(q, k, n)' /\ n.mid = m.mid => q = p
  <2>1. Pending(p, k, m) /\ m.mid \in Mids BY <1>4 DEF Stored
  <2> QED BY <2>1 DEF RedisInv, Ids
<1> QED BY <1>2, <1>3, <1>4 DEF Ids

\* The call a reader sees.
LEMMA RedisCall ==
  ASSUME NEW r
  PROVE  /\ r.at = "look" => Redis!Call(r) = [r EXCEPT !.at = "ask"]
         /\ r.at = "filter" => Redis!Call(r) = [r EXCEPT !.at = "look"]
         /\ r.at \notin {"look", "filter"} => Redis!Call(r) = Store!Done(r.answer)
<1>1. Resting("done", r.answer) = Store!Done(r.answer) BY DEF Resting, Store!Done
<1>2. CASE r.at = "look" BY <1>2, Zenon DEF Redis!Call
<1>3. CASE r.at = "filter" BY <1>3, Zenon DEF Redis!Call
<1>4. CASE r.at \notin {"look", "filter"}
  <2>1. Redis!Call(r) = Redis!Resting("done", r.answer) BY <1>4, Zenon DEF Redis!Call
  <2> QED BY <1>1, <1>4, <2>1, Shared
<1> QED BY <1>2, <1>3, <1>4

\* One call changes where one request does.
LEMMA CallMoves ==
  ASSUME storage = "redis", storage' = storage, DOMAIN req = Procs,
         NEW p \in Procs, NEW r, req' = [req EXCEPT ![p] = r]
  PROVE  Calls' = [Calls EXCEPT ![p] = Redis!Call(r)]
BY DEF Calls

\* A call that gives up, or whose answer was taken.
LEMMA RedisClears ==
  ASSUME storage = "redis", UNCHANGED <<storage, now, held>>, DOMAIN req = Procs,
         NEW p \in Procs, NEW r, req' = [req EXCEPT ![p] = r],
         r.at \notin {"look", "filter"}, r.answer = {}
  PROVE  Store!Clear(p)
<1>1. Redis!Call(r) = Store!Done({}) BY RedisCall
<1>2. Calls' = [Calls EXCEPT ![p] = Store!Done({})] BY <1>1, CallMoves
<1> QED BY <1>2 DEF Store!Clear, Kept

\* The types of the variables.
LEMMA RedisTypeOK == RedisTypes => Redis!TypeOK
<1> SUFFICES ASSUME RedisTypes PROVE Redis!TypeOK OBVIOUS
<1>1. \A i \in DOMAIN delCH : delCH[i] \in Deletion BY DEF RedisTypes
<1>2. req \in [Procs -> Requests({"idle", "zadd", "trim", "look", "filter"})]
  BY DEF RedisTypes, RedisLocals
<1> QED BY <1>1, <1>2, Shared DEF RedisTypes, Redis!TypeOK, Deletion

-----------------------------------------------------------------------------
(* The steps of Redis. *)

\* The clock goes on.
LEMMA RedisTick ==
  ASSUME RedisInv, storage = "redis", UNCHANGED storage, Redis!Tick
  PROVE  RedisInv' /\ Store!Tick
<1>1. now' = now + 1 /\ now < MaxTime /\ now \in 0..MaxTime /\ UNCHANGED <<held, used, req, delCH, cleaner>>
  BY DEF Redis!Tick, RedisInv, RedisTypes
<1>2. now \in Int /\ now' \in 0..MaxTime /\ now <= now' BY <1>1, ConfAssumption
<1>3. RedisTypes'
  <2>1. ASSUME NEW p \in Procs PROVE RedisLocals(req[p])'
    <3>1. RedisLocals(req[p]) /\ req[p].from \in 0..MaxTime
      BY DEF RedisInv, RedisTypes, RedisLocals, Requests
    <3>2. req[p].from <= now' BY <1>1, <1>2, <3>1, ConfAssumption DEF RedisLocals
    <3> QED BY <1>1, <3>1, <3>2 DEF RedisLocals
  <2> QED BY <1>1, <1>2, <2>1 DEF RedisInv, RedisTypes
<1>4. Ids' BY <1>1, <1>2, IdsKept DEF Seen, Pending, ToldOf, Redis!Told
<1>5. UNCHANGED <<Kept, Calls>> BY <1>1 DEF Kept, Calls, Redis!Call, MySQL!Call
<1> QED BY <1>1, <1>3, <1>4, <1>5 DEF RedisInv, Store!Tick

\* A step that only moves a request.
LEMMA RedisMoves ==
  ASSUME RedisInv, NEW p \in Procs, NEW r, RedisLocals(r), req' = [req EXCEPT ![p] = r],
         UNCHANGED <<now, used, delCH, cleaner>>, held' \in [Keys -> SUBSET Stored]
  PROVE  RedisTypes'
<1>1. DOMAIN req' = Procs /\ \A q \in Procs : req'[q] = IF q = p THEN r ELSE req[q]
  BY DEF RedisInv, RedisTypes
<1>2. \A q \in Procs : RedisLocals(req[q])' BY <1>1 DEF RedisInv, RedisTypes, RedisLocals
<1> QED BY <1>1, <1>2 DEF RedisInv, RedisTypes

\* A step in which nothing is seen, about to be added or told that was not.
LEMMA IdsMoves ==
  ASSUME RedisInv, UNCHANGED <<now, used>>,
         \A k \in Keys : held'[k] \subseteq held[k],
         \A q \in Procs : req'[q] = req[q] \/ req'[q].at \notin {"filter", "zadd"},
         \A k \in Keys, mid \in Mids : ToldOf(k, mid)' => ToldOf(k, mid)
  PROVE  Ids'
<1>1. now \in 0..MaxTime /\ now' = now /\ used' = used /\ now <= now'
  BY ConfAssumption DEF RedisInv, RedisTypes
<1>2. \A k \in Keys, m \in Stored : Seen(k, m)' => Seen(k, m) BY DEF Seen
<1>3. \A k \in Keys, m \in Stored, p \in Procs : Pending(p, k, m)' => Pending(p, k, m)
  BY DEF Pending
<1> QED BY <1>1, <1>2, <1>3, IdsKept

\* A request ends.
LEMMA RedisReturns ==
  ASSUME RedisInv, storage = "redis", UNCHANGED <<storage, now, held, used, delCH, cleaner>>,
         NEW p \in Procs, Redis!Return(p, {})
  PROVE  RedisInv' /\ Store!Clear(p)
<1> DEFINE r == Idle({})
<1>1. req' = [req EXCEPT ![p] = r] /\ DOMAIN req = Procs
  BY Shared DEF Redis!Return, RedisInv, RedisTypes
<1>2. RedisLocals(r)
  BY ConfAssumption DEF RedisLocals, Idle, Resting, Requests, RedisInv, RedisTypes
<1>3. r.at = "idle" /\ r.answer = {} BY DEF Idle, Resting
<1> HIDE DEF r
<1>4. RedisTypes' BY <1>1, <1>2, RedisMoves DEF RedisInv, RedisTypes
<1>5. \A q \in Procs : req'[q] = req[q] \/ req'[q].at = "idle" BY <1>1, <1>3
<1>6. Ids'
  <2>1. \A k \in Keys, mid \in Mids : ToldOf(k, mid)' => ToldOf(k, mid)
    BY DEF ToldOf, Redis!Told
  <2> QED BY <1>5, <2>1, IdsMoves
<1> QED BY <1>1, <1>3, <1>4, <1>6, RedisClears DEF RedisInv

\* A message is about to be saved: its id is new.
LEMMA RedisSavePrivate ==
  ASSUME RedisInv, storage = "redis", UNCHANGED storage, NEW p \in Procs, Redis!SavePrivate(p)
  PROVE  RedisInv' /\ Store!Clear(p)
<1>0. RedisTypes /\ Ids /\ DOMAIN req = Procs /\ UNCHANGED <<now, held, delCH, cleaner>>
  BY DEF RedisInv, RedisTypes, Redis!SavePrivate
<1>1. PICK k \in Keys, mid \in Mids, body \in Bodies, ttl \in Ttls :
        /\ mid \notin used[k]
        /\ used' = [used EXCEPT ![k] = @ \cup {mid}]
        /\ req' = [req EXCEPT ![p] =
             Redis!Begun("zadd", k, 0, 0, {[mid |-> mid, body |-> body, expire |-> now + ttl]})]
  BY Shared, Zenon DEF Redis!SavePrivate
<1> DEFINE m == [mid |-> mid, body |-> body, expire |-> now + ttl]
           r == Begun("zadd", k, 0, 0, {m})
<1>2. m \in Stored /\ m.mid = mid BY <1>0, Expiries DEF RedisTypes, Stored
<1>5. req' = [req EXCEPT ![p] = r] BY <1>1, Shared
<1> HIDE DEF m
<1>4. /\ r.at = "zadd" /\ r.key = k /\ r.msgs = {m} /\ r.answer = {} /\ r.from = 0
      /\ RedisLocals(r)
  BY <1>0, <1>2, ConfAssumption DEF Begun, RedisLocals, Requests, RedisTypes
<1> HIDE DEF r
<1>6. used' \in [Keys -> SUBSET Mids] /\ \A j \in Keys : used[j] \subseteq used'[j]
  BY <1>0, <1>1 DEF RedisTypes
<1>7. DOMAIN req' = Procs /\ \A q \in Procs : req'[q] = IF q = p THEN r ELSE req[q]
  BY <1>0, <1>5
<1>8. RedisTypes'
  <2>1. ASSUME NEW q \in Procs PROVE RedisLocals(req[q])'
    <3>1. RedisLocals(req'[q]) BY <1>0, <1>4, <1>7 DEF RedisTypes
    <3> QED BY <1>0, <3>1 DEF RedisLocals
  <2> QED BY <1>0, <1>5, <1>6, <1>7, <2>1 DEF RedisTypes
<1>9. Ids'
  <2>1. \A j \in Keys, n \in Stored : Seen(j, n)' => Seen(j, n)
    BY <1>0, <1>4, <1>7 DEF Seen
  <2>2. \A j \in Keys, n \in Stored, q \in Procs :
          Pending(q, j, n)' => Pending(q, j, n) \/ (q = p /\ j = k /\ n = m)
    BY <1>4, <1>7 DEF Pending
  <2>3. \A j \in Keys, i \in Mids : ToldOf(j, i)' <=> ToldOf(j, i)
    BY <1>0 DEF ToldOf, Redis!Told
  <2>4. mid \in used'[k] /\ mid \notin used[k] BY <1>0, <1>1 DEF RedisTypes
  <2> SUFFICES ASSUME NEW j \in Keys
               PROVE  /\ \A n \in Stored : Seen(j, n)' => n.mid \in used'[j]
                      /\ \A n, o \in Stored : Seen(j, n)' /\ Seen(j, o)' /\ n.mid = o.mid => n = o
                      /\ \A q \in Procs, n \in Stored : Pending(q, j, n)' =>
                           /\ n.mid \in used'[j] /\ ~ToldOf(j, n.mid)'
                           /\ \A o \in Stored : Seen(j, o)' => o.mid # n.mid
                           /\ \A x \in Procs, o \in Stored :
                                Pending(x, j, o)' /\ o.mid = n.mid => x = q
                      /\ \A i \in Mids : ToldOf(j, i)' =>
                           /\ i \in used'[j]
                           /\ \A n \in Stored : Seen(j, n)' /\ n.mid = i => n.expire < now'
    BY DEF Ids
  <2>5. \A n \in Stored : Seen(j, n)' => n.mid \in used'[j]
    BY <1>0, <1>6, <2>1 DEF Ids
  <2>6. \A n, o \in Stored : Seen(j, n)' /\ Seen(j, o)' /\ n.mid = o.mid => n = o
    BY <1>0, <2>1 DEF Ids
  <2>7. \A i \in Mids : ToldOf(j, i)' =>
          /\ i \in used'[j]
          /\ \A n \in Stored : Seen(j, n)' /\ n.mid = i => n.expire < now'
    BY <1>0, <1>6, <2>1, <2>3 DEF Ids
  <2>8. ASSUME NEW q \in Procs, NEW n \in Stored, Pending(q, j, n)'
        PROVE  /\ n.mid \in used'[j] /\ ~ToldOf(j, n.mid)'
               /\ \A o \in Stored : Seen(j, o)' => o.mid # n.mid
               /\ \A x \in Procs, o \in Stored :
                    Pending(x, j, o)' /\ o.mid = n.mid => x = q
    <3>1. n.mid \in Mids BY DEF Stored
    <3>2. CASE Pending(q, j, n)
      <4>1. /\ n.mid \in used[j] /\ ~ToldOf(j, n.mid)
            /\ \A o \in Stored : Seen(j, o) => o.mid # n.mid
            /\ \A x \in Procs, o \in Stored : Pending(x, j, o) /\ o.mid = n.mid => x = q
        BY <1>0, <3>2 DEF Ids
      <4> QED BY <1>2, <1>6, <2>1, <2>2, <2>3, <2>4, <3>1, <4>1
    <3>3. CASE q = p /\ j = k /\ n = m
      <4>1. \A o \in Stored : Seen(k, o) => o.mid # mid BY <1>0, <2>4 DEF Ids
      <4>2. ~ToldOf(k, mid) BY <1>0, <2>4 DEF Ids
      <4>3. \A x \in Procs, o \in Stored : Pending(x, k, o) => o.mid # mid
        BY <1>0, <2>4 DEF Ids
      <4> QED BY <1>2, <2>1, <2>2, <2>3, <2>4, <3>3, <4>1, <4>2, <4>3
    <3> QED BY <2>2, <2>8, <3>2, <3>3
  <2> QED BY <2>5, <2>6, <2>7, <2>8
<1> QED BY <1>0, <1>4, <1>5, <1>8, <1>9, RedisClears DEF RedisInv

\* A message is saved, under its new id if it was there.
LEMMA RedisZAdd ==
  ASSUME RedisInv, storage = "redis", UNCHANGED storage, NEW p \in Procs, Redis!ZAdd(p)
  PROVE  RedisInv' /\ \E k \in Keys, m \in Stored : Store!Save(k, m)
<1>0. /\ RedisTypes /\ Ids /\ DOMAIN req = Procs /\ UNCHANGED <<now, used, delCH, cleaner>>
      /\ req[p].at = "zadd" /\ req[p].key \in Keys /\ req[p].answer = {} /\ RedisLocals(req[p])
  BY DEF RedisInv, RedisTypes, RedisLocals, Redis!ZAdd, Redis!At
<1> DEFINE k == req[p].key
           r == [req[p] EXCEPT !.at = "trim"]
<1>1. PICK m \in Stored : req[p].msgs = {m} BY <1>0 DEF RedisLocals
<1> DEFINE same == {n \in held[k] : n.body = m.body /\ n.expire = m.expire}
<1>2. /\ held' = [held EXCEPT ![k] = (held[k] \ same) \cup {m}]
      /\ req' = [req EXCEPT ![p] = r]
  <2>1. req' = [req EXCEPT ![p] = r] BY DEF Redis!ZAdd, Redis!Goto
  <2>2. held' = [held EXCEPT ![k] = {n \in @ : n.body # m.body \/ n.expire # m.expire} \cup {m}]
    BY <1>1 DEF Redis!ZAdd
  <2>3. {n \in held[k] : n.body # m.body \/ n.expire # m.expire} = held[k] \ same OBVIOUS
  <2> QED BY <2>1, <2>2, <2>3
<1>3. /\ r.at = "trim" /\ r.key = k /\ r.answer = {} /\ RedisLocals(r)
  BY <1>0 DEF RedisLocals, Requests
<1> HIDE DEF r
<1>4. held' \in [Keys -> SUBSET Stored] BY <1>0, <1>1, <1>2 DEF RedisTypes
<1>5. RedisTypes' BY <1>0, <1>2, <1>3, <1>4, RedisMoves DEF RedisInv
<1>6. \A q \in Procs : req'[q] = IF q = p THEN r ELSE req[q] BY <1>0, <1>2
<1>7. Ids'
  <2>1. \A j \in Keys, n \in Stored : Seen(j, n)' => Seen(j, n) \/ (j = k /\ n = m)
    BY <1>0, <1>2, <1>3, <1>6 DEF Seen, RedisTypes
  <2>2. \A j \in Keys, n \in Stored, q \in Procs :
          Pending(q, j, n)' => Pending(q, j, n) /\ q # p
    BY <1>3, <1>6 DEF Pending
  <2>3. \A j \in Keys, i \in Mids : ToldOf(j, i)' <=> ToldOf(j, i)
    BY <1>0 DEF ToldOf, Redis!Told
  <2>4. Pending(p, k, m) /\ m.mid \in Mids BY <1>0, <1>1 DEF Pending, Stored
  <2>5. /\ m.mid \in used[k] /\ ~ToldOf(k, m.mid)
        /\ \A n \in Stored : Seen(k, n) => n.mid # m.mid
        /\ \A q \in Procs, n \in Stored : Pending(q, k, n) /\ n.mid = m.mid => q = p
    BY <1>0, <2>4 DEF Ids
  <2> SUFFICES ASSUME NEW j \in Keys
               PROVE  /\ \A n \in Stored : Seen(j, n)' => n.mid \in used[j]
                      /\ \A n, o \in Stored : Seen(j, n)' /\ Seen(j, o)' /\ n.mid = o.mid => n = o
                      /\ \A q \in Procs, n \in Stored : Pending(q, j, n)' =>
                           /\ n.mid \in used[j] /\ ~ToldOf(j, n.mid)'
                           /\ \A o \in Stored : Seen(j, o)' => o.mid # n.mid
                           /\ \A x \in Procs, o \in Stored :
                                Pending(x, j, o)' /\ o.mid = n.mid => x = q
                      /\ \A i \in Mids : ToldOf(j, i)' =>
                           /\ i \in used[j]
                           /\ \A n \in Stored : Seen(j, n)' /\ n.mid = i => n.expire < now
    BY <1>0 DEF Ids
  <2>6. \A n \in Stored : Seen(j, n)' => n.mid \in used[j]
    BY <1>0, <2>1, <2>5 DEF Ids
  <2>7. \A n, o \in Stored : Seen(j, n)' /\ Seen(j, o)' /\ n.mid = o.mid => n = o
    BY <1>0, <2>1, <2>5 DEF Ids
  <2>8. \A i \in Mids : ToldOf(j, i)' =>
          /\ i \in used[j]
          /\ \A n \in Stored : Seen(j, n)' /\ n.mid = i => n.expire < now
    BY <1>0, <2>1, <2>3, <2>5 DEF Ids
  <2>9. ASSUME NEW q \in Procs, NEW n \in Stored, Pending(q, j, n)'
        PROVE  /\ n.mid \in used[j] /\ ~ToldOf(j, n.mid)'
               /\ \A o \in Stored : Seen(j, o)' => o.mid # n.mid
               /\ \A x \in Procs, o \in Stored :
                    Pending(x, j, o)' /\ o.mid = n.mid => x = q
    <3>1. n.mid \in Mids /\ Pending(q, j, n) /\ q # p BY <2>2, <2>9 DEF Stored
    <3>2. /\ n.mid \in used[j] /\ ~ToldOf(j, n.mid)
          /\ \A o \in Stored : Seen(j, o) => o.mid # n.mid
          /\ \A x \in Procs, o \in Stored : Pending(x, j, o) /\ o.mid = n.mid => x = q
      BY <1>0, <3>1 DEF Ids
    <3> QED BY <2>1, <2>2, <2>3, <2>5, <3>1, <3>2
  <2> QED BY <2>6, <2>7, <2>8, <2>9
<1>8. Store!Save(k, m)
  <2>1. Redis!Call(r) = Redis!Call(req[p]) BY <1>0, <1>3, RedisCall
  <2>2. UNCHANGED Calls BY <1>0, <1>2, <2>1, CallMoves DEF Calls
  <2>3. same = {n \in held[k] : Store!Same(m, n)} BY DEF Store!Same
  <2> HIDE DEF same
  <2> QED BY <1>0, <1>2, <2>2, <2>3 DEF Store!Save, Kept
<1> QED BY <1>0, <1>5, <1>7, <1>8 DEF RedisInv

\* What is trimmed is below as many messages as the set keeps.
LEMMA RedisTrim ==
  ASSUME RedisInv, storage = "redis", UNCHANGED storage, NEW p \in Procs,
         Redis!ZRemRangeByRank(p)
  PROVE  RedisInv' /\ \E k \in Keys : Store!Trim(k)
<1>0. /\ RedisTypes /\ Ids /\ DOMAIN req = Procs /\ UNCHANGED <<now, used, delCH, cleaner>>
      /\ req[p].at = "trim" /\ req[p].key \in Keys /\ req[p].answer = {}
  BY DEF RedisInv, RedisTypes, RedisLocals, Redis!ZRemRangeByRank, Redis!At
<1> DEFINE k == req[p].key
           r == Idle({})
<1>1. PICK kept \in SUBSET held[k] :
        Redis!Kept(held[k], kept) /\ held' = [held EXCEPT ![k] = kept]
  BY DEF Redis!ZRemRangeByRank
<1>2. req' = [req EXCEPT ![p] = r] BY Shared DEF Redis!ZRemRangeByRank, Redis!Return
<1>3. r.at = "idle" /\ r.answer = {} /\ RedisLocals(r)
  BY <1>0, ConfAssumption DEF RedisLocals, Idle, Resting, Requests, RedisTypes
<1> HIDE DEF r
<1>4. held' \in [Keys -> SUBSET Stored] /\ \A j \in Keys : held'[j] \subseteq held[j]
  BY <1>0, <1>1 DEF RedisTypes
<1>5. RedisTypes' BY <1>0, <1>2, <1>3, <1>4, RedisMoves DEF RedisInv
<1>6. Ids'
  <2>1. \A q \in Procs : req'[q] = req[q] \/ req'[q].at \notin {"filter", "zadd"}
    BY <1>0, <1>2, <1>3
  <2>2. \A j \in Keys, mid \in Mids : ToldOf(j, mid)' => ToldOf(j, mid)
    BY <1>0 DEF ToldOf, Redis!Told
  <2> QED BY <1>0, <1>4, <2>1, <2>2, IdsMoves
<1>7. Store!Trim(k)
  <2>1. Redis!Call(r) = Redis!Call(req[p]) BY <1>0, <1>3, RedisCall
  <2>2. UNCHANGED <<Kept, now, Calls>> BY <1>0, <1>2, <2>1, CallMoves DEF Calls, Kept
  <2> DEFINE old == held[k] \ kept
  <2>3. held' = [held EXCEPT ![k] = held[k] \ old] /\ old \in SUBSET held[k] /\ held[k] \ old = kept
    BY <1>1
  <2>4. ASSUME NEW m \in old
        PROVE  Cardinality({n \in held[k] \ old : n.mid >= m.mid}) >= Kept
    <3>1. {n \in kept : n.mid >= m.mid} = kept BY <1>1 DEF Redis!Kept
    <3>2. Cardinality(kept) = RedisMaxStore BY <1>1, SharedCardinality DEF Redis!Kept
    <3>3. Kept = RedisMaxStore /\ RedisMaxStore \in Nat BY ConfAssumption DEF Kept
    <3>4. {n \in held[k] \ old : n.mid >= m.mid} = kept BY <2>3, <3>1
    <3>5. Cardinality({n \in held[k] \ old : n.mid >= m.mid}) = RedisMaxStore
      BY <3>2, <3>4, Zenon
    <3>6. RedisMaxStore >= RedisMaxStore BY <3>3
    <3> QED BY <3>3, <3>5, <3>6, Zenon
  <2> HIDE DEF old
  <2> QED BY <2>2, <2>3, <2>4, SharedCardinality DEF Store!Trim
<1> QED BY <1>0, <1>5, <1>6, <1>7 DEF RedisInv

\* A key is deleted.
LEMMA RedisDelPrivate ==
  ASSUME RedisInv, storage = "redis", UNCHANGED storage, NEW p \in Procs, Redis!DelPrivate(p)
  PROVE  RedisInv' /\ \E k \in Keys : Store!Delete(k)
<1>0. RedisTypes /\ UNCHANGED <<now, used, req, delCH, cleaner>>
  BY DEF RedisInv, Redis!DelPrivate
<1>1. PICK k \in Keys : held' = [held EXCEPT ![k] = {}] BY DEF Redis!DelPrivate
<1>2. held' \in [Keys -> SUBSET Stored] /\ \A j \in Keys : held'[j] \subseteq held[j]
  BY <1>0, <1>1 DEF RedisTypes
<1>3. RedisTypes' BY <1>0, <1>2 DEF RedisTypes, RedisLocals
<1>4. \A j \in Keys, mid \in Mids : ToldOf(j, mid)' => ToldOf(j, mid)
  BY <1>0 DEF ToldOf, Redis!Told
<1>5. Ids' BY <1>0, <1>2, <1>4, IdsMoves
<1>6. UNCHANGED <<Kept, now, Calls>> BY <1>0 DEF Kept, Calls, Redis!Call, MySQL!Call
<1> QED BY <1>1, <1>3, <1>5, <1>6 DEF RedisInv, Store!Delete

\* A reader asks.
LEMMA RedisGetPrivate ==
  ASSUME RedisInv, storage = "redis", UNCHANGED storage, NEW p \in Procs, Redis!GetPrivate(p)
  PROVE  RedisInv' /\ \E k \in Keys, mid \in 0..MaxMid : Store!Ask(p, k, mid)
<1>0. /\ RedisTypes /\ DOMAIN req = Procs /\ UNCHANGED <<now, held, used, delCH, cleaner>>
      /\ req[p].at = "idle"
  BY DEF RedisInv, RedisTypes, Redis!GetPrivate, Redis!At
<1>1. PICK k \in Keys, mid \in 0..MaxMid :
        req' = [req EXCEPT ![p] = Redis!Begun("look", k, mid, now, {})]
  BY DEF Redis!GetPrivate
<1> DEFINE r == Begun("look", k, mid, now, {})
           a == [at |-> "ask", key |-> k, mid |-> mid, from |-> now, msgs |-> {}, answer |-> {}]
<1>2. req' = [req EXCEPT ![p] = r] BY <1>1, Shared
<1>3. r.at = "look" /\ RedisLocals(r)
  BY <1>0, ConfAssumption DEF RedisLocals, Begun, Requests, RedisTypes
<1>4. Redis!Call(r) = a
  <2>1. Redis!Call(r) = [r EXCEPT !.at = "ask"] BY <1>3, RedisCall, Zenon
  <2>2. [r EXCEPT !.at = "ask"] = a BY DEF Begun
  <2> QED BY <2>1, <2>2
<1> HIDE DEF r
<1>5. RedisTypes' BY <1>0, <1>2, <1>3, RedisMoves DEF RedisTypes
<1>6. Ids'
  <2>1. \A q \in Procs : req'[q] = req[q] \/ req'[q].at \notin {"filter", "zadd"}
    BY <1>0, <1>2, <1>3
  <2>2. \A j \in Keys, i \in Mids : ToldOf(j, i)' => ToldOf(j, i)
    BY <1>0 DEF ToldOf, Redis!Told
  <2> QED BY <1>0, <2>1, <2>2, IdsMoves
<1>7. Store!Ask(p, k, mid)
  <2>1. Calls' = [Calls EXCEPT ![p] = a] BY <1>0, <1>2, <1>4, CallMoves
  <2>2. Calls[p].at = "done"
    <3>1. Redis!Call(req[p]) = Store!Done(req[p].answer) BY <1>0, RedisCall
    <3> QED BY <3>1 DEF Calls, Store!Done
  <2> QED BY <1>0, <2>1, <2>2 DEF Store!Ask, Kept
<1> QED BY <1>5, <1>6, <1>7 DEF RedisInv

\* What a request has read was in the set.
LEMMA RedisZRangeByScore ==
  ASSUME RedisInv, storage = "redis", UNCHANGED storage, NEW p \in Procs, Redis!ZRangeByScore(p)
  PROVE  RedisInv' /\ Store!Look(p)
<1>0. /\ RedisTypes /\ DOMAIN req = Procs /\ UNCHANGED <<now, held, used, delCH, cleaner>>
      /\ req[p].at = "look" /\ RedisLocals(req[p]) /\ req[p].key \in Keys
  BY DEF RedisInv, RedisTypes, RedisLocals, Redis!ZRangeByScore, Redis!At
<1> DEFINE q == req[p]
           S == {m \in held[q.key] : m.mid > q.mid}
           t == [q EXCEPT !.at = "filter"]
           r == [t EXCEPT !.msgs = S]
<1>1. req' = [req EXCEPT ![p] = r] BY DEF Redis!ZRangeByScore, Redis!After
<1>2. S \subseteq held[q.key] /\ S \in SUBSET Stored BY <1>0 DEF RedisTypes
<1> HIDE DEF S
<1>3. r.at = "filter" /\ r.key = q.key /\ r.msgs = S /\ RedisLocals(r)
  BY <1>0, <1>2 DEF RedisLocals, Requests
<1>4. Redis!Call(r) = [[q EXCEPT !.at = "look"] EXCEPT !.msgs = S]
  <2>1. Redis!Call(r) = [r EXCEPT !.at = "look"] BY <1>3, RedisCall, Zenon
  <2>2. [r EXCEPT !.at = "look"] = [[q EXCEPT !.at = "look"] EXCEPT !.msgs = S]
    BY <1>0 DEF RedisLocals, Requests
  <2> QED BY <2>1, <2>2
<1>5. Redis!Call(q) = [q EXCEPT !.at = "ask"] BY <1>0, RedisCall
<1>6. [[q EXCEPT !.at = "look"] EXCEPT !.msgs = S] = [[Redis!Call(q) EXCEPT !.at = "look"] EXCEPT !.msgs = S]
  BY <1>0, <1>5 DEF RedisLocals, Requests
<1>7. Redis!Call(q).at = "ask" /\ Redis!Call(q).key = q.key /\ Redis!Call(q).mid = q.mid
  BY <1>0, <1>5 DEF RedisLocals, Requests
<1> HIDE DEF r
<1>8. RedisTypes' BY <1>0, <1>1, <1>3, RedisMoves DEF RedisTypes
<1>9. Ids'
  <2>1. \A k \in Keys, m \in Stored : Seen(k, m)' => Seen(k, m)
    BY <1>0, <1>1, <1>2, <1>3 DEF Seen
  <2>2. \A k \in Keys, m \in Stored, x \in Procs : Pending(x, k, m)' => Pending(x, k, m)
    BY <1>0, <1>1, <1>3 DEF Pending
  <2>3. \A k \in Keys, mid \in Mids : ToldOf(k, mid)' => ToldOf(k, mid)
    BY <1>0 DEF ToldOf, Redis!Told
  <2>4. now \in 0..MaxTime /\ now' = now /\ now <= now' /\ used' = used
    BY <1>0, ConfAssumption DEF RedisTypes
  <2> QED BY <2>1, <2>2, <2>3, <2>4, IdsKept
<1>10. Store!Look(p)
  <2>1. Calls' = [Calls EXCEPT ![p] = Redis!Call(r)] BY <1>0, <1>1, CallMoves
  <2>2. Calls[p] = Redis!Call(q) BY DEF Calls
  <2>3. S = {m \in held[Calls[p].key] : m.mid > Calls[p].mid} BY <1>7, <2>2 DEF S
  <2>4. Calls' = [Calls EXCEPT ![p] = [[Calls[p] EXCEPT !.at = "look"] EXCEPT !.msgs = S]]
    BY <1>4, <1>6, <2>1, <2>2
  <2>5. Calls[p].at = "ask" BY <1>7, <2>2
  <2> QED BY <1>0, <2>3, <2>4, <2>5 DEF Store!Look, Kept
<1> QED BY <1>8, <1>9, <1>10 DEF RedisInv

\* An answer, and the ids of the messages that have expired for the cleaner.
LEMMA RedisFilter ==
  ASSUME RedisInv, storage = "redis", UNCHANGED storage, NEW p \in Procs, Redis!Filter(p)
  PROVE  RedisInv' /\ Store!Answer(p)
<1>0. /\ RedisTypes /\ Ids /\ DOMAIN req = Procs /\ UNCHANGED <<now, held, used, cleaner>>
      /\ req[p].at = "filter" /\ RedisLocals(req[p]) /\ req[p].key \in Keys
  BY DEF RedisInv, RedisTypes, RedisLocals, Redis!Filter, Redis!At
<1> DEFINE q == req[p]
           k == q.key
           expired == {m \in q.msgs : m.expire < now}
           w == [key |-> k, mids |-> {m.mid : m \in expired}]
           r == Idle(q.msgs \ expired)
<1>1. /\ req' = [req EXCEPT ![p] = r]
      /\ \/ UNCHANGED delCH
         \/ delCH' = Append(delCH, w) /\ Len(delCH) < DelCap
  BY Shared DEF Redis!Filter, Redis!Return, Redis!Expired, Redis!Room
<1>2. q.msgs \in SUBSET Stored /\ expired \in SUBSET Stored /\ q.from \in 0..MaxTime /\ q.from <= now
  BY <1>0 DEF RedisLocals, Requests
<1>3. r.at = "idle" /\ r.answer = q.msgs \ expired /\ RedisLocals(r)
  BY <1>0, <1>2, ConfAssumption DEF RedisLocals, Idle, Resting, Requests, RedisTypes
<1>4. w \in Deletion /\ w.key = k
  BY <1>0, <1>2 DEF Deletion, Stored
<1>5. \A i : i \in w.mids <=> \E m \in expired : m.mid = i BY <1>2
<1> HIDE DEF r, w
<1>6. RedisTypes'
  <2>1. delCH' \in Seq(Deletion) /\ Len(delCH') <= DelCap
    <3>1. delCH \in Seq(Deletion) /\ Len(delCH) <= DelCap /\ Len(delCH) \in Nat
      BY <1>0 DEF RedisTypes
    <3>2. CASE delCH' = Append(delCH, w) /\ Len(delCH) < DelCap
      <4>1. delCH' \in Seq(Deletion) /\ Len(delCH') = Len(delCH) + 1 BY <1>4, <3>1, <3>2
      <4> QED BY <3>1, <3>2, <4>1, ConfAssumption
    <3>3. CASE UNCHANGED delCH BY <3>1, <3>3
    <3> QED BY <1>1, <3>2, <3>3
  <2>2. DOMAIN req' = Procs /\ \A x \in Procs : req'[x] = IF x = p THEN r ELSE req[x]
    BY <1>0, <1>1
  <2>3. ASSUME NEW x \in Procs PROVE RedisLocals(req[x])'
    <3>1. RedisLocals(req'[x]) BY <1>0, <1>3, <2>2 DEF RedisTypes
    <3> QED BY <1>0, <3>1 DEF RedisLocals
  <2> QED BY <1>0, <1>1, <2>1, <2>2, <2>3 DEF RedisTypes
<1>7. Ids'
  <2>1. \A j \in Keys, n \in Stored : Seen(j, n)' => Seen(j, n)
    BY <1>0, <1>1, <1>3 DEF Seen
  <2>2. \A j \in Keys, n \in Stored, x \in Procs : Pending(x, j, n)' => Pending(x, j, n)
    BY <1>0, <1>1, <1>3 DEF Pending
  <2>3. \A m \in expired : m \in Stored /\ Seen(k, m) /\ m.expire < now
    BY <1>0, <1>2 DEF Seen
  <2>4. \A j \in Keys, i \in Mids :
          ToldOf(j, i)' => ToldOf(j, i) \/ (j = k /\ \E m \in expired : m.mid = i)
    <3> SUFFICES ASSUME NEW j \in Keys, NEW i \in Mids, ToldOf(j, i)'
                 PROVE  ToldOf(j, i) \/ (j = k /\ \E m \in expired : m.mid = i)
      OBVIOUS
    <3>1. PICK v \in Redis!Told' : v.key = j /\ i \in v.mids BY DEF ToldOf
    <3>2. v \in Redis!Told \/ v = w
      <4>1. CASE UNCHANGED delCH BY <1>0, <3>1, <4>1 DEF Redis!Told
      <4>2. CASE delCH' = Append(delCH, w)
        <5>1. DOMAIN delCH' = 1..(Len(delCH) + 1) /\ DOMAIN delCH = 1..Len(delCH)
              /\ \A y \in DOMAIN delCH' :
                   delCH'[y] = IF y \in DOMAIN delCH THEN delCH[y] ELSE w
          BY <1>0, <1>4, <4>2 DEF RedisTypes
        <5> QED BY <1>0, <3>1, <5>1 DEF Redis!Told
      <4> QED BY <1>1, <4>1, <4>2
    <3>3. CASE v \in Redis!Told BY <3>1, <3>3 DEF ToldOf
    <3>4. CASE v = w BY <1>4, <1>5, <3>1, <3>4
    <3> QED BY <3>2, <3>3, <3>4
  <2> HIDE DEF expired
  <2> SUFFICES ASSUME NEW j \in Keys
               PROVE  /\ \A n \in Stored : Seen(j, n)' => n.mid \in used[j]
                      /\ \A n, o \in Stored : Seen(j, n)' /\ Seen(j, o)' /\ n.mid = o.mid => n = o
                      /\ \A x \in Procs, n \in Stored : Pending(x, j, n)' =>
                           /\ n.mid \in used[j] /\ ~ToldOf(j, n.mid)'
                           /\ \A o \in Stored : Seen(j, o)' => o.mid # n.mid
                           /\ \A y \in Procs, o \in Stored :
                                Pending(y, j, o)' /\ o.mid = n.mid => y = x
                      /\ \A i \in Mids : ToldOf(j, i)' =>
                           /\ i \in used[j]
                           /\ \A n \in Stored : Seen(j, n)' /\ n.mid = i => n.expire < now
    BY <1>0 DEF Ids
  <2>5. /\ \A n \in Stored : Seen(j, n)' => n.mid \in used[j]
        /\ \A n, o \in Stored : Seen(j, n)' /\ Seen(j, o)' /\ n.mid = o.mid => n = o
    BY <1>0, <2>1 DEF Ids
  <2>6. ASSUME NEW i \in Mids, ToldOf(j, i)'
        PROVE  /\ i \in used[j]
               /\ \A n \in Stored : Seen(j, n)' /\ n.mid = i => n.expire < now
    <3>1. CASE ToldOf(j, i) BY <1>0, <2>1, <3>1 DEF Ids
    <3>2. ASSUME j = k, NEW m \in expired, m.mid = i
          PROVE  /\ i \in used[j]
                 /\ \A n \in Stored : Seen(j, n)' /\ n.mid = i => n.expire < now
      BY <1>0, <2>1, <2>3, <3>2 DEF Ids
    <3> QED BY <2>4, <2>6, <3>1, <3>2
  <2>7. ASSUME NEW x \in Procs, NEW n \in Stored, Pending(x, j, n)'
        PROVE  /\ n.mid \in used[j] /\ ~ToldOf(j, n.mid)'
               /\ \A o \in Stored : Seen(j, o)' => o.mid # n.mid
               /\ \A y \in Procs, o \in Stored : Pending(y, j, o)' /\ o.mid = n.mid => y = x
    <3>1. n.mid \in Mids /\ Pending(x, j, n) BY <2>2, <2>7 DEF Stored
    <3>2. /\ n.mid \in used[j] /\ ~ToldOf(j, n.mid)
          /\ \A o \in Stored : Seen(j, o) => o.mid # n.mid
          /\ \A y \in Procs, o \in Stored : Pending(y, j, o) /\ o.mid = n.mid => y = x
      BY <1>0, <3>1 DEF Ids
    <3> QED BY <2>1, <2>2, <2>3, <2>4, <3>1, <3>2
  <2> QED BY <2>5, <2>6, <2>7
<1>8. Store!Answer(p)
  <2> DEFINE live == {m \in q.msgs : m.expire >= now}
             part == q.msgs \ expired
  <2>1. live = part
    <3>1. now \in Int BY <1>0, ConfAssumption DEF RedisTypes
    <3>2. \A m \in q.msgs : m.expire \in Int BY <1>2, ExpiryType
    <3> QED BY <3>1, <3>2
  <2>2. Redis!Call(q) = [q EXCEPT !.at = "look"] BY <1>0, RedisCall
  <2>3. Calls[p] = Redis!Call(q) BY DEF Calls
  <2>4. Calls[p].at = "look" /\ Calls[p].msgs = q.msgs /\ Calls[p].from = q.from
    BY <1>0, <2>2, <2>3 DEF RedisLocals, Requests
  <2>5. Redis!Call(r) = Store!Done(part) BY <1>3, RedisCall
  <2>6. Calls' = [Calls EXCEPT ![p] = Store!Done(part)] BY <1>0, <1>1, <2>5, CallMoves
  <2>7. now \in q.from..now BY <1>0, <1>2, ConfAssumption DEF RedisTypes
  <2>8. Store!InitialPart(part, live) BY <2>1 DEF Store!InitialPart
  <2> HIDE DEF part
  <2>9. part \in SUBSET {m \in Calls[p].msgs : m.expire >= now}
        /\ Store!InitialPart(part, {m \in Calls[p].msgs : m.expire >= now})
    BY <2>1, <2>4, <2>8
  <2>10. UNCHANGED <<Kept, now, held>> BY <1>0 DEF Kept
  <2> QED BY <2>4, <2>6, <2>7, <2>9, <2>10 DEF Store!Answer
<1> QED BY <1>6, <1>7, <1>8 DEF RedisInv

\* The cleaner is told what to delete.
LEMMA RedisCleanTake ==
  ASSUME RedisInv, Redis!CleanTake
  PROVE  RedisInv'
<1>0. RedisTypes /\ Ids /\ UNCHANGED <<now, held, used, req>>
  BY DEF RedisInv, Redis!CleanTake
<1>1. /\ delCH # <<>> /\ delCH \in Seq(Deletion) /\ Len(delCH) \in Nat
      /\ cleaner' = Head(delCH) /\ delCH' = Tail(delCH)
  BY <1>0 DEF Redis!CleanTake, RedisTypes
<1>2. /\ DOMAIN delCH = 1..Len(delCH) /\ Len(delCH) >= 1
      /\ cleaner' = delCH[1] /\ delCH' \in Seq(Deletion) /\ Len(delCH') = Len(delCH) - 1
      /\ DOMAIN delCH' = 1..(Len(delCH) - 1)
      /\ \A i \in DOMAIN delCH' : delCH'[i] = delCH[i + 1]
  BY <1>1
<1>3. RedisTypes'
  <2>1. cleaner' \in [key : Keys \cup {NoKey}, mids : SUBSET Mids] /\ cleaner'.key \in Keys
    <3>1. 1 \in 1..Len(delCH) BY <1>1, <1>2
    <3>2. delCH[1] \in Deletion BY <1>1, <1>2, <3>1
    <3> QED BY <1>2, <3>2 DEF Deletion
  <2>2. Len(delCH') <= DelCap BY <1>0, <1>1, <1>2, ConfAssumption DEF RedisTypes
  <2> QED BY <1>0, <1>2, <2>1, <2>2 DEF RedisTypes, RedisLocals
<1>4. Ids'
  <2>1. Redis!Told' \subseteq Redis!Told BY <1>1, <1>2 DEF Redis!Told
  <2>2. \A k \in Keys, mid \in Mids : ToldOf(k, mid)' => ToldOf(k, mid)
    BY <2>1 DEF ToldOf
  <2> QED BY <1>0, <2>2, IdsMoves DEF RedisInv
<1> QED BY <1>3, <1>4 DEF RedisInv

\* It works off one id, or gives up.
LEMMA RedisWorks ==
  ASSUME RedisInv, UNCHANGED <<now, used, req, delCH>>, held' \in [Keys -> SUBSET Stored],
         \A k \in Keys : held'[k] \subseteq held[k],
         cleaner' \in [key : Keys \cup {NoKey}, mids : SUBSET Mids],
         cleaner'.mids = {} \/ (cleaner'.key = cleaner.key /\ cleaner'.mids \subseteq cleaner.mids)
  PROVE  RedisInv'
<1>1. RedisTypes' BY DEF RedisInv, RedisTypes, RedisLocals
<1>2. \A k \in Keys, mid \in Mids : ToldOf(k, mid)' => ToldOf(k, mid)
  BY DEF ToldOf, Redis!Told
<1> QED BY <1>1, <1>2, IdsMoves DEF RedisInv

\* What the cleaner deletes has expired.
LEMMA RedisCleans ==
  ASSUME RedisInv, storage = "redis", UNCHANGED storage, Redis!ZRemRangeByScore
  PROVE  RedisInv' /\ Store!Clean
<1>0. RedisTypes /\ Ids /\ UNCHANGED <<now, used, req, delCH>>
  BY DEF RedisInv, Redis!ZRemRangeByScore
<1>1. PICK mid \in cleaner.mids :
        /\ held' = [held EXCEPT ![cleaner.key] = {m \in @ : m.mid # mid}]
        /\ cleaner' = IF cleaner.mids = {mid} THEN Redis!NoWork
                      ELSE [cleaner EXCEPT !.mids = @ \ {mid}]
  BY DEF Redis!ZRemRangeByScore
<1>2. /\ held' \in [Keys -> SUBSET Stored]
      /\ \A k \in Keys : held'[k] \subseteq held[k]
      /\ \A k \in Keys : \A m \in held[k] \ held'[k] : k = cleaner.key /\ m.mid = mid
  BY <1>0, <1>1 DEF RedisTypes
<1>3. RedisInv'
  <2>1. /\ cleaner' \in [key : Keys \cup {NoKey}, mids : SUBSET Mids]
        /\ cleaner'.mids = {} \/ (cleaner'.key = cleaner.key /\ cleaner'.mids \subseteq cleaner.mids)
    BY <1>0, <1>1 DEF RedisTypes, Redis!NoWork
  <2> QED BY <1>0, <1>2, <2>1, RedisWorks
<1>4. ASSUME NEW k \in Keys, NEW m \in held[k] \ held'[k]
      PROVE  m.expire <= now
  <2>1. ToldOf(k, mid) /\ mid \in Mids BY <1>0, <1>1, <1>2 DEF ToldOf, Redis!Told, RedisTypes
  <2>2. m \in Stored /\ Seen(k, m) /\ m.mid = mid BY <1>0, <1>2 DEF Seen, RedisTypes
  <2>3. m.expire < now BY <1>0, <2>1, <2>2 DEF Ids
  <2>4. m.expire \in Int /\ now \in Int BY <1>0, <2>2, ExpiryType, ConfAssumption DEF RedisTypes
  <2> QED BY <2>3, <2>4
<1>5. UNCHANGED <<Kept, now, Calls>> BY <1>0 DEF Kept, Calls, Redis!Call, MySQL!Call
<1>6. DOMAIN held' = Keys BY <1>2
<1> QED BY <1>2, <1>3, <1>4, <1>5, <1>6 DEF Store!Clean

\* The connection of the cleaner breaks.
LEMMA RedisCleanError ==
  ASSUME RedisInv, Redis!CleanError
  PROVE  RedisInv'
<1>0. RedisTypes /\ UNCHANGED <<now, held, used, req, delCH>> /\ cleaner' = Redis!NoWork
  BY DEF RedisInv, Redis!CleanError
<1> QED BY <1>0, RedisWorks DEF Redis!NoWork, RedisTypes

\* A step with Redis is one of the store, or none.
LEMMA RedisNext ==
  ASSUME RedisInv, storage = "redis", UNCHANGED storage, Redis!Next
  PROVE  RedisInv' /\ [Store!Next]_(Store!vars)
<1>1. CASE Redis!Tick BY <1>1, RedisTick DEF Store!Next
<1>2. CASE Redis!Clean
  <2>1. CASE Redis!CleanTake \/ Redis!CleanError
    <3>1. UNCHANGED <<now, held, req>> BY <2>1 DEF Redis!CleanTake, Redis!CleanError
    <3>2. UNCHANGED <<Kept, Calls>> BY <3>1 DEF Kept, Calls, Redis!Call, MySQL!Call
    <3> QED BY <2>1, <3>1, <3>2, RedisCleanTake, RedisCleanError DEF Store!vars
  <2>2. CASE Redis!ZRemRangeByScore BY <2>2, RedisCleans DEF Store!Next
  <2> QED BY <1>2, <2>1, <2>2 DEF Redis!Clean
<1>3. ASSUME NEW p \in Procs,
             \/ Redis!SavePrivate(p) \/ Redis!ZAdd(p) \/ Redis!ZRemRangeByRank(p)
             \/ Redis!DelPrivate(p) \/ Redis!GetPrivate(p) \/ Redis!ZRangeByScore(p)
             \/ Redis!Filter(p) \/ Redis!ConnError(p)
      PROVE  RedisInv' /\ Store!Next
  <2>1. CASE Redis!ConnError(p)
    <3>1. UNCHANGED <<now, held, used, delCH, cleaner>> /\ Redis!Return(p, {})
      BY <2>1 DEF Redis!ConnError
    <3> QED BY <3>1, RedisReturns DEF Store!Next
  <2> QED BY <1>3, <2>1, RedisSavePrivate, RedisZAdd, RedisTrim, RedisDelPrivate,
             RedisGetPrivate, RedisZRangeByScore, RedisFilter DEF Store!Next
<1> QED BY <1>1, <1>2, <1>3 DEF Redis!Next

-----------------------------------------------------------------------------
(* MySQL. *)

\* The locals of a request.
MySQLLocals(r) ==
  /\ r \in Requests({"idle", "insert", "select", "rows"})
  /\ r.from <= now
  /\ r.at # "idle" => r.key \in Keys
  /\ r.at = "insert" => r.answer = {} /\ \E m \in Stored : r.msgs = {m}

\* The types, with one row for an id, and a cut the clock has reached.
MySQLInv ==
  /\ now \in 0..MaxTime
  /\ held \in [Keys -> SUBSET Stored]
  /\ DOMAIN req = Procs /\ req = [p \in Procs |-> req[p]] /\ \A p \in Procs : MySQLLocals(req[p])
  /\ cleaner \in [todo : SUBSET Dbs, asked : SUBSET Dbs, cut : 0..MaxTime] /\ cleaner.cut <= now
  /\ \A k \in Keys : \A m, n \in held[k] : m.mid = n.mid => m = n

\* The types of the variables.
LEMMA MySQLTypeOK == MySQLInv => MySQL!TypeOK
<1> SUFFICES ASSUME MySQLInv PROVE MySQL!TypeOK OBVIOUS
<1>1. req \in [Procs -> Requests({"idle", "insert", "select", "rows"})]
  BY DEF MySQLInv, MySQLLocals
<1> QED BY <1>1, Shared DEF MySQLInv, MySQL!TypeOK

\* The call a reader sees.
LEMMA MySQLCall ==
  ASSUME NEW r
  PROVE  /\ r.at = "select" => MySQL!Call(r) = [r EXCEPT !.at = "ask"]
         /\ r.at = "rows" => MySQL!Call(r) = [r EXCEPT !.at = "look"]
         /\ r.at \notin {"select", "rows"} => MySQL!Call(r) = Store!Done(r.answer)
<1>1. Resting("done", r.answer) = Store!Done(r.answer) BY DEF Resting, Store!Done
<1>2. CASE r.at = "select" BY <1>2, Zenon DEF MySQL!Call
<1>3. CASE r.at = "rows" BY <1>3, Zenon DEF MySQL!Call
<1>4. CASE r.at \notin {"select", "rows"}
  <2>1. MySQL!Call(r) = MySQL!Resting("done", r.answer) BY <1>4, Zenon DEF MySQL!Call
  <2> QED BY <1>1, <1>4, <2>1, Shared
<1> QED BY <1>2, <1>3, <1>4

\* One call changes where one request does.
LEMMA MySQLCallMoves ==
  ASSUME storage = "mysql", storage' = storage, DOMAIN req = Procs,
         NEW p \in Procs, NEW r, req' = [req EXCEPT ![p] = r]
  PROVE  Calls' = [Calls EXCEPT ![p] = MySQL!Call(r)]
BY DEF Calls

\* A step that only moves a request.
LEMMA MySQLMoves ==
  ASSUME MySQLInv, NEW p \in Procs, NEW r, MySQLLocals(r), req' = [req EXCEPT ![p] = r],
         UNCHANGED <<now, held, cleaner>>
  PROVE  MySQLInv'
<1>1. DOMAIN req' = Procs /\ \A q \in Procs : req'[q] = IF q = p THEN r ELSE req[q]
  BY DEF MySQLInv
<1>2. ASSUME NEW q \in Procs PROVE MySQLLocals(req[q])'
  <2>1. MySQLLocals(req'[q]) BY <1>1 DEF MySQLInv
  <2> QED BY <2>1 DEF MySQLLocals
<1> QED BY <1>1, <1>2 DEF MySQLInv

\* A call that gives up, or whose answer was taken.
LEMMA MySQLClears ==
  ASSUME MySQLInv, storage = "mysql", UNCHANGED <<storage, now, held, cleaner>>,
         NEW p \in Procs, NEW r, MySQLLocals(r), req' = [req EXCEPT ![p] = r],
         r.at \notin {"select", "rows"}, r.answer = {}
  PROVE  MySQLInv' /\ Store!Clear(p)
<1>1. MySQL!Call(r) = Store!Done({}) BY MySQLCall
<1>2. Calls' = [Calls EXCEPT ![p] = Store!Done({})] BY <1>1, MySQLCallMoves DEF MySQLInv
<1> QED BY <1>2, MySQLMoves DEF Store!Clear, Kept

\* A request that has ended.
LEMMA MySQLIdle ==
  ASSUME MySQLInv, NEW a \in SUBSET Stored
  PROVE  MySQLLocals(Idle(a)) /\ Idle(a).at = "idle" /\ Idle(a).answer = a
BY ConfAssumption DEF MySQLInv, MySQLLocals, Idle, Resting, Requests

\* Time passes.
LEMMA MySQLTick ==
  ASSUME MySQLInv, storage = "mysql", UNCHANGED storage, MySQL!Tick
  PROVE  MySQLInv' /\ Store!Tick
<1>1. now' = now + 1 /\ now < MaxTime /\ now \in 0..MaxTime /\ UNCHANGED <<held, req, cleaner>>
  BY DEF MySQL!Tick, MySQLInv
<1>2. now \in Int /\ now' \in 0..MaxTime /\ now <= now' BY <1>1, ConfAssumption
<1>3. ASSUME NEW p \in Procs PROVE MySQLLocals(req[p])'
  <2>1. MySQLLocals(req[p]) /\ req[p].from \in 0..MaxTime
    BY DEF MySQLInv, MySQLLocals, Requests
  <2>2. req[p].from <= now' BY <1>1, <1>2, <2>1, ConfAssumption DEF MySQLLocals
  <2> QED BY <1>1, <2>1, <2>2 DEF MySQLLocals
<1>4. cleaner.cut <= now' BY <1>1, <1>2, ConfAssumption DEF MySQLInv
<1>5. UNCHANGED <<Kept, Calls>> BY <1>1 DEF Kept, Calls, Redis!Call, MySQL!Call
<1> QED BY <1>1, <1>2, <1>3, <1>4, <1>5 DEF MySQLInv, Store!Tick

\* A message is about to be saved.
LEMMA MySQLSavePrivate ==
  ASSUME MySQLInv, storage = "mysql", UNCHANGED storage, NEW p \in Procs, MySQL!SavePrivate(p)
  PROVE  MySQLInv' /\ Store!Clear(p)
<1>1. PICK k \in Keys, mid \in Mids, body \in Bodies, ttl \in Ttls :
        req' = [req EXCEPT ![p] =
          MySQL!Begun("insert", k, 0, 0, {[mid |-> mid, body |-> body, expire |-> now + ttl]})]
  BY Shared, Zenon DEF MySQL!SavePrivate
<1> DEFINE m == [mid |-> mid, body |-> body, expire |-> now + ttl]
           r == Begun("insert", k, 0, 0, {m})
<1>2. m \in Stored BY Expiries DEF MySQLInv, Stored
<1>3. req' = [req EXCEPT ![p] = r] BY <1>1, Shared
<1> HIDE DEF m
<1>4. r.at = "insert" /\ r.answer = {} /\ MySQLLocals(r)
  BY <1>2, ConfAssumption DEF Begun, MySQLLocals, Requests, MySQLInv
<1> HIDE DEF r
<1>5. UNCHANGED <<now, held, cleaner>> BY DEF MySQL!SavePrivate
<1> QED BY <1>3, <1>4, <1>5, MySQLClears

\* A row is inserted: there is none with its id.
LEMMA MySQLInsert ==
  ASSUME MySQLInv, storage = "mysql", UNCHANGED storage, NEW p \in Procs, MySQL!Insert(p)
  PROVE  MySQLInv' /\ \E k \in Keys, m \in Stored : Store!Save(k, m)
<1>0. /\ DOMAIN req = Procs /\ req[p].at = "insert" /\ req[p].key \in Keys
      /\ req[p].answer = {} /\ MySQLLocals(req[p]) /\ UNCHANGED <<now, cleaner>>
  BY DEF MySQLInv, MySQLLocals, MySQL!Insert, MySQL!At
<1> DEFINE k == req[p].key
           r == Idle({})
<1>1. PICK m \in Stored : req[p].msgs = {m} BY <1>0 DEF MySQLLocals
<1>2. /\ held' = [held EXCEPT ![k] = held[k] \cup {m}]
      /\ \A n \in held[k] : n.mid # m.mid
      /\ req' = [req EXCEPT ![p] = r]
  BY <1>1, Shared DEF MySQL!Insert, MySQL!NoDuplicate, MySQL!Return
<1>3. MySQLLocals(r) /\ r.at = "idle" /\ r.answer = {} BY MySQLIdle
<1> HIDE DEF r
<1>4. MySQLInv'
  <2>1. DOMAIN req' = Procs /\ \A q \in Procs : req'[q] = IF q = p THEN r ELSE req[q]
    BY <1>0, <1>2
  <2>2. ASSUME NEW q \in Procs PROVE MySQLLocals(req[q])'
    <3>1. MySQLLocals(req'[q]) BY <1>3, <2>1 DEF MySQLInv
    <3> QED BY <1>0, <3>1 DEF MySQLLocals
  <2>3. held' \in [Keys -> SUBSET Stored] BY <1>0, <1>1, <1>2 DEF MySQLInv
  <2>4. \A j \in Keys : \A n, o \in held'[j] : n.mid = o.mid => n = o
    BY <1>0, <1>2 DEF MySQLInv
  <2> QED BY <1>0, <1>2, <2>1, <2>2, <2>3, <2>4 DEF MySQLInv
<1>5. Store!Save(k, m)
  <2>1. MySQL!Call(r) = MySQL!Call(req[p]) BY <1>0, <1>3, MySQLCall
  <2>2. UNCHANGED Calls BY <1>0, <1>2, <2>1, MySQLCallMoves DEF Calls
  <2>3. held' = [held EXCEPT ![k] = (held[k] \ {}) \cup {m}] BY <1>2
  <2> QED BY <1>0, <2>2, <2>3 DEF Store!Save, Kept
<1> QED BY <1>0, <1>4, <1>5

\* A key is deleted.
LEMMA MySQLDelPrivate ==
  ASSUME MySQLInv, storage = "mysql", UNCHANGED storage, NEW p \in Procs, MySQL!DelPrivate(p)
  PROVE  MySQLInv' /\ \E k \in Keys : Store!Delete(k)
<1>0. UNCHANGED <<now, req, cleaner>> BY DEF MySQL!DelPrivate
<1>1. PICK k \in Keys : held' = [held EXCEPT ![k] = {}] BY DEF MySQL!DelPrivate
<1>2. held' \in [Keys -> SUBSET Stored] /\ \A j \in Keys : held'[j] \subseteq held[j]
  BY <1>1 DEF MySQLInv
<1>3. MySQLInv' BY <1>0, <1>2 DEF MySQLInv, MySQLLocals
<1>4. UNCHANGED <<Kept, now, Calls>> BY <1>0 DEF Kept, Calls, Redis!Call, MySQL!Call
<1> QED BY <1>1, <1>3, <1>4 DEF Store!Delete

\* A reader asks.
LEMMA MySQLGetPrivate ==
  ASSUME MySQLInv, storage = "mysql", UNCHANGED storage, NEW p \in Procs, MySQL!GetPrivate(p)
  PROVE  MySQLInv' /\ \E k \in Keys, mid \in 0..MaxMid : Store!Ask(p, k, mid)
<1>0. DOMAIN req = Procs /\ UNCHANGED <<now, held, cleaner>> /\ req[p].at = "idle"
  BY DEF MySQLInv, MySQL!GetPrivate, MySQL!At
<1>1. PICK k \in Keys, mid \in 0..MaxMid :
        req' = [req EXCEPT ![p] = MySQL!Begun("select", k, mid, now, {})]
  BY DEF MySQL!GetPrivate
<1> DEFINE r == Begun("select", k, mid, now, {})
           a == [at |-> "ask", key |-> k, mid |-> mid, from |-> now, msgs |-> {}, answer |-> {}]
<1>2. req' = [req EXCEPT ![p] = r] BY <1>1, Shared
<1>3. r.at = "select" /\ MySQLLocals(r)
  BY ConfAssumption DEF MySQLLocals, Begun, Requests, MySQLInv
<1>4. MySQL!Call(r) = a
  <2>1. MySQL!Call(r) = [r EXCEPT !.at = "ask"] BY <1>3, MySQLCall, Zenon
  <2>2. [r EXCEPT !.at = "ask"] = a BY DEF Begun
  <2> QED BY <2>1, <2>2
<1> HIDE DEF r
<1>5. MySQLInv' BY <1>0, <1>2, <1>3, MySQLMoves
<1>6. Calls' = [Calls EXCEPT ![p] = a] BY <1>0, <1>2, <1>4, MySQLCallMoves
<1>7. Calls[p].at = "done"
  <2>1. MySQL!Call(req[p]) = Store!Done(req[p].answer) BY <1>0, MySQLCall
  <2> QED BY <2>1 DEF Calls, Store!Done
<1>8. Store!Ask(p, k, mid) BY <1>0, <1>6, <1>7 DEF Store!Ask, Kept
<1> QED BY <1>5, <1>8

\* The table is read.
LEMMA MySQLSelect ==
  ASSUME MySQLInv, storage = "mysql", UNCHANGED storage, NEW p \in Procs, MySQL!Select(p)
  PROVE  MySQLInv' /\ Store!Look(p)
<1>0. /\ DOMAIN req = Procs /\ UNCHANGED <<now, held, cleaner>>
      /\ req[p].at = "select" /\ MySQLLocals(req[p]) /\ req[p].key \in Keys
  BY DEF MySQLInv, MySQLLocals, MySQL!Select, MySQL!At
<1> DEFINE q == req[p]
           S == {m \in held[q.key] : m.mid > q.mid}
           t == [q EXCEPT !.at = "rows"]
           r == [t EXCEPT !.msgs = S]
<1>1. req' = [req EXCEPT ![p] = r] BY DEF MySQL!Select
<1>2. S \in SUBSET Stored BY <1>0 DEF MySQLInv
<1> HIDE DEF S
<1>3. r.at = "rows" /\ MySQLLocals(r) BY <1>0, <1>2 DEF MySQLLocals, Requests
<1>4. MySQL!Call(r) = [[q EXCEPT !.at = "look"] EXCEPT !.msgs = S]
  <2>1. MySQL!Call(r) = [r EXCEPT !.at = "look"] BY <1>3, MySQLCall, Zenon
  <2>2. [r EXCEPT !.at = "look"] = [[q EXCEPT !.at = "look"] EXCEPT !.msgs = S]
    BY <1>0 DEF MySQLLocals, Requests
  <2> QED BY <2>1, <2>2
<1>5. MySQL!Call(q) = [q EXCEPT !.at = "ask"] BY <1>0, MySQLCall
<1>6. [[q EXCEPT !.at = "look"] EXCEPT !.msgs = S] = [[MySQL!Call(q) EXCEPT !.at = "look"] EXCEPT !.msgs = S]
  BY <1>0, <1>5 DEF MySQLLocals, Requests
<1>7. MySQL!Call(q).at = "ask" /\ MySQL!Call(q).key = q.key /\ MySQL!Call(q).mid = q.mid
  BY <1>0, <1>5 DEF MySQLLocals, Requests
<1> HIDE DEF r
<1>8. MySQLInv' BY <1>0, <1>1, <1>3, MySQLMoves
<1>9. Store!Look(p)
  <2>1. Calls' = [Calls EXCEPT ![p] = MySQL!Call(r)] BY <1>0, <1>1, MySQLCallMoves
  <2>2. Calls[p] = MySQL!Call(q) BY DEF Calls
  <2>3. S = {m \in held[Calls[p].key] : m.mid > Calls[p].mid} BY <1>7, <2>2 DEF S
  <2>4. Calls' = [Calls EXCEPT ![p] = [[Calls[p] EXCEPT !.at = "look"] EXCEPT !.msgs = S]]
    BY <1>4, <1>6, <2>1, <2>2
  <2>5. Calls[p].at = "ask" BY <1>7, <2>2
  <2> QED BY <1>0, <2>3, <2>4, <2>5 DEF Store!Look, Kept
<1> QED BY <1>8, <1>9

\* The rows that were read, up to the last or to where the connection broke.
LEMMA MySQLRows ==
  ASSUME MySQLInv, storage = "mysql", UNCHANGED storage, NEW p \in Procs, MySQL!Rows(p)
  PROVE  MySQLInv' /\ Store!Answer(p)
<1>0. /\ DOMAIN req = Procs /\ UNCHANGED <<now, held, cleaner>>
      /\ req[p].at = "rows" /\ MySQLLocals(req[p])
  BY DEF MySQLInv, MySQLLocals, MySQL!Rows, MySQL!At
<1> DEFINE q == req[p]
<1>1. PICK read \in SUBSET q.msgs :
        /\ MySQL!ReadInOrder(read, q.msgs)
        /\ MySQL!Return(p, {m \in read : ~ q.from > m.expire})
  BY DEF MySQL!Rows
<1> DEFINE part == {m \in read : ~ q.from > m.expire}
           live == {m \in q.msgs : m.expire >= q.from}
           r == Idle(part)
<1>2. q.msgs \in SUBSET Stored /\ q.from \in 0..MaxTime /\ q.from <= now
  BY <1>0 DEF MySQLLocals, Requests
<1>3. part \in SUBSET live /\ part \in SUBSET Stored /\ Store!InitialPart(part, live)
  <2>1. \A m \in q.msgs : m.expire \in Int /\ m.mid \in Int BY <1>2, ExpiryType DEF Stored, Mids
  <2>2. q.from \in Int BY <1>2, ConfAssumption
  <2>3. part \in SUBSET live BY <1>1, <2>1, <2>2
  <2>4. \A m \in part, n \in live \ part : m \in read /\ n \in q.msgs \ read
    BY <2>1, <2>2
  <2>5. \A m \in part, n \in live \ part : m.mid <= n.mid
    BY <1>1, <2>1, <2>4 DEF MySQL!ReadInOrder
  <2> QED BY <1>2, <2>3, <2>5 DEF Store!InitialPart
<1>4. req' = [req EXCEPT ![p] = r] BY <1>1, Shared DEF MySQL!Return
<1> HIDE DEF part
<1>5. MySQLLocals(r) /\ r.at = "idle" /\ r.answer = part BY <1>3, MySQLIdle
<1> HIDE DEF r
<1>6. MySQLInv' BY <1>0, <1>4, <1>5, MySQLMoves
<1>7. Store!Answer(p)
  <2>1. MySQL!Call(q) = [q EXCEPT !.at = "look"] BY <1>0, MySQLCall
  <2>2. Calls[p] = MySQL!Call(q) BY DEF Calls
  <2>3. Calls[p].at = "look" /\ Calls[p].msgs = q.msgs /\ Calls[p].from = q.from
    BY <1>0, <2>1, <2>2 DEF MySQLLocals, Requests
  <2>4. MySQL!Call(r) = Store!Done(part) BY <1>5, MySQLCall
  <2>5. Calls' = [Calls EXCEPT ![p] = Store!Done(part)] BY <1>0, <1>4, <2>4, MySQLCallMoves
  <2>6. q.from \in Calls[p].from..now BY <1>2, <2>3, ConfAssumption DEF MySQLInv
  <2>7. part \in SUBSET {m \in Calls[p].msgs : m.expire >= q.from}
        /\ Store!InitialPart(part, {m \in Calls[p].msgs : m.expire >= q.from})
    BY <1>3, <2>3
  <2>8. UNCHANGED <<Kept, now, held>> BY <1>0 DEF Kept
  <2> QED BY <2>3, <2>5, <2>6, <2>7, <2>8 DEF Store!Answer
<1> QED BY <1>6, <1>7

\* A statement fails.
LEMMA MySQLError ==
  ASSUME MySQLInv, storage = "mysql", UNCHANGED storage, NEW p \in Procs, MySQL!Error(p)
  PROVE  MySQLInv' /\ Store!Clear(p)
<1> DEFINE r == Idle({})
<1>1. req' = [req EXCEPT ![p] = r] BY Shared DEF MySQL!Error, MySQL!Return
<1>2. MySQLLocals(r) /\ r.at = "idle" /\ r.answer = {} BY MySQLIdle
<1>3. UNCHANGED <<now, held, cleaner>> BY DEF MySQL!Error
<1> HIDE DEF r
<1> QED BY <1>1, <1>2, <1>3, MySQLClears

\* What the cleaner deletes has expired at its cut.
LEMMA MySQLCleanDb ==
  ASSUME MySQLInv, storage = "mysql", UNCHANGED storage, NEW d \in Dbs, MySQL!CleanDb(d)
  PROVE  MySQLInv' /\ Store!Clean
<1>1. /\ held' = [k \in Keys |-> IF DbOf[k] # d THEN held[k]
                     ELSE {m \in held[k] : ~ m.expire <= cleaner.cut}]
      /\ cleaner' = [cleaner EXCEPT !.asked = {}]
      /\ UNCHANGED <<now, req>>
  BY DEF MySQL!CleanDb, MySQL!Cleanable
<1>2. /\ held' \in [Keys -> SUBSET Stored] /\ \A k \in Keys : held'[k] \subseteq held[k]
      /\ \A k \in Keys : \A m \in held[k] \ held'[k] : m \in Stored /\ m.expire <= cleaner.cut
  BY <1>1 DEF MySQLInv
<1>3. cleaner' \in [todo : SUBSET Dbs, asked : SUBSET Dbs, cut : 0..MaxTime] /\ cleaner'.cut = cleaner.cut
  BY <1>1 DEF MySQLInv
<1>4. MySQLInv' BY <1>1, <1>2, <1>3 DEF MySQLInv, MySQLLocals
<1>5. ASSUME NEW k \in Keys, NEW m \in held[k] \ held'[k] PROVE m.expire <= now
  <2>1. m.expire \in Int /\ m.expire <= cleaner.cut BY <1>2, ExpiryType
  <2>2. cleaner.cut \in Int /\ now \in Int /\ cleaner.cut <= now BY ConfAssumption DEF MySQLInv
  <2> QED BY <2>1, <2>2
<1>6. UNCHANGED <<Kept, now, Calls>> BY <1>1 DEF Kept, Calls, Redis!Call, MySQL!Call
<1>7. DOMAIN held' = Keys BY <1>2
<1> QED BY <1>2, <1>4, <1>5, <1>6, <1>7 DEF Store!Clean

\* A step with MySQL is one of the store, or none.
LEMMA MySQLNext ==
  ASSUME MySQLInv, storage = "mysql", UNCHANGED storage, MySQL!Next
  PROVE  MySQLInv' /\ [Store!Next]_(Store!vars)
<1>1. CASE MySQL!Tick BY <1>1, MySQLTick DEF Store!Next
<1>2. ASSUME UNCHANGED <<now, held, req>>,
             cleaner' \in [todo : SUBSET Dbs, asked : SUBSET Dbs, cut : 0..MaxTime],
             cleaner'.cut \in {cleaner.cut, now}
      PROVE  MySQLInv' /\ UNCHANGED Store!vars
  <2>1. cleaner'.cut <= now BY <1>2, ConfAssumption DEF MySQLInv
  <2>2. MySQLInv' BY <1>2, <2>1 DEF MySQLInv, MySQLLocals
  <2>3. UNCHANGED <<Kept, Calls>> BY <1>2 DEF Kept, Calls, Redis!Call, MySQL!Call
  <2> QED BY <1>2, <2>2, <2>3 DEF Store!vars
<1>3. CASE MySQL!CleanStart
  <2>1. cleaner' = [todo |-> Dbs, asked |-> {}, cut |-> now] /\ UNCHANGED <<now, held, req>>
    BY <1>3 DEF MySQL!CleanStart
  <2> QED BY <1>2, <2>1 DEF MySQLInv
<1>4. ASSUME NEW d \in Dbs, MySQL!CleanAsk(d) \/ MySQL!CleanError(d)
      PROVE  MySQLInv' /\ UNCHANGED Store!vars
  <2>1. /\ \/ cleaner' = [cleaner EXCEPT !.todo = @ \ {d}, !.asked = {d}]
           \/ cleaner' = [cleaner EXCEPT !.asked = {}]
        /\ UNCHANGED <<now, held, req>>
    BY <1>4 DEF MySQL!CleanAsk, MySQL!CleanError
  <2>2. ASSUME cleaner' = [cleaner EXCEPT !.todo = @ \ {d}, !.asked = {d}]
        PROVE  /\ cleaner' \in [todo : SUBSET Dbs, asked : SUBSET Dbs, cut : 0..MaxTime]
               /\ cleaner'.cut = cleaner.cut
    BY <2>2 DEF MySQLInv
  <2>3. ASSUME cleaner' = [cleaner EXCEPT !.asked = {}]
        PROVE  /\ cleaner' \in [todo : SUBSET Dbs, asked : SUBSET Dbs, cut : 0..MaxTime]
               /\ cleaner'.cut = cleaner.cut
    BY <2>3 DEF MySQLInv
  <2> QED BY <1>2, <2>1, <2>2, <2>3
<1>5. ASSUME NEW d \in Dbs, MySQL!CleanDb(d) PROVE MySQLInv' /\ Store!Next
  BY <1>5, MySQLCleanDb DEF Store!Next
<1>6. ASSUME NEW p \in Procs,
             \/ MySQL!SavePrivate(p) \/ MySQL!Insert(p) \/ MySQL!DelPrivate(p)
             \/ MySQL!GetPrivate(p) \/ MySQL!Select(p) \/ MySQL!Rows(p) \/ MySQL!Error(p)
      PROVE  MySQLInv' /\ Store!Next
  BY <1>6, MySQLSavePrivate, MySQLInsert, MySQLDelPrivate, MySQLGetPrivate, MySQLSelect,
     MySQLRows, MySQLError DEF Store!Next
<1> QED BY <1>1, <1>3, <1>4, <1>5, <1>6 DEF MySQL!Next

-----------------------------------------------------------------------------
(* The theorems. *)

\* What is true of the service with either storage.
ServiceInv ==
  \/ storage = "redis" /\ RedisInv
  \/ storage = "mysql" /\ MySQLInv

\* It starts as an empty store.
LEMMA ServiceInit == Init => ServiceInv /\ Store!Init
<1> SUFFICES ASSUME Init PROVE ServiceInv /\ Store!Init OBVIOUS
<1>1. /\ storage \in {"redis", "mysql"} /\ now = 0 /\ held = [k \in Keys |-> {}]
      /\ req = [p \in Procs |-> Idle({})]
  BY Shared DEF Init, Redis!Init, MySQL!Init
<1>2. Idle({}).at = "idle" /\ Idle({}).answer = {} BY DEF Idle, Resting
<1>3. ASSUME storage = "redis" PROVE ServiceInv
  <2>1. used = [k \in Keys |-> {}] /\ delCH = <<>> /\ cleaner = [key |-> NoKey, mids |-> {}]
    BY <1>3 DEF Init, Redis!Init, Redis!NoWork
  <2>2. RedisLocals(Idle({})) BY <1>1, ConfAssumption DEF RedisLocals, Idle, Resting, Requests
  <2>3. RedisTypes BY <1>1, <2>1, <2>2, ConfAssumption DEF RedisTypes
  <2>4. /\ \A k \in Keys, m \in Stored : ~Seen(k, m)
        /\ \A p \in Procs, k \in Keys, m \in Stored : ~Pending(p, k, m)
    BY <1>1, <1>2 DEF Seen, Pending
  <2>5. \A k \in Keys, mid \in Mids : ~ToldOf(k, mid) BY <2>1 DEF ToldOf, Redis!Told
  <2>6. Ids BY <2>4, <2>5 DEF Ids
  <2> QED BY <1>3, <2>3, <2>6 DEF ServiceInv, RedisInv
<1>4. ASSUME storage = "mysql" PROVE ServiceInv
  <2>1. cleaner = [todo |-> {}, asked |-> {}, cut |-> 0] BY <1>4 DEF Init, MySQL!Init
  <2>2. MySQLLocals(Idle({})) BY <1>1, ConfAssumption DEF MySQLLocals, Idle, Resting, Requests
  <2>3. MySQLInv BY <1>1, <2>1, <2>2, ConfAssumption DEF MySQLInv
  <2> QED BY <1>4, <2>3 DEF ServiceInv
<1>5. Store!Init
  <2>1. Kept \in Nat BY ConfAssumption DEF Kept
  <2>2. Redis!Call(Idle({})) = Store!Done({}) /\ MySQL!Call(Idle({})) = Store!Done({})
    BY <1>2, RedisCall, MySQLCall
  <2>3. Calls = [p \in Procs |-> Store!Done({})] BY <1>1, <2>2 DEF Calls
  <2> QED BY <1>1, <2>1, <2>3 DEF Store!Init
<1> QED BY <1>1, <1>3, <1>4, <1>5

\* Every step keeps the invariant and is one of the store, or none.
LEMMA ServiceNext == ServiceInv /\ [Next]_vars => ServiceInv' /\ [Store!Next]_(Store!vars)
<1> SUFFICES ASSUME ServiceInv, [Next]_vars
             PROVE  ServiceInv' /\ [Store!Next]_(Store!vars)
  OBVIOUS
<1>1. CASE storage = "redis" /\ Redis!Next /\ UNCHANGED storage
  BY <1>1, RedisNext DEF ServiceInv
<1>2. CASE storage = "mysql" /\ MySQL!Next /\ UNCHANGED <<storage, used, delCH>>
  BY <1>2, MySQLNext DEF ServiceInv
<1>3. CASE UNCHANGED vars
  <2>1. UNCHANGED <<storage, now, held, used, req, delCH, cleaner>> BY <1>3 DEF vars
  <2>2. RedisInv => RedisInv'
    BY <2>1 DEF RedisInv, RedisTypes, RedisLocals, Ids, Seen, Pending, ToldOf, Redis!Told
  <2>3. MySQLInv => MySQLInv' BY <2>1 DEF MySQLInv, MySQLLocals
  <2>4. UNCHANGED Store!vars BY <2>1 DEF Store!vars, Kept, Calls, Redis!Call, MySQL!Call
  <2> QED BY <2>1, <2>2, <2>3, <2>4 DEF ServiceInv
<1> QED BY <1>1, <1>2, <1>3 DEF Next

\* The invariant of the proofs holds of every behaviour.
LEMMA ServiceAlways == Spec => []ServiceInv
BY ServiceInit, ServiceNext, PTL DEF Spec

\* The types of the variables; with MySQL an id names one message of a key.
THEOREM ServiceTyping == Spec => []TypeOK
<1>1. ServiceInv => TypeOK BY RedisTypeOK, MySQLTypeOK DEF ServiceInv, RedisInv, TypeOK
<1> QED BY <1>1, ServiceAlways, PTL

\* The cleaner of Redis deletes by ids it was handed long before, and no message that
\* is still to be delivered has one of them.
THEOREM CleanerSpares == Spec => []ToldAreExpired
<1>1. ASSUME ServiceInv, storage = "redis" PROVE Redis!ToldAreExpired
  <2> SUFFICES ASSUME NEW w \in Redis!Told, NEW mid \in w.mids,
                      NEW m \in held[w.key], m.mid = mid
               PROVE  m.expire < now
    BY DEF Redis!ToldAreExpired
  <2>1. RedisInv BY <1>1 DEF ServiceInv
  <2>2. w.key \in Keys /\ mid \in Mids
    <3>1. \A i \in DOMAIN delCH : delCH[i] \in Deletion BY <2>1 DEF RedisInv, RedisTypes
    <3>2. CASE w = cleaner BY <2>1, <3>2 DEF RedisInv, RedisTypes
    <3>3. CASE w \in Deletion BY <3>3 DEF Deletion
    <3> QED BY <3>1, <3>2, <3>3 DEF Redis!Told
  <2>3. m \in Stored BY <2>1, <2>2 DEF RedisInv, RedisTypes
  <2>4. ToldOf(w.key, mid) /\ Seen(w.key, m) BY DEF ToldOf, Seen
  <2> QED BY <2>1, <2>2, <2>3, <2>4 DEF RedisInv, Ids
<1>2. ServiceInv => ToldAreExpired BY <1>1 DEF ToldAreExpired
<1> QED BY <1>2, ServiceAlways, PTL

\* Either storage is the store that clients are promised: an answer has no hole, and
\* what was accepted and is not expired, trimmed or deleted is there.
THEOREM ServiceImplements == Spec => Implements
<1>1. Store!Init /\ [][Store!Next]_(Store!vars) => Implements BY DEF Implements, Store!Spec
<1> QED BY <1>1, ServiceInit, ServiceNext, ServiceAlways, PTL DEF Spec
=============================================================================
