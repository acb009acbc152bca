----------------------------- MODULE RedisStorage -----------------------------
(***************************************************************************)
(* The Redis storage of the message service (message/redis.go) behind the  *)
(* RPC handlers of message/rpc.go: one sorted set per user key, whose      *)
(* members are contents with their expiry and whose scores are message     *)
(* ids.  Each command of a pipeline is a step of the server; a connection  *)
(* may break between two of them.  A command that is executed after its    *)
(* sender saw the error is the same as a sender that has not seen it yet.  *)
(***************************************************************************)
EXTENDS MessageConf

VARIABLES
  now,      \* time.Now().Unix()
  zset,     \* the sorted set of each key: its members with their scores
  used,     \* history: the ids callers gave to messages of a key
  req,      \* the request each goroutine serves
  delCH,    \* messages to delete, by key and ids
  cleaner   \* the goroutine clean: what it is deleting

vars == <<now, zset, used, req, delCH, cleaner>>

\* The cleaner has nothing to delete.
NoWork == [key |-> NoKey, mids |-> {}]

Init ==
  /\ now     = 0
  /\ zset    = [k \in Keys |-> {}]
  /\ used    = [k \in Keys |-> {}]
  /\ req     = [p \in Procs |-> Idle({})]
  /\ delCH   = <<>>
  /\ cleaner = NoWork

Tick == now < MaxTime /\ now' = now + 1 /\ UNCHANGED <<zset, used, req, delCH, cleaner>>

At(p, s)       == req[p].at = s
Goto(p, s)     == req' = [req EXCEPT ![p].at = s]
Return(p, ans) == req' = [req EXCEPT ![p] = Idle(ans)]

\* SavePrivate: the expiry is computed before the commands are sent.  Callers
\* give no two messages of a key the same id (they take it from a TimeID).
SavePrivate(p) ==
  /\ At(p, "idle")
  /\ \E k \in Keys, mid \in Mids, body \in Bodies, ttl \in Ttls :
       /\ mid \notin used[k]
       /\ used' = [used EXCEPT ![k] = @ \cup {mid}]
       /\ req' = [req EXCEPT ![p] = Begun("zadd", k, 0, 0,
                    {[mid |-> mid, body |-> body, expire |-> now + ttl]})]
  /\ UNCHANGED <<now, zset, delCH, cleaner>>

\* ZADD: a member that is there already gets the new score.
ZAdd(p) ==
  /\ At(p, "zadd")
  /\ \E m \in req[p].msgs :
       zset' = [zset EXCEPT ![req[p].key] =
                  {n \in @ : n.body # m.body \/ n.expire # m.expire} \cup {m}]
  /\ Goto(p, "trim")
  /\ UNCHANGED <<now, used, delCH, cleaner>>

\* Mutation: the oldest member stays instead of the newest.
KeptOldest(S, kept) ==
  /\ Cardinality(kept) = RedisMaxStore \/ (Cardinality(S) < RedisMaxStore /\ kept = S)
  /\ \A m \in kept, n \in S \ kept : m.mid <= n.mid

\* Members kept by ZREMRANGEBYRANK: the RedisMaxStore with the highest scores.
Kept(S, kept) ==
  /\ Cardinality(kept) = RedisMaxStore \/ (Cardinality(S) < RedisMaxStore /\ kept = S)
  /\ \A m \in kept, n \in S \ kept : m.mid >= n.mid

ZRemRangeByRank(p) ==
  /\ At(p, "trim")
  /\ \E kept \in SUBSET zset[req[p].key] :
       /\ Kept(zset[req[p].key], kept)
       /\ zset' = [zset EXCEPT ![req[p].key] = kept]
  /\ Return(p, {})
  /\ UNCHANGED <<now, used, delCH, cleaner>>

\* DelPrivate.
DelPrivate(p) ==
  /\ At(p, "idle")
  /\ \E k \in Keys : zset' = [zset EXCEPT ![k] = {}]
  /\ UNCHANGED <<now, used, req, delCH, cleaner>>

\* GetPrivate is called with the last id the client received; from (when it was
\* called) is a history variable.
GetPrivate(p) ==
  /\ At(p, "idle")
  /\ \E k \in Keys, mid \in 0..MaxMid :
       req' = [req EXCEPT ![p] = Begun("look", k, mid, now, {})]
  /\ UNCHANGED <<now, zset, used, delCH, cleaner>>

\* The range of ZRANGEBYSCORE (mid +inf.
After(m, mid) == m.mid > mid

ZRangeByScore(p) ==
  /\ At(p, "look")
  /\ req' = [req EXCEPT ![p].at = "filter",
               ![p].msgs = {m \in zset[req[p].key] : After(m, req[p].mid)}]
  /\ UNCHANGED <<now, zset, used, delCH, cleaner>>

\* Mutation: a message expires a second early.
ExpiredEarly(m) == m.expire <= now

\* The check of GetPrivate.
Expired(m) == m.expire < now

\* Mutation: the channel takes more than its capacity.
RoomAlways == TRUE

\* A send on delCH would not block.
Room == Len(delCH) < DelCap

\* The loop of GetPrivate over the rows, with the clock read after the query:
\* expired messages are left out and handed to clean, unless delCH is full.
Filter(p) ==
  LET expired == {m \in req[p].msgs : Expired(m)} IN
  /\ At(p, "filter")
  /\ Return(p, req[p].msgs \ expired)
  /\ delCH' = IF expired # {} /\ Room
                THEN Append(delCH, [key  |-> req[p].key,
                                    mids |-> {m.mid : m \in expired}])
                ELSE delCH
  /\ UNCHANGED <<now, zset, used, cleaner>>

\* The connection fails: SavePrivate or GetPrivate returns the error.
ConnError(p) ==
  /\ req[p].at \in {"zadd", "trim", "look", "filter"}
  /\ Return(p, {})
  /\ UNCHANGED <<now, zset, used, delCH, cleaner>>

\* The goroutine clean takes what is to be deleted ...
CleanTake ==
  /\ cleaner.mids = {} /\ delCH # <<>>
  /\ cleaner' = Head(delCH)
  /\ delCH' = Tail(delCH)
  /\ UNCHANGED <<now, zset, used, req>>

\* ... and deletes it with one ZREMRANGEBYSCORE per id.
ZRemRangeByScore ==
  /\ \E mid \in cleaner.mids :
       /\ zset' = [zset EXCEPT ![cleaner.key] = {m \in @ : m.mid # mid}]
       /\ cleaner' = IF cleaner.mids = {mid} THEN NoWork
                     ELSE [cleaner EXCEPT !.mids = @ \ {mid}]
  /\ UNCHANGED <<now, used, req, delCH>>

\* Without a working connection what is left is not deleted.
CleanError ==
  /\ cleaner.mids # {}
  /\ cleaner' = NoWork
  /\ UNCHANGED <<now, zset, used, req, delCH>>

Clean == CleanTake \/ ZRemRangeByScore \/ CleanError

Next ==
  \/ Tick \/ Clean
  \/ \E p \in Procs :
       \/ SavePrivate(p) \/ ZAdd(p) \/ ZRemRangeByRank(p) \/ DelPrivate(p)
       \/ GetPrivate(p) \/ ZRangeByScore(p) \/ Filter(p) \/ ConnError(p)

Spec == Init /\ [][Next]_vars

-----------------------------------------------------------------------------
\* The types of the variables; delCH keeps to its capacity.
TypeOK ==
  /\ now  \in 0..MaxTime
  /\ zset \in [Keys -> SUBSET Stored]
  /\ used \in [Keys -> SUBSET Mids]
  /\ req  \in [Procs -> Requests({"idle", "zadd", "trim", "look", "filter"})]
  /\ Len(delCH) <= DelCap
  /\ \A i \in DOMAIN delCH : delCH[i] \in [key : Keys, mids : SUBSET Mids]
  /\ cleaner \in [key : Keys \cup {NoKey}, mids : SUBSET Mids]

\* What clean was told to delete.
Told == {delCH[i] : i \in DOMAIN delCH} \cup {cleaner}

\* GetPrivate hands ids, not messages, to another goroutine, which deletes what
\* has these ids long after: no message that is still to be delivered is among
\* them, whatever was saved, trimmed, deleted and saved again in between.
ToldAreExpired ==
  \A w \in Told : \A mid \in w.mids :
    \A m \in zset[w.key] : m.mid = mid => m.expire < now

\* The call a reader sees in request r.
Call(r) ==
  CASE r.at = "look"   -> [r EXCEPT !.at = "ask"]
    [] r.at = "filter" -> [r EXCEPT !.at = "look"]
    [] OTHER         -> Resting("done", r.answer)
=============================================================================
