----------------------------- MODULE MySQLStorage -----------------------------
(***************************************************************************)
(* The MySQL storage of the message service (message/mysql.go) behind the  *)
(* RPC handlers of message/rpc.go: table private_msg, split over databases *)
(* by user key, and the goroutine that cleans one database after the other.*)
(* A statement is one step of its database.  A statement that takes effect *)
(* after its sender saw an error is the same as a sender that has not seen *)
(* the error yet.                                                          *)
(***************************************************************************)
EXTENDS MessageConf

VARIABLES
  now,      \* time.Now().Unix()
  table,    \* the rows of each key
  req,      \* the request each goroutine serves
  cleaner   \* the goroutine clean: the databases left, the one asked, and the
            \* expiry to delete

vars == <<now, table, req, cleaner>>

Init ==
  /\ now     = 0
  /\ table   = [k \in Keys |-> {}]
  /\ req     = [p \in Procs |-> Idle({})]
  /\ cleaner = [todo |-> {}, asked |-> {}, cut |-> 0]

Tick == now < MaxTime /\ now' = now + 1 /\ UNCHANGED <<table, req, cleaner>>

At(p, s)       == req[p].at = s
Return(p, ans) == req' = [req EXCEPT ![p] = Idle(ans)]

\* SavePrivate reads the clock ...
SavePrivate(p) ==
  /\ At(p, "idle")
  /\ \E k \in Keys, mid \in Mids, body \in Bodies, ttl \in Ttls :
       req' = [req EXCEPT ![p] = Begun("insert", k, 0, 0,
                 {[mid |-> mid, body |-> body, expire |-> now + ttl]})]
  /\ UNCHANGED <<now, table, cleaner>>

\* Mutation: the table has no unique index.
InsertDuplicate(k, m) == TRUE

\* The unique index ux_private_msg_1 on skey and mid.
NoDuplicate(k, m) == \A n \in table[k] : n.mid # m.mid

\* ... and inserts the row; a duplicate is an error (Error below).
Insert(p) ==
  /\ At(p, "insert")
  /\ \A m \in req[p].msgs : NoDuplicate(req[p].key, m)
  /\ table' = [table EXCEPT ![req[p].key] = @ \cup req[p].msgs]
  /\ Return(p, {})
  /\ UNCHANGED <<now, cleaner>>

\* DelPrivate.
DelPrivate(p) ==
  /\ At(p, "idle")
  /\ \E k \in Keys : table' = [table EXCEPT ![k] = {}]
  /\ UNCHANGED <<now, req, cleaner>>

\* GetPrivate is called with the last id the client received, and reads the clock.
GetPrivate(p) ==
  /\ At(p, "idle")
  /\ \E k \in Keys, mid \in 0..MaxMid :
       req' = [req EXCEPT ![p] = Begun("select", k, mid, now, {})]
  /\ UNCHANGED <<now, table, cleaner>>

Select(p) ==
  /\ At(p, "select")
  /\ req' = [req EXCEPT ![p].at = "rows",
               ![p].msgs = {m \in table[req[p].key] : m.mid > req[p].mid}]
  /\ UNCHANGED <<now, table, cleaner>>

\* Mutation: the rows come in no order.
ReadUnordered(read, S) == TRUE

\* The rows read when rows.Next has returned false, at the end or because the
\* connection broke (rows.Err is not looked at): the first ones ORDER BY mid.
ReadInOrder(read, S) == \A m \in read, n \in S \ read : m.mid < n.mid

\* The loop of GetPrivate over the rows.
Rows(p) ==
  /\ At(p, "rows")
  /\ \E read \in SUBSET req[p].msgs :
       /\ ReadInOrder(read, req[p].msgs)
       /\ Return(p, {m \in read : ~ req[p].from > m.expire})
  /\ UNCHANGED <<now, table, cleaner>>

\* A statement, or Scan of a row, fails: SavePrivate or GetPrivate returns it.
Error(p) ==
  /\ ~ At(p, "idle")
  /\ Return(p, {})
  /\ UNCHANGED <<now, table, cleaner>>

\* clean starts a round after its sleep: the clock is read once for all databases ...
CleanStart ==
  /\ cleaner.todo = {} /\ cleaner.asked = {}
  /\ cleaner' = [todo |-> Dbs, asked |-> {}, cut |-> now]
  /\ UNCHANGED <<now, table, req>>

\* ... and they are asked one after the other, in any order: the pool is a map.
CleanAsk(d) ==
  /\ cleaner.asked = {} /\ d \in cleaner.todo
  /\ cleaner' = [cleaner EXCEPT !.todo = @ \ {d}, !.asked = {d}]
  /\ UNCHANGED <<now, table, req>>

\* WHERE ttl<=?
Cleanable(m, cut) == m.expire <= cut

CleanDb(d) ==
  /\ d \in cleaner.asked
  /\ table' = [k \in Keys |-> IF DbOf[k] # d THEN table[k]
                 ELSE {m \in table[k] : ~ Cleanable(m, cleaner.cut)}]
  /\ cleaner' = [cleaner EXCEPT !.asked = {}]
  /\ UNCHANGED <<now, req>>

\* Mutation: an error ends the round.
CleanErrorReturns(d) ==
  /\ d \in cleaner.asked
  /\ cleaner' = [cleaner EXCEPT !.asked = {}, !.todo = {}]
  /\ UNCHANGED <<now, table, req>>

\* The database answers an error: clean goes on with the next one.
CleanError(d) ==
  /\ d \in cleaner.asked
  /\ cleaner' = [cleaner EXCEPT !.asked = {}]
  /\ UNCHANGED <<now, table, req>>

Next ==
  \/ Tick
  \/ CleanStart
  \/ \E d \in Dbs : CleanAsk(d) \/ CleanDb(d) \/ CleanError(d)
  \/ \E p \in Procs :
       \/ SavePrivate(p) \/ Insert(p) \/ DelPrivate(p)
       \/ GetPrivate(p) \/ Select(p) \/ Rows(p) \/ Error(p)

Spec == Init /\ [][Next]_vars

-----------------------------------------------------------------------------
\* The types of the variables, and the key of the table: an id names one message
\* of a key, whichever calls saved it.
TypeOK ==
  /\ now     \in 0..MaxTime
  /\ table   \in [Keys -> SUBSET Stored]
  /\ req     \in [Procs -> Requests({"idle", "insert", "select", "rows"})]
  /\ cleaner \in [todo : SUBSET Dbs, asked : SUBSET Dbs, cut : 0..MaxTime]
  /\ \A k \in Keys : \A m, n \in table[k] : m.mid = n.mid => m = n

\* The call a reader sees in request r.
Call(r) ==
  CASE r.at = "select" -> [r EXCEPT !.at = "ask"]
    [] r.at = "rows"   -> [r EXCEPT !.at = "look"]
    [] OTHER         -> Resting("done", r.answer)
===============================================================================
