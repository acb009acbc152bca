---------------------------- MODULE MessageService ----------------------------
(***************************************************************************)
(* The message service with the storage it is configured for: InitStorage  *)
(* of message/storage.go takes one of the two for the life of the process, *)
(* and message/rpc.go hands every call to it.                              *)
(***************************************************************************)
EXTENDS MessageConf

CONSTANT UpDbs  \* databases that answer in the end; the others may fail for ever

ASSUME UpDbsAssumption == UpDbs \subseteq Dbs

VARIABLES
  storage,  \* Conf.StorageType
  now,      \* time.Now().Unix()
  held,     \* messages in the storage, by key
  used,     \* history: the ids callers gave to messages of a key
  req,      \* the request each goroutine serves
  delCH,    \* messages to delete (Redis)
  cleaner   \* the goroutine clean of the storage

vars == <<storage, now, held, used, req, delCH, cleaner>>

Redis == INSTANCE RedisStorage WITH zset <- held
MySQL == INSTANCE MySQLStorage WITH table <- held

Init ==
  \/ storage = "redis" /\ Redis!Init
  \/ storage = "mysql" /\ MySQL!Init /\ used = [k \in Keys |-> {}] /\ delCH = <<>>

Next ==
  \/ storage = "redis" /\ Redis!Next /\ UNCHANGED storage
  \/ storage = "mysql" /\ MySQL!Next /\ UNCHANGED <<storage, used, delCH>>

Spec == Init /\ [][Next]_vars

\* The steps of the cleaner of MySQL.
Of(step)      == storage = "mysql" /\ step /\ UNCHANGED <<storage, used, delCH>>
CleanStart    == Of(MySQL!CleanStart)
CleanAsks     == \E d \in Dbs : Of(MySQL!CleanAsk(d))
CleanDb(d)    == Of(MySQL!CleanDb(d))
CleanAnswered == \E d \in Dbs : CleanDb(d) \/ Of(MySQL!CleanError(d))

\* The cleaner goes on for ever, its sleep ends, and every statement gets an
\* answer.  A database of UpDbs that is asked again and again answers something
\* but an error in the end.  Nothing is assumed of the other databases, of the
\* order in which they are asked, or of Redis.
FairSpec ==
  /\ Spec
  /\ WF_vars(CleanStart) /\ WF_vars(CleanAsks) /\ WF_vars(CleanAnswered)
  /\ \A d \in UpDbs : SF_vars(CleanDb(d))

-----------------------------------------------------------------------------
\* The types of the variables; with MySQL an id names one message of a key, and
\* with Redis the channel to the cleaner keeps to its capacity.
TypeOK ==
  \/ storage = "redis" /\ Redis!TypeOK
  \/ storage = "mysql" /\ MySQL!TypeOK

\* GetPrivate hands ids, not messages, to the cleaner, which deletes what has
\* these ids long after: no message that is still to be delivered is among them,
\* whatever was saved, trimmed, deleted and saved again in between.
ToldAreExpired == storage = "redis" => Redis!ToldAreExpired

\* Messages of a key that are kept: MySQL keeps all there can be.
Kept == IF storage = "redis" THEN RedisMaxStore ELSE MaxMid + 1

\* The calls as readers see them.
Calls ==
  [p \in Procs |-> IF storage = "redis" THEN Redis!Call(req[p]) ELSE MySQL!Call(req[p])]

\* Either storage keeps the promise of the message store: even an answer cut
\* short by a broken connection leaves no hole below its last id, and nothing
\* that was accepted and is not expired, trimmed or deleted is missing.
Store == INSTANCE MessageStore WITH
           room <- Kept, call <- Calls,
           Readers <- Procs, Positions <- 0..MaxMid, Messages <- Stored

Implements == Store!Spec

\* A row of MySQL that has expired does not stay for ever, although other databases
\* may fail in every round, before its own is asked, and its own in some: clean
\* goes on after an error, and what one round leaves another one finds, however
\* far the clock is by then.
ExpiredLeave ==
  \A k \in Keys, m \in Stored :
    DbOf[k] \in UpDbs =>
      (storage = "mysql" /\ m \in held[k] /\ m.expire <= now) ~> m \notin held[k]
=============================================================================
