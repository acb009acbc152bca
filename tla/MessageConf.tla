----------------------------- MODULE MessageConf -----------------------------
(***************************************************************************)
(* What the two storages of the message service share: the configuration,  *)
(* the messages they store and the requests they serve (message/rpc.go).   *)
(***************************************************************************)
EXTENDS Integers, Sequences, FiniteSets

CONSTANTS
  Keys,          \* user keys
  Bodies,        \* message contents
  Procs,         \* goroutines of the RPC server
  Ttls,          \* the Expire argument, in seconds
  RedisMaxStore, \* Conf.RedisMaxStore
  DelCap,        \* capacity of delCH
  Dbs,           \* the databases of Conf.MySQLSource
  DbOf,          \* the database the ring gives for a key
  NoKey,         \* the key of a request not made
  MaxTime,       \* bound: the clock
  MaxMid         \* bound: message ids

Mids  == 1..MaxMid
Times == 0..(MaxTime + CHOOSE t \in Ttls : \A u \in Ttls : u <= t)

ASSUME ConfAssumption ==
  /\ Ttls \subseteq Nat /\ \E t \in Ttls : \A u \in Ttls : u <= t
  /\ RedisMaxStore \in Nat \ {0}
  /\ DelCap \in Nat \ {0}
  /\ DbOf \in [Keys -> Dbs]
  /\ NoKey \notin Keys
  /\ MaxTime \in Nat
  /\ MaxMid \in Nat

Stored == [mid : Mids, body : Bodies, expire : Times]

\* A goroutine between two requests: no locals but the answer of the last one,
\* for the time until the next.
Resting(at, answer) ==
  [at |-> at, key |-> NoKey, mid |-> 0, from |-> 0, msgs |-> {}, answer |-> answer]

Idle(answer) == Resting("idle", answer)

\* A request that begins with its first step.
Begun(at, key, mid, from, msgs) ==
  [at |-> at, key |-> key, mid |-> mid, from |-> from, msgs |-> msgs, answer |-> {}]

\* The locals of a request: key and mid are its arguments, from the clock when
\* it began, msgs the message to save or the messages read.
Requests(states) ==
  [at : states, key : Keys \cup {NoKey}, mid : 0..MaxMid, from : 0..MaxTime,
   msgs : SUBSET Stored, answer : SUBSET Stored]
=============================================================================
