---------------------------- MODULE ChannelParts ----------------------------
(***************************************************************************)
(* The parts of a channel that comet/seq_channel.go uses under the         *)
(* channel's mutex: tickets, ids and the list of connections.  They read   *)
(* the wall clock, which runs on between two readings and may be set, also *)
(* back.  A channel is dropped and a new one made for its key by           *)
(* CometRPC.Close and New.                                                 *)
(***************************************************************************)
EXTENDS Token, TimeID, Hlist, FiniteSets

CONSTANTS
  MaxClock, \* bound: the last reading of the clock
  MaxSets   \* bound: how often the clock is set

ASSUME PartsAssumption ==
  /\ MaxClock \in Nat \ {0} /\ MaxSets \in Nat
  /\ Tickets \cap {"free", "clean", "sleep"} = {}

VARIABLES
  clock,   \* the wall clock
  sets,    \* how often it was set
  setBack, \* whether it was ever set to an earlier time
  mutex,   \* where its holder is: "free", "clean", "sleep" or the ticket it found
  part,    \* which part callers use
  refused, \* history: tickets AuthToken refused after they were last added
  woken,   \* history: ID has slept and the clock was not set since
  given,   \* history: how many ids the channel gave
  top      \* history: the last id given to a message of the key

tickets == <<token, lru, refused>>
ids     == <<lastID, sleep, woken, given, top>>
conns   == <<first, next, pprev, len>>
time    == <<clock, sets, setBack>>
vars    == <<tickets, ids, conns, time, mutex, part>>

Free == mutex = "free"
Held(k) == mutex = k

\* The clock shows no time before 1; an empty channel has given id 0.
Init ==
  /\ NewToken /\ NewTimeID /\ NewHlist
  /\ clock = 1 /\ sets = 0 /\ setBack = FALSE
  /\ mutex = "free" /\ part \in {"tickets", "ids", "conns"}
  /\ refused = {} /\ woken = FALSE /\ given = 0 /\ top = 0

-----------------------------------------------------------------------------
\* Time passes, for a sleeper as well.
Tick ==
  /\ clock < MaxClock
  /\ clock' = clock + 1
  /\ sleep' = IF sleep > 0 THEN sleep - 1 ELSE sleep
  /\ UNCHANGED <<tickets, lastID, woken, given, top, conns, sets, setBack, mutex, part>>

\* Someone sets the clock; a sleep goes on as it was.
SetClock ==
  /\ sets < MaxSets /\ part # "conns"
  /\ \E c \in 1..MaxClock \ {clock} : c + sleep <= MaxClock /\ clock' = c
  /\ sets' = sets + 1
  /\ setBack' = (setBack \/ clock' < clock)
  /\ woken' = FALSE
  /\ UNCHANGED <<tickets, lastID, sleep, given, top, conns, mutex, part>>

\* AddToken: a ticket in the map is refused as existing, whatever its age.
AddToken(k) ==
  /\ part = "tickets" /\ Free /\ k \notin token
  /\ PushBack(k, clock)
  /\ refused' = refused \ {k}
  /\ mutex' = "clean"
  /\ UNCHANGED <<ids, conns, time, part>>

\* AuthToken looks the ticket up and compares its time with the clock ...
AuthToken(k) ==
  /\ part = "tickets" /\ Free
  /\ IF Valid(k, clock) THEN mutex' = k /\ UNCHANGED refused
     ELSE /\ mutex' = IF k \in token THEN "clean" ELSE "free"
          /\ refused' = refused \cup {k}
  /\ UNCHANGED <<token, lru, ids, conns, time, part>>

\* ... refreshes one that is valid with another reading ...
AuthOk(k) ==
  /\ Held(k)
  /\ Refresh(k, clock)
  /\ mutex' = "clean"
  /\ UNCHANGED <<refused, ids, conns, time, part>>

\* ... and, as AddToken, cleans with one more before it unlocks.
Clean ==
  /\ mutex = "clean"
  /\ clean(clock)
  /\ mutex' = "free"
  /\ UNCHANGED <<refused, ids, conns, time, part>>

\* PushMsg numbers a message, or goes on after a sleep.  Bound: ids end at MaxClock.
PushMsg ==
  /\ part = "ids" /\ ((Free /\ lastID < MaxClock) \/ sleep = 0)
  /\ ID(clock)
  /\ IF sleep' >= 0
     THEN mutex' = "sleep" /\ woken' = TRUE /\ UNCHANGED <<given, top>>
     ELSE mutex' = "free" /\ woken' = FALSE /\ given' = given + 1 /\ top' = lastID'
  /\ UNCHANGED <<tickets, conns, time, part>>

AddConn(e) ==
  /\ part = "conns" /\ Free /\ pprev[e] = Nil
  /\ PushFront(e)
  /\ UNCHANGED <<tickets, ids, time, mutex, part>>

\* RemoveConn is called once for an element that AddConn returned.
RemoveConn(e) ==
  /\ part = "conns" /\ Free /\ pprev[e] # Nil
  /\ Remove(e)
  /\ UNCHANGED <<tickets, ids, time, mutex, part>>

\* The key's channel is closed and a new one made, without tickets or last id.
Renew ==
  /\ part # "conns" /\ Free
  /\ token' = {} /\ lru' = <<>> /\ refused' = {}
  /\ lastID' = 0 /\ sleep' = -1 /\ woken' = FALSE /\ given' = 0
  /\ UNCHANGED <<top, conns, time, mutex, part>>

Next ==
  \/ Tick \/ SetClock
  \/ \E k \in Tickets : AddToken(k) \/ AuthToken(k) \/ AuthOk(k)
  \/ Clean \/ PushMsg \/ Renew
  \/ \E e \in Elements : AddConn(e) \/ RemoveConn(e)

Spec == Init /\ [][Next]_vars

-----------------------------------------------------------------------------
\* The types of the variables; the map and the list hold the same tickets, each
\* once, and the pointers make a list of len elements that ends.
TypeOK ==
  /\ token \subseteq Tickets /\ lru \in Seq(TokenData)
  /\ token = {lru[i].ticket : i \in DOMAIN lru}
  /\ \A i, j \in DOMAIN lru : lru[i].ticket = lru[j].ticket => i = j
  /\ lastID \in 0..MaxClock /\ sleep \in -1..MaxClock
  /\ len = Cardinality({e \in Elements : pprev[e] # Nil})
  /\ Nth[len + 1] = Nil

\* A ticket that AuthToken refused as expired can be added again: clean, which
\* ends at the first ticket that is not expired, has found every one that is, as
\* long as the clock is not set back.  (AddToken itself never makes room.)
RefusedIsForgotten == Free /\ ~setBack => refused \cap token = {}

\* PushMsg blocks every user of the channel while ID sleeps: one sleep takes the
\* clock past the last id, unless it was set meanwhile.
OneSleepIsEnough == woken /\ sleep = 0 => clock > lastID

\* The ids of a channel grow whatever the clock does.  Those of a key, which
\* clients compare with the last one they have seen, do not go back with a new
\* channel as long as the clock is not set back.
KeyIdsGrow ==
  [][given' > given => lastID' > lastID /\ (~setBack => lastID' >= top)]_vars

\* The pointers implement the sequence of connections.
List == [i \in 1..len |-> Nth[i]]

Connections == INSTANCE ConnList WITH list <- List

Linked == Connections!Spec
=============================================================================
