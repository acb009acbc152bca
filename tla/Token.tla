-------------------------------- MODULE Token --------------------------------
(***************************************************************************)
(* The tickets of a channel (comet/token.go): a map, and a list of the     *)
(* same tickets in the order of their last use, which is meant to be the   *)
(* order in which they expire.  Time is what the caller's reading of the   *)
(* clock says; a function reads it more than once.                         *)
(***************************************************************************)
EXTENDS Integers, Sequences

CONSTANTS
  Tickets,     \* tickets clients are given
  TokenExpire  \* Conf.TokenExpire

ASSUME TokenAssumption == TokenExpire \in Nat

VARIABLES
  token, \* the tickets in the map
  lru    \* the list, its front first

TokenData == [ticket : Tickets, expire : Nat]

NewToken == token = {} /\ lru = <<>>

Lasting(k, now) == [ticket |-> k, expire |-> now + TokenExpire]

PushBack(k, now) == token' = token \cup {k} /\ lru' = Append(lru, Lasting(k, now))

\* now.After(expire) fails for ticket k.
Valid(k, now) == \E i \in DOMAIN lru : lru[i].ticket = k /\ lru[i].expire >= now

\* Mutation: a ticket that was used keeps its place in the list.
RefreshInPlace(k, now) ==
  /\ lru' = [i \in DOMAIN lru |-> IF lru[i].ticket = k THEN Lasting(k, now) ELSE lru[i]]
  /\ UNCHANGED token

\* A ticket that was used lasts as long as a new one, and goes behind all others.
Refresh(k, now) ==
  /\ \E i \in DOMAIN lru :
       /\ lru[i].ticket = k
       /\ lru' = Append(SubSeq(lru, 1, i - 1) \o SubSeq(lru, i + 1, Len(lru)), Lasting(k, now))
  /\ UNCHANGED token

\* The first n tickets of the list are expired, and the next one is not.
Stale(n, now) ==
  /\ \A i \in 1..n : lru[i].expire < now
  /\ n < Len(lru) => lru[n + 1].expire >= now

\* Mutation: what leaves the list stays in the map.
cleanList(now) ==
  /\ \E n \in 0..Len(lru) : Stale(n, now) /\ lru' = SubSeq(lru, n + 1, Len(lru))
  /\ UNCHANGED token

\* clean ends at the first ticket that is not expired.
clean(now) ==
  \E n \in 0..Len(lru) :
    /\ Stale(n, now)
    /\ lru' = SubSeq(lru, n + 1, Len(lru))
    /\ token' = token \ {lru[i].ticket : i \in 1..n}
=============================================================================
