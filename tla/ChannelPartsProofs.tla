-------------------------- MODULE ChannelPartsProofs --------------------------
(***************************************************************************)
(* Theorems about ChannelParts: refused tickets, ids and the linked list,  *)
(* for any number of tickets and connections, any time a ticket lasts and  *)
(* any clock.                                                              *)
(***************************************************************************)
EXTENDS ChannelParts, SequenceTheorems, FiniteSetTheorems, TLAPS

\* What the proofs need to know of the types.
Types ==
  /\ token \subseteq Tickets /\ lru \in Seq(TokenData) /\ refused \subseteq Tickets
  /\ lastID \in Nat /\ sleep \in Int /\ clock \in Nat
  /\ given \in Nat /\ top \in Nat
  /\ setBack \in BOOLEAN /\ woken \in BOOLEAN
  /\ mutex \in IF part = "tickets" THEN Tickets \cup {"free", "clean"} ELSE {"free", "sleep"}

\* The map and the list hold the same tickets, each once.
SameTickets ==
  /\ token = {lru[i].ticket : i \in DOMAIN lru}
  /\ \A i, j \in DOMAIN lru : lru[i].ticket = lru[j].ticket => i = j

\* The list is in the order of expiry, and nothing lasts longer than a new ticket.
InOrder ==
  ~setBack =>
    /\ \A i, j \in DOMAIN lru : i < j => lru[i].expire <= lru[j].expire
    /\ \A i \in DOMAIN lru : lru[i].expire <= clock + TokenExpire

\* A ticket that was refused and is still there is expired, and about to be cleaned.
AboutToLeave ==
  ~setBack =>
    \A k \in refused \cap token :
      /\ mutex = "clean"
      /\ \A i \in DOMAIN lru : lru[i].ticket = k => lru[i].expire < clock

\* A key has no id of the future, and a sleep ends behind the last id.
IdsBehind ==
  /\ ~setBack => top <= clock
  /\ woken => clock + sleep > lastID

TInv == Types /\ SameTickets /\ InOrder /\ AboutToLeave /\ IdsBehind

-----------------------------------------------------------------------------
(* What the operations on sequences do. *)

\* The sequence without its first n elements.
LEMMA Suffix ==
  ASSUME NEW S, NEW s \in Seq(S), NEW n \in 0..Len(s)
  PROVE  /\ SubSeq(s, n + 1, Len(s)) \in Seq(S)
         /\ Len(SubSeq(s, n + 1, Len(s))) = Len(s) - n
         /\ \A j \in 1..(Len(s) - n) : SubSeq(s, n + 1, Len(s))[j] = s[j + n]
<1>1. n + 1 \in 1..(Len(s) + 1) /\ Len(s) \in n..Len(s) BY LenProperties
<1> QED BY <1>1, LenProperties, SubSeqProperties

\* Its first n elements.
LEMMA Prefix ==
  ASSUME NEW S, NEW s \in Seq(S), NEW n \in 0..Len(s)
  PROVE  /\ SubSeq(s, 1, n) \in Seq(S)
         /\ Len(SubSeq(s, 1, n)) = n
         /\ \A j \in 1..n : SubSeq(s, 1, n)[j] = s[j]
BY LenProperties, SubSeqProperties

\* c is s without its element i.
Without(c, s, i) ==
  /\ Len(c) = Len(s) - 1
  /\ \A j \in 1..(Len(s) - 1) : c[j] = IF j < i THEN s[j] ELSE s[j + 1]

\* What comes before element i, and what comes after it.
LEMMA Joined ==
  ASSUME NEW S, NEW s \in Seq(S), NEW i \in 1..Len(s), NEW a \in Seq(S), NEW b \in Seq(S),
         NEW c, Len(c) = Len(a) + Len(b),
         \A j \in 1..(Len(a) + Len(b)) : c[j] = IF j <= Len(a) THEN a[j] ELSE b[j - Len(a)],
         Len(a) = i - 1, \A j \in 1..(i - 1) : a[j] = s[j],
         Len(b) = Len(s) - i, \A j \in 1..(Len(s) - i) : b[j] = s[j + i]
  PROVE  Without(c, s, i)
<1>1. Len(s) \in Nat OBVIOUS
<1>5. ASSUME NEW j \in 1..(Len(s) - 1) 
      PROVE  c[j] = IF j < i THEN s[j] ELSE s[j + 1]
  <2>2. c[j] = IF j <= i - 1 THEN a[j] ELSE b[j - (i - 1)]
    BY <1>1
  <2>3. CASE j < i BY <1>1, <2>2, <2>3
  <2>4. CASE ~(j < i)
      <4>1. j - (i - 1) \in 1..(Len(s) - i) BY <1>1, <2>4
      <4>2. b[j - (i - 1)] = s[(j - (i - 1)) + i] BY <4>1
      <4>3. (j - (i - 1)) + i = j + 1 BY <1>1
      <4> QED BY <1>1, <2>2, <2>4, <4>2, <4>3
  <2> QED BY <2>3, <2>4
<1> QED BY <1>1, <1>5 DEF Without

\* They are joined by concatenation.
LEMMA LeftOut ==
  ASSUME NEW S, NEW s \in Seq(S), NEW i \in 1..Len(s)
  PROVE  /\ SubSeq(s, 1, i - 1) \o SubSeq(s, i + 1, Len(s)) \in Seq(S)
         /\ Without(SubSeq(s, 1, i - 1) \o SubSeq(s, i + 1, Len(s)), s, i)
<1> DEFINE a == SubSeq(s, 1, i - 1)
           b == SubSeq(s, i + 1, Len(s))
<1>0. Len(s) \in Nat /\ i - 1 \in 0..Len(s) /\ i \in 0..Len(s) BY LenProperties
<1>1. a \in Seq(S) /\ Len(a) = i - 1 /\ \A j \in 1..(i - 1) : a[j] = s[j]
  BY <1>0, Prefix
<1>2. b \in Seq(S) /\ Len(b) = Len(s) - i /\ \A j \in 1..(Len(s) - i) : b[j] = s[j + i]
  BY <1>0, Suffix
<1> HIDE DEF a, b
<1>3. /\ a \o b \in Seq(S) /\ Len(a \o b) = Len(a) + Len(b)
      /\ \A j \in 1..(Len(a) + Len(b)) : (a \o b)[j] = IF j <= Len(a) THEN a[j] ELSE b[j - Len(a)]
  <2>1. a \in Seq(S) /\ b \in Seq(S) BY <1>1, <1>2
  <2> QED BY <2>1, ConcatProperties, Zenon
<1>4. Without(a \o b, s, i) BY <1>1, <1>2, <1>3, Joined, Zenon
<1> QED BY <1>3, <1>4 DEF a, b

-----------------------------------------------------------------------------
(* Every step keeps the types and the invariants. *)

\* It holds of a new channel.
LEMMA TInvInit == Init => TInv
<1> SUFFICES ASSUME Init PROVE TInv OBVIOUS
<1> USE DEF Init, NewToken, NewTimeID
<1>1. Types
  <2>1. lru \in Seq(TokenData) BY EmptySeq
  <2>2. sleep \in Int /\ lastID \in Nat /\ clock \in Nat /\ given \in Nat /\ top \in Nat
    OBVIOUS
  <2>3. setBack \in BOOLEAN /\ woken \in BOOLEAN BY Zenon
  <2>4. token = {} /\ refused = {} /\ mutex = "free" OBVIOUS
  <2> HIDE DEF Init, NewToken, NewTimeID
  <2> QED BY <2>1, <2>2, <2>3, <2>4 DEF Types
<1>2. SameTickets /\ InOrder /\ AboutToLeave BY DEF SameTickets, InOrder, AboutToLeave
<1>3. IdsBehind BY DEF IdsBehind
<1> QED BY <1>1, <1>2, <1>3 DEF TInv

\* The tickets of the list, and when they expire.
LEMMA InList ==
  ASSUME Types, NEW i \in DOMAIN lru
  PROVE  lru[i] \in TokenData /\ lru[i].ticket \in Tickets /\ lru[i].expire \in Nat
<1>1. lru[i] \in TokenData BY DEF Types
<1> QED BY <1>1 DEF TokenData

\* A step that leaves the tickets alone.
LEMMA TicketFrame ==
  ASSUME TInv, UNCHANGED <<token, lru, refused>>, clock' \in Nat,
         ~setBack' => ~setBack /\ ~(clock' < clock),
         mutex = "clean" => mutex' = "clean"
  PROVE  SameTickets' /\ InOrder' /\ AboutToLeave'
<1>0. Types /\ SameTickets /\ InOrder /\ AboutToLeave BY DEF TInv
<1>1. clock \in Nat /\ TokenExpire \in Nat BY <1>0, TokenAssumption DEF Types
<1>2. \A i \in DOMAIN lru : lru[i].expire \in Nat BY <1>0, InList
<1>3. SameTickets' BY <1>0 DEF SameTickets
<1>4. InOrder'
  <2> SUFFICES ASSUME ~setBack' PROVE InOrder' BY DEF InOrder
  <2>1. ~setBack /\ clock <= clock' BY <1>1
  <2>2. /\ \A i, j \in DOMAIN lru : i < j => lru[i].expire <= lru[j].expire
        /\ \A i \in DOMAIN lru : lru[i].expire <= clock + TokenExpire
    BY <1>0, <2>1 DEF InOrder
  <2>3. \A i \in DOMAIN lru : lru[i].expire <= clock' + TokenExpire
    BY <1>1, <1>2, <2>1, <2>2
  <2> QED BY <2>2, <2>3 DEF InOrder
<1>5. AboutToLeave'
  <2> SUFFICES ASSUME ~setBack', NEW k \in refused \cap token
               PROVE  /\ mutex' = "clean"
                      /\ \A i \in DOMAIN lru : lru[i].ticket = k => lru[i].expire < clock'
    BY DEF AboutToLeave
  <2>1. ~setBack /\ clock <= clock' BY <1>1
  <2>2. /\ mutex = "clean"
        /\ \A i \in DOMAIN lru : lru[i].ticket = k => lru[i].expire < clock
    BY <1>0, <2>1 DEF AboutToLeave
  <2> QED BY <1>1, <1>2, <2>1, <2>2
<1> QED BY <1>3, <1>4, <1>5

\* A step that leaves the ids and the clock alone.
LEMMA IdFrame ==
  ASSUME IdsBehind, UNCHANGED <<ids, time>>
  PROVE  IdsBehind'
BY DEF IdsBehind, ids, time

\* Time takes no ticket out of its order and no sleep past its end.
LEMMA TickKeeps == TInv /\ Tick => TInv'
<1> SUFFICES ASSUME TInv, Tick PROVE TInv' OBVIOUS
<1>0. Types /\ IdsBehind BY DEF TInv
<1>1. Types' BY <1>0 DEF Tick, Types, tickets
<1>2. ~setBack' => ~setBack /\ ~(clock' < clock) BY <1>0 DEF Tick, Types
<1>3. UNCHANGED <<token, lru, refused, mutex>> BY DEF Tick, tickets
<1>4. SameTickets' /\ InOrder' /\ AboutToLeave' BY <1>1, <1>2, <1>3, TicketFrame DEF Types
<1>5. IdsBehind' BY <1>0 DEF IdsBehind, Types, Tick
<1> QED BY <1>1, <1>4, <1>5 DEF TInv

\* A clock that is set back is remembered in setBack, and any setting ends woken.
LEMMA SetClockKeeps == TInv /\ SetClock => TInv'
<1> SUFFICES ASSUME TInv, SetClock PROVE TInv' OBVIOUS
<1>0. Types /\ IdsBehind BY DEF TInv
<1>1. clock' \in Nat BY PartsAssumption DEF SetClock
<1>2. setBack' = (setBack \/ clock' < clock) BY DEF SetClock
<1>3. setBack' \in BOOLEAN BY <1>2, Zenon
<1>4. UNCHANGED <<token, lru, refused, lastID, sleep, given, top, mutex, part>> /\ woken' = FALSE
  BY DEF SetClock, tickets
<1>5. Types' BY <1>0, <1>1, <1>3, <1>4 DEF Types
<1>6. ~setBack' => ~setBack /\ ~(clock' < clock) BY <1>2, Zenon
<1>7. SameTickets' /\ InOrder' /\ AboutToLeave' BY <1>1, <1>4, <1>6, TicketFrame
<1>8. ~setBack' => top' <= clock' BY <1>0, <1>1, <1>4, <1>6 DEF Types, IdsBehind
<1>9. IdsBehind' BY <1>4, <1>8 DEF IdsBehind
<1> QED BY <1>5, <1>7, <1>9 DEF TInv

\* The ticket is new to the map and goes to the end of the list.
LEMMA AddTokenKeeps == ASSUME TInv, NEW k \in Tickets, AddToken(k) PROVE TInv'
<1> DEFINE n == Len(lru)
<1>0. Types /\ SameTickets /\ InOrder /\ AboutToLeave /\ IdsBehind BY DEF TInv
<1>1. /\ UNCHANGED <<clock, setBack, lastID, sleep, given, top, woken>>
      /\ UNCHANGED <<ids, time, part>> /\ part = "tickets"
      /\ mutex = "free" /\ mutex' = "clean" /\ k \notin token
      /\ token' = token \cup {k} /\ refused' = refused \ {k}
  BY DEF AddToken, ids, time, PushBack, Free
<1>2. lru' = Append(lru, [ticket |-> k, expire |-> clock + TokenExpire])
  BY DEF AddToken, PushBack, Lasting
<1>3. n \in Nat /\ DOMAIN lru = 1..n /\ TokenExpire \in Nat /\ clock \in Nat
  BY <1>0, LenProperties, TokenAssumption DEF Types
<1>4. [ticket |-> k, expire |-> clock + TokenExpire] \in TokenData BY <1>3 DEF TokenData
<1>5. /\ lru' \in Seq(TokenData) /\ DOMAIN lru' = 1..(n + 1)
      /\ \A i \in 1..n : lru'[i] = lru[i]
      /\ lru'[n + 1] = [ticket |-> k, expire |-> clock + TokenExpire]
  BY <1>0, <1>2, <1>3, <1>4, AppendProperties, LenProperties DEF Types
<1>6. Types' BY <1>0, <1>1, <1>5 DEF Types
<1> HIDE DEF n
<1>7. SameTickets'
  <2>1. \A i \in 1..n : lru[i].ticket # k BY <1>0, <1>1, <1>3 DEF SameTickets
  <2>2. token' = {lru'[i].ticket : i \in DOMAIN lru'}
    <3>1. token = {lru[i].ticket : i \in 1..n} BY <1>0, <1>3 DEF SameTickets
    <3> QED BY <1>1, <1>3, <1>5, <3>1
  <2>3. \A i, j \in DOMAIN lru' : lru'[i].ticket = lru'[j].ticket => i = j
    BY <1>0, <1>3, <1>5, <2>1 DEF SameTickets
  <2> QED BY <2>2, <2>3 DEF SameTickets
<1>8. InOrder'
  <2> SUFFICES ASSUME ~setBack'
               PROVE  /\ \A i, j \in DOMAIN lru' : i < j => lru'[i].expire <= lru'[j].expire
                      /\ \A i \in DOMAIN lru' : lru'[i].expire <= clock + TokenExpire
    BY <1>1 DEF InOrder
  <2>1. /\ \A i, j \in 1..n : i < j => lru[i].expire <= lru[j].expire
        /\ \A i \in 1..n : lru[i].expire <= clock + TokenExpire
    BY <1>0, <1>1, <1>3 DEF InOrder
  <2> QED BY <1>3, <1>5, <2>1, SMTT(30)
<1>9. AboutToLeave' BY <1>0, <1>1 DEF AboutToLeave
<1>10. IdsBehind' BY <1>0, <1>1, IdFrame
<1> QED BY <1>6, <1>7, <1>8, <1>9, <1>10 DEF TInv

\* A ticket that is refused was not there, or is expired and about to be cleaned.
LEMMA AuthTokenKeeps == ASSUME TInv, NEW k \in Tickets, AuthToken(k) PROVE TInv'
<1>0. Types /\ SameTickets /\ InOrder /\ AboutToLeave /\ IdsBehind BY DEF TInv
<1>1. /\ UNCHANGED <<token, lru, ids, time, clock, setBack, lastID, sleep, given, top, woken>>
      /\ UNCHANGED part /\ mutex = "free" /\ part = "tickets"
  BY DEF AuthToken, ids, time, Free
<1>2. refused' \in {refused, refused \cup {k}} /\ mutex' \in {k, "clean", "free"}
  BY DEF AuthToken
<1>3. Types' BY <1>0, <1>1, <1>2 DEF Types
<1>4. SameTickets' /\ InOrder' /\ IdsBehind'
  BY <1>0, <1>1, IdFrame DEF SameTickets, InOrder
<1>5. AboutToLeave'
  <2> SUFFICES ASSUME ~setBack, NEW x \in refused' \cap token
               PROVE  /\ mutex' = "clean"
                      /\ \A i \in DOMAIN lru : lru[i].ticket = x => lru[i].expire < clock
    BY <1>1 DEF AboutToLeave
  <2>1. x \notin refused BY <1>0, <1>1 DEF AboutToLeave
  <2>2. x = k /\ ~Valid(k, clock) /\ mutex' = "clean" BY <2>1 DEF AuthToken
  <2>3. \A i \in DOMAIN lru : lru[i].ticket = k => ~(lru[i].expire >= clock) BY <2>2 DEF Valid
  <2>4. \A i \in DOMAIN lru : lru[i].expire \in Nat BY <1>0, InList
  <2>5. clock \in Nat BY <1>0 DEF Types
  <2> QED BY <2>2, <2>3, <2>4, <2>5
<1> QED BY <1>3, <1>4, <1>5 DEF TInv

\* The ticket goes to the end of the list with a later expiry.
LEMMA AuthOkKeeps == ASSUME TInv, NEW k \in Tickets, AuthOk(k) PROVE TInv'
<1> DEFINE n == Len(lru)
           x == [ticket |-> k, expire |-> clock + TokenExpire]
<1>0. Types /\ SameTickets /\ InOrder /\ AboutToLeave /\ IdsBehind BY DEF TInv
<1>1. /\ UNCHANGED <<token, refused, part, ids, time, clock, setBack, lastID, sleep, given, top, woken>>
      /\ mutex = k /\ mutex' = "clean"
  BY DEF AuthOk, ids, time, Held, Refresh
<1>2. n \in Nat /\ DOMAIN lru = 1..n /\ TokenExpire \in Nat /\ clock \in Nat
  BY <1>0, LenProperties, TokenAssumption DEF Types
<1>3. PICK i \in 1..n :
        /\ lru[i].ticket = k
        /\ lru' = Append(SubSeq(lru, 1, i - 1) \o SubSeq(lru, i + 1, Len(lru)), x)
  BY <1>2 DEF AuthOk, Refresh, Lasting
<1> DEFINE c == SubSeq(lru, 1, i - 1) \o SubSeq(lru, i + 1, Len(lru))
<1>4. c \in Seq(TokenData) /\ Without(c, lru, i) BY <1>0, LeftOut DEF Types
<1>5. x \in TokenData /\ x.ticket = k /\ x.expire = clock + TokenExpire
  BY <1>2 DEF TokenData
<1>6. lru' = Append(c, x) BY <1>3
<1> HIDE DEF n, c, x
<1>7. /\ lru' \in Seq(TokenData) /\ Len(lru') = Len(c) + 1 /\ lru'[Len(c) + 1] = x
      /\ \A j \in 1..Len(c) : lru'[j] = c[j]
  BY <1>4, <1>5, <1>6, AppendProperties
<1>8. Len(c) = n - 1 /\ \A j \in 1..(n - 1) : c[j] = IF j < i THEN lru[j] ELSE lru[j + 1]
  BY <1>4 DEF Without, n
<1>9. /\ DOMAIN lru' = 1..n /\ lru'[n] = x
      /\ \A j \in 1..(n - 1) : lru'[j] = IF j < i THEN lru[j] ELSE lru[j + 1]
  <2>1. DOMAIN lru' = 1..Len(lru') BY <1>7, LenProperties
  <2>2. Len(lru') = n BY <1>2, <1>7, <1>8
  <2> QED BY <1>2, <1>7, <1>8, <2>1, <2>2
<1>9a. part = "tickets"
  <2>1. k \notin {"free", "sleep"} BY PartsAssumption
  <2> QED BY <1>0, <1>1, <2>1 DEF Types
<1>10. Types' BY <1>0, <1>1, <1>7, <1>9a DEF Types
<1>11. SameTickets'
  <2>1. \A j \in 1..n : lru[j].ticket = k => j = i BY <1>0, <1>2, <1>3 DEF SameTickets
  <2>2. ASSUME NEW j \in 1..n, j # i
        PROVE  \E l \in 1..(n - 1) : lru'[l] = lru[j]
    <3>1. CASE j < i BY <1>2, <1>9, <3>1
    <3>2. CASE j > i
      <4>1. j - 1 \in 1..(n - 1) /\ ~(j - 1 < i) /\ (j - 1) + 1 = j BY <1>2, <3>2
      <4> QED BY <1>9, <4>1
    <3> QED BY <1>2, <2>2, <3>1, <3>2
  <2>3. \A t : t \in token <=> \E l \in 1..n : lru'[l].ticket = t
    <3>1. \A t : t \in token <=> \E l \in 1..n : lru[l].ticket = t
      BY <1>0, <1>2 DEF SameTickets
    <3>2. ASSUME NEW l \in 1..n PROVE lru'[l].ticket \in token
      <4>1. CASE l = n BY <1>3, <1>5, <1>9, <3>1, <4>1
      <4>2. CASE l # n
        <5>1. l \in 1..(n - 1) /\ l + 1 \in 1..n BY <1>2, <4>2
        <5> QED BY <1>9, <3>1, <5>1
      <4> QED BY <4>1, <4>2
    <3>3. ASSUME NEW j \in 1..n PROVE \E l \in 1..n : lru'[l].ticket = lru[j].ticket
      <4>1. CASE j = i
        <5>1. n \in 1..n BY <1>2
        <5> QED BY <1>3, <1>5, <1>9, <4>1, <5>1
      <4>2. CASE j # i
        <5>1. PICK l \in 1..(n - 1) : lru'[l] = lru[j] BY <2>2, <4>2
        <5>2. l \in 1..n BY <1>2
        <5> QED BY <5>1, <5>2
      <4> QED BY <4>1, <4>2
    <3> QED BY <3>1, <3>2, <3>3
  <2>4. token' = {lru'[l].ticket : l \in DOMAIN lru'} BY <1>1, <1>9, <2>3
  <2>5. ASSUME NEW l \in 1..n, NEW m \in 1..n, lru'[l].ticket = lru'[m].ticket
        PROVE  l = m
    <3>1. \A p, q \in 1..n : lru[p].ticket = lru[q].ticket => p = q
      BY <1>0, <1>2 DEF SameTickets
    <3> DEFINE old(p) == IF p < i THEN p ELSE p + 1
    <3>2. \A p \in 1..(n - 1) :
            old(p) \in 1..n /\ old(p) # i /\ lru'[p].ticket = lru[old(p)].ticket
      BY <1>2, <1>9
    <3>3. lru'[n].ticket = k BY <1>5, <1>9
    <3>4. \A p \in 1..(n - 1) : lru'[p].ticket # k BY <2>1, <3>2
    <3>5. CASE l = n /\ m = n BY <3>5
    <3>6. CASE l # n /\ m # n
      <4>1. l \in 1..(n - 1) /\ m \in 1..(n - 1) BY <1>2, <3>6
      <4>2. old(l) = old(m) BY <2>5, <3>1, <3>2, <4>1
      <4> QED BY <1>2, <4>1, <4>2
    <3>7. CASE l = n /\ m # n
      <4>1. m \in 1..(n - 1) BY <1>2, <3>7
      <4> QED BY <2>5, <3>3, <3>4, <3>7, <4>1
    <3>8. CASE l # n /\ m = n
      <4>1. l \in 1..(n - 1) BY <1>2, <3>8
      <4> QED BY <2>5, <3>3, <3>4, <3>8, <4>1
    <3> QED BY <3>5, <3>6, <3>7, <3>8
  <2> QED BY <1>9, <2>4, <2>5 DEF SameTickets
<1>12. InOrder'
  <2> SUFFICES ASSUME ~setBack
               PROVE  /\ \A l, m \in 1..n : l < m => lru'[l].expire <= lru'[m].expire
                      /\ \A l \in 1..n : lru'[l].expire <= clock + TokenExpire
    BY <1>1, <1>9 DEF InOrder
  <2>1. /\ \A l, m \in 1..n : l < m => lru[l].expire <= lru[m].expire
        /\ \A l \in 1..n : lru[l].expire <= clock + TokenExpire
    BY <1>0, <1>2 DEF InOrder
  <2>2. \A l \in 1..(n - 1) : lru'[l].expire <= clock + TokenExpire
    BY <1>2, <1>9, <2>1
  <2>3. lru'[n].expire = clock + TokenExpire BY <1>5, <1>9
  <2>4. \A l, m \in 1..(n - 1) : l < m => lru'[l].expire <= lru'[m].expire
    BY <1>2, <1>9, <2>1
  <2> QED BY <1>2, <2>2, <2>3, <2>4
<1>13. AboutToLeave'
  <2>1. mutex # "clean" BY <1>1, PartsAssumption
  <2>2. ~setBack => refused \cap token = {} BY <1>0, <2>1 DEF AboutToLeave
  <2> QED BY <1>1, <2>2 DEF AboutToLeave
<1>14. IdsBehind' BY <1>0, <1>1, IdFrame
<1> QED BY <1>10, <1>11, <1>12, <1>13, <1>14 DEF TInv

\* The list is sorted, so that the tickets before the first valid one are all that
\* are expired: none of those AuthToken refused is left.
LEMMA CleanKeeps == ASSUME TInv, Clean PROVE TInv'
<1> DEFINE n == Len(lru)
<1>0. Types /\ SameTickets /\ InOrder /\ AboutToLeave /\ IdsBehind BY DEF TInv
<1>1. /\ UNCHANGED <<refused, ids, time, clock, setBack, lastID, sleep, given, top, woken>>
      /\ mutex = "clean" /\ mutex' = "free"
  BY DEF Clean, ids, time
<1>2. n \in Nat /\ DOMAIN lru = 1..n /\ clock \in Nat
  BY <1>0, LenProperties DEF Types
<1>3. PICK m \in 0..n :
        /\ Stale(m, clock) /\ lru' = SubSeq(lru, m + 1, Len(lru))
        /\ token' = token \ {lru[i].ticket : i \in 1..m}
  BY DEF Clean, clean
<1>4. lru' \in Seq(TokenData) /\ Len(lru') = n - m /\ \A j \in 1..(n - m) : lru'[j] = lru[j + m]
  BY <1>0, <1>3, Suffix DEF Types
<1> HIDE DEF n
<1>5. DOMAIN lru' = 1..(n - m) BY <1>4, LenProperties
<1>6. Types' BY <1>0, <1>1, <1>3, <1>4 DEF Types
<1>7. SameTickets'
  <2>1. /\ \A t : t \in token <=> \E i \in 1..n : lru[i].ticket = t
        /\ \A p, q \in 1..n : lru[p].ticket = lru[q].ticket => p = q
    BY <1>0, <1>2 DEF SameTickets
  <2>2. ASSUME NEW t \in token' PROVE \E j \in 1..(n - m) : lru'[j].ticket = t
    <3>1. PICK i \in 1..n : lru[i].ticket = t BY <1>3, <2>1
    <3>2. i \notin 1..m BY <1>3, <3>1
    <3>3. i - m \in 1..(n - m) /\ (i - m) + m = i BY <1>2, <3>2
    <3> QED BY <1>4, <3>1, <3>3
  <2>3. ASSUME NEW j \in 1..(n - m) PROVE lru'[j].ticket \in token'
    <3>1. j + m \in 1..n /\ lru'[j] = lru[j + m] BY <1>2, <1>4
    <3>2. lru[j + m].ticket \in token BY <2>1, <3>1
    <3>3. \A i \in 1..m : i \in 1..n /\ i # j + m BY <1>2
    <3>4. \A i \in 1..m : lru[i].ticket # lru[j + m].ticket BY <2>1, <3>1, <3>3
    <3> QED BY <1>3, <3>1, <3>2, <3>4
  <2>4. token' = {lru'[j].ticket : j \in DOMAIN lru'} BY <1>5, <2>2, <2>3
  <2>5. ASSUME NEW p \in 1..(n - m), NEW q \in 1..(n - m), lru'[p].ticket = lru'[q].ticket
        PROVE  p = q
    <3>1. p + m \in 1..n /\ q + m \in 1..n /\ lru'[p] = lru[p + m] /\ lru'[q] = lru[q + m]
      BY <1>2, <1>4
    <3>2. p + m = q + m BY <2>1, <2>5, <3>1
    <3> QED BY <1>2, <3>2
  <2> QED BY <1>5, <2>4, <2>5 DEF SameTickets
<1>8. InOrder'
  <2> SUFFICES ASSUME ~setBack
               PROVE  /\ \A p, q \in 1..(n - m) : p < q => lru'[p].expire <= lru'[q].expire
                      /\ \A p \in 1..(n - m) : lru'[p].expire <= clock + TokenExpire
    BY <1>1, <1>5 DEF InOrder
  <2>1. /\ \A i, j \in 1..n : i < j => lru[i].expire <= lru[j].expire
        /\ \A i \in 1..n : lru[i].expire <= clock + TokenExpire
    BY <1>0, <1>2 DEF InOrder
  <2>2. \A p \in 1..(n - m) : p + m \in 1..n /\ lru'[p] = lru[p + m] BY <1>2, <1>4
  <2>3. \A p, q \in 1..(n - m) : p < q => p + m < q + m BY <1>2
  <2> QED BY <2>1, <2>2, <2>3
<1>9. AboutToLeave'
  <2> SUFFICES ASSUME ~setBack, NEW k \in refused \cap token' PROVE FALSE
    BY <1>1 DEF AboutToLeave
  <2>1. k \in refused \cap token BY <1>3
  <2>2. \A i \in 1..n : lru[i].ticket = k => lru[i].expire < clock
    BY <1>0, <1>2, <2>1 DEF AboutToLeave
  <2>3. PICK i \in 1..n : lru[i].ticket = k BY <1>0, <1>2, <2>1 DEF SameTickets
  <2>4. i \notin 1..m BY <1>3, <2>3
  <2>5. m + 1 \in 1..n /\ m < n /\ (m + 1 = i \/ m + 1 < i) BY <1>2, <2>4
  <2>6. lru[m + 1].expire >= clock BY <1>3, <2>5 DEF Stale, n
  <2>7. lru[i].expire \in Nat /\ lru[m + 1].expire \in Nat BY <1>0, <1>2, <2>5, InList
  <2>8. lru[m + 1].expire <= lru[i].expire
    BY <1>0, <1>2, <2>5, <2>7 DEF InOrder
  <2>9. lru[i].expire < clock BY <2>2, <2>3
  <2> QED BY <1>2, <2>6, <2>7, <2>8, <2>9
<1>10. IdsBehind' BY <1>0, <1>1, IdFrame
<1> QED BY <1>6, <1>7, <1>8, <1>9, <1>10 DEF TInv

\* The id is the clock's; a sleep ends one behind the last id.
LEMMA PushMsgKeeps == ASSUME TInv, PushMsg PROVE TInv'
<1>0. Types /\ SameTickets /\ InOrder /\ AboutToLeave /\ IdsBehind BY DEF TInv
<1>1. UNCHANGED <<token, lru, refused, clock, setBack>> BY DEF PushMsg, tickets, time
<1>2. lastID \in Nat /\ clock \in Nat /\ top \in Nat /\ given \in Nat BY <1>0 DEF Types
<1>5. part = "ids" /\ part' = part BY DEF PushMsg
<1>3. CASE Behind(clock)
  <2>1. sleep' = lastID - clock + 1 /\ lastID' = lastID BY <1>3 DEF PushMsg, ID, Sleep
  <2>2. lastID >= clock BY <1>3 DEF Behind
  <2>3. sleep' \in Int /\ sleep' >= 0 BY <1>2, <2>1, <2>2
  <2>4. woken' = TRUE BY <2>3 DEF PushMsg
  <2>6. mutex' = "sleep" /\ given' = given /\ top' = top BY <2>3 DEF PushMsg
  <2>7. woken' \in BOOLEAN BY <2>4, Zenon
  <2>8. Types' BY <1>0, <1>1, <1>5, <2>1, <2>3, <2>6, <2>7 DEF Types
  <2>9. AboutToLeave'
    <3>1. mutex # "clean" BY <1>0, <1>5 DEF Types
    <3>2. ~setBack => refused \cap token = {} BY <1>0, <3>1 DEF AboutToLeave
    <3> QED BY <1>1, <3>2 DEF AboutToLeave
  <2>10. clock' + sleep' > lastID' BY <1>1, <1>2, <2>1
  <2>11. ~setBack' => top' <= clock' BY <1>0, <1>1, <2>6 DEF IdsBehind
  <2>12. SameTickets' /\ InOrder' BY <1>0, <1>1 DEF SameTickets, InOrder
  <2> QED BY <2>8, <2>9, <2>10, <2>11, <2>12 DEF TInv, IdsBehind
<1>4. CASE ~Behind(clock)
  <2>1. sleep' = -1 /\ lastID' = clock BY <1>4 DEF PushMsg, ID
  <2>2. ~(sleep' >= 0) BY <2>1
  <2>3. woken' = FALSE BY <2>2 DEF PushMsg
  <2>4. ~woken' /\ woken' \in BOOLEAN BY <2>3, Zenon
  <2>5. mutex' = "free" /\ given' = given + 1 /\ top' = clock BY <2>1, <2>2 DEF PushMsg
  <2>6. Types' BY <1>0, <1>1, <1>2, <1>5, <2>1, <2>4, <2>5 DEF Types
  <2>7. AboutToLeave'
    <3>1. mutex # "clean" BY <1>0, <1>5 DEF Types
    <3>2. ~setBack => refused \cap token = {} BY <1>0, <3>1 DEF AboutToLeave
    <3> QED BY <1>1, <3>2 DEF AboutToLeave
  <2>8. IdsBehind' BY <1>1, <1>2, <2>4, <2>5 DEF IdsBehind
  <2>9. SameTickets' /\ InOrder' BY <1>0, <1>1 DEF SameTickets, InOrder
  <2> QED BY <2>6, <2>7, <2>8, <2>9 DEF TInv
<1> QED BY <1>3, <1>4

\* The list of connections is nobody else's.
LEMMA ConnsKeep ==
  ASSUME TInv, NEW e \in Elements, AddConn(e) \/ RemoveConn(e)
  PROVE  TInv'
<1>1. UNCHANGED <<tickets, ids, time, mutex, part>> BY DEF AddConn, RemoveConn
<1> QED BY <1>1 DEF TInv, Types, SameTickets, InOrder, AboutToLeave, IdsBehind, tickets, ids, time

\* A new channel has no tickets; the ids its key gave are still of the past.
LEMMA RenewKeeps == ASSUME TInv, Renew PROVE TInv'
<1>0. Types /\ IdsBehind BY DEF TInv
<1>1. /\ token' = {} /\ lru' = <<>> /\ refused' = {} /\ lastID' = 0 /\ sleep' = -1
      /\ given' = 0 /\ UNCHANGED <<top, clock, setBack, mutex, part>> /\ woken' = FALSE
  BY DEF Renew, time
<1>2. woken' \in BOOLEAN BY <1>1, Zenon
<1>3. Types'
  <2>1. lru' \in Seq(TokenData) BY <1>1, EmptySeq
  <2> QED BY <1>0, <1>1, <1>2, <2>1 DEF Types
<1>4. SameTickets' /\ InOrder' /\ AboutToLeave'
  <2>1. DOMAIN lru' = {} BY <1>1
  <2> QED BY <1>1, <2>1 DEF SameTickets, InOrder, AboutToLeave
<1>5. IdsBehind' BY <1>0, <1>1 DEF IdsBehind
<1> QED BY <1>3, <1>4, <1>5 DEF TInv

\* Every step keeps the invariant, and so does none.
LEMMA TInvNext == TInv /\ [Next]_vars => TInv'
<1> SUFFICES ASSUME TInv, [Next]_vars PROVE TInv' OBVIOUS
<1>1. CASE Tick BY <1>1, TickKeeps
<1>2. CASE SetClock BY <1>2, SetClockKeeps
<1>3. ASSUME NEW k \in Tickets, AddToken(k) \/ AuthToken(k) \/ AuthOk(k) PROVE TInv'
  BY <1>3, AddTokenKeeps, AuthTokenKeeps, AuthOkKeeps
<1>4. CASE Clean BY <1>4, CleanKeeps
<1>5. CASE PushMsg BY <1>5, PushMsgKeeps
<1>6. CASE Renew BY <1>6, RenewKeeps
<1>7. ASSUME NEW e \in Elements, AddConn(e) \/ RemoveConn(e) PROVE TInv'
  BY <1>7, ConnsKeep
<1>8. CASE UNCHANGED vars
  BY <1>8 DEF TInv, Types, SameTickets, InOrder, AboutToLeave, IdsBehind,
              vars, tickets, ids, time
<1> QED BY <1>1, <1>2, <1>3, <1>4, <1>5, <1>6, <1>7, <1>8 DEF Next

-----------------------------------------------------------------------------
(* The list of connections. *)

\* A set of naturals has a least element.
LEMMA HasLeast ==
  ASSUME NEW S \in SUBSET Nat, S # {}
  PROVE  \E x \in S : \A y \in S : x <= y
<1> DEFINE Below == {0..x : x \in S}
<1>1. Below \subseteq FiniteSubsetsOf(Nat) /\ Below # {}
  <2>1. \A x \in S : 0..x \subseteq Nat /\ IsFiniteSet(0..x) BY FS_Interval
  <2> QED BY <2>1 DEF FiniteSubsetsOf
<1>2. PICK B \in Below : \A C \in Below : <<C, B>> \notin StrictSubsetOrdering(Nat)
  <2> HIDE DEF Below
  <2> QED BY <1>1, FS_StrictSubsetOrderingWellFounded, WFMin
<1>3. PICK x \in S : B = 0..x OBVIOUS
<1>4. \A y \in S : x <= y
  <2> SUFFICES ASSUME NEW y \in S, ~(x <= y) PROVE FALSE OBVIOUS
  <2>1. x \in Nat /\ y \in Nat /\ y < x OBVIOUS
  <2>2. 0..y \subseteq 0..x /\ x \in 0..x /\ x \notin 0..y /\ 0..x \subseteq Nat BY <2>1
  <2>3. <<0..y, 0..x>> \in StrictSubsetOrdering(Nat) BY <2>2 DEF StrictSubsetOrdering
  <2> QED BY <1>2, <1>3, <2>3
<1> QED BY <1>4

\* f finds the elements of the list that h and nx make, one after the other.
Follows(f, h, nx) ==
  f = [n \in Nat \ {0} |->
         IF n = 1 THEN h ELSE IF f[n - 1] = Nil THEN Nil ELSE nx[f[n - 1]]]

\* The list that h and nx make is s.
Makes(s, h, nx) ==
  /\ h = IF Len(s) = 0 THEN Nil ELSE s[1]
  /\ \A i \in 1..Len(s) : nx[s[i]] = IF i = Len(s) THEN Nil ELSE s[i + 1]

\* What finds a list finds its elements, and then nothing.
LEMMA FollowsTo ==
  ASSUME NEW s \in Seq(Elements), NEW h, NEW nx, Makes(s, h, nx), NEW f, Follows(f, h, nx)
  PROVE  /\ \A n \in 1..Len(s) : f[n] = s[n]
         /\ f[Len(s) + 1] = Nil
<1> DEFINE Element(n) == IF n <= Len(s) THEN s[n] ELSE Nil
           Bad == {n \in 1..(Len(s) + 1) : f[n] # Element(n)}
<1>0. /\ Len(s) \in Nat /\ \A i \in 1..Len(s) : s[i] \in Elements /\ s[i] # Nil
      /\ Nil \notin Elements
  BY HlistAssumption
<1>1. \A n \in Nat \ {0} : f[n] = IF n = 1 THEN h
                                  ELSE IF f[n - 1] = Nil THEN Nil ELSE nx[f[n - 1]]
  <2> DEFINE g == [n \in Nat \ {0} |->
                     IF n = 1 THEN h ELSE IF f[n - 1] = Nil THEN Nil ELSE nx[f[n - 1]]]
  <2>1. f = g BY DEF Follows
  <2>2. \A n \in Nat \ {0} : g[n] = IF n = 1 THEN h
                                    ELSE IF f[n - 1] = Nil THEN Nil ELSE nx[f[n - 1]]
    OBVIOUS
  <2> HIDE DEF g
  <2> QED BY <2>1, <2>2
<1>2. Bad = {}
  <2> SUFFICES ASSUME Bad # {} PROVE FALSE OBVIOUS
  <2>1. PICK m \in Bad : \A k \in Bad : m <= k
    <3>1. Bad \in SUBSET Nat BY <1>0
    <3> HIDE DEF Bad
    <3> QED BY <3>1, HasLeast
  <2>2. m \in 1..(Len(s) + 1) /\ m \in Nat \ {0} BY <1>0, <2>1
  <2>3. CASE m = 1
    <3>1. f[m] = h BY <1>1, <2>2, <2>3
    <3>2. h = Element(m) BY <1>0, <2>3 DEF Makes
    <3> QED BY <2>1, <3>1, <3>2
  <2>4. CASE m # 1
    <3>1. m - 1 \in 1..Len(s) /\ m - 1 \in 1..(Len(s) + 1) /\ ~(m <= m - 1) BY <1>0, <2>2, <2>4
    <3>2. m - 1 \notin Bad BY <2>1, <3>1
    <3>3. f[m - 1] = s[m - 1] /\ s[m - 1] # Nil BY <1>0, <3>1, <3>2
    <3>4. f[m] = nx[s[m - 1]] BY <1>1, <2>2, <2>4, <3>3
    <3>5. nx[s[m - 1]] = IF m - 1 = Len(s) THEN Nil ELSE s[(m - 1) + 1] BY <3>1 DEF Makes
    <3>6. f[m] = Element(m) BY <1>0, <2>2, <3>1, <3>4, <3>5
    <3> QED BY <2>1, <3>6
  <2> QED BY <2>3, <2>4
<1>3. \A n \in 1..(Len(s) + 1) : f[n] = Element(n) BY <1>2
<1> QED BY <1>0, <1>3

\* There is what finds it.
LEMMA Followed ==
  ASSUME NEW s \in Seq(Elements), NEW h, NEW nx, Makes(s, h, nx)
  PROVE  \E f : Follows(f, h, nx)
<1> DEFINE f == [n \in Nat \ {0} |-> IF n <= Len(s) THEN s[n] ELSE Nil]
           g == [n \in Nat \ {0} |->
                   IF n = 1 THEN h ELSE IF f[n - 1] = Nil THEN Nil ELSE nx[f[n - 1]]]
<1>0. /\ Len(s) \in Nat /\ \A i \in 1..Len(s) : s[i] # Nil
  BY HlistAssumption
<1>1. \A n \in Nat \ {0} : f[n] = IF n <= Len(s) THEN s[n] ELSE Nil OBVIOUS
<1>2. \A n \in Nat \ {0} :
        f[n] = IF n = 1 THEN h ELSE IF f[n - 1] = Nil THEN Nil ELSE nx[f[n - 1]]
  <2> TAKE n \in Nat \ {0}
  <2> HIDE DEF f
  <2>1. CASE n = 1 BY <1>0, <1>1, <2>1 DEF Makes
  <2>2. CASE n # 1
    <3>1. n - 1 \in Nat \ {0} /\ (n - 1) + 1 = n BY <2>2
    <3>2. CASE n - 1 <= Len(s)
      <4>1. n - 1 \in 1..Len(s) /\ f[n - 1] = s[n - 1] /\ f[n - 1] # Nil
        BY <1>0, <1>1, <3>1, <3>2
      <4>2. nx[s[n - 1]] = IF n - 1 = Len(s) THEN Nil ELSE s[n] BY <3>1, <4>1 DEF Makes
      <4>3. n - 1 = Len(s) <=> ~(n <= Len(s)) BY <1>0, <3>2
      <4> QED BY <1>1, <2>2, <4>1, <4>2, <4>3
    <3>3. CASE ~(n - 1 <= Len(s))
      <4>1. f[n - 1] = Nil /\ ~(n <= Len(s)) BY <1>0, <1>1, <3>1, <3>3
      <4> QED BY <1>1, <2>2, <4>1
    <3> QED BY <3>2, <3>3
  <2> QED BY <2>1, <2>2
<1>3. f = g
  <2>1. \A n \in Nat \ {0} : f[n] = g[n]
    <3> HIDE DEF f
    <3> QED BY <1>2
  <2> QED BY <2>1
<1>4. Follows(f, h, nx) BY <1>3 DEF Follows
<1> QED BY <1>4

\* Front and Next find the list that the pointers make ...
LEMMA NthFinds ==
  ASSUME NEW s \in Seq(Elements), Makes(s, first, next), len = Len(s)
  PROVE  List = s /\ Nth[len + 1] = Nil
<1>1. Nth = CHOOSE f : Follows(f, first, next) BY DEF Nth, Follows
<1>2. Follows(Nth, first, next) BY <1>1, Followed
<1>3. (\A n \in 1..Len(s) : Nth[n] = s[n]) /\ Nth[Len(s) + 1] = Nil BY <1>2, FollowsTo
<1> HIDE DEF Nth
<1>4. List = s BY <1>3 DEF List
<1> QED BY <1>3, <1>4

\* ... after a step as well.
LEMMA NthFindsNext ==
  ASSUME NEW s \in Seq(Elements), Makes(s, first', next'), len' = Len(s)
  PROVE  List' = s
<1>1. Nth' = CHOOSE f : Follows(f, first', next') BY DEF Nth, Follows
<1>2. Follows(Nth', first', next') BY <1>1, Followed
<1>3. \A n \in 1..Len(s) : Nth'[n] = s[n] BY <1>2, FollowsTo
<1> HIDE DEF Nth
<1> QED BY <1>3 DEF List

\* s is the sequence the pointers make, both ways, and all else is unlinked.
Chain(s) ==
  /\ s \in Seq(Elements) /\ len = Len(s)
  /\ \A i, j \in 1..Len(s) : s[i] = s[j] => i = j
  /\ Makes(s, first, next)
  /\ \A i \in 1..Len(s) : pprev[s[i]] = IF i = 1 THEN First ELSE s[i - 1]
  /\ \A e \in Elements : pprev[e] # Nil => \E i \in 1..Len(s) : s[i] = e

Chained == \E s \in Seq(Elements) : Chain(s)

\* The elements of a list have a pprev.
LEMMA ChainLinks ==
  ASSUME NEW s, Chain(s), NEW i \in 1..Len(s)
  PROVE  s[i] \in Elements /\ pprev[s[i]] # Nil /\ s[i] # Nil /\ s[i] # First
<1>1. s \in Seq(Elements) /\ Len(s) \in Nat BY DEF Chain
<1>2. \A j \in 1..Len(s) : s[j] \in Elements BY <1>1
<1>3. i # 1 => i - 1 \in 1..Len(s) BY <1>1
<1>4. pprev[s[i]] = IF i = 1 THEN First ELSE s[i - 1] BY DEF Chain
<1> QED BY <1>2, <1>3, <1>4, HlistAssumption

\* An element put at the front of a list.
LEMMA PushFrontChains ==
  ASSUME NEW s, Chain(s), NEW e \in Elements, pprev[e] = Nil, PushFront(e),
         DOMAIN next = Elements
  PROVE  Chain(<<e>> \o s)'
<1> DEFINE t == <<e>> \o s
<1>0. s \in Seq(Elements) /\ Len(s) \in Nat /\ len = Len(s) BY DEF Chain
<1>1. /\ t \in Seq(Elements) /\ Len(t) = Len(s) + 1 /\ t[1] = e
      /\ \A i \in 1..Len(s) : t[i + 1] = s[i]
      /\ \A i \in 1..(Len(s) + 1) : i # 1 => t[i] = s[i - 1]
  BY <1>0
<1> HIDE DEF t
<1>2. \A i \in 1..Len(s) : s[i] \in Elements /\ s[i] # e /\ s[i] # Nil BY ChainLinks
<1>3. /\ first' = e /\ len' = len + 1
      /\ next' = [next EXCEPT ![e] = first]
      /\ pprev' = [x \in Elements |->
           IF x = e THEN First ELSE IF x = first THEN e ELSE pprev[x]]
  BY DEF PushFront
<1>4. /\ first = IF Len(s) = 0 THEN Nil ELSE s[1]
      /\ \A i \in 1..Len(s) : next[s[i]] = IF i = Len(s) THEN Nil ELSE s[i + 1]
      /\ \A i, j \in 1..Len(s) : s[i] = s[j] => i = j
      /\ \A i \in 1..Len(s) : pprev[s[i]] = IF i = 1 THEN First ELSE s[i - 1]
      /\ \A x \in Elements : pprev[x] # Nil => \E i \in 1..Len(s) : s[i] = x
  BY DEF Chain, Makes
<1>5. len' = Len(t) BY <1>0, <1>1, <1>3
<1>6. \A i, j \in 1..Len(t) : t[i] = t[j] => i = j
  <2> SUFFICES ASSUME NEW i \in 1..Len(t), NEW j \in 1..Len(t), t[i] = t[j] PROVE i = j
    OBVIOUS
  <2>1. \A k \in 1..Len(t) : k # 1 => k - 1 \in 1..Len(s) /\ t[k] = s[k - 1] BY <1>0, <1>1
  <2>2. CASE i = 1 \/ j = 1 BY <1>1, <1>2, <2>1, <2>2
  <2>3. CASE i # 1 /\ j # 1
    <3> DEFINE a == i - 1
               b == j - 1
    <3>1. a \in 1..Len(s) /\ b \in 1..Len(s) /\ s[a] = s[b] BY <2>1, <2>3
    <3>2. i = a + 1 /\ j = b + 1 BY <1>0, <1>1
    <3> HIDE DEF a, b
    <3> QED BY <1>4, <3>1, <3>2
  <2> QED BY <2>2, <2>3
<1>7. Makes(t, first', next')
  <2>1. first' = IF Len(t) = 0 THEN Nil ELSE t[1] BY <1>0, <1>1, <1>3
  <2>2. ASSUME NEW i \in 1..Len(t)
        PROVE  next'[t[i]] = IF i = Len(t) THEN Nil ELSE t[i + 1]
    <3>1. CASE i = 1
      <4>1. next'[t[i]] = first BY <1>1, <1>3, <3>1
      <4>2. Len(s) # 0 => 1 \in 1..Len(s) /\ t[1 + 1] = s[1] BY <1>0, <1>1
      <4> QED BY <1>0, <1>1, <1>4, <3>1, <4>1, <4>2
    <3>2. CASE i # 1
      <4>1. i - 1 \in 1..Len(s) /\ t[i] = s[i - 1] BY <1>0, <1>1, <3>2
      <4>2. next'[t[i]] = next[s[i - 1]] BY <1>2, <1>3, <4>1
      <4>3. i # Len(t) => i \in 1..Len(s) /\ t[i + 1] = s[i] BY <1>0, <1>1
      <4>4. i = Len(t) <=> i - 1 = Len(s) BY <1>0, <1>1
      <4>5. (i - 1) + 1 = i BY <1>0, <1>1
      <4> QED BY <1>4, <4>1, <4>2, <4>3, <4>4, <4>5
    <3> QED BY <3>1, <3>2
  <2> QED BY <2>1, <2>2 DEF Makes
<1>8. \A i \in 1..Len(t) : pprev'[t[i]] = IF i = 1 THEN First ELSE t[i - 1]
  <2> TAKE i \in 1..Len(t)
  <2>1. CASE i = 1 BY <1>1, <1>3, <2>1
  <2>2. CASE i # 1
    <3>1. i - 1 \in 1..Len(s) /\ t[i] = s[i - 1] BY <1>0, <1>1, <2>2
    <3>2. pprev'[t[i]] = IF s[i - 1] = first THEN e ELSE pprev[s[i - 1]] BY <1>2, <1>3, <3>1
    <3>3. CASE i = 2
      <4>1. first = s[1] /\ t[i] = s[1] /\ i - 1 = 1 BY <1>0, <1>4, <3>1, <3>3
      <4> QED BY <1>1, <2>2, <3>2, <4>1
    <3>4. CASE i # 2
      <4>1. 1 \in 1..Len(s) /\ i - 1 # 1 /\ (i - 1) - 1 \in 1..Len(s) BY <1>0, <1>1, <3>1, <3>4
      <4>2. s[i - 1] # first BY <1>0, <1>4, <3>1, <4>1
      <4>3. pprev'[t[i]] = s[(i - 1) - 1] BY <1>4, <3>1, <3>2, <4>1, <4>2
      <4>4. t[((i - 1) - 1) + 1] = s[(i - 1) - 1] /\ ((i - 1) - 1) + 1 = i - 1 BY <1>1, <4>1
      <4> QED BY <2>2, <4>3, <4>4
    <3> QED BY <3>3, <3>4
  <2> QED BY <2>1, <2>2
<1>9. ASSUME NEW x \in Elements, pprev'[x] # Nil PROVE \E i \in 1..Len(t) : t[i] = x
  <2>1. 1 \in 1..Len(t) /\ \A i \in 1..Len(s) : i + 1 \in 1..Len(t) BY <1>0, <1>1
  <2>2. CASE x = e BY <1>1, <2>1, <2>2
  <2>3. CASE x # e
    <3>1. \E i \in 1..Len(s) : s[i] = x
      <4>1. CASE x = first
        <5>1. Len(s) # 0 BY <1>4, <4>1, HlistAssumption
        <5> QED BY <1>0, <1>4, <4>1, <5>1
      <4>2. CASE x # first BY <1>3, <1>4, <1>9, <2>3, <4>2
      <4> QED BY <4>1, <4>2
    <3> QED BY <1>1, <2>1, <3>1
  <2> QED BY <2>2, <2>3
<1> QED BY <1>1, <1>5, <1>6, <1>7, <1>8, <1>9 DEF Chain, t

\* An element taken out of a list.
LEMMA RemoveChains ==
  ASSUME NEW s, Chain(s), NEW i \in 1..Len(s), Remove(s[i]),
         NEW t \in Seq(Elements), Without(t, s, i)
  PROVE  Chain(t)'
<1> DEFINE e == s[i]
<1>0. s \in Seq(Elements) /\ Len(s) \in Nat /\ len = Len(s) BY DEF Chain
<1>1. /\ Len(t) = Len(s) - 1
      /\ \A j \in 1..Len(t) : t[j] = IF j < i THEN s[j] ELSE s[j + 1]
  BY DEF Without
<1>2. \A j \in 1..Len(s) : s[j] \in Elements /\ s[j] # Nil /\ s[j] # First BY ChainLinks
<1>3. /\ first' = IF pprev[e] = First THEN next[e] ELSE first
      /\ next' = [x \in Elements |->
           IF x = e THEN Nil ELSE IF x = pprev[e] THEN next[e] ELSE next[x]]
      /\ pprev' = [x \in Elements |->
           IF x = e THEN Nil ELSE IF x = next[e] THEN pprev[e] ELSE pprev[x]]
      /\ len' = len - 1
  BY DEF Remove, Unlinked
<1>4. /\ first = IF Len(s) = 0 THEN Nil ELSE s[1]
      /\ \A j \in 1..Len(s) : next[s[j]] = IF j = Len(s) THEN Nil ELSE s[j + 1]
      /\ \A j, k \in 1..Len(s) : s[j] = s[k] => j = k
      /\ \A j \in 1..Len(s) : pprev[s[j]] = IF j = 1 THEN First ELSE s[j - 1]
      /\ \A x \in Elements : pprev[x] # Nil => \E j \in 1..Len(s) : s[j] = x
  BY DEF Chain, Makes
<1>5. /\ next[e] = IF i = Len(s) THEN Nil ELSE s[i + 1]
      /\ pprev[e] = IF i = 1 THEN First ELSE s[i - 1]
      /\ e \in Elements
  BY <1>2, <1>4
<1> DEFINE at(j) == IF j < i THEN j ELSE j + 1
<1>6. \A j \in 1..Len(t) : at(j) \in 1..Len(s) /\ at(j) # i /\ t[j] = s[at(j)] /\ t[j] # e
  <2>1. \A j \in 1..Len(t) : at(j) \in 1..Len(s) /\ at(j) # i /\ t[j] = s[at(j)]
    BY <1>0, <1>1
  <2> HIDE DEF at
  <2> QED BY <1>4, <2>1
<1> HIDE DEF e
<1>7. len' = Len(t) BY <1>0, <1>1, <1>3
<1>8. \A j, k \in 1..Len(t) : t[j] = t[k] => j = k
  <2> SUFFICES ASSUME NEW j \in 1..Len(t), NEW k \in 1..Len(t), t[j] = t[k] PROVE j = k
    OBVIOUS
  <2>1. at(j) = at(k)
    <3> DEFINE a == at(j)
               b == at(k)
    <3> HIDE DEF at
    <3>1. a \in 1..Len(s) /\ b \in 1..Len(s) /\ s[a] = s[b] BY <1>6
    <3> HIDE DEF a, b
    <3>2. a = b BY <1>4, <3>1
    <3> QED BY <3>2 DEF a, b
  <2> QED BY <1>0, <1>1, <2>1
<1>9. Makes(t, first', next')
  <2>1. first' = IF Len(t) = 0 THEN Nil ELSE t[1]
    <3>1. CASE i = 1
      <4>1. first' = next[e] BY <1>3, <1>5, <3>1
      <4>2. Len(t) = 0 <=> i = Len(s) BY <1>0, <1>1, <3>1
      <4>3. Len(t) # 0 => 1 \in 1..Len(t) /\ t[1] = s[1 + 1] BY <1>0, <1>1, <3>1
      <4> QED BY <1>5, <3>1, <4>1, <4>2, <4>3
    <3>2. CASE i # 1
      <4>1. i - 1 \in 1..Len(s) /\ Len(t) # 0 /\ 1 \in 1..Len(t) /\ 1 < i BY <1>0, <1>1, <3>2
      <4>2. pprev[e] # First BY <1>2, <1>5, <3>2, <4>1
      <4> QED BY <1>0, <1>1, <1>3, <1>4, <4>1, <4>2
    <3> QED BY <3>1, <3>2
  <2>2. ASSUME NEW j \in 1..Len(t)
        PROVE  next'[t[j]] = IF j = Len(t) THEN Nil ELSE t[j + 1]
    <3>1. next'[t[j]] = IF t[j] = pprev[e] THEN next[e] ELSE next[t[j]]
      <4> HIDE DEF at
      <4> QED BY <1>2, <1>3, <1>6
    <3>2. CASE j = i - 1
      <4>1. j < i /\ at(j) = j /\ t[j] = s[j] /\ i # 1 /\ pprev[e] = s[j] BY <1>0, <1>1, <1>5, <3>2
      <4>2. next'[t[j]] = next[e] BY <3>1, <4>1
      <4>3. j = Len(t) <=> i = Len(s) BY <1>0, <1>1, <3>2
      <4>4. j # Len(t) => j + 1 \in 1..Len(t) /\ t[j + 1] = s[i + 1] BY <1>0, <1>1, <3>2
      <4> QED BY <1>5, <4>2, <4>3, <4>4
    <3>3. CASE j # i - 1
      <4>1. t[j] # pprev[e]
        <5>1. at(j) # i - 1 BY <1>0, <1>1, <3>3
        <5>2. i # 1 => i - 1 \in 1..Len(s) BY <1>0
        <5> HIDE DEF at
        <5> QED BY <1>2, <1>4, <1>5, <1>6, <5>1, <5>2
      <4>2. next'[t[j]] = IF at(j) = Len(s) THEN Nil ELSE s[at(j) + 1]
        <5> HIDE DEF at
        <5> QED BY <1>4, <1>6, <3>1, <4>1
      <4>3. at(j) = Len(s) <=> j = Len(t)
        BY <1>0, <1>1, <3>3
      <4>4. j # Len(t) => j + 1 \in 1..Len(t) /\ at(j + 1) = at(j) + 1 BY <1>0, <1>1, <3>3
      <4>5. j # Len(t) => t[j + 1] = s[at(j + 1)]
        <5> HIDE DEF at
        <5> QED BY <1>6, <4>4
      <4> HIDE DEF at
      <4> QED BY <4>2, <4>3, <4>4, <4>5
    <3> QED BY <3>2, <3>3
  <2> QED BY <2>1, <2>2 DEF Makes
<1>10. \A j \in 1..Len(t) : pprev'[t[j]] = IF j = 1 THEN First ELSE t[j - 1]
  <2> TAKE j \in 1..Len(t)
  <2>1. pprev'[t[j]] = IF t[j] = next[e] THEN pprev[e] ELSE pprev[t[j]]
    <3> HIDE DEF at
    <3> QED BY <1>2, <1>3, <1>6
  <2>2. CASE j = i
    <3>1. at(j) = i + 1 /\ i # Len(s) /\ t[j] = s[i + 1] BY <1>0, <1>1, <2>2
    <3>2. pprev'[t[j]] = IF i = 1 THEN First ELSE s[i - 1] BY <1>5, <2>1, <3>1
    <3>3. i # 1 => i - 1 \in 1..Len(t) /\ t[i - 1] = s[i - 1] BY <1>0, <1>1, <2>2
    <3> QED BY <2>2, <3>2, <3>3
  <2>3. CASE j # i
    <3>1. t[j] # next[e]
      <4>1. at(j) # i + 1 BY <1>0, <1>1, <2>3
      <4>2. i # Len(s) => i + 1 \in 1..Len(s) BY <1>0
      <4> HIDE DEF at
      <4> QED BY <1>2, <1>4, <1>5, <1>6, <4>1, <4>2
    <3>2. pprev'[t[j]] = IF at(j) = 1 THEN First ELSE s[at(j) - 1]
      <4> HIDE DEF at
      <4> QED BY <1>4, <1>6, <2>1, <3>1
    <3>3. at(j) = 1 <=> j = 1 BY <1>0, <1>1, <2>3
    <3>4. j # 1 => j - 1 \in 1..Len(t) /\ at(j - 1) = at(j) - 1 BY <1>0, <1>1, <2>3
    <3>5. j # 1 => t[j - 1] = s[at(j - 1)]
      <4> HIDE DEF at
      <4> QED BY <1>6, <3>4
    <3> HIDE DEF at
    <3> QED BY <3>2, <3>3, <3>4, <3>5
  <2> QED BY <2>2, <2>3
<1>11. ASSUME NEW x \in Elements, pprev'[x] # Nil PROVE \E j \in 1..Len(t) : t[j] = x
  <2>1. x # e BY <1>3, <1>11
  <2>2. \E j \in 1..Len(s) : s[j] = x
    <3>1. CASE x = next[e]
      <4>1. i # Len(s) BY <1>5, <3>1, HlistAssumption
      <4> QED BY <1>0, <1>5, <3>1, <4>1
    <3>2. CASE x # next[e] BY <1>3, <1>4, <1>11, <2>1, <3>2
    <3> QED BY <3>1, <3>2
  <2>3. PICK j \in 1..Len(s) : s[j] = x BY <2>2
  <2>4. j # i BY <2>1, <2>3 DEF e
  <2>5. CASE j < i
    <3>1. j \in 1..Len(t) /\ t[j] = s[j] BY <1>0, <1>1, <2>5
    <3> QED BY <2>3, <3>1
  <2>6. CASE ~(j < i)
    <3>1. j - 1 \in 1..Len(t) /\ t[j - 1] = s[(j - 1) + 1] /\ (j - 1) + 1 = j
      BY <1>0, <1>1, <2>4, <2>6
    <3> QED BY <2>3, <3>1
  <2> QED BY <2>5, <2>6
<1> QED BY <1>7, <1>8, <1>9, <1>10, <1>11 DEF Chain

\* What the other theorems need of the clock, of ids and of the list.
ListInv ==
  /\ clock \in 1..MaxClock /\ lastID \in 0..MaxClock /\ sleep \in -1..MaxClock
  /\ DOMAIN next = Elements /\ Chained

\* The list starts empty, with nothing linked.
LEMMA ListInit == Init => ListInv /\ Connections!Init
<1> SUFFICES ASSUME Init PROVE ListInv /\ Connections!Init OBVIOUS
<1>1. /\ first = Nil /\ len = 0 /\ DOMAIN next = Elements /\ \A e \in Elements : pprev[e] = Nil
  BY DEF Init, NewHlist
<1>2. clock \in 1..MaxClock /\ lastID \in 0..MaxClock /\ sleep \in -1..MaxClock
  BY PartsAssumption DEF Init, NewTimeID
<1> DEFINE s == <<>>
<1>3. s \in Seq(Elements) /\ Len(s) = 0 /\ 1..Len(s) = {} OBVIOUS
<1>4. s = <<>> OBVIOUS
<1> HIDE DEF s
<1>5. Makes(s, first, next) BY <1>1, <1>3 DEF Makes
<1>6. Chain(s) BY <1>1, <1>3, <1>5 DEF Chain
<1>7. List = s BY <1>1, <1>3, <1>5, NthFinds
<1> QED BY <1>1, <1>2, <1>3, <1>4, <1>6, <1>7 DEF ListInv, Chained, Connections!Init

\* A connection goes to the front of the list.
LEMMA AddConnLists ==
  ASSUME ListInv, NEW e \in Elements, AddConn(e)
  PROVE  ListInv' /\ Connections!Add(e)
<1>0. PushFront(e) /\ pprev[e] = Nil /\ UNCHANGED <<clock, lastID, sleep>> /\ DOMAIN next = Elements
  BY DEF AddConn, ids, time, ListInv
<1>1. PICK s \in Seq(Elements) : Chain(s) BY DEF ListInv, Chained
<1> DEFINE t == <<e>> \o s
<1>2. Chain(t)' BY <1>0, <1>1, PushFrontChains
<1>3. t \in Seq(Elements) OBVIOUS
<1> HIDE DEF t
<1>4. List = s BY <1>1, NthFinds DEF Chain
<1>5. List' = t BY <1>2, <1>3, NthFindsNext DEF Chain
<1>6. \A i \in 1..Len(s) : s[i] # e BY <1>0, <1>1, ChainLinks
<1>7. ~ \E i \in DOMAIN s : s[i] = e BY <1>6
<1>8. Connections!Add(e) BY <1>4, <1>5, <1>7 DEF Connections!Add, Connections!In, t
<1>9. DOMAIN next' = Elements BY <1>0 DEF PushFront
<1> QED BY <1>0, <1>2, <1>3, <1>8, <1>9 DEF ListInv, Chained

\* And leaves it from where it is.
LEMMA RemoveConnLists ==
  ASSUME ListInv, NEW e \in Elements, RemoveConn(e)
  PROVE  ListInv' /\ Connections!Take(e)
<1>0. Remove(e) /\ pprev[e] # Nil /\ UNCHANGED <<clock, lastID, sleep>>
  BY DEF RemoveConn, ids, time
<1>1. PICK s \in Seq(Elements) : Chain(s) BY DEF ListInv, Chained
<1>2. PICK i \in 1..Len(s) : s[i] = e BY <1>0, <1>1 DEF Chain
<1> DEFINE t == SubSeq(s, 1, i - 1) \o SubSeq(s, i + 1, Len(s))
<1>3. t \in Seq(Elements) /\ Without(t, s, i) BY LeftOut
<1>4. i \in DOMAIN s OBVIOUS
<1> HIDE DEF t
<1>5. Chain(t)' BY <1>0, <1>1, <1>2, <1>3, RemoveChains
<1>6. List = s BY <1>1, NthFinds DEF Chain
<1>7. List' = t BY <1>3, <1>5, NthFindsNext DEF Chain
<1>8. Connections!Take(e) BY <1>2, <1>4, <1>6, <1>7 DEF Connections!Take, t
<1>9. DOMAIN next' = Elements BY <1>0 DEF Remove
<1> QED BY <1>0, <1>3, <1>5, <1>8, <1>9 DEF ListInv, Chained

\* What leaves the pointers alone leaves the list alone.
LEMMA ListFrame ==
  ASSUME ListInv, UNCHANGED conns, clock' \in 1..MaxClock, lastID' \in 0..MaxClock,
         sleep' \in -1..MaxClock
  PROVE  ListInv' /\ UNCHANGED List
<1>1. UNCHANGED <<first, next, pprev, len>> BY DEF conns
<1>2. Nth' = Nth BY <1>1 DEF Nth
<1>3. PICK s \in Seq(Elements) : Chain(s) BY DEF ListInv, Chained
<1>4. Chain(s)' BY <1>1, <1>3 DEF Chain, Makes
<1> QED BY <1>1, <1>2, <1>3, <1>4 DEF ListInv, Chained, List

\* Every step is one of the sequence or leaves it as it is.
LEMMA ListNext ==
  ListInv /\ [Next]_vars => ListInv' /\ [Connections!Next]_List
<1> SUFFICES ASSUME ListInv, [Next]_vars
             PROVE  ListInv' /\ [Connections!Next]_List
  OBVIOUS
<1> USE DEF Connections!Next
<1>0. /\ clock \in 1..MaxClock /\ lastID \in 0..MaxClock /\ sleep \in -1..MaxClock
      /\ MaxClock \in Nat \ {0}
  BY PartsAssumption DEF ListInv
<1>1. ASSUME NEW e \in Elements, AddConn(e)
      PROVE  ListInv' /\ [Connections!Next]_List
  BY <1>1, AddConnLists
<1>2. ASSUME NEW e \in Elements, RemoveConn(e)
      PROVE  ListInv' /\ [Connections!Next]_List
  BY <1>2, RemoveConnLists
<1>3. CASE Tick \/ SetClock
  <2>1. UNCHANGED <<conns, lastID>> BY <1>3 DEF Tick, SetClock
  <2>2. clock' \in 1..MaxClock /\ sleep' \in -1..MaxClock BY <1>0, <1>3 DEF Tick, SetClock
  <2> QED BY <1>0, <2>1, <2>2, ListFrame
<1>4. CASE PushMsg
  <2>1. UNCHANGED <<conns, time>> BY <1>4 DEF PushMsg
  <2>2. lastID' \in 0..MaxClock /\ sleep' \in -1..MaxClock
    BY <1>0, <1>4 DEF PushMsg, ID, Behind, Sleep
  <2>3. clock' \in 1..MaxClock BY <1>0, <2>1 DEF time
  <2> QED BY <2>1, <2>2, <2>3, ListFrame
<1>5. CASE Renew
  <2>1. UNCHANGED <<conns, time>> /\ lastID' = 0 /\ sleep' = -1 BY <1>5 DEF Renew
  <2>2. clock' \in 1..MaxClock /\ lastID' \in 0..MaxClock /\ sleep' \in -1..MaxClock
    BY <1>0, <2>1 DEF time
  <2> QED BY <2>1, <2>2, ListFrame
<1>6. CASE UNCHANGED <<conns, ids, time>>
  <2>1. UNCHANGED <<clock, lastID, sleep>> BY <1>6 DEF ids, time
  <2> QED BY <1>0, <1>6, <2>1, ListFrame
<1>7. ASSUME NEW k \in Tickets, AddToken(k) \/ AuthToken(k) \/ AuthOk(k)
      PROVE  UNCHANGED <<conns, ids, time>>
  BY <1>7 DEF AddToken, AuthToken, AuthOk
<1>8. CASE Clean BY <1>6, <1>8 DEF Clean
<1>9. CASE UNCHANGED vars BY <1>6, <1>9 DEF vars
<1> QED BY <1>1, <1>2, <1>3, <1>4, <1>5, <1>6, <1>7, <1>8, <1>9 DEF Next

\* The list and the bounds of the clock are kept.
LEMMA ListAlways == Spec => []ListInv
BY ListInit, ListNext, PTL DEF Spec

\* A list has as many elements as its length says.
LEMMA ChainCounts ==
  ASSUME NEW s, Chain(s)
  PROVE  len = Cardinality({e \in Elements : pprev[e] # Nil})
<1> DEFINE S == {e \in Elements : pprev[e] # Nil}
<1>1. s \in Seq(Elements) /\ Len(s) \in Nat /\ len = Len(s) /\ DOMAIN s = 1..Len(s) BY DEF Chain
<1>2. \A i \in 1..Len(s) : s[i] \in S BY ChainLinks
<1>3. \A e \in S : \E i \in 1..Len(s) : s[i] = e BY DEF Chain
<1>4. \A i, j \in 1..Len(s) : s[i] = s[j] => i = j BY DEF Chain
<1> HIDE DEF S
<1>5. s \in [1..Len(s) -> S] BY <1>1, <1>2
<1>6. s \in Bijection(1..Len(s), S)
  BY <1>3, <1>4, <1>5 DEF Bijection, Injection, Surjection, IsInjective
<1>7. ExistsBijection(1..Len(s), S) BY <1>6 DEF ExistsBijection
<1> QED BY <1>1, <1>7, FS_CountingElements DEF S

-----------------------------------------------------------------------------
(* The theorems. *)

\* The invariant of the proofs holds of every behaviour.
LEMMA TInvAlways == Spec => []TInv
BY TInvInit, TInvNext, PTL DEF Spec

\* Whoever finds the channel unlocked finds no ticket in it that AuthToken refused
\* as expired, so that AddToken takes it again: the list is sorted by expiry as long
\* as the clock is not set back, and clean ends at the first ticket that is valid.
THEOREM ExpiredTicketsLeave == Spec => []RefusedIsForgotten
<1>1. TInv => RefusedIsForgotten
  <2> SUFFICES ASSUME TInv, Free, ~setBack PROVE refused \cap token = {}
    BY DEF RefusedIsForgotten
  <2>1. mutex # "clean" BY DEF Free
  <2> QED BY <2>1 DEF TInv, AboutToLeave
<1> QED BY <1>1, TInvAlways, PTL

\* ID, which sleeps with the channel locked, sleeps once: where it goes on the
\* clock has passed the last id, unless it was set meanwhile.
THEOREM IDSleepsOnce == Spec => []OneSleepIsEnough
<1>1. TInv => OneSleepIsEnough
  <2> SUFFICES ASSUME TInv, woken, sleep = 0 PROVE clock > lastID
    BY DEF OneSleepIsEnough
  <2> QED BY DEF TInv, Types, IdsBehind
<1> QED BY <1>1, TInvAlways, PTL

\* The ids of one channel grow whatever the clock does, and those of a key, across
\* the channels made for it, as long as the clock is not set back.
THEOREM IdsOfAKeyGrow == Spec => KeyIdsGrow
<1>1. ASSUME TInv, [Next]_vars
      PROVE  [given' > given => lastID' > lastID /\ (~setBack => lastID' >= top)]_vars
  <2> SUFFICES ASSUME Next, given' > given
               PROVE  lastID' > lastID /\ (~setBack => lastID' >= top)
    BY <1>1
  <2>0. Types /\ IdsBehind BY <1>1 DEF TInv
  <2>1. given \in Nat /\ lastID \in Nat /\ clock \in Nat /\ top \in Nat BY <2>0 DEF Types
  <2>2. given' # given BY <2>1
  <2>3. ~Renew BY <2>1 DEF Renew
  <2>4. PushMsg
    BY <2>2, <2>3 DEF Next, Tick, SetClock, AddToken, AuthToken, AuthOk, Clean, AddConn,
                      RemoveConn, ids
  <2>5. CASE Behind(clock)
    <3>1. sleep' = lastID - clock + 1 BY <2>4, <2>5 DEF PushMsg, ID, Sleep
    <3>2. sleep' >= 0 BY <2>1, <2>5, <3>1 DEF Behind
    <3> QED BY <2>2, <2>4, <3>2 DEF PushMsg
  <2>6. CASE ~Behind(clock)
    <3>1. lastID' = clock BY <2>4, <2>6 DEF PushMsg, ID
    <3>2. clock > lastID BY <2>1, <2>6 DEF Behind
    <3>3. ~setBack => top <= clock BY <2>0 DEF IdsBehind
    <3> QED BY <2>1, <3>1, <3>2, <3>3
  <2> QED BY <2>5, <2>6
<1> QED BY <1>1, TInvAlways, PTL DEF Spec, KeyIdsGrow


\* The types: the map and the list of tickets hold the same tickets, each once, ids and
\* sleeps keep to the clock, and the pointers make a list of len elements that ends.
THEOREM PartsTyping == Spec => []TypeOK
<1>1. TInv /\ ListInv => TypeOK
  <2> SUFFICES ASSUME TInv, ListInv PROVE TypeOK OBVIOUS
  <2>1. PICK s \in Seq(Elements) : Chain(s) BY DEF ListInv, Chained
  <2>2. len = Cardinality({e \in Elements : pprev[e] # Nil}) BY <2>1, ChainCounts
  <2>3. Nth[len + 1] = Nil BY <2>1, NthFinds DEF Chain
  <2> QED BY <2>2, <2>3 DEF TypeOK, TInv, Types, SameTickets, ListInv
<1> QED BY <1>1, TInvAlways, ListAlways, PTL

\* The linked list, whose pointers point to pointers, is a sequence to whose front
\* connections are added and from anywhere in which they leave.
THEOREM PointersMakeSequence == Spec => Linked
<1>1. Connections!Init /\ [][Connections!Next]_List => Linked
  BY DEF Linked, Connections!Spec
<1> QED BY <1>1, ListInit, ListNext, ListAlways, PTL DEF Spec
=============================================================================
