------------------------- MODULE CometChannelProofs -------------------------
(* Theorems about CometChannel, for every value of its constants: any number *)
(* of keys, connections, goroutines and pushes.                              *)
EXTENDS CometChannel, TLAPS, FiniteSetTheorems, SequenceTheorems

-----------------------------------------------------------------------------
(***************************************************************************)
(* Requests: what each update of a handler's locals leaves well typed.     *)
(***************************************************************************)
\* A goroutine without a request.
LEMMA IdleType == ASSUME NEW n \in Nat PROVE Idle \in Requests(n)
  BY DEF Idle, Requests, NoMsg, Msg, ReqStates

\* More channel objects leave the requests well typed.
LEMMA RequestsGrow ==
  ASSUME NEW n \in Nat, NEW m \in Nat, n <= m
  PROVE  Requests(n) \subseteq Requests(m)
  BY DEF Requests

\* A request that goes on keeps its type.
LEMMA GotoType ==
  ASSUME NEW n \in Nat, NEW r \in Requests(n), NEW s \in ReqStates
  PROVE  [r EXCEPT !.at = s] \in Requests(n)
  BY DEF Requests

\* A request whose message gets its id keeps its type.
LEMMA NumberType ==
  ASSUME NEW n \in Nat, NEW r \in Requests(n), NEW s \in ReqStates, NEW i \in Nat
  PROVE  [r EXCEPT !.msg.id = i, !.at = s] \in Requests(n)
  BY DEF Requests, Msg

\* A request that begins has its type.
LEMMA NewRequestType ==
  ASSUME NEW n \in Nat, NEW s \in ReqStates, NEW k \in Keys, NEW ch \in 0..n,
         NEW m \in Msg
  PROVE  [Idle EXCEPT !.at = s, !.key = k, !.ch = ch, !.msg = m] \in Requests(n)
  BY DEF Idle, Requests

\* A request whose channels to close change keeps its type.
LEMMA ClosingType ==
  ASSUME NEW n \in Nat, NEW r \in Requests(n), NEW s \in ReqStates,
         NEW C \in SUBSET (1..n)
  PROVE  /\ [r EXCEPT !.at = s, !.closing = C] \in Requests(n)
         /\ [r EXCEPT !.closing = C] \in Requests(n)
  BY DEF Requests

\* A request that walks to another bucket keeps its type.
LEMMA WalkType ==
  ASSUME NEW n \in Nat, NEW r \in Requests(n), NEW b \in Nat,
         NEW C \in SUBSET (1..n)
  PROVE  [r EXCEPT !.bucket = b, !.closing = C] \in Requests(n)
  BY DEF Requests

\* A request that moves keys keeps its type.
LEMMA MovingType ==
  ASSUME NEW n \in Nat, NEW r \in Requests(n), NEW s \in ReqStates,
         NEW ks \in SUBSET Keys
  PROVE  [r EXCEPT !.at = s, !.moving = ks] \in Requests(n)
  BY DEF Requests

\* The fields of a request have their types.
LEMMA RequestFields ==
  ASSUME NEW n \in Nat, NEW r \in Requests(n)
  PROVE  /\ r.at \in ReqStates /\ r.key \in Keys \cup {NoKey} /\ r.ch \in 0..n
         /\ r.msg \in Msg /\ r.closing \subseteq 1..n /\ r.bucket \in Nat
         /\ r.moving \subseteq Keys
  BY DEF Requests

-----------------------------------------------------------------------------
(***************************************************************************)
(* Facts of a well-typed state.                                            *)
(***************************************************************************)
\* Channels are counted.
LEMMA AllocNat == ASSUME TypeOK PROVE alloc \in Nat
  BY ConstAssumption DEF TypeOK, ChannelTypes

\* A request between its lookup and its end holds a channel object and a key.
LEMMA HoldsChannel ==
  ASSUME TypeOK, NEW p \in Procs,
         req[p].at \in {"addtoken", "push", "save", "deliver"}
  PROVE  /\ req[p].ch \in Channels /\ req[p].key \in Keys
         /\ req[p].msg \in Msg /\ req[p].msg.id \in Nat
<1>1. req[p] \in Requests(alloc) /\ alloc \in 0..MaxChannels
  BY DEF TypeOK, ChannelTypes
<1>2. req[p].ch \in 0..alloc /\ req[p].msg \in Msg
  BY <1>1, AllocNat, RequestFields
<1>3. req[p].msg.id \in Nat
  BY <1>2 DEF Msg
<1>4. QED
  BY <1>1, <1>2, <1>3, AllocNat, ConstAssumption DEF TypeOK, Holds, Channels

\* A handler past its fetch holds a channel.
LEMMA HandlerHolds ==
  ASSUME TypeOK, NEW c \in Conns,
         cpc[c] \in {"auth", "add", "reading", "remove", "closebuf"}
  PROVE  cch[c] \in Channels
  BY ConstAssumption
  DEF TypeOK, Holds, HandlerTypes, ChannelTypes, Channels

\* New and Get return a channel object that exists.
LEMMA FetchType ==
  ASSUME TypeOK, NEW k \in Keys, NEW ch \in Channels, Fetch(k, ch)
  PROVE  /\ table' \in [Keys -> 0..alloc']
         /\ alloc' \in 0..MaxChannels
         /\ ch \in 1..alloc'
         /\ alloc <= alloc'
<1>1. CASE table[k] # 0
  BY <1>1, ConstAssumption DEF Fetch, TypeOK, ChannelTypes
<1>2. CASE table[k] = 0
  <2>1. alloc' = alloc + 1 /\ ch = alloc + 1 /\ alloc + 1 \in 0..MaxChannels
    BY <1>2, ConstAssumption DEF Fetch, TypeOK, ChannelTypes
  <2>2. table' = [table EXCEPT ![k] = alloc + 1]
    BY <1>2 DEF Fetch
  <2>3. table \in [Keys -> 0..(alloc + 1)]
    BY <2>1, ConstAssumption DEF TypeOK, ChannelTypes
  <2>4. QED
    BY <2>1, <2>2, <2>3, AllocNat
<1>3. QED
  BY <1>1, <1>2

\* What a push answered with or without an error does once it had its id: it
\* hands the message to the connections R of its channel and ends.
Delivers(p, R) ==
  /\ At(p, "deliver") /\ R \subseteq conn[req[p].ch]
  /\ Write(p, R)
  /\ mutex' = [mutex EXCEPT ![req[p].ch] = NoProc]
  /\ Return(p)
  /\ UNCHANGED <<table, alloc, pushes, lastID, conn, tokens, saved, bufst, hw,
                 flight, wire, joined, connVars>>

\* Both ends of the loop are of that form: the whole list, or a part of it and
\* an error.
LEMMA LoopEnds ==
  ASSUME NEW p \in Procs, PushDeliver(p) \/ PushGiveUp(p)
  PROVE  \E R \in SUBSET conn[req[p].ch] :
           /\ Delivers(p, R)
           /\ \/ R = conn[req[p].ch] /\ UNCHANGED refused
              \/ refused' = refused \cup {<<req[p].ch, req[p].msg.id>>}
<1>1. CASE PushDeliver(p)
  BY <1>1 DEF PushDeliver, Delivers
<1>2. CASE PushGiveUp(p)
  <2>1. PICK c \in conn[req[p].ch] :
          \E R \in SUBSET OtherProtocol(req[p].ch, c) : Write(p, R)
    BY <1>2 DEF PushGiveUp
  <2>2. PICK R \in SUBSET OtherProtocol(req[p].ch, c) : Write(p, R)
    BY <2>1
  <2>3. R \in SUBSET conn[req[p].ch]
    BY <2>2 DEF OtherProtocol
  <2>4. QED
    BY <1>2, <2>2, <2>3 DEF PushGiveUp, Delivers, Refuse
<1>3. QED
  BY <1>1, <1>2

\* Storing new locals keeps the requests well typed.
LEMMA KeepType ==
  ASSUME TypeOK, NEW p \in Procs, NEW r \in Requests(alloc), Keep(p, r),
         UNCHANGED alloc
  PROVE  (req \in [Procs -> Requests(alloc)])'
  BY DEF TypeOK, Keep

\* The same for a request that may have created its channel.
LEMMA NewType ==
  ASSUME TypeOK, NEW p \in Procs, NEW k \in Keys, NEW ch \in Channels,
         NEW s \in {"addtoken", "push"}, NEW m \in Msg,
         NewChannel(p, k, ch, s, m), UNCHANGED pushes
         \/ (pushes < MaxPushes /\ pushes' = pushes + 1)
  PROVE  TypeOK'
<1> DEFINE r == [Idle EXCEPT !.at = s, !.key = k, !.ch = ch, !.msg = m]
<1>1. /\ table' \in [Keys -> 0..alloc']
      /\ alloc' \in 0..MaxChannels /\ alloc' \in Nat
      /\ ch \in 1..alloc'
      /\ alloc <= alloc'
  BY FetchType, ConstAssumption DEF NewChannel
<1>2. ChannelTypes'
  BY <1>1, ConstAssumption
  DEF NewChannel, TypeOK, ChannelTypes
<1>3. Requests(alloc) \subseteq Requests(alloc')
  BY <1>1, AllocNat, RequestsGrow
<1>4. r \in Requests(alloc')
  <2>1. ch \in 0..alloc' /\ s \in ReqStates
    BY <1>1 DEF ReqStates
  <2>2. QED
    BY <1>1, <2>1, NewRequestType
<1>5. (req \in [Procs -> Requests(alloc)])'
  BY <1>3, <1>4 DEF NewChannel, Keep, TypeOK
<1>6. HandlerTypes'
  BY <1>1, AllocNat DEF NewChannel, TypeOK, HandlerTypes, connVars
<1>7. Holds'
  <2>1. r.at = s /\ r.ch = ch /\ r.key = k
    BY DEF Idle
  <2>2. req' = [req EXCEPT ![p] = r]
    BY DEF NewChannel, Keep
  <2>3. QED
    BY <2>1, <2>2, <1>1 DEF NewChannel, TypeOK, Holds, connVars
<1>8. QED
  BY <1>2, <1>5, <1>6, <1>7 DEF NewChannel, TypeOK, StreamTypes, sockVars

-----------------------------------------------------------------------------
\* Every variable keeps its type, for any number of keys, connections and
\* goroutines of comet.
THEOREM Typing == Spec => []TypeOK
<1>1. Init => TypeOK
  <2> SUFFICES ASSUME Init PROVE TypeOK
    OBVIOUS
  <2> USE DEF Init
  <2>1. ChannelTypes
    BY ConstAssumption DEF ChannelTypes
  <2>2. HandlerTypes
    BY DEF HandlerTypes, ConnStates
  <2>3. StreamTypes
    BY DEF StreamTypes
  <2>4. req \in [Procs -> Requests(alloc)]
    BY IdleType
  <2>5. Holds
    BY DEF Holds, Idle
  <2>6. QED
    BY <2>1, <2>2, <2>3, <2>4, <2>5 DEF TypeOK
<1>2. TypeOK /\ [Next]_vars => TypeOK'
  <2> SUFFICES ASSUME TypeOK, [Next]_vars PROVE TypeOK'
    OBVIOUS
  <2>0. alloc \in Nat /\ alloc \in 0..MaxChannels
    BY AllocNat DEF TypeOK, ChannelTypes
  <2> USE DEF chVars, sockVars, connVars
  <2>1. ASSUME NEW c \in Conns, GetChannel(c) PROVE TypeOK'
    <3>1. PICK ch \in Channels :
           Fetch(ckey[c], ch) /\ cch' = [cch EXCEPT ![c] = ch]
      BY <2>1
      DEF GetChannel
    <3>2. /\ table' \in [Keys -> 0..alloc']
           /\ alloc' \in 0..MaxChannels /\ alloc' \in Nat
           /\ ch \in 1..alloc'
           /\ alloc <= alloc'
      BY <3>1, FetchType, ConstAssumption
      DEF TypeOK, HandlerTypes
    <3>3. ChannelTypes'
      BY <2>1, <3>2
      DEF GetChannel, TypeOK, ChannelTypes
    <3>4. HandlerTypes'
      BY <2>1, <2>0, <3>1, <3>2
      DEF GetChannel, TypeOK, HandlerTypes, ConnStates
    <3>5. (req \in [Procs -> Requests(alloc)])'
      BY <2>1, <2>0, <3>2, RequestsGrow
      DEF GetChannel, TypeOK
    <3>6. Holds'
      BY <2>1, <3>1, <3>2
      DEF GetChannel, TypeOK, HandlerTypes, Holds
    <3>7. QED
      BY <2>0, <2>1, <3>1, <3>2, <3>3, <3>4, <3>5, <3>6
      DEF GetChannel, TypeOK, ChannelTypes, HandlerTypes, StreamTypes, Holds
  <2>2. ASSUME NEW c \in Conns, GetMissing(c) PROVE TypeOK'
    BY <2>0, <2>2
    DEF GetMissing, TypeOK, ChannelTypes, HandlerTypes, StreamTypes, Holds,
        ConnStates
  <2>3. ASSUME NEW c \in Conns, AuthToken(c) PROVE TypeOK'
    <3>1. ChannelTypes'
      BY <2>3, HandlerHolds
      DEF AuthToken, TypeOK, ChannelTypes
    <3>2. HandlerTypes' /\ Holds'
      BY <2>3
      DEF AuthToken, TypeOK, HandlerTypes, Holds, ConnStates
    <3>3. QED
      BY <2>0, <2>3, <3>1, <3>2
      DEF AuthToken, TypeOK, ChannelTypes, HandlerTypes, StreamTypes, Holds
  <2>4. ASSUME NEW c \in Conns, AddConn(c) PROVE TypeOK'
    <3>1. cch[c] \in Channels
      BY <2>4, HandlerHolds DEF AddConn
    <3>2. ChannelTypes' /\ StreamTypes'
      BY <2>4, <3>1 DEF AddConn, TypeOK, ChannelTypes, StreamTypes
    <3>3. HandlerTypes' /\ Holds'
      BY <2>4 DEF AddConn, TypeOK, HandlerTypes, Holds, ConnStates
    <3>4. QED
      BY <2>4, <3>2, <3>3 DEF AddConn, TypeOK
  <2>5. ASSUME NEW c \in Conns, AddConnFail(c) PROVE TypeOK'
    BY <2>0, <2>5
    DEF AddConnFail, TypeOK, ChannelTypes, HandlerTypes, StreamTypes, Holds,
        ConnStates
  <2>6. ASSUME NEW c \in Conns, LoopEnd(c) PROVE TypeOK'
    BY <2>0, <2>6
    DEF LoopEnd, TypeOK, ChannelTypes, HandlerTypes, StreamTypes, Holds,
        ConnStates
  <2>7. ASSUME NEW c \in Conns, RemoveConn(c) PROVE TypeOK'
    BY <2>0, <2>7
    DEF RemoveConn, TypeOK, ChannelTypes, HandlerTypes, StreamTypes, Holds,
        ConnStates
  <2>8. ASSUME NEW c \in Conns, CloseBuf(c) PROVE TypeOK'
    BY <2>0, <2>8
    DEF CloseBuf, TypeOK, ChannelTypes, HandlerTypes, StreamTypes, Holds,
        ConnStates
  <2>9. ASSUME NEW c \in Conns, CloseSocket(c) PROVE TypeOK'
    BY <2>0, <2>9
    DEF CloseSocket, TypeOK, ChannelTypes, HandlerTypes, StreamTypes, Holds,
        ConnStates
  <2>10. ASSUME NEW c \in Conns, Break(c) PROVE TypeOK'
    BY <2>0, <2>10
    DEF Break, TypeOK, ChannelTypes, HandlerTypes, StreamTypes, Holds,
        ConnStates
  <2>11. ASSUME NEW c \in Conns, Take(c) PROVE TypeOK'
    <3>1. StreamTypes'
      BY <2>11
      DEF Take, TypeOK, StreamTypes
    <3>2. QED
      BY <2>0, <2>11, <3>1
      DEF Take, TypeOK, ChannelTypes, HandlerTypes, StreamTypes, Holds
  <2>12. ASSUME NEW c \in Conns, Transmit(c) PROVE TypeOK'
    <3>1. StreamTypes'
      BY <2>12
      DEF Transmit, TypeOK, StreamTypes
    <3>2. QED
      BY <2>0, <2>12, <3>1
      DEF Transmit, TypeOK, ChannelTypes, HandlerTypes, StreamTypes, Holds
  <2>13. ASSUME NEW c \in Conns, WriterStop(c) PROVE TypeOK'
    BY <2>0, <2>13
    DEF WriterStop, TypeOK, ChannelTypes, HandlerTypes, StreamTypes, Holds
  <2>14. ASSUME NEW p \in Procs, AddToken(p) PROVE TypeOK'
    <3>1. ChannelTypes'
      BY <2>14, HoldsChannel
      DEF AddToken, At, TypeOK, ChannelTypes
    <3>2. (req \in [Procs -> Requests(alloc)])'
      BY <2>14, <2>0, IdleType, KeepType
      DEF AddToken, Return
    <3>3. Holds'
      BY <2>14
      DEF AddToken, Return, Keep, Idle, TypeOK, Holds
    <3>4. QED
      BY <2>0, <2>14, <3>1, <3>2, <3>3
      DEF AddToken, TypeOK, ChannelTypes, HandlerTypes, StreamTypes, Holds
  <2>15. ASSUME NEW p \in Procs, PushNoClient(p) PROVE TypeOK'
    <3>1. PICK k \in Keys, ch \in Channels : Fetch(k, ch)
      BY <2>15 DEF PushNoClient
    <3>2. /\ table' \in [Keys -> 0..alloc']
          /\ alloc' \in 0..MaxChannels /\ alloc' \in Nat
          /\ alloc <= alloc'
      BY <3>1, FetchType, ConstAssumption
    <3>3. ChannelTypes'
      BY <2>15, <3>2 DEF PushNoClient, TypeOK, ChannelTypes
    <3>4. HandlerTypes'
      BY <2>15, <2>0, <3>2 DEF PushNoClient, TypeOK, HandlerTypes
    <3>5. (req \in [Procs -> Requests(alloc)])'
      BY <2>15, <2>0, <3>2, RequestsGrow DEF PushNoClient, TypeOK
    <3>6. QED
      BY <2>15, <3>3, <3>4, <3>5
      DEF PushNoClient, TypeOK, StreamTypes, Holds
  <2>16. ASSUME NEW p \in Procs, PushLock(p) PROVE TypeOK'
    <3>1. req[p] \in Requests(alloc) /\ req[p].ch \in Channels
      BY <2>16, HoldsChannel
      DEF PushLock, At, TypeOK
    <3>2. PICK i \in NextIds(req[p].ch) :
           /\ lastID' = [lastID EXCEPT ![req[p].ch] = i]
           /\ Keep(p, [req[p] EXCEPT !.msg.id = i,
                        !.at = IF req[p].msg.persist THEN "save"
                                                     ELSE "deliver"])
      BY <2>16
      DEF PushLock
    <3>3. i \in Nat
      BY <3>1, ConstAssumption
      DEF NextIds, TypeOK, ChannelTypes
    <3>4. ChannelTypes'
      BY <2>16, <3>2, <3>3
      DEF PushLock, TypeOK, ChannelTypes
    <3>5. [req[p] EXCEPT !.msg.id = i,
                   !.at = IF req[p].msg.persist THEN "save" ELSE "deliver"]
           \in Requests(alloc)
      BY <2>0, <3>1, <3>3, NumberType
      DEF ReqStates
    <3>6. (req \in [Procs -> Requests(alloc)])'
      BY <2>16, <3>2, <3>5, KeepType
      DEF PushLock
    <3>7. Holds'
      BY <2>16, <3>1, <3>2, HoldsChannel
      DEF PushLock, At, Keep, TypeOK, Holds, Requests, Msg
    <3>8. QED
      BY <2>0, <2>16, <3>1, <3>2, <3>3, <3>4, <3>5, <3>6, <3>7
      DEF PushLock, TypeOK, ChannelTypes, HandlerTypes, StreamTypes, Holds
  <2>17. ASSUME NEW p \in Procs, SaveOk(p) PROVE TypeOK'
    <3>1. <<req[p].ch, req[p].msg.id>> \in Channels \X Nat
      BY <2>17, HoldsChannel
      DEF SaveOk, At
    <3>2. ChannelTypes'
      BY <2>17, <3>1
      DEF SaveOk, Store, TypeOK, ChannelTypes
    <3>3. [req[p] EXCEPT !.at = "deliver"] \in Requests(alloc)
      BY <2>0, GotoType
      DEF TypeOK, ReqStates
    <3>4. (req \in [Procs -> Requests(alloc)])'
      BY <2>17, <3>3, KeepType
      DEF SaveOk, Goto
    <3>5. Holds'
      BY <2>17, HoldsChannel
      DEF SaveOk, At, Goto, Keep, TypeOK, Holds, Requests
    <3>6. QED
      BY <2>0, <2>17, <3>1, <3>2, <3>3, <3>4, <3>5
      DEF SaveOk, TypeOK, ChannelTypes, HandlerTypes, StreamTypes, Holds
  <2>18. ASSUME NEW p \in Procs, SaveFail(p) PROVE TypeOK'
    <3>1. <<req[p].ch, req[p].msg.id>> \in Channels \X Nat
      BY <2>18, HoldsChannel
      DEF SaveFail, At
    <3>2. saved' \in [Keys -> SUBSET (Channels \X Nat)]
      BY <2>18, <3>1
      DEF SaveFail, Store, TypeOK, ChannelTypes
    <3>3. ChannelTypes'
      BY <2>18, <3>1, <3>2
      DEF SaveFail, Refuse, TypeOK, ChannelTypes
    <3>4. (req \in [Procs -> Requests(alloc)])'
      BY <2>18, <2>0, IdleType, KeepType
      DEF SaveFail, Refuse, Return
    <3>5. Holds'
      BY <2>18
      DEF SaveFail, Refuse, Return, Keep, Idle, TypeOK, Holds
    <3>6. QED
      BY <2>0, <2>18, <3>1, <3>2, <3>3, <3>4, <3>5
      DEF SaveFail, TypeOK, ChannelTypes, HandlerTypes, StreamTypes, Holds
  <2>19. ASSUME NEW p \in Procs, PushDeliver(p) \/ PushGiveUp(p) PROVE TypeOK'
    <3>1. PICK R \in SUBSET conn[req[p].ch] :
            /\ Delivers(p, R)
            /\ \/ UNCHANGED refused
               \/ refused' = refused \cup {<<req[p].ch, req[p].msg.id>>}
      BY <2>19, LoopEnds
    <3>2. req[p].msg \in Msg /\ <<req[p].ch, req[p].msg.id>> \in Channels \X Nat
      BY <3>1, HoldsChannel
      DEF Delivers, At
    <3>3. ChannelTypes'
      BY <3>1, <3>2
      DEF Delivers, TypeOK, ChannelTypes
    <3>4. StreamTypes'
      BY <3>1, <3>2
      DEF Delivers, Write, SockAfterDrop, TypeOK, StreamTypes
    <3>5. (req \in [Procs -> Requests(alloc)])'
      BY <3>1, <2>0, IdleType, KeepType
      DEF Delivers, Return
    <3>6. Holds'
      BY <3>1
      DEF Delivers, Return, Keep, Idle, TypeOK, Holds
    <3>7. QED
      BY <2>0, <3>1, <3>3, <3>4, <3>5, <3>6
      DEF Delivers, Write, TypeOK, HandlerTypes
  <2>20. ASSUME NEW p \in Procs, CloseChannel(p) PROVE TypeOK'
    <3>1. PICK ch \in req[p].closing :
           Keep(p, [req[p] EXCEPT !.closing = @ \ {ch}])
      BY <2>20
      DEF CloseChannel
    <3>2. [req[p] EXCEPT !.closing = @ \ {ch}] \in Requests(alloc)
      BY <2>0, ClosingType, RequestFields
      DEF TypeOK, ReqStates
    <3>3. (req \in [Procs -> Requests(alloc)])'
      BY <2>20, <3>1, <3>2, KeepType
      DEF CloseChannel
    <3>4. StreamTypes'
      BY <2>20
      DEF CloseChannel, TypeOK, StreamTypes
    <3>5. Holds'
      BY <2>20, <3>1
      DEF CloseChannel, At, Keep, TypeOK, Holds, Requests
    <3>6. QED
      BY <2>0, <2>20, <3>1, <3>2, <3>3, <3>4, <3>5
      DEF CloseChannel, TypeOK, ChannelTypes, HandlerTypes, StreamTypes, Holds
  <2>21. ASSUME NEW p \in Procs, CloseReturn(p) PROVE TypeOK'
    <3>1. [req[p] EXCEPT !.at = "exited"] \in Requests(alloc)
      BY <2>0, GotoType
      DEF TypeOK, ReqStates
    <3>2. (req \in [Procs -> Requests(alloc)])'
      BY <2>21, <2>0, <3>1, IdleType, KeepType
      DEF CloseReturn, Goto, Return
    <3>3. Holds'
      BY <2>21
      DEF CloseReturn, Goto, Keep, Return, Idle, TypeOK, Holds, Requests
    <3>4. QED
      BY <2>0, <2>21, <3>1, <3>2, <3>3
      DEF CloseReturn, TypeOK, ChannelTypes, HandlerTypes, StreamTypes, Holds
  <2>22. ASSUME NEW p \in Procs, MigrateBucket(p) PROVE TypeOK'
    <3>1. {table[k] : k \in KeysIn(req[p].bucket) \cap req[p].moving} \subseteq 1..alloc
      BY <2>0, ConstAssumption
      DEF KeysIn, TypeOK, ChannelTypes
    <3>2. req[p] \in Requests(alloc) /\ req[p].bucket + 1 \in Nat
           /\ (req[p].closing \cup {table[k] : k \in KeysIn(req[p].bucket) \cap req[p].moving})
                \in SUBSET (1..alloc)
      BY <2>0, <3>1, RequestFields
      DEF TypeOK
    <3>3. [req[p] EXCEPT !.bucket = req[p].bucket + 1,
             !.closing = @ \cup {table[k] : k \in KeysIn(req[p].bucket) \cap req[p].moving}]
           \in Requests(alloc)
      BY <2>0, <3>2, WalkType
    <3>4. (req \in [Procs -> Requests(alloc)])'
      BY <2>22, <3>3, KeepType
      DEF MigrateBucket, Collect
    <3>5. ChannelTypes'
      BY <2>22, <2>0
      DEF MigrateBucket, TypeOK, ChannelTypes
    <3>6. Holds'
      BY <2>22
      DEF MigrateBucket, At, Collect, Keep, TypeOK, Holds, Requests
    <3>7. QED
      BY <2>0, <2>22, <3>1, <3>2, <3>3, <3>4, <3>5, <3>6
      DEF MigrateBucket, TypeOK, ChannelTypes, HandlerTypes, StreamTypes,
          Holds
  <2>23. ASSUME NEW p \in Procs, CollectBucket(p) PROVE TypeOK'
    <3>1. {table[k] : k \in KeysIn(req[p].bucket)} \subseteq 1..alloc
      BY <2>0, ConstAssumption
      DEF KeysIn, TypeOK, ChannelTypes
    <3>2. req[p] \in Requests(alloc) /\ req[p].bucket + 1 \in Nat
           /\ (req[p].closing \cup {table[k] : k \in KeysIn(req[p].bucket)})
                \in SUBSET (1..alloc)
      BY <2>0, <3>1, RequestFields
      DEF TypeOK
    <3>3. [req[p] EXCEPT !.bucket = req[p].bucket + 1,
             !.closing = @ \cup {table[k] : k \in KeysIn(req[p].bucket)}]
           \in Requests(alloc)
      BY <2>0, <3>2, WalkType
    <3>4. (req \in [Procs -> Requests(alloc)])'
      BY <2>23, <3>3, KeepType
      DEF CollectBucket, Collect
    <3>5. ChannelTypes'
      BY <2>23, <2>0
      DEF CollectBucket, TypeOK, ChannelTypes
    <3>6. Holds'
      BY <2>23
      DEF CollectBucket, At, Collect, Keep, TypeOK, Holds, Requests
    <3>7. QED
      BY <2>0, <2>23, <3>1, <3>2, <3>3, <3>4, <3>5, <3>6
      DEF CollectBucket, TypeOK, ChannelTypes, HandlerTypes, StreamTypes,
          Holds
  <2>24. ASSUME NEW p \in Procs, WalkEnd(p) PROVE TypeOK'
    <3>1. [req[p] EXCEPT !.at = "close"] \in Requests(alloc)
      BY <2>0, GotoType
      DEF TypeOK, ReqStates
    <3>2. (req \in [Procs -> Requests(alloc)])'
      BY <2>24, <2>0, <3>1, IdleType, KeepType
      DEF WalkEnd, Goto
    <3>3. Holds'
      BY <2>24
      DEF WalkEnd, Goto, Keep, TypeOK, Holds, Requests
    <3>4. QED
      BY <2>0, <2>24, <3>1, <3>2, <3>3
      DEF WalkEnd, TypeOK, ChannelTypes, HandlerTypes, StreamTypes, Holds
  <2>25. ASSUME NEW p \in Procs, RpcNew(p) PROVE TypeOK'
    BY <2>25, NewType DEF RpcNew, NoMsg, Msg
  <2>26. ASSUME NEW p \in Procs, RpcPush(p) PROVE TypeOK'
    BY <2>26, NewType DEF RpcPush, Msg
  <2>27. ASSUME NEW p \in Procs, RpcClose(p) PROVE TypeOK'
    <3>1. PICK k \in Keys :
           /\ table[k] # 0
           /\ table' = [table EXCEPT ![k] = 0]
           /\ Keep(p, [req[p] EXCEPT !.at = "close", !.closing = {table[k]}])
      BY <2>27
      DEF RpcClose
    <3>2. [req[p] EXCEPT !.at = "close", !.closing = {table[k]}]
           \in Requests(alloc)
      <4>1. {table[k]} \in SUBSET (1..alloc) /\ req[p] \in Requests(alloc)
        BY <2>0, <3>1 DEF TypeOK, ChannelTypes
      <4>2. QED
        BY <2>0, <4>1, ClosingType DEF ReqStates
    <3>3. (req \in [Procs -> Requests(alloc)])'
      BY <2>27, <3>1, <3>2, KeepType
      DEF RpcClose
    <3>4. ChannelTypes'
      BY <2>27, <2>0, <3>1
      DEF RpcClose, TypeOK, ChannelTypes
    <3>5. Holds'
      BY <2>27, <3>1
      DEF RpcClose, At, Keep, TypeOK, Holds, Requests
    <3>6. QED
      BY <2>0, <2>27, <3>1, <3>2, <3>3, <3>4, <3>5
      DEF RpcClose, TypeOK, ChannelTypes, HandlerTypes, StreamTypes, Holds
  <2>28. ASSUME NEW p \in Procs, RpcMigrate(p) PROVE TypeOK'
    <3>1. PICK ks \in SUBSET Keys :
           Keep(p, [req[p] EXCEPT !.at = "migrate", !.moving = ks])
      BY <2>28
      DEF RpcMigrate
    <3>2. [req[p] EXCEPT !.at = "migrate", !.moving = ks] \in Requests(alloc)
      BY <2>0, MovingType
      DEF TypeOK, ReqStates
    <3>3. (req \in [Procs -> Requests(alloc)])'
      BY <2>28, <3>1, <3>2, KeepType
      DEF RpcMigrate
    <3>4. Holds'
      BY <2>28, <3>1
      DEF RpcMigrate, At, Keep, TypeOK, Holds, Requests
    <3>5. QED
      BY <2>0, <2>28, <3>1, <3>2, <3>3, <3>4
      DEF RpcMigrate, TypeOK, ChannelTypes, HandlerTypes, StreamTypes, Holds
  <2>29. ASSUME NEW p \in Procs, Shutdown(p) PROVE TypeOK'
    <3>1. [req[p] EXCEPT !.at = "closeall"] \in Requests(alloc)
      BY <2>0, GotoType
      DEF TypeOK, ReqStates
    <3>2. (req \in [Procs -> Requests(alloc)])'
      BY <2>29, <2>0, <3>1, IdleType, KeepType
      DEF Shutdown, Goto
    <3>3. Holds'
      BY <2>29
      DEF Shutdown, Goto, Keep, TypeOK, Holds, Requests
    <3>4. QED
      BY <2>0, <2>29, <3>1, <3>2, <3>3
      DEF Shutdown, TypeOK, ChannelTypes, HandlerTypes, StreamTypes, Holds
  <2>30. CASE UNCHANGED vars
    BY <2>30
    DEF vars, TypeOK, ChannelTypes, HandlerTypes, StreamTypes, Holds
  <2>31. QED
    BY <2>1, <2>2, <2>3, <2>4, <2>5, <2>6, <2>7, <2>8, <2>9, <2>10, <2>11,
       <2>12, <2>13, <2>14, <2>15, <2>16, <2>17, <2>18, <2>19, <2>20, <2>21,
       <2>22, <2>23, <2>24, <2>25, <2>26, <2>27, <2>28, <2>29, <2>30
    DEF Next, Handler, Writer, Serve, Request
<1>3. QED
  BY <1>1, <1>2, PTL DEF Spec

-----------------------------------------------------------------------------
(***************************************************************************)
(* Safety: the lists of connections, what each stream was sent, the pushes. *)
(***************************************************************************)
ListInv == ListedIffServed /\ BufOpenWhileListed /\ NoPanic

StreamInv == NothingBeforeAdd /\ StreamWhole /\ GapFree

\* IsPrefix in terms of the elements.
LEMMA PrefixDef ==
  ASSUME NEW S, NEW s \in Seq(S), NEW t \in Seq(S)
  PROVE  IsPrefix(s, t) <=> /\ Len(s) <= Len(t)
                            /\ \A i \in 1..Len(s) : s[i] = t[i]
  BY DEF IsPrefix

\* A sequence is a prefix of what continues it.
LEMMA PrefixConcat ==
  ASSUME NEW S, NEW s \in Seq(S), NEW t \in Seq(S)
  PROVE  IsPrefix(s, s \o t)
  <1>1. s \o t \in Seq(S) /\ Len(s \o t) = Len(s) + Len(t)
    BY ConcatProperties
  <1>2. Len(s) \in Nat /\ Len(t) \in Nat
    BY LenProperties
  <1>3. \A i \in 1..Len(s) : (s \o t)[i] = s[i]
    BY <1>2, ConcatProperties
  <1>4. Len(s) <= Len(s \o t)
    BY <1>1, <1>2
  <1>5. QED
    BY <1>1, <1>3, <1>4, PrefixDef

\* A prefix stays one when the longer sequence grows.
LEMMA PrefixAppend ==
  ASSUME NEW S, NEW s \in Seq(S), NEW t \in Seq(S), NEW m \in S, IsPrefix(s, t)
  PROVE  IsPrefix(s, Append(t, m))
  <1>1. Append(t, m) \in Seq(S) /\ Len(Append(t, m)) = Len(t) + 1
    BY AppendProperties
  <1>2. \A i \in 1..Len(t) : Append(t, m)[i] = t[i]
    BY AppendProperties
  <1>3. Len(s) \in Nat /\ Len(t) \in Nat
    BY LenProperties
  <1>4. Len(s) <= Len(t) /\ \A i \in 1..Len(s) : s[i] = t[i]
    BY PrefixDef
  <1>5. Len(s) <= Len(Append(t, m))
    BY <1>1, <1>3, <1>4
  <1>6. \A i \in 1..Len(s) : s[i] = Append(t, m)[i]
    BY <1>2, <1>3, <1>4
  <1>7. QED
    BY <1>1, <1>5, <1>6, PrefixDef
\* The three ways a stream s = written \o in flight \o queued moves on: the writer
\* takes the head of the queue, writes it, and a push goes behind the queue.
LEMMA TakeSeq ==
  ASSUME NEW S, NEW w \in Seq(S), NEW b \in Seq(S), b # <<>>
  PROVE  (w \o <<>>) \o b = (w \o <<Head(b)>>) \o Tail(b)
  <1>1. <<Head(b)>> \o Tail(b) = b
    OBVIOUS
  <1>2. QED
    BY <1>1, ConcatAssociative, ConcatEmptySeq, ConcatProperties,
       HeadTailProperties

\* What was pushed, in sequence, when the writer has written.
LEMMA TransmitSeq ==
  ASSUME NEW S, NEW w \in Seq(S), NEW f \in Seq(S), NEW b \in Seq(S)
  PROVE  /\ (w \o f) \o b = ((w \o f) \o <<>>) \o b
         /\ IsPrefix(w \o f, (w \o f) \o b)
  <1>1. w \o f \in Seq(S)
    BY ConcatProperties
  <1>2. QED
    BY <1>1, ConcatEmptySeq, PrefixConcat

\* What was pushed, in sequence, when a message is pushed.
LEMMA AppendSeq ==
  \A s, b \in Seq(Msg), m \in Msg : Append(s \o b, m) = s \o Append(b, m)
<1> TAKE s, b \in Seq(Msg), m \in Msg
<1>1. <<m>> \in Seq(Msg)
  OBVIOUS
<1>2. Append(b, m) = b \o <<m>>
  BY AppendIsConcat
<1>3. s \o b \in Seq(Msg)
  BY ConcatProperties
<1>4. Append(s \o b, m) = (s \o b) \o <<m>>
  BY <1>3, AppendIsConcat
<1>5. QED
  BY <1>1, <1>2, <1>4, ConcatAssociative

\* A handler is in the list of its channel from AddConn to RemoveConn, its Buf is
\* open longer than that, hence no push meets a closed Buf.
LEMMA ListStep ==
  ASSUME TypeOK, ListInv, [Next]_vars
  PROVE  ListInv'
<1> USE DEF chVars, sockVars, connVars
<1>0. ASSUME UNCHANGED <<cpc, cch, conn, bufst, panicked>> PROVE ListInv'
  BY <1>0
  DEF ListInv, ListedIffServed, BufOpenWhileListed, NoPanic
<1>1. ASSUME NEW c \in Conns, GetChannel(c) PROVE ListInv'
  BY <1>1
  DEF GetChannel, ListInv, ListedIffServed, BufOpenWhileListed, NoPanic,
      TypeOK, ChannelTypes, HandlerTypes, StreamTypes
<1>2. ASSUME NEW c \in Conns, GetMissing(c) PROVE ListInv'
  BY <1>2, ConstAssumption
  DEF GetMissing, ListInv, ListedIffServed, BufOpenWhileListed, NoPanic,
      TypeOK, ChannelTypes, HandlerTypes, StreamTypes
<1>3. ASSUME NEW c \in Conns, AuthToken(c) PROVE ListInv'
  BY <1>3, ConstAssumption, ZenonT(30)
  DEF AuthToken, ListInv, ListedIffServed, BufOpenWhileListed, NoPanic,
      TypeOK, ChannelTypes, HandlerTypes, StreamTypes
<1>4. ASSUME NEW c \in Conns, AddConn(c) PROVE ListInv'
  <2>1. /\ cch[c] \in Channels /\ cpc[c] = "add"
        /\ cpc' = [cpc EXCEPT ![c] = "reading"]
        /\ bufst' = [bufst EXCEPT ![c] = "open"]
        /\ conn' = [conn EXCEPT ![cch[c]] = @ \cup {c}]
        /\ UNCHANGED <<cch, panicked>>
    BY <1>4, HandlerHolds DEF AddConn
  <2>2. ListedIffServed'
    <3>1. ASSUME NEW ch \in Channels, NEW d \in Conns
          PROVE  d \in conn'[ch] <=>
                   cch'[d] = ch /\ cpc'[d] \in {"reading", "remove"}
      BY <2>1 DEF ListInv, ListedIffServed, TypeOK, ChannelTypes, HandlerTypes
    <3>2. \A ch \in Channels : conn'[ch] \subseteq Conns
      BY <2>1 DEF TypeOK, ChannelTypes
    <3>3. QED
      BY <3>1, <3>2 DEF ListedIffServed
  <2>3. BufOpenWhileListed'
    BY <2>1 DEF ListInv, BufOpenWhileListed, TypeOK, HandlerTypes, StreamTypes
  <2>4. QED
    BY <2>1, <2>2, <2>3 DEF ListInv, NoPanic
<1>5. ASSUME NEW c \in Conns, AddConnFail(c) PROVE ListInv'
  BY <1>5, ConstAssumption
  DEF AddConnFail, ListInv, ListedIffServed, BufOpenWhileListed, NoPanic,
      TypeOK, ChannelTypes, HandlerTypes, StreamTypes
<1>6. ASSUME NEW c \in Conns, LoopEnd(c) PROVE ListInv'
  <2>1. /\ cpc[c] = "reading" /\ cpc' = [cpc EXCEPT ![c] = "remove"]
        /\ UNCHANGED <<cch, conn, bufst, panicked>>
    BY <1>6 DEF LoopEnd
  <2>2. \A d \in Conns : /\ cpc'[d] \in {"reading", "remove"} <=> cpc[d] \in {"reading", "remove"}
                        /\ cpc'[d] = "closebuf" <=> cpc[d] = "closebuf"
    BY <2>1 DEF TypeOK, HandlerTypes
  <2> QED
    BY <2>1, <2>2 DEF ListInv, ListedIffServed, BufOpenWhileListed, NoPanic
<1>7. ASSUME NEW c \in Conns, RemoveConn(c) PROVE ListInv'
  <2>1. cch[c] \in Channels
    BY <1>7, HandlerHolds DEF RemoveConn
  <2>2. ListedIffServed'
    BY <1>7, <2>1 DEF RemoveConn, ListInv, ListedIffServed, TypeOK, ChannelTypes,
      HandlerTypes
  <2>3. BufOpenWhileListed'
    BY <1>7 DEF RemoveConn, ListInv, BufOpenWhileListed, TypeOK, HandlerTypes
  <2>4. c \in conn[cch[c]]
    BY <1>7, <2>1 DEF RemoveConn, ListInv, ListedIffServed
  <2>5. QED
    BY <1>7, <2>2, <2>3, <2>4 DEF RemoveConn, ListInv, NoPanic
<1>8. ASSUME NEW c \in Conns, CloseBuf(c) PROVE ListInv'
  BY <1>8
  DEF CloseBuf, ListInv, ListedIffServed, BufOpenWhileListed, NoPanic, TypeOK,
      ChannelTypes, HandlerTypes, StreamTypes
<1>9. ASSUME NEW c \in Conns, CloseSocket(c) PROVE ListInv'
  BY <1>9, ConstAssumption
  DEF CloseSocket, ListInv, ListedIffServed, BufOpenWhileListed, NoPanic,
      TypeOK, ChannelTypes, HandlerTypes, StreamTypes
<1>10. ASSUME NEW p \in Procs, PushDeliver(p) \/ PushGiveUp(p) PROVE ListInv'
  <2>1. PICK R \in SUBSET conn[req[p].ch] : Delivers(p, R)
    BY <1>10, LoopEnds
  <2>2. req[p].ch \in Channels
    BY <2>1, HoldsChannel DEF Delivers, At
  <2>3. \A c \in R : c \in Conns /\ bufst[c] = "open"
    BY <2>2 DEF ListInv, ListedIffServed, BufOpenWhileListed
  <2>4. QED
    BY <2>1, <2>3 DEF Delivers, Write, ListInv, ListedIffServed,
      BufOpenWhileListed, NoPanic
<1>11. ASSUME NEW c \in Conns,
              Break(c) \/ Take(c) \/ Transmit(c) \/ WriterStop(c)
       PROVE  ListInv'
  <2>1. UNCHANGED <<cpc, cch, conn, bufst, panicked>>
    BY <1>11
    DEF Break, Take, Transmit, WriterStop
  <2>2. QED
    BY <2>1, <1>0
<1>12. ASSUME NEW p \in Procs,
              AddToken(p) \/ PushNoClient(p) \/ PushLock(p) \/ SaveOk(p) \/
              SaveFail(p) \/ CloseChannel(p) \/ CloseReturn(p) \/
              MigrateBucket(p) \/ CollectBucket(p) \/ WalkEnd(p) \/
              RpcNew(p) \/ RpcPush(p) \/ RpcClose(p) \/ RpcMigrate(p) \/
              Shutdown(p)
       PROVE  ListInv'
  <2>1. UNCHANGED <<cpc, cch, conn, bufst, panicked>>
    BY <1>12
    DEF AddToken, PushNoClient, PushLock, SaveOk, SaveFail, CloseChannel,
        CloseReturn, MigrateBucket, CollectBucket, WalkEnd, RpcNew, RpcPush,
        RpcClose, RpcMigrate, Shutdown, NewChannel
  <2>2. QED
    BY <2>1, <1>0
<1>13. CASE UNCHANGED vars
  BY <1>13, <1>0 DEF vars
<1>14. QED
  BY <1>1, <1>2, <1>3, <1>4, <1>5, <1>6, <1>7, <1>8, <1>9, <1>10, <1>11,
     <1>12, <1>13
  DEF Next, Handler, Writer, Serve, Request

\* Wherever a step leaves the four parts of the streams alone, connections only
\* leave the states before AddConn and sockets only stop being open.
LEMMA StreamFrame ==
  ASSUME StreamInv, UNCHANGED <<buf, flight, wire, due>>,
         \A c \in Conns : cpc'[c] \in {"init", "auth", "add"} =>
                            cpc[c] \in {"init", "auth", "add"},
         \A c \in Conns : sock'[c] = "open" => sock[c] = "open",
         \A c \in Conns : cch'[c] = 0 => cch[c] = 0
  PROVE  StreamInv'
  BY DEF StreamInv, NothingBeforeAdd, StreamWhole, GapFree

\* What was pushed to a connection is written, in flight or queued while the
\* socket works, and what is written never has a hole.
LEMMA StreamStep ==
  ASSUME TypeOK, ListInv, StreamInv, [Next]_vars
  PROVE  StreamInv'
<1> USE DEF chVars, sockVars, connVars
<1>1. ASSUME NEW c \in Conns, Handler(c) PROVE StreamInv'
  <2>1. UNCHANGED <<buf, flight, wire, due>>
    BY <1>1 DEF Handler, GetChannel, GetMissing, AuthToken, AddConn, AddConnFail,
      LoopEnd, RemoveConn, CloseBuf, CloseSocket
  <2>2. \A d \in Conns : cpc'[d] \in {"init", "auth", "add"} =>
                          cpc[d] \in {"init", "auth", "add"}
    BY <1>1 DEF Handler, GetChannel, GetMissing, AuthToken, AddConn, AddConnFail,
      LoopEnd, RemoveConn, CloseBuf, CloseSocket, TypeOK, HandlerTypes
  <2>3. \A d \in Conns : sock'[d] = "open" => sock[d] = "open"
    BY <1>1 DEF Handler, GetChannel, GetMissing, AuthToken, AddConn, AddConnFail,
      LoopEnd, RemoveConn, CloseBuf, CloseSocket, TypeOK, StreamTypes
  <2>4. \A d \in Conns : cch'[d] = 0 => cch[d] = 0
    BY <1>1 DEF Handler, GetChannel, GetMissing, AuthToken, AddConn, AddConnFail,
      LoopEnd, RemoveConn, CloseBuf, CloseSocket, TypeOK, HandlerTypes, Channels
  <2>5. QED
    BY <2>1, <2>2, <2>3, <2>4, StreamFrame
<1>2. ASSUME NEW c \in Conns, Break(c) PROVE StreamInv'
  <2>1. \A d \in Conns : sock'[d] = "open" => sock[d] = "open"
    BY <1>2 DEF Break, TypeOK, StreamTypes
  <2>2. UNCHANGED <<buf, flight, wire, due, cpc, cch>>
    BY <1>2 DEF Break
  <2>3. QED
    BY <2>1, <2>2, StreamFrame
<1>3. ASSUME NEW c \in Conns, Take(c) PROVE StreamInv'
  <2>1. /\ wire[c] \in Seq(Msg) /\ buf[c] \in Seq(Msg) /\ buf[c] # <<>>
        /\ flight[c] = <<>>
        /\ flight'[c] = <<Head(buf[c])>> /\ buf'[c] = Tail(buf[c])
        /\ UNCHANGED <<wire, due, sock, cpc, cch>>
        /\ \A d \in Conns \ {c} : flight'[d] = flight[d] /\ buf'[d] = buf[d]
    BY <1>3 DEF Take, TypeOK, StreamTypes
  <2>2. NothingBeforeAdd'
    BY <2>1 DEF StreamInv, NothingBeforeAdd
  <2>3. (wire[c] \o <<>>) \o buf[c] = (wire[c] \o flight'[c]) \o buf'[c]
    BY <2>1, TakeSeq
  <2>4. StreamWhole'
    BY <2>1, <2>3 DEF StreamInv, StreamWhole
  <2>5. GapFree'
    BY <2>1 DEF StreamInv, GapFree
  <2>6. QED
    BY <2>2, <2>4, <2>5 DEF StreamInv
<1>4. ASSUME NEW c \in Conns, Transmit(c) PROVE StreamInv'
  <2>1. /\ wire[c] \in Seq(Msg) /\ buf[c] \in Seq(Msg) /\ flight[c] \in Seq(Msg)
        /\ flight[c] # <<>> /\ flight'[c] = <<>>
        /\ UNCHANGED <<buf, due, sock, cpc, cch>>
        /\ \A d \in Conns \ {c} : flight'[d] = flight[d] /\ wire'[d] = wire[d]
    BY <1>4 DEF Transmit, TypeOK, StreamTypes
  <2>2. NothingBeforeAdd'
    BY <2>1 DEF StreamInv, NothingBeforeAdd
  <2>3. CASE sock[c] = "open"
    <3>1. wire'[c] = wire[c] \o flight[c]
      BY <1>4, <2>3 DEF Transmit, TypeOK, StreamTypes
    <3>2. due[c] = (wire[c] \o flight[c]) \o buf[c]
      BY <2>3 DEF StreamInv, StreamWhole
    <3>3. /\ (wire[c] \o flight[c]) \o buf[c]
               = ((wire[c] \o flight[c]) \o <<>>) \o buf[c]
          /\ IsPrefix(wire[c] \o flight[c], (wire[c] \o flight[c]) \o buf[c])
      BY <2>1, TransmitSeq
    <3>4. /\ due'[c] = (wire'[c] \o flight'[c]) \o buf'[c]
          /\ IsPrefix(wire'[c], due'[c])
      BY <2>1, <3>1, <3>2, <3>3
    <3>5. StreamWhole'
      BY <2>1, <3>4 DEF StreamInv, StreamWhole
    <3>6. GapFree'
      BY <2>1, <3>4 DEF StreamInv, GapFree
    <3>7. QED
      BY <2>2, <3>5, <3>6 DEF StreamInv
  <2>4. CASE sock[c] # "open"
    <3>1. wire' = wire
      BY <1>4, <2>4 DEF Transmit
    <3>2. QED
      BY <2>1, <2>2, <2>4, <3>1 DEF StreamInv, StreamWhole, GapFree
  <2>5. QED
    BY <2>3, <2>4
<1>5. ASSUME NEW c \in Conns, WriterStop(c) PROVE StreamInv'
  BY <1>5, StreamFrame DEF WriterStop
<1>6. ASSUME NEW p \in Procs, PushDeliver(p) \/ PushGiveUp(p) PROVE StreamInv'
  <2>0. PICK R \in SUBSET conn[req[p].ch] : Delivers(p, R)
    BY <1>6, LoopEnds
  <2> DEFINE ch == req[p].ch
             m  == req[p].msg
  <2>1. ch \in Channels
    BY <2>0, HoldsChannel DEF Delivers, At
  <2>2. m \in Msg
    BY DEF TypeOK, Requests
  <2>3. \A c \in R : cpc[c] \in {"reading", "remove"} /\ cch[c] # 0
    BY <2>1 DEF ListInv, ListedIffServed, Channels
  <2>4. UNCHANGED <<flight, wire, cpc, cch>>
    BY <2>0 DEF Delivers, Write
  <2>5. ASSUME NEW c \in Conns, c \in R
        PROVE  /\ due'[c] = Append(due[c], m)
               /\ sock'[c] = "open" =>
                    sock[c] = "open" /\ buf'[c] = Append(buf[c], m)
    BY <2>0, <2>5 DEF Delivers, Write, SockAfterDrop
  <2>6. ASSUME NEW c \in Conns, c \notin R
        PROVE  due'[c] = due[c] /\ sock'[c] = sock[c] /\ buf'[c] = buf[c]
    BY <2>0, <2>6 DEF Delivers, Write
  <2>7. NothingBeforeAdd'
    BY <2>3, <2>4, <2>6 DEF StreamInv, NothingBeforeAdd
  <2>8. ASSUME NEW c \in Conns, sock'[c] = "open"
        PROVE  due'[c] = (wire[c] \o flight[c]) \o buf'[c]
    <3>1. CASE c \in R
      <4>1. /\ due[c] = (wire[c] \o flight[c]) \o buf[c]
            /\ due'[c] = Append(due[c], m) /\ buf'[c] = Append(buf[c], m)
        BY <2>5, <2>8, <3>1 DEF StreamInv, StreamWhole
      <4>2. wire[c] \o flight[c] \in Seq(Msg) /\ buf[c] \in Seq(Msg)
        BY ConcatProperties DEF TypeOK, StreamTypes
      <4>3. Append((wire[c] \o flight[c]) \o buf[c], m)
              = (wire[c] \o flight[c]) \o Append(buf[c], m)
        BY <2>2, <4>2, AppendSeq
      <4>4. QED
        BY <4>1, <4>3
    <3>2. CASE c \notin R
      BY <2>6, <2>8, <3>2 DEF StreamInv, StreamWhole
    <3>3. QED
      BY <3>1, <3>2
  <2>9. ASSUME NEW c \in Conns PROVE IsPrefix(wire[c], due'[c])
    <3>1. IsPrefix(wire[c], due[c]) /\ wire[c] \in Seq(Msg) /\ due[c] \in Seq(Msg)
      BY DEF StreamInv, GapFree, TypeOK, StreamTypes
    <3>2. CASE c \in R
      BY <2>2, <2>5, <3>1, <3>2, PrefixAppend
    <3>3. CASE c \notin R
      BY <2>6, <3>1, <3>3
    <3>4. QED
      BY <3>2, <3>3
  <2>10. QED
    BY <2>4, <2>7, <2>8, <2>9 DEF StreamInv, StreamWhole, GapFree
<1>7. ASSUME NEW p \in Procs, CloseChannel(p) PROVE StreamInv'
  <2>1. UNCHANGED <<buf, flight, wire, due, cpc, cch>>
    BY <1>7 DEF CloseChannel
  <2>2. \A d \in Conns : sock'[d] = "open" => sock[d] = "open"
    BY <1>7 DEF CloseChannel
  <2>3. QED
    BY <2>1, <2>2, StreamFrame
<1>8. ASSUME NEW p \in Procs,
             AddToken(p) \/ PushNoClient(p) \/ PushLock(p) \/ SaveOk(p) \/
             SaveFail(p) \/ CloseReturn(p) \/ MigrateBucket(p) \/
             CollectBucket(p) \/ WalkEnd(p) \/ Request(p) \/ Shutdown(p)
      PROVE  StreamInv'
  <2>1. UNCHANGED <<buf, flight, wire, due, cpc, cch, sock>>
    BY <1>8 DEF AddToken, PushNoClient, PushLock, SaveOk, SaveFail, CloseReturn,
      MigrateBucket, CollectBucket, WalkEnd, Request, RpcNew, RpcPush, RpcClose,
      RpcMigrate, Shutdown, NewChannel
  <2>2. QED
    BY <2>1, StreamFrame
<1>9. CASE UNCHANGED vars
  BY <1>9, StreamFrame DEF vars
<1>10. QED
  BY <1>1, <1>2, <1>3, <1>4, <1>5, <1>6, <1>7, <1>8, <1>9
  DEF Next, Writer, Serve

\* One more element makes a finite set larger by one at most.
LEMMA AddOne ==
  ASSUME NEW S, NEW x, IsFiniteSet(S)
  PROVE  /\ Cardinality(S \cup {x}) \in Nat
         /\ Cardinality(S \cup {x}) <= Cardinality(S) + 1
<1>1. Cardinality(S) \in Nat
  BY FS_CardinalityType
<1>2. IsFiniteSet(S \cup {x})
  BY FS_AddElement
<1>3. Cardinality(S \cup {x}) \in Nat
  BY <1>2, FS_CardinalityType
<1>4. \/ Cardinality(S \cup {x}) = Cardinality(S)
      \/ Cardinality(S \cup {x}) = Cardinality(S) + 1
  BY FS_AddElement
<1>5. QED
  BY <1>1, <1>3, <1>4

\* No list grows beyond the limit.
LEMMA LimitStep ==
  ASSUME TypeOK, SubscriberLimit, [Next]_vars
  PROVE  SubscriberLimit'
<1> USE DEF chVars, sockVars, connVars
<1>1. ASSUME NEW c \in Conns, AddConn(c) PROVE SubscriberLimit'
  <2>1. cch[c] \in Channels
    BY <1>1, HandlerHolds DEF AddConn
  <2>2. IsFiniteSet(conn[cch[c]])
    BY <2>1, ConstAssumption, FS_Subset DEF TypeOK, ChannelTypes
  <2>3. Cardinality(conn[cch[c]]) \in Nat
    BY <2>2, FS_CardinalityType
  <2>4. /\ Cardinality(conn[cch[c]] \cup {c}) \in Nat
        /\ Cardinality(conn[cch[c]] \cup {c}) <= Cardinality(conn[cch[c]]) + 1
    BY <2>2, AddOne
  <2>5. Cardinality(conn[cch[c]] \cup {c}) <= MaxSubscriber
    BY <1>1, <2>3, <2>4, ConstAssumption DEF AddConn, Room
  <2>6. QED
    BY <1>1, <2>1, <2>5 DEF AddConn, SubscriberLimit, TypeOK, ChannelTypes
<1>2. ASSUME NEW c \in Conns, RemoveConn(c) PROVE SubscriberLimit'
  <2>1. cch[c] \in Channels
    BY <1>2, HandlerHolds DEF RemoveConn
  <2>2. IsFiniteSet(conn[cch[c]])
    BY <2>1, ConstAssumption, FS_Subset DEF TypeOK, ChannelTypes
  <2>3. /\ Cardinality(conn[cch[c]]) \in Nat
        /\ Cardinality(conn[cch[c]] \ {c}) \in Nat
    BY <2>2, FS_CardinalityType, FS_RemoveElement
  <2>4. Cardinality(conn[cch[c]] \ {c}) <= Cardinality(conn[cch[c]])
    BY <2>2, FS_Subset
  <2>5. Cardinality(conn[cch[c]] \ {c}) <= MaxSubscriber
    BY <2>1, <2>3, <2>4, ConstAssumption DEF SubscriberLimit
  <2>6. QED
    BY <1>2, <2>1, <2>5 DEF RemoveConn, SubscriberLimit, TypeOK, ChannelTypes
<1>3. ASSUME NEW c \in Conns,
             GetChannel(c) \/ GetMissing(c) \/ AuthToken(c) \/ AddConnFail(c) \/
             LoopEnd(c) \/ CloseBuf(c) \/ CloseSocket(c) \/ Writer(c) \/ Break(c)
      PROVE  SubscriberLimit'
  BY <1>3 DEF GetChannel, GetMissing, AuthToken, AddConnFail, LoopEnd, CloseBuf,
    CloseSocket, Writer, Take, Transmit, WriterStop, Break, SubscriberLimit
<1>4. ASSUME NEW p \in Procs, Serve(p) \/ Request(p) \/ Shutdown(p)
      PROVE  SubscriberLimit'
  BY <1>4 DEF Serve, AddToken, PushNoClient, PushLock, SaveOk, SaveFail,
    PushDeliver, PushGiveUp, CloseChannel, CloseReturn, MigrateBucket,
    CollectBucket, WalkEnd, Request, RpcNew, RpcPush, RpcClose, RpcMigrate,
    Shutdown, NewChannel, SubscriberLimit
<1>5. CASE UNCHANGED vars
  BY <1>5 DEF vars, SubscriberLimit
<1>6. QED
  BY <1>1, <1>2, <1>3, <1>4, <1>5 DEF Next, Handler

-----------------------------------------------------------------------------
(***************************************************************************)
(* Pushes.                                                                 *)
(***************************************************************************)
Pushing(q) == req[q].at \in {"save", "deliver"}

PushInv == PushOwnsChannel /\ IdsIncrease

\* Every request step but those of PushMsg leaves the pushes alone.
LEMMA OtherRequests ==
  ASSUME TypeOK, NEW p \in Procs,
         AddToken(p) \/ CloseChannel(p) \/ CloseReturn(p) \/
         MigrateBucket(p) \/ CollectBucket(p) \/ WalkEnd(p) \/ Request(p) \/
         Shutdown(p)
  PROVE  \A q \in Procs : Pushing(q)' => req'[q] = req[q]
<1>1. req \in [Procs -> Requests(alloc)]
  BY DEF TypeOK
<1>2. CASE AddToken(p)
  BY <1>1, <1>2 DEF AddToken, Return, Keep, Pushing, Idle
<1>3. CASE CloseChannel(p) \/ CloseReturn(p)
  BY <1>1, <1>3 DEF CloseChannel, CloseReturn, Return, Goto, Keep, Pushing, Idle,
    At, Requests
<1>4. CASE MigrateBucket(p) \/ CollectBucket(p) \/ WalkEnd(p) \/ Shutdown(p)
  BY <1>1, <1>4 DEF MigrateBucket, CollectBucket, WalkEnd, Shutdown, Collect,
    Goto, Keep, Pushing, At, Requests
<1>5. CASE RpcNew(p) \/ RpcPush(p) \/ PushNoClient(p)
  BY <1>1, <1>5, ZenonT(30) DEF RpcNew, RpcPush, PushNoClient, NewChannel, Keep,
    Pushing, Idle
<1>6. CASE RpcClose(p) \/ RpcMigrate(p)
  BY <1>1, <1>6 DEF RpcClose, RpcMigrate, Keep, Pushing, At, Requests
<1>7. QED
  BY <1>2, <1>3, <1>4, <1>5, <1>6 DEF Request

\* The end of a push, successful or not, leaves the other pushes alone.
LEMMA PushEnds ==
  ASSUME TypeOK, NEW p \in Procs, Return(p)
  PROVE  \A q \in Procs : Pushing(q)' => q # p /\ req'[q] = req[q]
  BY DEF TypeOK, Return, Keep, Pushing, Idle

\* A push that got the mutex: what it numbered.
LEMMA PushStarts ==
  ASSUME TypeOK, NEW p \in Procs, PushLock(p)
  PROVE  /\ req[p].ch \in Channels /\ mutex[req[p].ch] = NoProc
         /\ mutex' = [mutex EXCEPT ![req[p].ch] = p]
         /\ lastID'[req[p].ch] \in Nat /\ lastID'[req[p].ch] > lastID[req[p].ch]
         /\ \A ch \in Channels \ {req[p].ch} : lastID'[ch] = lastID[ch]
         /\ req'[p].ch = req[p].ch /\ req'[p].key = req[p].key
         /\ req'[p].msg.id = lastID'[req[p].ch]
         /\ req'[p].msg.persist = req[p].msg.persist
         /\ req'[p].at = IF req[p].msg.persist THEN "save" ELSE "deliver"
         /\ \A q \in Procs \ {p} : req'[q] = req[q]
<1>1. req[p].ch \in Channels /\ req[p].msg \in Msg
  BY HoldsChannel DEF PushLock, At
<1>2. PICK id \in NextIds(req[p].ch) :
        /\ lastID' = [lastID EXCEPT ![req[p].ch] = id]
        /\ Keep(p, [req[p] EXCEPT !.msg.id = id,
                      !.at = IF req[p].msg.persist THEN "save" ELSE "deliver"])
  BY DEF PushLock
<1>3. lastID[req[p].ch] \in Nat
  BY <1>1 DEF TypeOK, ChannelTypes
<1>4. id \in Nat /\ id > lastID[req[p].ch]
  BY <1>2, <1>3, ConstAssumption DEF NextIds
<1>5. lastID'[req[p].ch] = id
      /\ \A ch \in Channels \ {req[p].ch} : lastID'[ch] = lastID[ch]
  BY <1>1, <1>2 DEF TypeOK, ChannelTypes
<1>6. req[p] \in Requests(alloc)
  BY DEF TypeOK
<1>7. /\ req'[p].ch = req[p].ch /\ req'[p].key = req[p].key
      /\ req'[p].msg.id = id /\ req'[p].msg.persist = req[p].msg.persist
      /\ req'[p].at = IF req[p].msg.persist THEN "save" ELSE "deliver"
      /\ \A q \in Procs \ {p} : req'[q] = req[q]
  BY <1>2, <1>6 DEF Keep, TypeOK, Requests, Msg
<1>8. QED
  BY <1>1, <1>4, <1>5, <1>7 DEF PushLock, Free

\* A message that was saved goes on to the connections unchanged.
LEMMA SaveGoesOn ==
  ASSUME TypeOK, NEW p \in Procs, SaveOk(p)
  PROVE  /\ req'[p].at = "deliver" /\ req'[p].ch = req[p].ch
         /\ req'[p].key = req[p].key /\ req'[p].msg = req[p].msg
         /\ \A q \in Procs \ {p} : req'[q] = req[q]
  BY DEF TypeOK, SaveOk, Goto, Keep, Requests

\* Two pushes in progress are pushes to different channels.
LEMMA OnePush ==
  ASSUME PushOwnsChannel, NEW p \in Procs, NEW q \in Procs,
         Pushing(p), Pushing(q), req[p].ch = req[q].ch
  PROVE  p = q
  BY DEF PushOwnsChannel, Pushing

\* Where the ids, the mutexes and the streams are left alone, pushes go on with
\* the message and the channel they have.
LEMMA PushFrame ==
  ASSUME PushInv, UNCHANGED <<lastID, mutex, due, cch>>,
         \A q \in Procs : Pushing(q)' =>
            Pushing(q) /\ req'[q].ch = req[q].ch /\ req'[q].msg = req[q].msg
  PROVE  PushInv'
  BY DEF PushInv, PushOwnsChannel, IdsIncrease, Pushing

\* The ids pushed to a connection increase, because a push numbers its message
\* and appends it while it holds the mutex of the connection's channel.
LEMMA PushStep ==
  ASSUME TypeOK, ListInv, StreamInv, PushInv, [Next]_vars
  PROVE  PushInv'
<1> USE DEF chVars, sockVars, connVars
<1>1. ASSUME NEW c \in Conns, GetChannel(c) PROVE PushInv'
  <2>1. UNCHANGED <<lastID, mutex, due, req>>
    BY <1>1 DEF GetChannel
  <2>2. DOMAIN due[c] = {}
    BY <1>1 DEF GetChannel, StreamInv, NothingBeforeAdd
  <2>3. \A d \in Conns \ {c} : cch'[d] = cch[d]
    BY <1>1 DEF GetChannel, TypeOK, HandlerTypes
  <2>4. QED
    BY <2>1, <2>2, <2>3 DEF PushInv, PushOwnsChannel, IdsIncrease
<1>2. ASSUME NEW c \in Conns,
             GetMissing(c) \/ AuthToken(c) \/ AddConn(c) \/ AddConnFail(c) \/
             LoopEnd(c) \/ RemoveConn(c) \/ CloseBuf(c) \/ CloseSocket(c) \/
             Writer(c) \/ Break(c)
      PROVE  PushInv'
  <2>1. UNCHANGED <<lastID, mutex, due, cch, req>>
    BY <1>2 DEF GetMissing, AuthToken, AddConn, AddConnFail, LoopEnd, RemoveConn,
      CloseBuf, CloseSocket, Writer, Take, Transmit, WriterStop, Break
  <2>2. QED
    BY <2>1, PushFrame DEF Pushing
<1>3. \A c \in Conns : \A i \in DOMAIN due[c] :
        /\ due[c][i].id \in Nat /\ cch[c] \in Channels
        /\ due[c][i].id <= lastID[cch[c]] /\ lastID[cch[c]] \in Nat
  <2> TAKE c \in Conns
  <2> TAKE i \in DOMAIN due[c]
  <2>1. due[c][i].id \in Nat
    <3>1. due[c] \in Seq(Msg)
      BY DEF TypeOK, StreamTypes
    <3>2. due[c][i] \in Msg
      BY <3>1, ElementOfSeq, LenProperties
    <3>3. QED
      BY <3>2 DEF Msg
  <2>2. cch[c] # 0
    BY DEF StreamInv, NothingBeforeAdd
  <2>3. cch[c] \in Channels
    BY <2>2, ConstAssumption DEF TypeOK, ChannelTypes, HandlerTypes, Channels
  <2>4. QED
    BY <2>1, <2>3 DEF PushInv, IdsIncrease, TypeOK, ChannelTypes
<1>4. /\ mutex \in [Channels -> Procs \cup {NoProc}]
      /\ lastID \in [Channels -> Nat]
  BY DEF TypeOK, ChannelTypes
<1>5. \A q \in Procs : Pushing(q) => req[q].ch \in Channels
  BY HoldsChannel DEF Pushing
<1>6. ASSUME NEW p \in Procs, PushLock(p) PROVE PushInv'
  <2> DEFINE ch == req[p].ch
  <2>1. UNCHANGED <<due, cch>>
    BY <1>6 DEF PushLock
  <2>2. ASSUME NEW q \in Procs \ {p}, Pushing(q)'
        PROVE  req'[q] = req[q] /\ Pushing(q) /\ req[q].ch \in Channels \ {ch}
    BY <1>5, <1>6, <2>2, PushStarts, ConstAssumption
    DEF PushInv, PushOwnsChannel, Pushing
  <2>3. PushOwnsChannel'
    <3>1. ASSUME NEW q \in Procs, Pushing(q)'
          PROVE  mutex'[req'[q].ch] = q /\ req'[q].msg.id = lastID'[req'[q].ch]
      <4>1. CASE q = p
        BY <1>4, <1>6, <4>1, PushStarts
      <4>2. CASE q # p
        BY <1>4, <1>6, <2>2, <3>1, <4>2, PushStarts
        DEF Pushing, PushInv, PushOwnsChannel
      <4>3. QED
        BY <4>1, <4>2
    <3>2. QED
      BY <3>1 DEF PushOwnsChannel, Pushing
  <2>4. ASSUME NEW c \in Conns, NEW i \in DOMAIN due[c]
        PROVE  due[c][i].id <= lastID'[cch[c]]
    BY <1>3, <1>6, PushStarts
  <2>5. ASSUME NEW c \in Conns, NEW i \in DOMAIN due[c], NEW q \in Procs,
               Pushing(q)', req'[q].ch = cch[c]
        PROVE  due[c][i].id < req'[q].msg.id
    <3>1. CASE q = p
      BY <1>3, <1>6, <2>5, <3>1, PushStarts
    <3>2. CASE q # p
      BY <2>2, <2>5, <3>2 DEF PushInv, IdsIncrease, Pushing
    <3>3. QED
      BY <3>1, <3>2
  <2>6. IdsIncrease'
    BY <2>1, <2>4, <2>5 DEF PushInv, IdsIncrease, Pushing
  <2>7. QED
    BY <2>3, <2>6 DEF PushInv
<1>7. ASSUME NEW p \in Procs, SaveOk(p) PROVE PushInv'
  <2>1. UNCHANGED <<lastID, mutex, due, cch>>
    BY <1>7 DEF SaveOk
  <2>2. QED
    BY <1>7, <2>1, SaveGoesOn, PushFrame DEF Pushing, SaveOk, At
<1>8. ASSUME NEW p \in Procs, SaveFail(p) PROVE PushInv'
  <2>1. UNCHANGED <<lastID, due, cch>> /\ Pushing(p)
        /\ mutex' = [mutex EXCEPT ![req[p].ch] = NoProc]
    BY <1>8 DEF SaveFail, Pushing, At
  <2>2. ASSUME NEW q \in Procs, Pushing(q)'
        PROVE  /\ req'[q] = req[q] /\ Pushing(q)
               /\ req[q].ch # req[p].ch /\ req[q].ch \in Channels
    BY <1>5, <1>8, <2>1, <2>2, PushEnds, OnePush
    DEF SaveFail, Refuse, Pushing, PushInv
  <2>3. QED
    BY <1>4, <2>1, <2>2 DEF PushInv, PushOwnsChannel, IdsIncrease, Pushing
<1>9. ASSUME NEW p \in Procs, PushDeliver(p) \/ PushGiveUp(p) PROVE PushInv'
  <2>0. PICK R \in SUBSET conn[req[p].ch] : Delivers(p, R)
    BY <1>9, LoopEnds
  <2> DEFINE ch == req[p].ch
             m  == req[p].msg
  <2>1. /\ UNCHANGED <<lastID, cch>> /\ Pushing(p)
        /\ mutex' = [mutex EXCEPT ![ch] = NoProc]
    BY <2>0 DEF Delivers, Pushing, At
  <2>2. ASSUME NEW q \in Procs, Pushing(q)'
        PROVE  /\ req'[q] = req[q] /\ Pushing(q)
               /\ req[q].ch # ch /\ req[q].ch \in Channels
    BY <1>5, <2>0, <2>1, <2>2, PushEnds, OnePush DEF Delivers, Pushing, PushInv
  <2>3. PushOwnsChannel'
    BY <1>4, <2>1, <2>2 DEF PushInv, PushOwnsChannel, Pushing
  <2>4. ch \in Channels /\ m \in Msg /\ m.id \in Nat /\ m.id = lastID[ch]
    BY <2>0, HoldsChannel DEF Delivers, At, PushInv, PushOwnsChannel
  <2>5. ASSUME NEW c \in Conns, c \notin R PROVE due'[c] = due[c]
    BY <2>0, <2>5 DEF Delivers, Write
  <2>6. ASSUME NEW c \in Conns, c \in R
        PROVE  /\ cch[c] = ch /\ due[c] \in Seq(Msg)
               /\ due'[c] = Append(due[c], m)
    BY <2>0, <2>4, <2>6
    DEF Delivers, Write, ListInv, ListedIffServed, TypeOK, StreamTypes
  <2>7. ASSUME NEW c \in Conns, c \in R, NEW i \in DOMAIN due[c]
        PROVE  due[c][i].id < m.id
    BY <2>1, <2>6, <2>7 DEF PushInv, IdsIncrease, Pushing
  <2>8. ASSUME NEW c \in Conns, c \in R
        PROVE  /\ DOMAIN due'[c] = 1..(Len(due[c]) + 1) /\ Len(due[c]) \in Nat
               /\ DOMAIN due[c] = 1..Len(due[c])
               /\ \A i \in 1..Len(due[c]) : due'[c][i] = due[c][i]
               /\ due'[c][Len(due[c]) + 1] = m
    BY <2>4, <2>6, <2>8, AppendProperties, LenProperties
  <2>9. ASSUME NEW c \in Conns, NEW i \in DOMAIN due'[c], NEW j \in DOMAIN due'[c],
               i < j
        PROVE  due'[c][i].id < due'[c][j].id
    <3>1. CASE c \notin R
      BY <2>5, <2>9, <3>1 DEF PushInv, IdsIncrease
    <3>2. CASE c \in R /\ j = Len(due[c]) + 1
      BY <2>7, <2>8, <2>9, <3>2, SMTT(30)
    <3>3. CASE c \in R /\ j # Len(due[c]) + 1
      <4>1. i \in DOMAIN due[c] /\ j \in DOMAIN due[c]
        BY <2>8, <2>9, <3>3
      <4>2. due[c][i].id < due[c][j].id
        BY <2>9, <4>1 DEF PushInv, IdsIncrease
      <4>3. QED
        BY <2>8, <3>3, <4>1, <4>2
    <3>4. QED
      BY <3>1, <3>2, <3>3
  <2>10. ASSUME NEW c \in Conns, NEW i \in DOMAIN due'[c]
         PROVE  /\ due'[c][i].id <= lastID[cch[c]]
                /\ \A q \in Procs : Pushing(q)' /\ req'[q].ch = cch[c] =>
                     due'[c][i].id < req'[q].msg.id
    <3>1. CASE c \notin R
      BY <2>2, <2>5, <2>10, <3>1 DEF PushInv, IdsIncrease, Pushing
    <3>2. CASE c \in R
      <4>1. \A q \in Procs : Pushing(q)' => req'[q].ch # cch[c]
        BY <2>2, <2>6, <3>2
      <4>2. CASE i \in DOMAIN due[c]
        BY <1>3, <2>8, <3>2, <4>1, <4>2
      <4>3. CASE i \notin DOMAIN due[c]
        <5>1. i = Len(due[c]) + 1
          BY <2>8, <2>10, <3>2, <4>3
        <5>2. due'[c][i].id = lastID[cch[c]] /\ lastID[cch[c]] \in Nat
          BY <2>4, <2>6, <2>8, <3>2, <5>1
        <5>3. QED
          BY <4>1, <5>2
      <4>4. QED
        BY <4>2, <4>3
    <3>3. QED
      BY <3>1, <3>2
  <2>11. IdsIncrease'
    BY <2>1, <2>9, <2>10 DEF IdsIncrease, Pushing
  <2>12. QED
    BY <2>3, <2>11 DEF PushInv
<1>10. ASSUME NEW p \in Procs,
              AddToken(p) \/ CloseChannel(p) \/ CloseReturn(p) \/ MigrateBucket(p) \/ CollectBucket(p) \/
              WalkEnd(p) \/ Request(p) \/ Shutdown(p)
       PROVE  PushInv'
  <2>1. UNCHANGED <<lastID, mutex, due, cch>>
    BY <1>10 DEF AddToken, PushNoClient, CloseChannel, CloseReturn, MigrateBucket,
      CollectBucket, WalkEnd, Request, RpcNew, RpcPush, RpcClose, RpcMigrate,
      Shutdown, NewChannel
  <2>2. QED
    BY <1>10, <2>1, OtherRequests, PushFrame DEF Pushing
<1>11. CASE UNCHANGED vars
  BY <1>11, PushFrame DEF vars, Pushing
<1>12. QED
  BY <1>1, <1>2, <1>6, <1>7, <1>8, <1>9, <1>10, <1>11 DEF Next, Handler, Serve

=============================================================================
