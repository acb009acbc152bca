--------------------------- MODULE CometStoreProofs ---------------------------
(* What the message service stored and what the subscribers were sent, and    *)
(* the theorems of the inductive invariant, for every value of the constants. *)
EXTENDS CometChannelProofs

\* A step may teach one more holder that channel ch belongs to key k.
LEMMA KnowsGrow ==
  ASSUME OneKeyPerChannel, NEW k \in Keys, NEW ch \in Channels,
         \A j \in Keys : Knows(j, ch) => j = k,
         \A j \in Keys, d \in Channels :
           Knows(j, d)' => Knows(j, d) \/ (j = k /\ d = ch)
  PROVE  OneKeyPerChannel'
  BY DEF OneKeyPerChannel

\* Nobody comes to know a channel by another key.
LEMMA KnowsSame ==
  ASSUME OneKeyPerChannel,
         \A j \in Keys, d \in Channels : Knows(j, d)' => Knows(j, d)
  PROVE  OneKeyPerChannel'
  BY DEF OneKeyPerChannel

\* Get and New return a channel that nobody knows by another key.
LEMMA FetchKnows ==
  ASSUME TypeOK, OneKeyPerChannel, NEW k \in Keys, NEW ch \in Channels,
         Fetch(k, ch)
  PROVE  /\ \A j \in Keys : Knows(j, ch) => j = k
         /\ \A j \in Keys : table'[j] = table[j] \/ (j = k /\ table'[j] = ch)
<1>1. CASE table[k] # 0
  BY <1>1 DEF Fetch, OneKeyPerChannel, Knows
<1>2. CASE table[k] = 0
  <2>1. ch = alloc + 1 /\ table' = [table EXCEPT ![k] = ch]
    BY <1>2 DEF Fetch
  <2>2. /\ alloc \in Nat
        /\ \A j \in Keys : table[j] \in 0..alloc
        /\ \A c \in Conns : cch[c] \in 0..alloc
        /\ \A p \in Procs : req[p].ch \in 0..alloc
    BY AllocNat, RequestFields DEF TypeOK, ChannelTypes, HandlerTypes
  <2>3. \A j \in Keys : ~Knows(j, ch)
    BY <2>1, <2>2 DEF Knows
  <2>4. QED
    BY <2>1, <2>3 DEF TypeOK, ChannelTypes
<1>3. QED
  BY <1>1, <1>2

\* A channel object stays with the key it was created for.
LEMMA KeyStep ==
  ASSUME TypeOK, OneKeyPerChannel, [Next]_vars
  PROVE  OneKeyPerChannel'
<1> USE DEF chVars, sockVars, connVars
<1>1. ASSUME NEW c \in Conns, GetChannel(c) PROVE OneKeyPerChannel'
  <2>1. PICK ch \in Channels :
          Fetch(ckey[c], ch) /\ cch' = [cch EXCEPT ![c] = ch]
    BY <1>1 DEF GetChannel
  <2>2. ckey[c] \in Keys /\ UNCHANGED <<ckey, req>>
    BY <1>1 DEF GetChannel, TypeOK, HandlerTypes
  <2>3. \A d \in Conns : cch'[d] = cch[d] \/ (d = c /\ cch'[d] = ch)
    BY <2>1 DEF TypeOK, HandlerTypes
  <2>4. \A j \in Keys, d \in Channels :
          Knows(j, d)' => Knows(j, d) \/ (j = ckey[c] /\ d = ch)
    BY <2>1, <2>2, <2>3, FetchKnows DEF Knows
  <2>5. QED
    BY <2>1, <2>2, <2>4, FetchKnows, KnowsGrow
<1>2. ASSUME NEW c \in Conns,
             GetMissing(c) \/ AuthToken(c) \/ AddConn(c) \/ AddConnFail(c) \/
             LoopEnd(c) \/ RemoveConn(c) \/ CloseBuf(c) \/ CloseSocket(c) \/
             Writer(c) \/ Break(c)
      PROVE  OneKeyPerChannel'
  <2>1. UNCHANGED <<table, ckey, cch, req>>
    BY <1>2 DEF GetMissing, AuthToken, AddConn, AddConnFail, LoopEnd, RemoveConn,
      CloseBuf, CloseSocket, Writer, Take, Transmit, WriterStop, Break
  <2>2. QED
    BY <2>1, KnowsSame DEF Knows
<1>3. ASSUME NEW p \in Procs, RpcNew(p) \/ RpcPush(p) PROVE OneKeyPerChannel'
  <2>1. PICK k \in Keys, ch \in Channels, s \in {"addtoken", "push"},
             m \in {NoMsg} \cup {[id |-> 0, persist |-> b] : b \in BOOLEAN} :
          NewChannel(p, k, ch, s, m)
    BY <1>3 DEF RpcNew, RpcPush
  <2>2. Fetch(k, ch) /\ UNCHANGED <<ckey, cch>>
    BY <2>1 DEF NewChannel
  <2>3. \A q \in Procs : req'[q] = req[q] \/ (req'[q].key = k /\ req'[q].ch = ch)
    BY <2>1 DEF NewChannel, Keep, Idle, TypeOK
  <2>4. \A j \in Keys, d \in Channels :
          Knows(j, d)' => Knows(j, d) \/ (j = k /\ d = ch)
    BY <2>2, <2>3, FetchKnows DEF Knows
  <2>5. QED
    BY <2>2, <2>4, FetchKnows, KnowsGrow
<1>4. ASSUME NEW p \in Procs, PushNoClient(p) PROVE OneKeyPerChannel'
  <2>1. PICK k \in Keys, ch \in Channels : Fetch(k, ch)
    BY <1>4 DEF PushNoClient
  <2>2. UNCHANGED <<ckey, cch, req>>
    BY <1>4 DEF PushNoClient
  <2>3. \A j \in Keys, d \in Channels :
          Knows(j, d)' => Knows(j, d) \/ (j = k /\ d = ch)
    BY <2>1, <2>2, FetchKnows DEF Knows
  <2>4. QED
    BY <2>1, <2>3, FetchKnows, KnowsGrow
<1>5. ASSUME NEW p \in Procs,
             Serve(p) \/ RpcClose(p) \/ RpcMigrate(p) \/ Shutdown(p)
      PROVE  OneKeyPerChannel'
  <2>1. UNCHANGED <<ckey, cch>>
    BY <1>5 DEF Serve, AddToken, PushLock, SaveOk, SaveFail, PushDeliver,
      PushGiveUp, CloseChannel, CloseReturn, MigrateBucket, CollectBucket,
      WalkEnd, RpcClose, RpcMigrate, Shutdown
  <2>2. \A k \in Keys : table'[k] = table[k] \/ table'[k] = 0
    BY <1>5 DEF Serve, AddToken, PushLock, SaveOk, SaveFail, PushDeliver,
      PushGiveUp, CloseChannel, CloseReturn, MigrateBucket, CollectBucket,
      WalkEnd, RpcClose, RpcMigrate, Shutdown, TypeOK, ChannelTypes
  <2>3. \A q \in Procs :
          req'[q].ch = 0 \/ (req'[q].key = req[q].key /\ req'[q].ch = req[q].ch)
    <3>1. req \in [Procs -> Requests(alloc)]
      BY DEF TypeOK
    <3>2. CASE AddToken(p) \/ SaveFail(p) \/ PushDeliver(p) \/ PushGiveUp(p)
      BY <3>1, <3>2 DEF AddToken, SaveFail, PushDeliver, PushGiveUp, Refuse,
        Return, Keep, Idle
    <3>3. CASE PushLock(p)
      BY <3>3, PushStarts
    <3>4. CASE SaveOk(p)
      BY <3>4, SaveGoesOn
    <3>5. CASE CloseChannel(p) \/ CloseReturn(p)
      BY <3>1, <3>5 DEF CloseChannel, CloseReturn, Return, Goto, Keep, Idle,
        Requests
    <3>6. CASE MigrateBucket(p) \/ CollectBucket(p) \/ WalkEnd(p) \/ Shutdown(p)
      <4>1. \E ks, s, b : \/ Collect(p, b, ks)
                          \/ Goto(p, s)
        BY <3>6 DEF MigrateBucket, CollectBucket, WalkEnd, Shutdown
      <4>2. PICK ks, s, b : Collect(p, b, ks) \/ Goto(p, s)
        BY <4>1
      <4>3. CASE Collect(p, b, ks)
        BY <3>1, <4>3 DEF Collect, Keep, Requests
      <4>4. CASE Goto(p, s)
        BY <3>1, <4>4 DEF Goto, Keep, Requests
      <4>5. QED
        BY <4>2, <4>3, <4>4
    <3>7. CASE RpcClose(p) \/ RpcMigrate(p)
      <4>1. PICK C, ks :
              \/ Keep(p, [req[p] EXCEPT !.at = "close", !.closing = C])
              \/ Keep(p, [req[p] EXCEPT !.at = "migrate", !.moving = ks])
        BY <3>7 DEF RpcClose, RpcMigrate
      <4>2. CASE Keep(p, [req[p] EXCEPT !.at = "close", !.closing = C])
        BY <3>1, <4>2 DEF Keep, Requests
      <4>3. CASE Keep(p, [req[p] EXCEPT !.at = "migrate", !.moving = ks])
        BY <3>1, <4>3 DEF Keep, Requests
      <4>4. QED
        BY <4>1, <4>2, <4>3
    <3>8. QED
      BY <1>5, <3>2, <3>3, <3>4, <3>5, <3>6, <3>7 DEF Serve
  <2>4. \A j \in Keys, d \in Channels : Knows(j, d)' => Knows(j, d)
    BY <2>1, <2>2, <2>3 DEF Knows, Channels
  <2>5. QED
    BY <2>4, KnowsSame
<1>6. CASE UNCHANGED vars
  BY <1>6, KnowsSame DEF vars, Knows
<1>7. QED
  BY <1>1, <1>2, <1>3, <1>4, <1>5, <1>6 DEF Next, Handler, Request

-----------------------------------------------------------------------------
(***************************************************************************)
(* The message service and the pushes.                                     *)
(***************************************************************************)
StoreInv == SavedIdsBelow /\ SavedBeforeDeliver /\ SavedBeforePushed

\* Steps that leave the store, the ids and the push under way alone.
LEMMA StoreFrame ==
  ASSUME StoreInv, UNCHANGED <<saved, lastID, due, ckey, cch>>,
         \A q \in Procs : Pushing(q)' => req'[q] = req[q]
  PROVE  StoreInv'
  BY DEF StoreInv, SavedIdsBelow, SavedBeforeDeliver, SavedBeforePushed, Pushing

\* What a save in progress may add to the store.
LEMMA Stored ==
  ASSUME TypeOK, NEW p \in Procs, req[p].at = "save",
         Store(p) \/ UNCHANGED saved
  PROVE  /\ \A k \in Keys : saved[k] \subseteq saved'[k]
         /\ \A k \in Keys : \A e \in saved'[k] :
              \/ e \in saved[k]
              \/ k = req[p].key /\ e = <<req[p].ch, req[p].msg.id>>
         /\ Store(p) => <<req[p].ch, req[p].msg.id>> \in saved'[req[p].key]
<1>1. req[p].key \in Keys
  BY HoldsChannel
<1>2. QED
  BY <1>1 DEF Store, TypeOK, ChannelTypes

\* A message is stored, under its id and below every id to come, before it is
\* pushed to anybody.
LEMMA StoreStep ==
  ASSUME TypeOK, ListInv, StreamInv, PushInv, OneKeyPerChannel, StoreInv,
         [Next]_vars
  PROVE  StoreInv'
<1> USE DEF chVars, sockVars, connVars
<1>1. ASSUME NEW c \in Conns, GetChannel(c) PROVE StoreInv'
  <2>1. UNCHANGED <<saved, lastID, due, ckey, req>>
    BY <1>1 DEF GetChannel
  <2>2. DOMAIN due[c] = {}
    BY <1>1 DEF GetChannel, StreamInv, NothingBeforeAdd
  <2>3. \A d \in Conns \ {c} : cch'[d] = cch[d]
    BY <1>1 DEF GetChannel, TypeOK, HandlerTypes
  <2>4. QED
    BY <2>1, <2>2, <2>3
    DEF StoreInv, SavedIdsBelow, SavedBeforeDeliver, SavedBeforePushed
<1>2. ASSUME NEW c \in Conns,
             GetMissing(c) \/ AuthToken(c) \/ AddConn(c) \/ AddConnFail(c) \/
             LoopEnd(c) \/ RemoveConn(c) \/ CloseBuf(c) \/ CloseSocket(c) \/
             Writer(c) \/ Break(c)
      PROVE  StoreInv'
  <2>1. UNCHANGED <<saved, lastID, due, ckey, cch, req>>
    BY <1>2 DEF GetMissing, AuthToken, AddConn, AddConnFail, LoopEnd, RemoveConn,
      CloseBuf, CloseSocket, Writer, Take, Transmit, WriterStop, Break
  <2>2. QED
    BY <2>1, StoreFrame
<1>3. \A k \in Keys : \A e \in saved[k] :
        /\ e[1] \in Channels /\ e[2] \in Nat
        /\ lastID[e[1]] \in Nat /\ e[2] <= lastID[e[1]]
  BY DEF StoreInv, SavedIdsBelow, TypeOK, ChannelTypes
<1>4. ASSUME NEW p \in Procs, PushLock(p) PROVE StoreInv'
  <2>1. UNCHANGED <<saved, due, ckey, cch>>
    BY <1>4 DEF PushLock
  <2>2. SavedIdsBelow'
    <3>1. ASSUME NEW k \in Keys, NEW e \in saved[k]
          PROVE  e[2] <= lastID'[e[1]]
      BY <1>3, <1>4, PushStarts
    <3>2. ASSUME NEW k \in Keys, NEW e \in saved[k], NEW q \in Procs,
                 req'[q].at = "save", req'[q].ch = e[1]
          PROVE  e[2] < req'[q].msg.id
      <4>1. CASE q = p
        BY <1>3, <1>4, <3>2, <4>1, PushStarts
      <4>2. CASE q # p
        BY <1>4, <3>2, <4>2, PushStarts DEF StoreInv, SavedIdsBelow
      <4>3. QED
        BY <4>1, <4>2
    <3>3. QED
      BY <2>1, <3>1, <3>2 DEF SavedIdsBelow
  <2>3. SavedBeforeDeliver'
    <3>1. ASSUME NEW q \in Procs, req'[q].at = "deliver", req'[q].msg.persist
          PROVE  q # p /\ req'[q] = req[q]
      BY <1>4, <3>1, PushStarts
    <3>2. QED
      BY <2>1, <3>1 DEF StoreInv, SavedBeforeDeliver
  <2>4. SavedBeforePushed'
    BY <2>1 DEF StoreInv, SavedBeforePushed
  <2>5. QED
    BY <2>2, <2>3, <2>4 DEF StoreInv
<1>5. ASSUME NEW p \in Procs, req[p].at = "save",
             Store(p) \/ UNCHANGED saved, UNCHANGED <<lastID, due, ckey, cch>>,
             \A q \in Procs : req'[q].at = "save" => q # p /\ req'[q] = req[q]
      PROVE  SavedIdsBelow' /\ SavedBeforePushed'
  <2>1. /\ req[p].ch \in Channels /\ req[p].msg.id = lastID[req[p].ch]
        /\ req[p].msg.id \in Nat
    BY <1>5, HoldsChannel DEF PushInv, PushOwnsChannel
  <2>2. \A q \in Procs : req'[q].at = "save" => req'[q].ch # req[p].ch
    BY <1>5, OnePush DEF Pushing, PushInv
  <2>3. ASSUME NEW k \in Keys, NEW e \in saved'[k]
        PROVE  /\ e[2] <= lastID[e[1]]
               /\ \A q \in Procs : req'[q].at = "save" /\ req'[q].ch = e[1] =>
                    e[2] < req'[q].msg.id
    <3>1. CASE e \in saved[k]
      BY <1>5, <3>1 DEF StoreInv, SavedIdsBelow
    <3>2. CASE e = <<req[p].ch, req[p].msg.id>>
      BY <2>1, <2>2, <3>2
    <3>3. QED
      BY <1>5, <3>1, <3>2, Stored
  <2>4. SavedIdsBelow'
    BY <1>5, <2>3 DEF SavedIdsBelow
  <2>5. SavedBeforePushed'
    BY <1>5, Stored DEF StoreInv, SavedBeforePushed, TypeOK, HandlerTypes
  <2>6. QED
    BY <2>4, <2>5
<1>6. ASSUME NEW p \in Procs, SaveOk(p) PROVE StoreInv'
  <2>1. /\ req[p].at = "save" /\ Store(p) /\ UNCHANGED <<lastID, due, ckey, cch>>
    BY <1>6 DEF SaveOk, At
  <2>2. SavedIdsBelow' /\ SavedBeforePushed'
    BY <1>5, <1>6, <2>1, SaveGoesOn
  <2>3. ASSUME NEW q \in Procs, req'[q].at = "deliver", req'[q].msg.persist
        PROVE  <<req'[q].ch, req'[q].msg.id>> \in saved'[req'[q].key]
    <3>1. CASE q = p
      BY <1>6, <2>1, <3>1, SaveGoesOn, Stored
    <3>2. CASE q # p
      <4>1. req'[q] = req[q]
        BY <1>6, <3>2, SaveGoesOn
      <4>2. req[q].key \in Keys
        BY <2>3, <4>1, HoldsChannel
      <4>3. <<req[q].ch, req[q].msg.id>> \in saved[req[q].key]
        BY <2>3, <4>1 DEF StoreInv, SavedBeforeDeliver
      <4>4. QED
        BY <2>1, <4>1, <4>2, <4>3, Stored
    <3>3. QED
      BY <3>1, <3>2
  <2>4. QED
    BY <2>2, <2>3 DEF StoreInv, SavedBeforeDeliver
<1>7. ASSUME NEW p \in Procs, SaveFail(p) PROVE StoreInv'
  <2>1. /\ req[p].at = "save" /\ (Store(p) \/ UNCHANGED saved)
        /\ UNCHANGED <<lastID, due, ckey, cch>> /\ Return(p)
    BY <1>7 DEF SaveFail, Refuse, At
  <2>2. \A q \in Procs : Pushing(q)' => q # p /\ req'[q] = req[q]
    BY <2>1, PushEnds
  <2>3. SavedIdsBelow' /\ SavedBeforePushed'
    BY <1>5, <2>1, <2>2 DEF Pushing
  <2>4. ASSUME NEW q \in Procs, req'[q].at = "deliver", req'[q].msg.persist
        PROVE  <<req'[q].ch, req'[q].msg.id>> \in saved'[req'[q].key]
    <3>1. req'[q] = req[q]
      BY <2>2, <2>4 DEF Pushing
    <3>2. req[q].key \in Keys
      BY <2>4, <3>1, HoldsChannel
    <3>3. <<req[q].ch, req[q].msg.id>> \in saved[req[q].key]
      BY <2>4, <3>1 DEF StoreInv, SavedBeforeDeliver
    <3>4. QED
      BY <2>1, <3>1, <3>2, <3>3, Stored
  <2>5. QED
    BY <2>3, <2>4 DEF StoreInv, SavedBeforeDeliver
<1>8. ASSUME NEW p \in Procs, PushDeliver(p) \/ PushGiveUp(p) PROVE StoreInv'
  <2>0. PICK R \in SUBSET conn[req[p].ch] : Delivers(p, R)
    BY <1>8, LoopEnds
  <2> DEFINE ch == req[p].ch
             m  == req[p].msg
  <2>1. /\ UNCHANGED <<saved, lastID, ckey, cch>> /\ req[p].at = "deliver"
        /\ Return(p)
    BY <2>0 DEF Delivers, At
  <2>2. \A q \in Procs : Pushing(q)' => req'[q] = req[q]
    BY <2>1, PushEnds
  <2>3. SavedIdsBelow' /\ SavedBeforeDeliver'
    BY <2>1, <2>2 DEF StoreInv, SavedIdsBelow, SavedBeforeDeliver, Pushing
  <2>4. ch \in Channels /\ req[p].key \in Keys /\ m \in Msg
    BY <2>1, HoldsChannel
  <2>5. ASSUME NEW c \in Conns, NEW i \in DOMAIN due'[c], due'[c][i].persist
        PROVE  <<cch[c], due'[c][i].id>> \in saved[ckey[c]]
    <3>1. CASE due'[c] = due[c]
      BY <2>5, <3>1 DEF StoreInv, SavedBeforePushed
    <3>2. CASE c \in conn[ch] /\ due'[c] = Append(due[c], m)
      <4>1. cch[c] = ch /\ ckey[c] \in Keys
        BY <2>4, <3>2 DEF ListInv, ListedIffServed, TypeOK, HandlerTypes
      <4>2. ckey[c] = req[p].key
        BY <2>4, <4>1 DEF OneKeyPerChannel, Knows
      <4>3. CASE i \in DOMAIN due[c]
        <5>1. due'[c][i] = due[c][i]
          BY <2>4, <3>2, <4>3, AppendProperties, LenProperties
          DEF TypeOK, StreamTypes
        <5>2. QED
          BY <2>5, <4>3, <5>1 DEF StoreInv, SavedBeforePushed
      <4>4. CASE i \notin DOMAIN due[c]
        <5>1. due'[c][i] = m
          BY <2>4, <2>5, <3>2, <4>4, AppendProperties, LenProperties
          DEF TypeOK, StreamTypes
        <5>2. <<ch, m.id>> \in saved[req[p].key]
          BY <2>1, <2>5, <5>1 DEF StoreInv, SavedBeforeDeliver
        <5>3. QED
          BY <4>1, <4>2, <5>1, <5>2
      <4>5. QED
        BY <4>3, <4>4
    <3>3. QED
      BY <2>0, <3>1, <3>2 DEF Delivers, Write
  <2>6. QED
    BY <2>1, <2>3, <2>5 DEF StoreInv, SavedBeforePushed
<1>9. ASSUME NEW p \in Procs,
             AddToken(p) \/ CloseChannel(p) \/
             CloseReturn(p) \/ MigrateBucket(p) \/ CollectBucket(p) \/
             WalkEnd(p) \/ Request(p) \/ Shutdown(p)
      PROVE  StoreInv'
  <2>1. UNCHANGED <<saved, lastID, due, ckey, cch>>
    BY <1>9 DEF AddToken, PushNoClient, CloseChannel, CloseReturn, MigrateBucket,
      CollectBucket, WalkEnd, Request, RpcNew, RpcPush, RpcClose, RpcMigrate,
      Shutdown, NewChannel
  <2>2. QED
    BY <1>9, <2>1, OtherRequests, StoreFrame
<1>10. CASE UNCHANGED vars
  BY <1>10, StoreFrame DEF vars
<1>11. QED
  BY <1>1, <1>2, <1>4, <1>6, <1>7, <1>8, <1>9, <1>10 DEF Next, Handler, Serve

-----------------------------------------------------------------------------
(***************************************************************************)
(* What was stored is handed over, or its push was answered with an error. *)
(***************************************************************************)
\* A step of goroutine p that is not one of PushMsg leaves pushes as they are.
LEMMA OthersGoOn ==
  ASSUME TypeOK, NEW p \in Procs,
         AddToken(p) \/ CloseChannel(p) \/ CloseReturn(p) \/
         MigrateBucket(p) \/ CollectBucket(p) \/ WalkEnd(p) \/ Request(p) \/
         Shutdown(p)
  PROVE  \A q \in Procs : Pushing(q) => req'[q] = req[q]
<1>1. req \in [Procs -> Requests(alloc)]
  BY DEF TypeOK
<1>2. ~Pushing(p)
  BY DEF AddToken, CloseChannel, CloseReturn, MigrateBucket, CollectBucket,
    WalkEnd, Request, RpcNew, RpcPush, PushNoClient, RpcClose, RpcMigrate,
    Shutdown, NewChannel, At, Pushing
<1>3. (\E r : Keep(p, r)) \/ UNCHANGED req
  <2>1. CASE AddToken(p) \/ CloseChannel(p) \/ CloseReturn(p) \/ WalkEnd(p)
             \/ Shutdown(p)
    BY <2>1 DEF AddToken, CloseChannel, CloseReturn, WalkEnd, Shutdown, Return,
      Goto
  <2>2. CASE MigrateBucket(p) \/ CollectBucket(p)
    BY <2>2 DEF MigrateBucket, CollectBucket, Collect
  <2>3. CASE Request(p)
    BY <2>3 DEF Request, RpcNew, RpcPush, PushNoClient, RpcClose, RpcMigrate,
      NewChannel
  <2>4. QED
    BY <2>1, <2>2, <2>3
<1>4. QED
  BY <1>1, <1>2, <1>3 DEF Keep

\* Steps that store and deliver nothing.
LEMMA AccountFrame ==
  ASSUME Accounted, UNCHANGED <<saved, refused, due, joined, ckey, cch>>,
         \A c \in Conns : cpc'[c] \in {"reading", "remove"} =>
                            cpc[c] \in {"reading", "remove"},
         \A q \in Procs : req[q].at = "deliver" => req'[q] = req[q]
  PROVE  Accounted'
<1>1. \A e : Delivering(e) => Delivering(e)'
  BY DEF Delivering
<1>2. QED
  BY <1>1 DEF Accounted, StoredSince, HandedTo

\* An element stays in a sequence that grows.
LEMMA StillThere ==
  ASSUME NEW s \in Seq(Msg), NEW m \in Msg
  PROVE  /\ DOMAIN s \subseteq DOMAIN Append(s, m)
         /\ \A i \in DOMAIN s : Append(s, m)[i] = s[i]
         /\ \E i \in DOMAIN Append(s, m) : Append(s, m)[i] = m
  BY AppendProperties, LenProperties

\* A message stored while a connection is in the list reaches its
\* Connection.Write, unless the push is answered with an error: the mutex keeps
\* the list and the ids still between the save and the loop.
LEMMA AccountStep ==
  ASSUME TypeOK, ListInv, StreamInv, PushInv, StoreInv, Accounted, [Next]_vars
  PROVE  Accounted'
<1> USE DEF chVars, sockVars, connVars
<1>1. ASSUME NEW c \in Conns, GetChannel(c) PROVE Accounted'
  <2>1. UNCHANGED <<saved, refused, due, joined, ckey, req>>
    BY <1>1 DEF GetChannel
  <2>2. DOMAIN due[c] = {} /\ cpc'[c] = "auth"
    BY <1>1 DEF GetChannel, StreamInv, NothingBeforeAdd, TypeOK, HandlerTypes
  <2>3. \A d \in Conns \ {c} : cch'[d] = cch[d] /\ cpc'[d] = cpc[d]
    BY <1>1 DEF GetChannel, TypeOK, HandlerTypes
  <2>4. ASSUME NEW d \in Conns, NEW e \in StoredSince(d)'
        PROVE  \/ e \in refused \/ HandedTo(d, e)'
               \/ /\ \A i \in DOMAIN due[d] : due[d][i].id < e[2]
                  /\ cpc'[d] \in {"reading", "remove"} => Delivering(e)'
    <3>1. CASE d = c
      BY <2>2, <3>1
    <3>2. CASE d # c
      BY <2>1, <2>3, <2>4, <3>2 DEF Accounted, StoredSince, HandedTo, Delivering
    <3>3. QED
      BY <3>1, <3>2
  <2>5. QED
    BY <2>1, <2>4 DEF Accounted
<1>2. ASSUME NEW c \in Conns, AddConn(c) PROVE Accounted'
  <2>1. /\ UNCHANGED <<saved, refused, due, ckey, cch, req>>
        /\ cch[c] \in Channels /\ joined'[c] = lastID[cch[c]]
        /\ \A d \in Conns \ {c} : joined'[d] = joined[d] /\ cpc'[d] = cpc[d]
    BY <1>2, HandlerHolds DEF AddConn, TypeOK, StreamTypes, HandlerTypes
  <2>2. StoredSince(c)' = {}
    <3>1. ckey[c] \in Keys
      BY DEF TypeOK, HandlerTypes
    <3>2. \A e \in saved[ckey[c]] :
            e[1] \in Channels /\ e[2] \in Nat /\ e[2] <= lastID[e[1]]
      BY <3>1 DEF StoreInv, SavedIdsBelow, TypeOK, ChannelTypes
    <3>3. lastID[cch[c]] \in Nat
      BY <2>1 DEF TypeOK, ChannelTypes
    <3>4. QED
      BY <2>1, <3>2, <3>3 DEF StoredSince
  <2>3. \A d \in Conns \ {c} : StoredSince(d)' = StoredSince(d)
    BY <2>1 DEF StoredSince
  <2>4. QED
    BY <2>1, <2>2, <2>3 DEF Accounted, HandedTo, Delivering
<1>3. ASSUME NEW c \in Conns,
             GetMissing(c) \/ AuthToken(c) \/ AddConnFail(c) \/ LoopEnd(c) \/
             RemoveConn(c) \/ CloseBuf(c) \/ CloseSocket(c) \/ Writer(c) \/
             Break(c)
      PROVE  Accounted'
  <2>1. UNCHANGED <<saved, refused, due, joined, ckey, cch, req>>
    BY <1>3 DEF GetMissing, AuthToken, AddConnFail, LoopEnd, RemoveConn,
      CloseBuf, CloseSocket, Writer, Take, Transmit, WriterStop, Break
  <2>2. \A d \in Conns : cpc'[d] \in {"reading", "remove"} =>
                          cpc[d] \in {"reading", "remove"}
    BY <1>3 DEF GetMissing, AuthToken, AddConnFail, LoopEnd, RemoveConn,
      CloseBuf, CloseSocket, Writer, Take, Transmit, WriterStop, Break, TypeOK,
      HandlerTypes
  <2>3. QED
    BY <2>1, <2>2, AccountFrame
<1>4. ASSUME NEW p \in Procs, PushLock(p) PROVE Accounted'
  <2>1. UNCHANGED <<saved, refused, due, joined, ckey, cch, cpc>>
        /\ req[p].at = "push"
    BY <1>4 DEF PushLock, At
  <2>2. QED
    BY <1>4, <2>1, PushStarts, AccountFrame
<1>5. ASSUME NEW p \in Procs, SaveOk(p) PROVE Accounted'
  <2>1. /\ req[p].at = "save" /\ Store(p)
        /\ UNCHANGED <<refused, due, joined, ckey, cch, cpc>>
    BY <1>5 DEF SaveOk, At
  <2>2. /\ req'[p].at = "deliver" /\ req'[p].ch = req[p].ch
        /\ req'[p].msg = req[p].msg
        /\ \A q \in Procs \ {p} : req'[q] = req[q]
    BY <1>5, SaveGoesOn
  <2>3. \A e : Delivering(e) => Delivering(e)'
    BY <2>1, <2>2 DEF Delivering
  <2>4. ASSUME NEW c \in Conns, NEW e \in StoredSince(c)'
        PROVE  \/ e \in refused \/ HandedTo(c, e)
               \/ /\ \A i \in DOMAIN due[c] : due[c][i].id < e[2]
                  /\ cpc[c] \in {"reading", "remove"} => Delivering(e)'
    <3>1. CASE e \in StoredSince(c)
      BY <2>3, <3>1 DEF Accounted
    <3>2. CASE e \notin StoredSince(c)
      <4>1. ckey[c] \in Keys
        BY DEF TypeOK, HandlerTypes
      <4>2. e = <<req[p].ch, req[p].msg.id>> /\ e[1] = cch[c]
        BY <2>1, <2>4, <3>2, <4>1, Stored DEF StoredSince
      <4>3. \A i \in DOMAIN due[c] : due[c][i].id < e[2]
        BY <2>1, <4>2 DEF PushInv, IdsIncrease
      <4>4. Delivering(e)'
        BY <2>2, <4>2 DEF Delivering
      <4>5. QED
        BY <4>3, <4>4
    <3>3. QED
      BY <3>1, <3>2
  <2>5. QED
    BY <2>1, <2>4 DEF Accounted, HandedTo
<1>6. ASSUME NEW p \in Procs, SaveFail(p) PROVE Accounted'
  <2>1. /\ req[p].at = "save" /\ (Store(p) \/ UNCHANGED saved) /\ Return(p)
        /\ refused' = refused \cup {<<req[p].ch, req[p].msg.id>>}
        /\ UNCHANGED <<due, joined, ckey, cch, cpc>>
    BY <1>6 DEF SaveFail, Refuse, At
  <2>2. \A q \in Procs \ {p} : req'[q] = req[q]
    BY <2>1 DEF Return, Keep, TypeOK
  <2>3. \A e : Delivering(e) => Delivering(e)'
    BY <2>1, <2>2 DEF Delivering
  <2>4. ASSUME NEW c \in Conns, NEW e \in StoredSince(c)'
        PROVE  \/ e \in refused' \/ HandedTo(c, e)
               \/ /\ \A i \in DOMAIN due[c] : due[c][i].id < e[2]
                  /\ cpc[c] \in {"reading", "remove"} => Delivering(e)'
    <3>1. CASE e \in StoredSince(c)
      BY <2>1, <2>3, <3>1 DEF Accounted
    <3>2. CASE e \notin StoredSince(c)
      <4>1. ckey[c] \in Keys
        BY DEF TypeOK, HandlerTypes
      <4>2. e = <<req[p].ch, req[p].msg.id>>
        BY <2>1, <2>4, <3>2, <4>1, Stored DEF StoredSince
      <4>3. QED
        BY <2>1, <4>2
    <3>3. QED
      BY <3>1, <3>2
  <2>5. QED
    BY <2>1, <2>4 DEF Accounted, HandedTo
<1>7. ASSUME NEW p \in Procs, PushDeliver(p) \/ PushGiveUp(p) PROVE Accounted'
  <2> DEFINE ch == req[p].ch
             m  == req[p].msg
  <2>1. PICK R \in SUBSET conn[ch] :
          /\ Delivers(p, R)
          /\ \/ R = conn[ch] /\ UNCHANGED refused
             \/ refused' = refused \cup {<<ch, m.id>>}
    BY <1>7, LoopEnds
  <2>2. /\ req[p].at = "deliver" /\ Return(p)
        /\ UNCHANGED <<saved, joined, ckey, cch, cpc>>
    BY <2>1 DEF Delivers, At
  <2>3. ch \in Channels /\ m \in Msg
    BY <2>2, HoldsChannel
  <2>4. \A q \in Procs \ {p} : req'[q] = req[q]
    BY <2>2 DEF Return, Keep, TypeOK
  <2>5. \A c \in Conns : IF c \in R THEN due'[c] = Append(due[c], m)
                                     ELSE due'[c] = due[c]
    BY <2>1 DEF Delivers, Write
  <2>6. \A c \in Conns : due[c] \in Seq(Msg)
    BY DEF TypeOK, StreamTypes
  <2>7. \A c \in Conns :
          c \in conn[ch] <=> cch[c] = ch /\ cpc[c] \in {"reading", "remove"}
    BY <2>3 DEF ListInv, ListedIffServed
  <2>8. ASSUME NEW c \in Conns, NEW e \in StoredSince(c)
        PROVE  \/ e \in refused' \/ HandedTo(c, e)'
               \/ /\ \A i \in DOMAIN due'[c] : due'[c][i].id < e[2]
                  /\ cpc[c] \in {"reading", "remove"} => Delivering(e)'
    <3>1. CASE e \in refused
      BY <2>1, <3>1
    <3>2. CASE HandedTo(c, e)
      <4>1. PICK i \in DOMAIN due[c] : due[c][i].id = e[2]
        BY <3>2 DEF HandedTo
      <4>2. i \in DOMAIN due'[c] /\ due'[c][i] = due[c][i]
        BY <2>3, <2>5, <2>6, <4>1, StillThere
      <4>3. QED
        BY <4>1, <4>2 DEF HandedTo
    <3>3. CASE /\ \A i \in DOMAIN due[c] : due[c][i].id < e[2]
               /\ cpc[c] \notin {"reading", "remove"}
      BY <2>5, <2>7, <3>3
    <3>4. ASSUME \A i \in DOMAIN due[c] : due[c][i].id < e[2],
                 cpc[c] \in {"reading", "remove"}, Delivering(e)
          PROVE  \/ e \in refused' \/ HandedTo(c, e)'
                 \/ /\ \A i \in DOMAIN due'[c] : due'[c][i].id < e[2]
                    /\ Delivering(e)'
      <4>1. PICK q \in Procs : /\ req[q].at = "deliver"
                               /\ req[q].ch = e[1] /\ req[q].msg.id = e[2]
        BY <3>4 DEF Delivering
      <4>2. e[1] = cch[c] /\ e = <<e[1], e[2]>>
        BY <2>8 DEF StoredSince, TypeOK, ChannelTypes, HandlerTypes
      <4>3. CASE q = p
        <5>1. e = <<ch, m.id>> /\ c \in conn[ch]
          BY <2>7, <3>4, <4>1, <4>2, <4>3
        <5>2. CASE R = conn[ch]
          <6>1. PICK i \in DOMAIN due'[c] : due'[c][i] = m
            BY <2>3, <2>5, <2>6, <5>1, <5>2, StillThere
          <6>2. due'[c][i].id = e[2]
            BY <4>1, <4>3, <6>1
          <6>3. QED
            BY <6>1, <6>2 DEF HandedTo
        <5>3. QED
          BY <2>1, <5>1, <5>2
      <4>4. CASE q # p
        <5>1. c \notin R
          BY <2>2, <2>7, <4>1, <4>2, <4>4, OnePush DEF Pushing, PushInv
        <5>2. Delivering(e)'
          BY <2>4, <4>1, <4>4 DEF Delivering
        <5>3. QED
          BY <2>5, <3>4, <5>1, <5>2
      <4>5. QED
        BY <4>3, <4>4
    <3>5. QED
      BY <3>1, <3>2, <3>3, <3>4 DEF Accounted
  <2>9. \A c \in Conns : StoredSince(c)' = StoredSince(c)
    BY <2>2 DEF StoredSince
  <2>10. QED
    BY <2>2, <2>8, <2>9 DEF Accounted
<1>8. ASSUME NEW p \in Procs,
             AddToken(p) \/ CloseChannel(p) \/ CloseReturn(p) \/
             MigrateBucket(p) \/ CollectBucket(p) \/ WalkEnd(p) \/ Request(p) \/
             Shutdown(p)
      PROVE  Accounted'
  <2>1. UNCHANGED <<saved, refused, due, joined, ckey, cch, cpc>>
    BY <1>8 DEF AddToken, CloseChannel, CloseReturn, MigrateBucket,
      CollectBucket, WalkEnd, Request, RpcNew, RpcPush, PushNoClient, RpcClose,
      RpcMigrate, Shutdown, NewChannel
  <2>2. QED
    BY <1>8, <2>1, OthersGoOn, AccountFrame DEF Pushing
<1>9. CASE UNCHANGED vars
  BY <1>9, AccountFrame DEF vars
<1>10. QED
  BY <1>1, <1>2, <1>3, <1>4, <1>5, <1>6, <1>7, <1>8, <1>9
  DEF Next, Handler, Serve

-----------------------------------------------------------------------------
(***************************************************************************)
(* The theorems.                                                           *)
(***************************************************************************)

\* The parts of IInv, grouped as the lemmas above take them.
LEMMA InvParts ==
  IInv <=> /\ TypeOK /\ ListInv /\ SubscriberLimit /\ StreamInv /\ PushInv
           /\ OneKeyPerChannel /\ StoreInv /\ Accounted
  BY DEF IInv, ListInv, StreamInv, PushInv, StoreInv

\* The invariant holds at the start.
LEMMA InvInit ==
  ASSUME Init, TypeOK
  PROVE  IInv
<1>1. ListInv
  BY DEF Init, ListInv, ListedIffServed, BufOpenWhileListed, NoPanic
<1>2. SubscriberLimit
  BY FS_EmptySet, ConstAssumption DEF Init, SubscriberLimit
<1>3. StreamInv
  <2>1. \A c \in Conns : IsPrefix(wire[c], due[c])
    <3>1. <<>> \in Seq(Msg) /\ <<>> = <<>> \o <<>>
      BY ConcatEmptySeq
    <3>2. IsPrefix(<<>>, <<>>)
      BY <3>1, PrefixConcat
    <3>3. QED
      BY <3>2 DEF Init
  <2>2. \A c \in Conns : due[c] = (wire[c] \o flight[c]) \o buf[c]
    BY DEF Init
  <2>3. QED
    BY <2>1, <2>2 DEF Init, StreamInv, NothingBeforeAdd, StreamWhole, GapFree
<1>4. PushInv
  BY DEF Init, PushInv, PushOwnsChannel, IdsIncrease, Idle
<1>5. OneKeyPerChannel
  BY DEF Init, OneKeyPerChannel, Knows, Idle, Channels
<1>6. StoreInv
  BY DEF Init, StoreInv, SavedIdsBelow, SavedBeforeDeliver, SavedBeforePushed,
    Idle
<1>7. Accounted
  BY DEF Init, Accounted, StoredSince, TypeOK, HandlerTypes
<1>8. QED
  BY <1>1, <1>2, <1>3, <1>4, <1>5, <1>6, <1>7, InvParts

\* IInv holds in every reachable state, whatever the number of users,
\* connections, goroutines, buckets and messages.
THEOREM Invariance == Spec => []IInv
<1>1. Init /\ TypeOK => IInv
  BY InvInit
<1>2. IInv /\ TypeOK' /\ [Next]_vars => IInv'
  <2> SUFFICES ASSUME IInv, TypeOK', [Next]_vars PROVE IInv'
    OBVIOUS
  <2>1. /\ TypeOK /\ ListInv /\ SubscriberLimit /\ StreamInv /\ PushInv
        /\ OneKeyPerChannel /\ StoreInv /\ Accounted
    BY InvParts
  <2>2. ListInv' /\ SubscriberLimit' /\ StreamInv'
    BY <2>1, ListStep, LimitStep, StreamStep
  <2>3. PushInv' /\ OneKeyPerChannel' /\ StoreInv' /\ Accounted'
    BY <2>1, PushStep, KeyStep, StoreStep, AccountStep
  <2>4. QED
    BY <2>2, <2>3
    DEF IInv, ListInv, StreamInv, PushInv, StoreInv
<1>3. QED
  BY <1>1, <1>2, Typing, PTL DEF Spec

\* No interleaving of pushes, closes, migrations and leaving subscribers makes
\* comet panic: no send on a closed Buf, no second close, no second Remove.
THEOREM PanicFree == Spec => []NoPanic
<1>1. IInv => NoPanic
  BY DEF IInv
<1>2. QED
  BY <1>1, Invariance, PTL

\* What reaches a client is an initial part of what PushMsg handed to its
\* Connection.Write, whether its loops came to their ends or not.
THEOREM StreamsGapFree == Spec => []GapFree
<1>1. IInv => GapFree
  BY DEF IInv
<1>2. QED
  BY <1>1, Invariance, PTL

\* AddConn keeps every list within MaxSubscriberPerChannel.
THEOREM ListsBounded == Spec => []SubscriberLimit
<1>1. IInv => SubscriberLimit
  BY DEF IInv
<1>2. QED
  BY <1>1, Invariance, PTL

\* Every list is exactly the connections being served from it: whoever meets the end
\* of a connection, a migration or the shutdown leaves none behind.
THEOREM ListsServe == Spec => []ListedIffServed
<1>1. IInv => ListedIffServed
  BY DEF IInv
<1>2. QED
  BY <1>1, Invariance, PTL

\* No subscriber is shown a private message that the message service could
\* still refuse.
THEOREM PushedIsSaved == Spec => []SavedBeforePushed
<1>1. IInv => SavedBeforePushed
  BY DEF IInv
<1>2. QED
  BY <1>1, Invariance, PTL

\* A client that reconnects with the last id it saw can ask for all it missed,
\* except messages whose push was answered with an error: what was stored since
\* it joined was handed to it, ids grow along a stream, and what was written is
\* its beginning.
THEOREM ReconnectMissesNothing == Spec => []Recoverable
<1>1. ASSUME IInv PROVE Recoverable
  <2> SUFFICES ASSUME NEW c \in Conns, NEW e \in StoredSince(c), e \notin refused
               PROVE  WrittenTo(c, e) \/ \A i \in DOMAIN wire[c] : wire[c][i].id < e[2]
    BY DEF Recoverable
  <2>1. wire[c] \in Seq(Msg) /\ due[c] \in Seq(Msg)
    BY <1>1 DEF IInv, TypeOK, StreamTypes
  <2>2. /\ Len(wire[c]) \in Nat /\ Len(due[c]) \in Nat
        /\ DOMAIN wire[c] = 1..Len(wire[c]) /\ DOMAIN due[c] = 1..Len(due[c])
    BY <2>1, LenProperties
  <2>3. /\ Len(wire[c]) <= Len(due[c])
        /\ \A n \in 1..Len(wire[c]) : wire[c][n] = due[c][n]
    BY <1>1, <2>1, PrefixDef DEF IInv, GapFree
  <2>4. HandedTo(c, e) \/ \A i \in DOMAIN due[c] : due[c][i].id < e[2]
    BY <1>1 DEF IInv, Accounted
  <2>5. CASE \A i \in DOMAIN due[c] : due[c][i].id < e[2]
    BY <2>2, <2>3, <2>5
  <2>6. CASE HandedTo(c, e)
    <3>1. PICK j \in DOMAIN due[c] : due[c][j].id = e[2]
      BY <2>6 DEF HandedTo
    <3>2. CASE j \in DOMAIN wire[c]
      BY <2>2, <2>3, <3>1, <3>2 DEF WrittenTo
    <3>3. CASE j \notin DOMAIN wire[c]
      <4>1. \A i \in DOMAIN wire[c] : i \in DOMAIN due[c] /\ i < j
        BY <2>2, <2>3, <3>1, <3>3
      <4>2. \A i \in DOMAIN wire[c] : due[c][i].id < due[c][j].id
        BY <1>1, <3>1, <4>1 DEF IInv, IdsIncrease
      <4>3. QED
        BY <2>2, <2>3, <3>1, <4>2
    <3>4. QED
      BY <3>2, <3>3
  <2>7. QED
    BY <2>4, <2>5, <2>6
<1>2. QED
  BY <1>1, Invariance, PTL

\* What one step adds to the store is the message of one push, above all that
\* its channel stored before.
LEMMA StoreOnTop ==
  ASSUME IInv, [Next]_vars, NEW k \in Keys, NEW new \in saved'[k] \ saved[k],
         NEW old \in saved[k], old[1] = new[1]
  PROVE  old[2] < new[2]
<1> USE DEF chVars, sockVars, connVars
<1>1. TypeOK /\ PushInv /\ StoreInv
  BY InvParts
<1>2. ASSUME NEW p \in Procs, SaveOk(p) \/ SaveFail(p) PROVE old[2] < new[2]
  <2>1. req[p].at = "save" /\ (Store(p) \/ UNCHANGED saved)
    BY <1>2 DEF SaveOk, SaveFail, At
  <2>2. new = <<req[p].ch, req[p].msg.id>>
    BY <1>1, <2>1, Stored
  <2>3. QED
    BY <1>1, <2>1, <2>2 DEF StoreInv, SavedIdsBelow
<1>3. CASE ~ \E p \in Procs : SaveOk(p) \/ SaveFail(p)
  <2>1. UNCHANGED saved
    BY <1>3, ZenonT(30) DEF Next, Handler, GetChannel, GetMissing, AuthToken, AddConn,
      AddConnFail, LoopEnd, RemoveConn, CloseBuf, CloseSocket, Writer, Take,
      Transmit, WriterStop, Break, Serve, AddToken, PushNoClient, PushLock,
      PushDeliver, PushGiveUp, CloseChannel, CloseReturn, MigrateBucket, CollectBucket,
      WalkEnd, Request, RpcNew, RpcPush, RpcClose, RpcMigrate, Shutdown,
      NewChannel, vars
  <2>2. QED
    BY <2>1
<1>4. QED
  BY <1>2, <1>3

\* The message service receives the messages of a channel in the order of their
\* ids, since PushMsg keeps the mutex across the call.
THEOREM StoredInOrder == Spec => SaveOrder
<1>1. IInv /\ [Next]_vars =>
        [\A k \in Keys : \A new \in saved'[k] \ saved[k], old \in saved[k] :
           old[1] = new[1] => old[2] < new[2]]_saved
  BY StoreOnTop
<1>2. QED
  BY <1>1, Invariance, PTL DEF Spec, SaveOrder

-----------------------------------------------------------------------------
(***************************************************************************)
(* Channels that leave the table.                                          *)
(***************************************************************************)

\* Only the main goroutine collects channels that stay in the table.
CloseInv ==
  /\ ClosingLeftTable
  /\ \A p \in Rpcs : req[p].at # "closeall"

\* Locals of a goroutine that starts a request, or goes on without collecting.
LEMMA CloseFrame ==
  ASSUME TypeOK, CloseInv,
         \A k \in Keys : table'[k] = table[k] \/ table'[k] = 0
                           \/ table'[k] > alloc,
         \A q \in Rpcs : /\ req'[q].closing \subseteq req[q].closing
                         /\ req'[q].at # "closeall"
  PROVE  CloseInv'
<1>1. \A q \in Rpcs : req[q].closing \subseteq 1..alloc
  BY AllocNat, RequestFields DEF TypeOK, Procs
<1>2. QED
  BY <1>1, AllocNat DEF CloseInv, ClosingLeftTable, TypeOK, ChannelTypes

\* What is being closed stays out of the table.
LEMMA CloseStep ==
  ASSUME TypeOK, OneKeyPerChannel, CloseInv, [Next]_vars
  PROVE  CloseInv'
<1> USE DEF chVars, sockVars, connVars
<1>0. req \in [Procs -> Requests(alloc)] /\ alloc \in Nat
  BY AllocNat DEF TypeOK
<1>1. \A k \in Keys, ch \in Channels :
        Fetch(k, ch) => \A j \in Keys : table'[j] = table[j] \/ table'[j] > alloc
  BY <1>0 DEF Fetch, TypeOK, ChannelTypes
<1>2. ASSUME NEW c \in Conns, Handler(c) \/ Writer(c) \/ Break(c)
      PROVE  CloseInv'
  <2>1. UNCHANGED req
    BY <1>2 DEF Handler, GetChannel, GetMissing, AuthToken, AddConn, AddConnFail,
      LoopEnd, RemoveConn, CloseBuf, CloseSocket, Writer, Take, Transmit,
      WriterStop, Break
  <2>2. \A j \in Keys : table'[j] = table[j] \/ table'[j] > alloc
    BY <1>1, <1>2 DEF Handler, GetChannel, GetMissing, AuthToken, AddConn,
      AddConnFail, LoopEnd, RemoveConn, CloseBuf, CloseSocket, Writer, Take,
      Transmit, WriterStop, Break, TypeOK, HandlerTypes
  <2>3. QED
    BY <2>1, <2>2, CloseFrame DEF CloseInv
<1>3. ASSUME NEW p \in Procs, RpcNew(p) \/ RpcPush(p) PROVE CloseInv'
  <2>1. PICK k \in Keys, ch \in Channels, s \in {"addtoken", "push"},
             m \in {NoMsg} \cup {[id |-> 0, persist |-> b] : b \in BOOLEAN} :
          NewChannel(p, k, ch, s, m)
    BY <1>3 DEF RpcNew, RpcPush
  <2>2. \A j \in Keys : table'[j] = table[j] \/ table'[j] > alloc
    BY <1>1, <2>1 DEF NewChannel
  <2>3. \A q \in Procs : (req'[q].closing = {} /\ req'[q].at # "closeall")
                         \/ req'[q] = req[q]
    BY <1>0, <2>1 DEF NewChannel, Keep, Idle
  <2>4. QED
    BY <2>2, <2>3, CloseFrame DEF CloseInv, Procs
<1>4. ASSUME NEW p \in Procs, PushNoClient(p) PROVE CloseInv'
  <2>1. UNCHANGED req
    BY <1>4 DEF PushNoClient
  <2>2. \A j \in Keys : table'[j] = table[j] \/ table'[j] > alloc
    BY <1>1, <1>4 DEF PushNoClient
  <2>3. QED
    BY <2>1, <2>2, CloseFrame DEF CloseInv
<1>5. ASSUME NEW p \in Procs,
             AddToken(p) \/ SaveFail(p) \/ PushDeliver(p) \/ PushGiveUp(p)
      PROVE  CloseInv'
  <2>1. UNCHANGED table /\ Return(p)
    BY <1>5 DEF AddToken, SaveFail, PushDeliver, PushGiveUp, Refuse
  <2>2. \A q \in Procs : (req'[q].closing = {} /\ req'[q].at # "closeall")
                         \/ req'[q] = req[q]
    BY <1>0, <2>1 DEF Return, Keep, Idle
  <2>3. QED
    BY <2>1, <2>2, CloseFrame DEF CloseInv, Procs
<1>6. ASSUME NEW p \in Procs, PushLock(p) \/ SaveOk(p) PROVE CloseInv'
  <2>1. UNCHANGED table
    BY <1>6 DEF PushLock, SaveOk
  <2>2. PICK i, s :
          /\ s # "closeall"
          /\ \/ Keep(p, [req[p] EXCEPT !.msg.id = i, !.at = s])
             \/ Goto(p, s)
    BY <1>6 DEF PushLock, SaveOk
  <2>3. \A q \in Procs : req'[q].closing = req[q].closing
                         /\ (req'[q].at # "closeall" \/ req'[q] = req[q])
    <3>1. CASE Keep(p, [req[p] EXCEPT !.msg.id = i, !.at = s])
      BY <1>0, <2>2, <3>1 DEF Keep, Requests
    <3>2. CASE Goto(p, s)
      BY <1>0, <2>2, <3>2 DEF Goto, Keep, Requests
    <3>3. QED
      BY <2>2, <3>1, <3>2
  <2>4. QED
    BY <2>1, <2>3, CloseFrame DEF CloseInv, Procs
<1>7. ASSUME NEW p \in Procs, CloseChannel(p) \/ CloseReturn(p) PROVE CloseInv'
  <2>1. UNCHANGED table
    BY <1>7 DEF CloseChannel, CloseReturn
  <2>2. \A q \in Procs : req'[q].closing \subseteq req[q].closing
                         /\ (req'[q].at # "closeall" \/ req'[q] = req[q])
    BY <1>0, <1>7 DEF CloseChannel, CloseReturn, Return, Goto, Keep, Idle, At,
      Requests
  <2>3. QED
    BY <2>1, <2>2, CloseFrame DEF CloseInv, Procs
<1>8. ASSUME NEW p \in Procs, RpcMigrate(p) \/ WalkEnd(p) PROVE CloseInv'
  <2>1. UNCHANGED table
    BY <1>8 DEF RpcMigrate, WalkEnd
  <2>2. \A q \in Procs : req'[q].closing = req[q].closing
                         /\ (req'[q].at # "closeall" \/ req'[q] = req[q])
    <3>1. CASE RpcMigrate(p)
      <4>1. PICK ks \in SUBSET Keys :
              Keep(p, [req[p] EXCEPT !.at = "migrate", !.moving = ks])
        BY <3>1 DEF RpcMigrate
      <4>2. QED
        BY <1>0, <4>1 DEF Keep, Requests
    <3>2. CASE WalkEnd(p)
      BY <1>0, <3>2 DEF WalkEnd, Goto, Keep, Requests
    <3>3. QED
      BY <1>8, <3>1, <3>2
  <2>3. QED
    BY <2>1, <2>2, CloseFrame DEF CloseInv, Procs
<1>9. ASSUME NEW p \in Procs, Shutdown(p) \/ CollectBucket(p) PROVE CloseInv'
  <2>1. UNCHANGED table
    BY <1>9 DEF Shutdown, CollectBucket
  <2>2. p \notin Rpcs
    BY <1>9, ConstAssumption DEF Shutdown, CollectBucket, CloseInv, At
  <2>3. \A q \in Rpcs : req'[q] = req[q]
    BY <1>0, <1>9, <2>2 DEF Shutdown, CollectBucket, Collect, Goto, Keep, Procs
  <2>4. QED
    BY <2>1, <2>3, CloseFrame DEF CloseInv
<1>10. ASSUME NEW p \in Procs, NEW k \in Keys, NEW ks \in SUBSET Keys,
             \A j \in ks : table[j] # 0,
             table' = [j \in Keys |-> IF j \in ks THEN 0 ELSE table[j]],
             \A q \in Procs \ {p} : req'[q] = req[q],
             req'[p].closing \subseteq
               req[p].closing \cup {table[j] : j \in ks}
      PROVE  \A q \in Rpcs : table'[k] \notin req'[q].closing
  <2>1. 0 \notin req'[p].closing
    BY <1>0, <1>10, RequestFields
  <2>2. k \notin ks => \A j \in ks : table[k] # table[j]
    BY <1>10, ConstAssumption
    DEF OneKeyPerChannel, Knows, TypeOK, ChannelTypes, Channels
  <2>3. \A q \in Rpcs : 0 \notin req[q].closing
    BY <1>0, RequestFields DEF Procs
  <2>4. QED
    BY <1>10, <2>1, <2>2, <2>3 DEF CloseInv, ClosingLeftTable, Procs
<1>11. ASSUME NEW p \in Procs, RpcClose(p) PROVE CloseInv'
  <2>1. PICK k \in Keys :
          /\ table[k] # 0 /\ table' = [table EXCEPT ![k] = 0]
          /\ Keep(p, [req[p] EXCEPT !.at = "close", !.closing = {table[k]}])
    BY <1>11 DEF RpcClose
  <2>2. /\ req'[p].closing = {table[k]} /\ req'[p].at = "close"
        /\ \A q \in Procs \ {p} : req'[q] = req[q]
    BY <1>0, <2>1 DEF Keep, Requests
  <2>3. table' = [j \in Keys |-> IF j \in {k} THEN 0 ELSE table[j]]
    BY <2>1 DEF TypeOK, ChannelTypes
  <2>4. /\ {k} \in SUBSET Keys /\ \A j \in {k} : table[j] # 0
        /\ req'[p].closing \subseteq req[p].closing \cup {table[j] : j \in {k}}
    BY <2>1, <2>2
  <2>5. \A j \in Keys : \A q \in Rpcs : table'[j] \notin req'[q].closing
    BY <1>10, <2>2, <2>3, <2>4
  <2>6. QED
    BY <2>2, <2>5 DEF CloseInv, ClosingLeftTable, Procs
<1>12. ASSUME NEW p \in Procs, MigrateBucket(p) PROVE CloseInv'
  <2> DEFINE ks == KeysIn(req[p].bucket) \cap req[p].moving
  <2>1. /\ Collect(p, req[p].bucket, ks)
        /\ table' = [j \in Keys |-> IF j \in ks THEN 0 ELSE table[j]]
        /\ req[p].at = "migrate"
    BY <1>12 DEF MigrateBucket, At
  <2>2. /\ req'[p].closing = req[p].closing \cup {table[j] : j \in ks}
        /\ req'[p].at = "migrate"
        /\ \A q \in Procs \ {p} : req'[q] = req[q]
    BY <1>0, <2>1 DEF Collect, Keep, Requests
  <2>3. ks \in SUBSET Keys /\ \A j \in ks : table[j] # 0
    BY DEF KeysIn
  <2> HIDE DEF ks
  <2>4. \A j \in Keys : \A q \in Rpcs : table'[j] \notin req'[q].closing
    BY <1>10, <2>1, <2>2, <2>3
  <2>5. QED
    BY <2>2, <2>4 DEF CloseInv, ClosingLeftTable, Procs
<1>13. CASE UNCHANGED vars
  BY <1>13, CloseFrame DEF vars, CloseInv
<1>14. QED
  BY <1>2, <1>3, <1>4, <1>5, <1>6, <1>7, <1>8, <1>9, <1>11, <1>12, <1>13
  DEF Next, Serve, Request

\* What Close and Migrate are closing cannot be fetched any more: no key leads to
\* it, not even when the key got a new channel meanwhile.
THEOREM ClosedIsUnreachable == Spec => []ClosingLeftTable
<1>1. Init => CloseInv
  BY DEF Init, CloseInv, ClosingLeftTable, Idle, Procs
<1>2. IInv => TypeOK /\ OneKeyPerChannel
  BY DEF IInv
<1>3. TypeOK /\ OneKeyPerChannel /\ CloseInv /\ [Next]_vars => CloseInv'
  BY CloseStep
<1>4. CloseInv => ClosingLeftTable
  BY DEF CloseInv
<1>5. QED
  BY <1>1, <1>2, <1>3, <1>4, Invariance, PTL DEF Spec

=============================================================================
