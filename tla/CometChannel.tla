---------------------------- MODULE CometChannel ----------------------------
(***************************************************************************)
(* The core of the comet process: the table of channels (comet/channel.go),*)
(* the sequence channel of one user key (comet/seq_channel.go), the        *)
(* goroutine that serves one subscriber (comet/pubsub_tcp.go and its       *)
(* websocket twin), the writer goroutine of each connection and the RPC    *)
(* handlers that create, push to, close and migrate channels               *)
(* (comet/rpc.go).                                                         *)
(*                                                                         *)
(* The grain is that of the locks: what the code does between taking and   *)
(* releasing a bucket lock is one step, and so is what it does under a     *)
(* channel mutex, except that PushMsg keeps the mutex while it waits for   *)
(* the message service.  A *SeqChannel is a number: the table maps a key   *)
(* to the one it holds, and a goroutine that fetched a channel keeps its   *)
(* number whatever happens to the table afterwards.                        *)
(***************************************************************************)
EXTENDS Integers, Sequences, FiniteSets, SequencesExt

CONSTANTS
  Keys,          \* user keys
  Conns,         \* client connections, each served once
  OldConns,      \* those that subscribe without a version (the old protocol)
  Rpcs,          \* goroutines of the RPC server
  Mains,         \* the main goroutine, or nothing when shutdown is left out
  Tokens,        \* tokens the web side hands out
  Auth,          \* Conf.Auth
  MaxSubscriber, \* Conf.MaxSubscriberPerChannel
  MsgBufNum,     \* Conf.MsgBufNum, capacity of Connection.Buf
  NBuckets,      \* Conf.ChannelBucket
  BucketOf,      \* the bucket the hash of a key selects
  Methods,       \* bound: the methods of CometRPC the web side calls
  MaxChannels,   \* bound: channel objects created in a behaviour
  MaxPushes,     \* bound: PushPrivate calls that reach a channel
  MaxSkip,       \* bound: how far an id may be above the previous one
  NoProc,        \* the owner of a free mutex
  NoKey          \* the key of a request not made

Procs == Rpcs \cup Mains

Channels == 1..MaxChannels

\* A message a channel numbered; persist says that it was saved first.
Msg == [id : Nat, persist : BOOLEAN]

ASSUME ConstAssumption ==
  /\ IsFiniteSet(Conns)
  /\ OldConns \subseteq Conns
  /\ Auth \in BOOLEAN
  /\ MaxSubscriber \in Nat
  /\ MsgBufNum \in Nat \ {0}
  /\ NBuckets \in Nat \ {0}
  /\ BucketOf \in [Keys -> 1..NBuckets]
  /\ Methods \subseteq {"New", "PushPrivate", "Close", "Migrate"}
  /\ MaxChannels \in Nat
  /\ MaxPushes \in Nat
  /\ MaxSkip \in Nat
  /\ NoProc \notin Procs
  /\ Rpcs \cap Mains = {}
  /\ NoKey \notin Keys

VARIABLES
  table,    \* ChannelBucket.Data of all buckets: key -> channel, 0 if absent
  alloc,    \* number of channel objects created so far
  pushes,   \* number of PushPrivate calls accepted so far
  lastID,   \* SeqChannel.timeID.lastID
  conn,     \* SeqChannel.conn: the connections in its list
  mutex,    \* SeqChannel.mutex: the goroutine that holds it across steps
  tokens,   \* SeqChannel.token: tickets in its map
  saved,    \* (external) ids the message service accepted, per key and channel
  refused,  \* history: ids of pushes answered with an error once numbered
  cpc,      \* control state of the goroutine serving a connection
  ckey,     \* the key the connection subscribed to
  cch,      \* the channel its handler holds
  sock,     \* the socket under Connection.Conn
  buf,      \* contents of Connection.Buf
  bufst,    \* Connection.Buf is not made yet, open or closed
  hw,       \* the goroutine of HandleWrite
  flight,   \* the message HandleWrite took from Buf and has not written yet
  wire,     \* messages written to the socket without error, in order
  due,      \* history: messages PushMsg handed to Connection.Write
  joined,   \* history: lastID of the channel when AddConn put it in the list
  req,      \* the request each RPC goroutine works on
  panicked  \* a send on a closed Buf, a second close or a second Remove

chVars   == <<table, alloc, pushes, lastID, conn, mutex, tokens, saved,
              refused>>
sockVars == <<sock, buf, bufst, hw, flight, wire, due, joined>>
connVars == <<cpc, ckey, cch>>
vars     == <<chVars, sockVars, connVars, req, panicked>>

ConnStates == {"init", "auth", "add", "reading", "remove", "closebuf",
               "return", "done"}
ReqStates  == {"idle", "addtoken", "push", "save", "deliver",
               "migrate", "closeall", "close", "exited"}

-----------------------------------------------------------------------------
NoMsg == [id |-> 0, persist |-> FALSE]

\* The locals of a handler: its arguments, the channel it fetched, the channels
\* it still has to close and its position in a walk over the buckets.
Idle == [at |-> "idle", key |-> NoKey, ch |-> 0, msg |-> NoMsg,
         closing |-> {}, bucket |-> 1, moving |-> {}]

Init ==
  /\ table  = [k \in Keys |-> 0]
  /\ alloc  = 0
  /\ pushes = 0
  /\ lastID = [ch \in Channels |-> 0]
  /\ conn   = [ch \in Channels |-> {}]
  /\ mutex  = [ch \in Channels |-> NoProc]
  /\ tokens = [ch \in Channels |-> {}]
  /\ saved  = [k \in Keys |-> {}]
  /\ refused = {}
  /\ cpc    = [c \in Conns |-> "init"]
  /\ ckey   \in [Conns -> Keys]
  /\ cch    = [c \in Conns |-> 0]
  /\ sock   = [c \in Conns |-> "open"]
  /\ buf    = [c \in Conns |-> <<>>]
  /\ bufst  = [c \in Conns |-> "none"]
  /\ hw     = [c \in Conns |-> "none"]
  /\ flight = [c \in Conns |-> <<>>]
  /\ wire   = [c \in Conns |-> <<>>]
  /\ due    = [c \in Conns |-> <<>>]
  /\ joined = [c \in Conns |-> 0]
  /\ req    = [p \in Procs |-> Idle]
  /\ panicked = FALSE

(***************************************************************************)
(* ChannelList.  Lookup-or-create under the bucket lock: the caller gets   *)
(* channel ch, which is the one in the table or a new one.                 *)
(***************************************************************************)
Fetch(k, ch) ==
  IF table[k] # 0
    THEN ch = table[k] /\ UNCHANGED <<table, alloc>>
    ELSE /\ alloc < MaxChannels
         /\ ch = alloc + 1
         /\ alloc' = ch
         /\ table' = [table EXCEPT ![k] = ch]

\* Mutation: the mutex is not taken at all.
FreeUnlocked(ch) == TRUE

\* The mutex of channel ch can be taken.
Free(ch) == mutex[ch] = NoProc

(***************************************************************************)
(* The goroutine serving connection c.                                     *)
(***************************************************************************)

\* Get creates a channel only when no token is asked for.
MayCreate == ~Auth

\* UserChannel.Get(key, true).
GetChannel(c) ==
  /\ cpc[c] = "init"
  /\ \E ch \in Channels :
       /\ table[ckey[c]] # 0 \/ MayCreate
       /\ Fetch(ckey[c], ch)
       /\ cch' = [cch EXCEPT ![c] = ch]
  /\ cpc' = [cpc EXCEPT ![c] = "auth"]
  /\ UNCHANGED <<ckey, pushes, lastID, conn, mutex, tokens, saved, refused,
                 sockVars, req, panicked>>

\* UserChannel.Get when the key has no channel and may not create one.
GetMissing(c) ==
  /\ cpc[c] = "init" /\ ~MayCreate /\ table[ckey[c]] = 0
  /\ cpc' = [cpc EXCEPT ![c] = "return"]
  /\ UNCHANGED <<ckey, cch, chVars, sockVars, req, panicked>>

\* AuthToken(key, token).  An accepted token is refreshed; tokens that expired
\* are dropped from the map, unless the token is unknown.
AuthToken(c) ==
  LET ch == cch[c] IN
  /\ cpc[c] = "auth"
  /\ IF ~Auth
       THEN cpc' = [cpc EXCEPT ![c] = "add"] /\ UNCHANGED tokens
       ELSE /\ Free(ch)
            /\ \E t \in Tokens, expired \in SUBSET tokens[ch] :
                 /\ t \notin tokens[ch] => expired = {}
                 /\ tokens' = [tokens EXCEPT ![ch] = @ \ expired]
                 /\ cpc' = [cpc EXCEPT ![c] =
                              IF t \in tokens[ch] \ expired THEN "add"
                                                            ELSE "return"]
  /\ UNCHANGED <<ckey, cch, table, alloc, pushes, lastID, conn, mutex, saved,
                 refused, sockVars, req, panicked>>

\* Mutation: the limit is off by one.
RoomOffByOne(ch) == Cardinality(conn[ch]) <= MaxSubscriber

\* One more connection keeps channel ch within its limit.
Room(ch) == Cardinality(conn[ch]) + 1 <= MaxSubscriber

\* AddConn: under the mutex the limit is tested, the first heartbeat written,
\* Buf made, the writer started and the connection put in the list.
AddConn(c) ==
  LET ch == cch[c] IN
  /\ cpc[c] = "add" /\ Free(ch)
  /\ Room(ch) /\ sock[c] = "open"
  /\ bufst' = [bufst EXCEPT ![c] = "open"]
  /\ hw'    = [hw EXCEPT ![c] = "running"]
  /\ conn'  = [conn EXCEPT ![ch] = @ \cup {c}]
  /\ cpc'   = [cpc EXCEPT ![c] = "reading"]
  /\ joined' = [joined EXCEPT ![c] = lastID[ch]]
  /\ UNCHANGED <<ckey, cch, table, alloc, pushes, lastID, mutex, tokens, saved,
                 refused, sock, buf, flight, wire, due, req, panicked>>

\* AddConn refused: ErrMaxConn, or the first heartbeat cannot be written.
AddConnFail(c) ==
  LET ch == cch[c] IN
  /\ cpc[c] = "add" /\ Free(ch)
  /\ ~Room(ch) \/ sock[c] # "open"
  /\ cpc' = [cpc EXCEPT ![c] = "return"]
  /\ UNCHANGED <<ckey, cch, chVars, sockVars, req, panicked>>

\* Mutation: the handler closes Buf without leaving the list first.
LoopEndNoRemove(c) ==
  /\ cpc[c] = "reading"
  /\ cpc' = [cpc EXCEPT ![c] = "closebuf"]
  /\ UNCHANGED <<ckey, cch, chVars, sockVars, req, panicked>>

\* The heartbeat loop ends: the client left, its heartbeat is late or wrong, or
\* the socket was closed on our side.
LoopEnd(c) ==
  /\ cpc[c] = "reading"
  /\ cpc' = [cpc EXCEPT ![c] = "remove"]
  /\ UNCHANGED <<ckey, cch, chVars, sockVars, req, panicked>>

\* RemoveConn, first half: out of the list under the mutex.
RemoveConn(c) ==
  LET ch == cch[c] IN
  /\ cpc[c] = "remove" /\ Free(ch)
  /\ conn' = [conn EXCEPT ![ch] = @ \ {c}]
  /\ panicked' = (panicked \/ c \notin conn[ch])
  /\ cpc' = [cpc EXCEPT ![c] = "closebuf"]
  /\ UNCHANGED <<ckey, cch, table, alloc, pushes, lastID, mutex, tokens, saved,
                 refused, sockVars, req>>

\* Mutation: Buf is never closed.
CloseBufForgotten(c) ==
  /\ cpc[c] = "closebuf"
  /\ cpc' = [cpc EXCEPT ![c] = "return"]
  /\ UNCHANGED <<ckey, cch, chVars, sockVars, req, panicked>>

\* RemoveConn, second half: close(conn.Buf) once the mutex is released.
CloseBuf(c) ==
  /\ cpc[c] = "closebuf"
  /\ bufst' = [bufst EXCEPT ![c] = "closed"]
  /\ panicked' = (panicked \/ bufst[c] # "open")
  /\ cpc' = [cpc EXCEPT ![c] = "return"]
  /\ UNCHANGED <<ckey, cch, chVars, sock, buf, hw, flight, wire, due, joined,
                 req>>

\* The handler returns and handleTCPConn closes the socket.
CloseSocket(c) ==
  /\ cpc[c] = "return"
  /\ sock' = [sock EXCEPT ![c] = "closed"]
  /\ cpc'  = [cpc EXCEPT ![c] = "done"]
  /\ UNCHANGED <<ckey, cch, chVars, buf, bufst, hw, flight, wire, due, joined,
                 req, panicked>>

\* The network or the client breaks an open connection: later reads and writes
\* on it fail.
Break(c) ==
  /\ sock[c] = "open"
  /\ sock' = [sock EXCEPT ![c] = "broken"]
  /\ UNCHANGED <<chVars, connVars, buf, bufst, hw, flight, wire, due, joined,
                 req, panicked>>

(***************************************************************************)
(* HandleWrite: the writer goroutine of connection c.  A closed Buf still  *)
(* yields what was in it.                                                  *)
(***************************************************************************)
Take(c) ==
  /\ hw[c] = "running" /\ flight[c] = <<>> /\ buf[c] # <<>>
  /\ flight' = [flight EXCEPT ![c] = <<Head(buf[c])>>]
  /\ buf'    = [buf EXCEPT ![c] = Tail(@)]
  /\ UNCHANGED <<chVars, connVars, sock, bufst, hw, wire, due, joined, req,
                 panicked>>

\* Conn.Write of the message taken: an error is counted and forgotten.
Transmit(c) ==
  /\ flight[c] # <<>>
  /\ wire' = IF sock[c] = "open" THEN [wire EXCEPT ![c] = @ \o flight[c]]
                                 ELSE wire
  /\ flight' = [flight EXCEPT ![c] = <<>>]
  /\ UNCHANGED <<chVars, connVars, sock, buf, bufst, hw, due, joined, req,
                 panicked>>

WriterStop(c) ==
  /\ hw[c] = "running" /\ flight[c] = <<>> /\ buf[c] = <<>>
  /\ bufst[c] = "closed"
  /\ hw' = [hw EXCEPT ![c] = "stopped"]
  /\ UNCHANGED <<chVars, connVars, sock, buf, bufst, flight, wire, due, joined,
                 req, panicked>>

(***************************************************************************)
(* The RPC handlers.  Goto(p, s) moves goroutine p of the RPC server to    *)
(* control state s, Return(p) ends its request.                            *)
(***************************************************************************)
At(p, s)   == req[p].at = s
Keep(p, r) == req' = [req EXCEPT ![p] = r]
Goto(p, s) == Keep(p, [req[p] EXCEPT !.at = s])
Return(p)  == Keep(p, Idle)

\* CometRPC.New and CometRPC.PushPrivate begin with UserChannel.New(key).
NewChannel(p, k, ch, next, m) ==
  /\ At(p, "idle")
  /\ Fetch(k, ch)
  /\ Keep(p, [Idle EXCEPT !.at = next, !.key = k, !.ch = ch, !.msg = m])
  /\ UNCHANGED <<lastID, conn, mutex, tokens, saved, refused, sockVars,
                 connVars, panicked>>

RpcNew(p) ==
  /\ \E k \in Keys, ch \in Channels : NewChannel(p, k, ch, "addtoken", NoMsg)
  /\ UNCHANGED pushes

\* AddToken: a known token is an error, otherwise it is added and the expired
\* ones are dropped.
AddToken(p) ==
  LET ch == req[p].ch IN
  /\ At(p, "addtoken")
  /\ IF ~Auth
       THEN UNCHANGED tokens
       ELSE /\ Free(ch)
            /\ \E t \in Tokens, expired \in SUBSET tokens[ch] :
                 tokens' = IF t \in tokens[ch] THEN tokens
                           ELSE [tokens EXCEPT ![ch] = (@ \ expired) \cup {t}]
  /\ Return(p)
  /\ UNCHANGED <<table, alloc, pushes, lastID, conn, mutex, saved, refused,
                 sockVars, connVars, panicked>>

\* PushPrivate that fetched its channel and whose PushMsg got a message node.
RpcPush(p) ==
  /\ pushes < MaxPushes
  /\ pushes' = pushes + 1
  /\ \E k \in Keys, ch \in Channels, persist \in BOOLEAN :
       NewChannel(p, k, ch, "push", [id |-> 0, persist |-> persist])

\* PushPrivate when no message node is known: the channel is created all the
\* same and PushMsg returns ErrMessageRPC before it takes the mutex.
PushNoClient(p) ==
  /\ At(p, "idle")
  /\ \E k \in Keys, ch \in Channels : Fetch(k, ch)
  /\ UNCHANGED <<pushes, lastID, conn, mutex, tokens, saved, refused, sockVars,
                 connVars, req, panicked>>

\* Mutation: the clock may still show the last id.
NextIdsRepeated(ch) == lastID[ch]..(lastID[ch] + MaxSkip)

\* What timeID.ID() of channel ch can return.
NextIds(ch) == (lastID[ch] + 1)..(lastID[ch] + MaxSkip)

\* Mutation: the mutex is released again before the message is saved.
PushLockReleased(p) ==
  LET ch == req[p].ch IN
  /\ At(p, "push") /\ Free(ch)
  /\ \E id \in NextIds(ch) :
       /\ lastID' = [lastID EXCEPT ![ch] = id]
       /\ Keep(p, [req[p] EXCEPT !.msg.id = id,
                     !.at = IF req[p].msg.persist THEN "save" ELSE "deliver"])
  /\ UNCHANGED <<table, alloc, pushes, conn, mutex, tokens, saved, refused,
                 sockVars, connVars, panicked>>

\* PushMsg takes the mutex and numbers the message with timeID.ID(), which
\* waits until the clock is past lastID; the mutex stays taken.
PushLock(p) ==
  LET ch == req[p].ch IN
  /\ At(p, "push") /\ Free(ch)
  /\ \E id \in NextIds(ch) :
       /\ lastID' = [lastID EXCEPT ![ch] = id]
       /\ Keep(p, [req[p] EXCEPT !.msg.id = id,
                     !.at = IF req[p].msg.persist THEN "save" ELSE "deliver"])
  /\ mutex' = [mutex EXCEPT ![ch] = p]
  /\ UNCHANGED <<table, alloc, pushes, conn, tokens, saved, refused, sockVars,
                 connVars, panicked>>

\* (external) The message service stores the message of goroutine p.
Store(p) ==
  saved' = [saved EXCEPT ![req[p].key] = @ \cup {<<req[p].ch, req[p].msg.id>>}]

\* The SavePrivate call: the message is stored and the answer comes back.
SaveOk(p) ==
  /\ At(p, "save")
  /\ Store(p)
  /\ Goto(p, "deliver")
  /\ UNCHANGED <<table, alloc, pushes, lastID, conn, mutex, tokens, refused,
                 sockVars, connVars, panicked>>

\* Mutation: the error of the call is ignored.
SaveFailIgnored(p) ==
  /\ At(p, "save")
  /\ Store(p) \/ UNCHANGED saved
  /\ Goto(p, "deliver")
  /\ UNCHANGED <<table, alloc, pushes, lastID, conn, mutex, tokens, refused,
                 sockVars, connVars, panicked>>

\* The push of goroutine p is answered with an error, its id being taken.
Refuse(p) ==
  /\ refused' = refused \cup {<<req[p].ch, req[p].msg.id>>}
  /\ Return(p)

\* The call fails, whether or not the message was stored: the mutex is
\* released and nothing is pushed online.
SaveFail(p) ==
  /\ At(p, "save")
  /\ Store(p) \/ UNCHANGED saved
  /\ mutex' = [mutex EXCEPT ![req[p].ch] = NoProc]
  /\ Refuse(p)
  /\ UNCHANGED <<table, alloc, pushes, lastID, conn, tokens, sockVars, connVars,
                 panicked>>

\* Connection.Write to c finds room in Buf.
Fits(c) == Len(buf[c]) < MsgBufNum

\* Mutation: the message is dropped and the connection kept.
SockAfterDropKept(c) == sock[c]

\* Connection.Write without room: the message is dropped, the socket closed.
SockAfterDrop(c) == "closed"

\* Connection.Write of the message of goroutine p to each connection of R.
Write(p, R) ==
  LET m == req[p].msg IN
  /\ buf'  = [c \in Conns |-> IF c \in R /\ Fits(c)
                                THEN Append(buf[c], m) ELSE buf[c]]
  /\ sock' = [c \in Conns |-> IF c \in R /\ ~Fits(c)
                                THEN SockAfterDrop(c) ELSE sock[c]]
  /\ due'  = [c \in Conns |-> IF c \in R THEN Append(due[c], m) ELSE due[c]]
  /\ panicked' = (panicked \/ \E c \in R : bufst[c] # "open")

\* The loop of PushMsg over the whole list, and the release of the mutex.
PushDeliver(p) ==
  /\ At(p, "deliver")
  /\ Write(p, conn[req[p].ch])
  /\ mutex' = [mutex EXCEPT ![req[p].ch] = NoProc]
  /\ Return(p)
  /\ UNCHANGED <<table, alloc, pushes, lastID, conn, tokens, saved, refused,
                 bufst, hw, flight, wire, joined, connVars>>

\* The connections of channel ch that do not speak the protocol of c.
OtherProtocol(ch, c) == {d \in conn[ch] : (d \in OldConns) # (c \in OldConns)}

\* Mutation: the return from the loop forgets to release the mutex.
PushGiveUpLocked(p) ==
  LET ch == req[p].ch IN
  /\ At(p, "deliver")
  /\ \E c \in conn[ch] : \E R \in SUBSET OtherProtocol(ch, c) : Write(p, R)
  /\ Refuse(p)
  /\ UNCHANGED <<table, alloc, pushes, lastID, conn, mutex, tokens, saved,
                 bufst, hw, flight, wire, joined, connVars>>

\* The loop ends early at a connection c, the first one it meets of its
\* protocol: OldBytes or Bytes, called once per protocol, returns an error (the
\* body is not the JSON that Bytes must embed).  The connections met before c
\* speak the other protocol and were written; the rest gets nothing, although
\* the message is saved.  The order of the list is left open.
PushGiveUp(p) ==
  LET ch == req[p].ch IN
  /\ At(p, "deliver")
  /\ \E c \in conn[ch] : \E R \in SUBSET OtherProtocol(ch, c) : Write(p, R)
  /\ mutex' = [mutex EXCEPT ![ch] = NoProc]
  /\ Refuse(p)
  /\ UNCHANGED <<table, alloc, pushes, lastID, conn, tokens, saved, bufst, hw,
                 flight, wire, joined, connVars>>

\* CometRPC.Close: the channel leaves the table, then it is closed.
RpcClose(p) ==
  /\ At(p, "idle")
  /\ \E k \in Keys :
       /\ table[k] # 0
       /\ table' = [table EXCEPT ![k] = 0]
       /\ Keep(p, [req[p] EXCEPT !.at = "close", !.closing = {table[k]}])
  /\ UNCHANGED <<alloc, pushes, lastID, conn, mutex, tokens, saved, refused,
                 sockVars, connVars, panicked>>

\* Mutation: Close also empties the list.
CloseChannelEmpties(p) ==
  /\ At(p, "close")
  /\ \E ch \in req[p].closing :
       /\ Free(ch)
       /\ sock' = [c \in Conns |-> IF c \in conn[ch] THEN "closed" ELSE sock[c]]
       /\ conn' = [conn EXCEPT ![ch] = {}]
       /\ Keep(p, [req[p] EXCEPT !.closing = @ \ {ch}])
  /\ UNCHANGED <<table, alloc, pushes, lastID, mutex, tokens, saved, refused,
                 buf, bufst, hw, flight, wire, due, joined, connVars,
                 panicked>>

\* Mutation: Close returns without closing any socket.
CloseChannelNoClose(p) ==
  /\ At(p, "close")
  /\ \E ch \in req[p].closing :
       Free(ch) /\ Keep(p, [req[p] EXCEPT !.closing = @ \ {ch}])
  /\ UNCHANGED <<chVars, sockVars, connVars, panicked>>

\* SeqChannel.Close on one of the channels collected: every socket in its list
\* is closed, the list stays.
CloseChannel(p) ==
  /\ At(p, "close")
  /\ \E ch \in req[p].closing :
       /\ Free(ch)
       /\ sock' = [c \in Conns |-> IF c \in conn[ch] THEN "closed" ELSE sock[c]]
       /\ Keep(p, [req[p] EXCEPT !.closing = @ \ {ch}])
  /\ UNCHANGED <<chVars, buf, bufst, hw, flight, wire, due, joined, connVars,
                 panicked>>

CloseReturn(p) ==
  /\ At(p, "close") /\ req[p].closing = {}
  /\ IF p \in Mains THEN Goto(p, "exited") ELSE Return(p)
  /\ UNCHANGED <<chVars, sockVars, connVars, panicked>>

\* CometRPC.Migrate: the ketama ring of the new nodes decides which keys move.
RpcMigrate(p) ==
  /\ At(p, "idle")
  /\ \E ks \in SUBSET Keys :
       Keep(p, [req[p] EXCEPT !.at = "migrate", !.moving = ks])
  /\ UNCHANGED <<chVars, sockVars, connVars, panicked>>

\* Keys of bucket b that have a channel.
KeysIn(b) == {k \in Keys : BucketOf[k] = b /\ table[k] # 0}

\* Mutation: the channels of the keys that stay are collected.
CollectKept(p, b, ks) ==
  Keep(p, [req[p] EXCEPT !.bucket = b + 1,
                         !.closing = @ \cup {table[k] : k \in KeysIn(b) \ ks}])

\* A walk over the buckets collects the channels of some keys of bucket b.
Collect(p, b, ks) ==
  Keep(p, [req[p] EXCEPT !.bucket = b + 1,
                         !.closing = @ \cup {table[k] : k \in ks}])

\* One bucket of Migrate under its lock: the channels of the moving keys are
\* collected and leave the table.
MigrateBucket(p) ==
  LET b  == req[p].bucket
      ks == KeysIn(b) \cap req[p].moving
  IN
  /\ At(p, "migrate") /\ b <= NBuckets
  /\ Collect(p, b, ks)
  /\ table' = [k \in Keys |-> IF k \in ks THEN 0 ELSE table[k]]
  /\ UNCHANGED <<alloc, pushes, lastID, conn, mutex, tokens, saved, refused,
                 sockVars, connVars, panicked>>

\* ChannelList.Close of the exiting process: collect every channel.
Shutdown(p) ==
  /\ p \in Mains /\ At(p, "idle")
  /\ Goto(p, "closeall")
  /\ UNCHANGED <<chVars, sockVars, connVars, panicked>>

CollectBucket(p) ==
  LET b == req[p].bucket IN
  /\ At(p, "closeall") /\ b <= NBuckets
  /\ Collect(p, b, KeysIn(b))
  /\ UNCHANGED <<chVars, sockVars, connVars, panicked>>

WalkEnd(p) ==
  /\ req[p].at \in {"migrate", "closeall"} /\ req[p].bucket > NBuckets
  /\ Goto(p, "close")
  /\ UNCHANGED <<chVars, sockVars, connVars, panicked>>

-----------------------------------------------------------------------------
Handler(c) ==
  \/ GetChannel(c) \/ GetMissing(c) \/ AuthToken(c)
  \/ AddConn(c) \/ AddConnFail(c) \/ LoopEnd(c)
  \/ RemoveConn(c) \/ CloseBuf(c) \/ CloseSocket(c)

Writer(c) == Take(c) \/ Transmit(c) \/ WriterStop(c)

\* What a goroutine of the RPC server does once it has a request.
Serve(p) ==
  \/ AddToken(p) \/ PushLock(p) \/ SaveOk(p) \/ SaveFail(p)
  \/ PushDeliver(p) \/ PushGiveUp(p) \/ CloseChannel(p) \/ CloseReturn(p)
  \/ MigrateBucket(p) \/ CollectBucket(p) \/ WalkEnd(p)

Request(p) ==
  /\ p \in Rpcs
  /\ \/ "New" \in Methods /\ RpcNew(p)
     \/ "PushPrivate" \in Methods /\ (RpcPush(p) \/ PushNoClient(p))
     \/ "Close" \in Methods /\ RpcClose(p)
     \/ "Migrate" \in Methods /\ RpcMigrate(p)

Next ==
  \/ \E c \in Conns : Handler(c) \/ Writer(c) \/ Break(c)
  \/ \E p \in Procs : Serve(p) \/ Request(p) \/ Shutdown(p)

Spec == Init /\ [][Next]_vars

(***************************************************************************)
(* Fairness.  A goroutine that can run does run, and a mutex that is free  *)
(* again and again is eventually granted (strong fairness of the steps     *)
(* that take it).  Two things are not assumed: that a client reads its     *)
(* socket, so Transmit is fair only once the socket fails, and that a      *)
(* client leaves, so LoopEnd is fair only once Read fails.                 *)
(***************************************************************************)
FairSpec ==
  /\ Spec
  /\ \A c \in Conns :
       /\ WF_vars(CloseBuf(c) \/ CloseSocket(c))
       /\ SF_vars(RemoveConn(c))
       /\ WF_vars(LoopEnd(c) /\ sock[c] # "open")
       /\ WF_vars(Take(c) \/ WriterStop(c))
       /\ WF_vars(Transmit(c) /\ sock[c] # "open")
  /\ \A p \in Procs :
       /\ WF_vars(Serve(p))
       /\ SF_vars(AddToken(p))
       /\ SF_vars(PushLock(p))
       /\ SF_vars(CloseChannel(p))

-----------------------------------------------------------------------------
\* What a handler keeps between two steps when n channels exist.
Requests(n) ==
  [at : ReqStates, key : Keys \cup {NoKey}, ch : 0..n, msg : Msg,
   closing : SUBSET (1..n), bucket : Nat, moving : SUBSET Keys]

ChannelTypes ==
  /\ table  \in [Keys -> 0..alloc]
  /\ alloc  \in 0..MaxChannels
  /\ pushes \in 0..MaxPushes
  /\ lastID \in [Channels -> Nat]
  /\ conn   \in [Channels -> SUBSET Conns]
  /\ mutex  \in [Channels -> Procs \cup {NoProc}]
  /\ tokens \in [Channels -> SUBSET Tokens]
  /\ saved  \in [Keys -> SUBSET (Channels \X Nat)]
  /\ refused \in SUBSET (Channels \X Nat)

HandlerTypes ==
  /\ cpc    \in [Conns -> ConnStates]
  /\ ckey   \in [Conns -> Keys]
  /\ cch    \in [Conns -> 0..alloc]

StreamTypes ==
  /\ sock   \in [Conns -> {"open", "broken", "closed"}]
  /\ buf    \in [Conns -> Seq(Msg)]
  /\ bufst  \in [Conns -> {"none", "open", "closed"}]
  /\ hw     \in [Conns -> {"none", "running", "stopped"}]
  /\ flight \in [Conns -> Seq(Msg)]
  /\ wire   \in [Conns -> Seq(Msg)]
  /\ due    \in [Conns -> Seq(Msg)]
  /\ joined \in [Conns -> Nat]

\* A handler past its lookup holds a channel.
Holds ==
  /\ \A c \in Conns :
       cpc[c] \in {"auth", "add", "reading", "remove", "closebuf"} => cch[c] # 0
  /\ \A p \in Procs :
       req[p].at \in {"addtoken", "push", "save", "deliver"} =>
         req[p].ch # 0 /\ req[p].key \in Keys

\* The types of the variables: the channels, the handlers, the streams to the
\* sockets and the requests being served.
TypeOK ==
  /\ ChannelTypes /\ HandlerTypes /\ StreamTypes
  /\ req \in [Procs -> Requests(alloc)]
  /\ Holds
  /\ panicked \in BOOLEAN

\* No goroutine of comet panics: PushMsg never sends on a Buf that RemoveConn
\* closed, although RemoveConn closes it after it released the mutex; no Buf is
\* closed twice and no element removed twice, however Close, Migrate, the full
\* buffer and the handler's own end overlap.
NoPanic == ~panicked

\* What reached a socket is an initial part of what PushMsg handed to its
\* Connection.Write: a full Buf, a dying socket and a closed channel cut the
\* stream at one point, and nothing handed over later gets through after a
\* hole (Connection.Write closes the socket instead of only dropping the
\* message).  What PushMsg never handed over is the matter of Recoverable.
GapFree == \A c \in Conns : IsPrefix(wire[c], due[c])

\* PushMsg shows a message to a subscriber only after the message service
\* accepted it under the subscriber's key, unless the message is not to be kept.
SavedBeforePushed ==
  \A c \in Conns : \A i \in DOMAIN due[c] :
    due[c][i].persist => <<cch[c], due[c][i].id>> \in saved[ckey[c]]

\* The message with entry e of saved was written to the socket of c, or handed
\* to its Connection.Write.
WrittenTo(c, e) == \E i \in DOMAIN wire[c] : wire[c][i].id = e[2]
HandedTo(c, e)  == \E i \in DOMAIN due[c]  : due[c][i].id = e[2]

\* The messages stored for the channel of c since c joined its list.
StoredSince(c) ==
  {e \in saved[ckey[c]] : e[1] = cch[c] /\ joined[c] < e[2]}

\* A client that lost its connection can ask for what it missed: a message
\* stored while it was subscribed was written to its socket, or has an id above
\* all ids written there, so that "offline messages after the last id" returns
\* it.  The only exception is a message whose push was answered with an error
\* (the save failed after it stored the message, or PushMsg gave up in its
\* loop): the ids of later pushes hide it, and the web side has to push again.
Recoverable ==
  \A c \in Conns : \A e \in StoredSince(c) :
    \/ e \in refused
    \/ WrittenTo(c, e)
    \/ \A i \in DOMAIN wire[c] : wire[c][i].id < e[2]

\* A channel never serves more connections than MaxSubscriberPerChannel.
SubscriberLimit == \A ch \in Channels : Cardinality(conn[ch]) <= MaxSubscriber

\* A connection is in the list of the channel its handler fetched while the
\* handler is between AddConn and RemoveConn, and in no other list ever: no
\* handler leaks its element, Close and Migrate leave it to the handler.
ListedIffServed ==
  \A ch \in Channels :
    conn[ch] = {c \in Conns : cch[c] = ch /\ cpc[c] \in {"reading", "remove"}}

\* The limit as the configuration and the error text give it, per user key:
\* while no channel is being closed, no more connections with an open socket
\* are served for a key than MaxSubscriberPerChannel.
LimitPerKey ==
  (\A p \in Procs : req[p].closing = {}) =>
    \A k \in Keys :
      Cardinality({c \in Conns : /\ ckey[c] = k
                                 /\ cpc[c] = "reading"
                                 /\ sock[c] = "open"}) <= MaxSubscriber

\* Messages of one channel reach the message service in the order of their
\* ids, since PushMsg keeps the mutex from the numbering to the answer.
SaveOrder ==
  [][\A k \in Keys : \A new \in saved'[k] \ saved[k], old \in saved[k] :
       old[1] = new[1] => old[2] < new[2]]_saved

(***************************************************************************)
(* The invariants above hold because of the following ones, which no code  *)
(* line states: they relate the list, the mutex and the ids across the     *)
(* goroutines that share a channel.                                        *)
(***************************************************************************)

\* A handler that has not closed its Buf yet has an open one.
BufOpenWhileListed ==
  \A c \in Conns :
    cpc[c] \in {"reading", "remove", "closebuf"} => bufst[c] = "open"

\* Before AddConn nothing was pushed to the connection.
NothingBeforeAdd ==
  \A c \in Conns :
    cpc[c] \in {"init", "auth", "add"} \/ cch[c] = 0 =>
      due[c] = <<>> /\ buf[c] = <<>> /\ flight[c] = <<>> /\ wire[c] = <<>>

\* While the socket works, what was pushed is written, in flight or queued.
StreamWhole ==
  \A c \in Conns : sock[c] = "open" => due[c] = wire[c] \o flight[c] \o buf[c]

\* A push between its numbering and its end holds the mutex of its channel and
\* the newest id of it.
PushOwnsChannel ==
  \A p \in Procs : req[p].at \in {"save", "deliver"} =>
    /\ mutex[req[p].ch] = p
    /\ req[p].msg.id = lastID[req[p].ch]

\* Ids pushed to a connection increase, up to the last id of its channel,
\* which a push in progress has not shown to anybody yet.
IdsIncrease ==
  \A c \in Conns :
    /\ \A i, j \in DOMAIN due[c] : i < j => due[c][i].id < due[c][j].id
    /\ \A i \in DOMAIN due[c] :
         /\ due[c][i].id <= lastID[cch[c]]
         /\ \A p \in Procs :
              req[p].at \in {"save", "deliver"} /\ req[p].ch = cch[c] =>
                due[c][i].id < req[p].msg.id

\* The same for what the message service stored.
SavedIdsBelow ==
  \A k \in Keys : \A e \in saved[k] :
    /\ e[2] <= lastID[e[1]]
    /\ \A p \in Procs :
         req[p].at = "save" /\ req[p].ch = e[1] => e[2] < req[p].msg.id

\* The push that is about to hand the stored message e to connections.
Delivering(e) ==
  \E p \in Procs : /\ req[p].at = "deliver"
                   /\ req[p].ch = e[1] /\ req[p].msg.id = e[2]

\* What was stored for the channel of a connection since it joined was handed
\* to it, or its push was answered with an error; or its push is about to do
\* either, or the connection left the list before.
Accounted ==
  \A c \in Conns : \A e \in StoredSince(c) :
    \/ e \in refused
    \/ HandedTo(c, e)
    \/ /\ \A i \in DOMAIN due[c] : due[c][i].id < e[2]
       /\ cpc[c] \in {"reading", "remove"} => Delivering(e)

\* A message about to be pushed is stored, if it is to be kept.
SavedBeforeDeliver ==
  \A p \in Procs :
    req[p].at = "deliver" /\ req[p].msg.persist =>
      <<req[p].ch, req[p].msg.id>> \in saved[req[p].key]

\* Whoever knows a channel, the table, a handler or a request, knows it by the
\* same key.
Knows(k, ch) ==
  \/ table[k] = ch
  \/ \E c \in Conns : ckey[c] = k /\ cch[c] = ch
  \/ \E p \in Procs : req[p].key = k /\ req[p].ch = ch

OneKeyPerChannel ==
  \A ch \in Channels : \A j, k \in Keys : Knows(j, ch) /\ Knows(k, ch) => j = k

\* The inductive invariant.
IInv ==
  /\ TypeOK
  /\ ListedIffServed /\ BufOpenWhileListed /\ NoPanic
  /\ SubscriberLimit
  /\ NothingBeforeAdd /\ StreamWhole /\ GapFree
  /\ PushOwnsChannel /\ IdsIncrease
  /\ OneKeyPerChannel /\ SavedIdsBelow /\ SavedBeforeDeliver /\ SavedBeforePushed
  /\ Accounted

\* A channel that is being closed by Close or Migrate left the table, and no
\* request and no subscriber can fetch it from there any more.
ClosingLeftTable ==
  \A p \in Rpcs, k \in Keys : table[k] \notin req[p].closing

\* Whoever is served by a channel that Close or Migrate is about to close is
\* disconnected, so that the client asks the web side for its node again.
ClosedConnectionsLeave ==
  \A c \in Conns, p \in Procs :
    (cpc[c] = "reading" /\ cch[c] \in req[p].closing) ~> cpc[c] = "done"

\* A connection whose socket failed or was closed is eventually out of every
\* list, its socket closed and its writer goroutine gone: nothing leaks, even
\* with a full Buf and a push in progress.
DeadConnectionsLeave ==
  \A c \in Conns :
    (cpc[c] = "reading" /\ sock[c] # "open")
      ~> (cpc[c] = "done" /\ hw[c] = "stopped")

\* Every request of the RPC server is answered: a Close or Migrate that waits
\* for the mutex of a channel other goroutines push to, and a push that waits
\* behind another one, whichever way that one returns.
RequestsEnd == \A p \in Rpcs : []<>At(p, "idle")
=============================================================================
