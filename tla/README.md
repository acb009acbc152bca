# gopush-cluster in TLA+

A TLA+ development kept beside the Go sources of gopush-cluster, a push-message
cluster: TLC checks the modules on small instances, TLAPS proves the central
results for every value of the constants.  Paths below are relative to the source
tree; `PROJECT.json` maps every definition to the lines it models.

## 1. The system

| part | code | state | operations | modules |
|---|---|---|---|---|
| comet: channels | `comet/channel.go`, `seq_channel.go`, `hlist/` | buckets of `key -> *SeqChannel` under one lock each; per channel a mutex, the list of connections, the token map, the id source; per connection `Buf`, the writer goroutine and the socket | `New`, `Get`, `Del`, `Close` of the list; `AuthToken`, `AddToken`, `PushMsg`, `AddConn`, `RemoveConn`, `Close` of a channel; `Write`, `HandleWrite` of a connection | `CometChannel`; the list: `Hlist`, `ConnList` |
| comet: subscriber handlers | `comet/pubsub_tcp.go`, `pubsub_websocket.go` | one goroutine per connection: key, channel it fetched | fetch, authenticate, join, heartbeat loop, leave | `CometChannel` |
| comet: RPC | `comet/rpc.go` | one goroutine per request | `New`, `Close`, `PushPrivate`, `Migrate`, `Ping` | `CometChannel` |
| comet: tokens | `comet/token.go` | ticket map with a list in the order of expiry | `Add`, `Auth`, `clean` | `Token`, `ChannelParts` |
| comet: statistics | `comet/stat.go` | counters | incr | not modelled |
| id source | `id/timeid.go` | last id | `ID` | `TimeID`, `ChannelParts` |
| message service | `message/rpc.go`, `storage.go` | the storage in use | `SavePrivate`, `GetPrivate`, `DelPrivate` | `MessageService`, `MessageConf`, `MessageStore` |
| message: Redis | `message/redis.go` | a sorted set per key, `delCH`, `clean` goroutine | pipelines of commands | `RedisStorage` |
| message: MySQL | `message/mysql.go`, `sql/` | table `private_msg` in several databases, `clean` goroutine | statements | `MySQLStorage` |
| rpc: clients of a service | `rpc/rand_lb.go` | map of clients, `retryCH`, `exitCH`, ping and retry goroutines | `Get`, `Stop`, `Destroy`, ping, dial | `RandLB` |
| rpc: comet node watchers | `rpc/comet.go` | map and ring that follow ZooKeeper through an event channel | watch, add, update, delete, find the node of a key (`GetComet`) | `CometNodes`, `CometLookup`, `Watchers` |
| rpc: message node watcher | `rpc/message.go` | one `RandLB` with the clients of all message processes, replaced as a whole | watch, add, delete | `MessageNodes`, `Watchers` |
| registration | `zk/zk.go` and its users | ephemeral sequence nodes | register, watch, kill-self | from the side of those who watch: `CometNodes`, `MessageNodes` |
| consistent hashing | `hash/`, `ketama/` | circle of virtual nodes | build, search | `Ketama`, `CometLookup`; not Murmur3 |
| web gateway | `web/` | none of its own | find the node of a key, push, read offline messages, time id | routes to app: `App` |
| app: push and groups | `app/push.go`, `qun.go`, `contact.go`, `client.go`, `application.go`, `db.go` | MySQL tables of groups, members and contacts, the pool of connections | transactions followed by pushes | `App`, `AppTables` |
| app: organisation and login | `app/org.go`, `token.go`, `device.go` | table of units, session tokens in Redis | login, `SyncOrg`, `GetOrgInfo`, reads | `App`, `AppTables` |
| plumbing | configuration, signals, pid file, profiling, routing table by name, load generator | | | not modelled: no logic of its own |

How they interact.  A client asks *web* which *comet* node serves its key (ring over
the live nodes), subscribes there, and keeps the connection; it reads what it missed
from the *message* service through *web*, above the last message id it received.  A push
goes *web* or *app* -> RPC `PushPrivate` -> the channel of the key, which numbers the message, has
the *message* service save it (RPC, while it holds the channel mutex) and then writes it to
the `Buf` of each connection in its list; the writer goroutine of a connection sends it.
*app* reads in MySQL who the members of a group or a unit are and pushes to them one by one.
When the set of comet nodes changes an administrator calls `Migrate` on each (no code of the
repository does), which closes the channels of keys that belong elsewhere.  Processes find each other through ZooKeeper and talk
through the ping-monitored clients of `RandLB`.

What is hard here:

* goroutines that fetched a channel before it was taken out of the table and closed;
* `PushMsg` keeps a mutex across an RPC, and may sleep with it; `Buf` is closed outside that mutex;
* a bounded `Buf` whose overflow closes the connection;
* a wall clock that ids and tickets are taken from, and that may be set back;
* a save that fails after it was stored; answers cut short; messages trimmed, expired or
  deleted while a read is under way; a cleaner that is told ids long before it acts;
* two goroutines that replace and close the same client, and an owner who stops them;
* views of the cluster (ring, map, ZooKeeper) that lag behind each other: the goroutine that compares
  ZooKeeper with the map does so while its own events are still on their way to that map, and a lookup
  reads the ring and the map while both are replaced, one after the other, without a lock;
* requests that read, decide and write in separate statements on tables without unique indexes, that
  lose the answer to a `Commit`, and that all share one bounded pool of connections.

What makes the parts correct: no panic; nothing gets through to a subscriber after a message it was sent and did not get, and
what it misses of the pushes that succeeded can be read back by id; a message is saved before anyone sees it; the limit of a
channel; ids grow; tickets expire and are forgotten; everything broken is released in the end; a reader
of the store skips nothing that is still alive; the clients of a service recover; the map of the cluster
follows ZooKeeper and loses no client; groups are created whole and nobody is in one twice; a push that is
answered OK reached whom it was for; connections come back to the pool; sessions end.

The complete list of places where this can go wrong, each at its line, is `hazards` in
`PROJECT.json`; those without a property say why there is none.

## 2. Modules

### CometChannel

One step is what the code does between taking and releasing a lock, with one exception:
`PushMsg` is split at the RPC it waits for, since that is where others may run
(`PushLock`, then `SaveOk` or `SaveFail`, then `PushDeliver` or `PushGiveUp`).  A `*SeqChannel` is a number;
`table` maps a key to the number of its channel, `alloc` numbers new objects, and whoever
fetched a channel (`cch` for a handler, `req[p].ch` for an RPC goroutine) keeps the number.
So a stale channel is an ordinary state of the model.

| state | code |
|---|---|
| `table`, `alloc` | `ChannelBucket.Data` of all buckets, `NewSeqChannel` |
| `conn`, `mutex`, `tokens`, `lastID` | the fields of `SeqChannel` |
| `buf`, `bufst`, `sock` | `Connection.Buf` and the socket |
| `hw`, `flight`, `wire` | the goroutine of `HandleWrite`, the message in its hand, what it has written |
| `cpc`, `ckey` | where the goroutine of a subscriber is, its key |
| `req` | the request an RPC goroutine (or the main goroutine at shutdown) works on |
| `saved` | what the message service has accepted (external) |
| `due` | history: what `PushMsg` handed to the connection's `Write` |
| `joined` | history: the last id of the channel when `AddConn` put the connection in the list |
| `refused` | history: ids of pushes that were answered with an error after they were numbered |
| `panicked` | a send on a closed `Buf`, a second close, a second removal |

Actions carry the names of the functions.  The mutex variable is only held across steps by a push;
every other critical section is one step that requires the mutex to be free, which is
equivalent as no step inside it can be seen from outside: the other shared variable it
touches, a socket, is closed by steps that do not read the list.  `LoopEnd` may be taken at
any time: the client left, its heartbeat is late or wrong, or the socket is closed.  `Break`
is the network.  `PushGiveUp` is the return from inside the loop of `PushMsg` (`comet/seq_channel.go:121` and `131`): the
body of a message is encoded once for each of the two protocols, when the first connection that speaks it is met, and an
error there ends the loop.  So the connections written before are some of those that speak the other protocol, which ones
depends on the order of the list.  `PushNoClient` is a push that ends before it takes the mutex, as no message node is
known (line 98); the channel was created all the same.  `OldConns` are the connections that speak the old protocol, and
`Methods` bounds which methods of `CometRPC` are called in a run.  `NextIds` is any id above the last one: the clock is abstracted to how far
the id is ahead (`MaxSkip`).

Left out: framing, argument parsing, heartbeat timing, the reader cache, statistics, the text of replies.
`connList` is a set because no property depends on the order in which the list is walked; that its pointers hold
such a collection is `Linked` of `ChannelParts`.  Tokens are a set whose members may expire whenever the code looks
for expired ones, and ids are any that grow: what the code makes of a clock is, again, in `ChannelParts`.

### Token, TimeID, Hlist, ConnList, ChannelParts

The small data structures a channel uses under its mutex, one module each, named after the fields of the code:
`token` and `lru` (the ticket map and its list), `lastID` and `sleep` (the id source and what is left of its
sleep), `first`, `next`, `pprev` (the intrusive list, where `pprev` points to the pointer that points to the
element).  `ChannelParts` joins them with the clock and the mutex.  A behaviour uses one part, chosen in `Init` (`part`), as they
share nothing but the clock.

Time is the wall clock: `Tick` lets it run between any two readings, `SetClock` sets it, forth or back; Go of
the time of this code has no monotonic reading in `time.Time`.  A sleep is counted down by `Tick` alone, so it neither
shortens nor grows with the clock.  `AuthToken` reads the clock three times (compare, refresh, clean),
so it is three steps with the mutex held.  `Renew` is a channel that is closed and made again for the same key,
with an empty ticket map and last id 0.  `ConnList` is what the list promises (a sequence; add in front, remove
anywhere); `Linked` says the pointers implement it.

### MessageStore, MessageService, MessageConf, RedisStorage, MySQLStorage

`MessageStore` says what a reader may rely on: a call of `GetPrivate` looks at the storage at
one point between call and answer, and its answer is a part of what is above the id it
asked for, alive at some moment of the call, that leaves no hole: whatever it lacks lies
above what it has.  Messages disappear only when they are trimmed (`room` newer ones are there),
expired or deleted.

`RedisStorage` executes the pipelines command by command (`ZADD`, `ZREMRANGEBYRANK`,
`ZRANGEBYSCORE`, `ZREMRANGEBYSCORE`), any of which may fail.  A member of the sorted set is the
content with its expiry and its score is the id, so a save with the same content and
expiry replaces the id of an earlier one.  The reader hands the ids of expired messages to
`clean` through `delCH`, unless it is full.  Callers give two messages of a key different ids: they take them
from the `TimeID` of a channel (`used` records them).  Where two channels of one
key are served at once, or a clock is set back between two processes, this is an assumption.
`MySQLStorage` executes statement by statement.  The loop over the rows ends when `rows.Next`
returns false, and `rows.Err` is not read: the rows read are any initial part in the order
of the query.  `clean` reads the clock once and asks one database after the other (`CleanAsk`), in the order of a Go map,
that is, in any order; one that answers an error (`CleanError`) is skipped for the round.
`MessageService` takes one of the two for good, as `InitStorage` does, and states the refinement.

A command that reaches its server after the caller saw an error is the same, in these
models, as a caller that has not seen the error yet.  Argument checks and JSON encoding are left out.

### RandLB

One ping goroutine per address (`PingStart` reads the map, then the call, then the
close of the client *it used*, then the send on the bounded `retryCH`), one retry goroutine
(`RetryTake` or `RetryExit`, as its `select` may take either when both are ready, then
a dial), the owner (`Stop`, or `Destroy` client by client), and the servers, which go down and up and kill the
connections they had.  A client object is a number; it may be used again when
nothing refers to it any more.  Sleeps are left out; a dial ends, with success if the server is up.

### CometNodes

The goroutine that watches the root, one for each node that was added (`watcher`, a slot for
each), the one that owns `cometNodeInfoMap` (`handler`), the channel between them (`ch`), and
ZooKeeper: directories that last (`dirs`) and in each the processes registered there (`kids`), numbered
as they came.  A goroutine holds a watch from its read until it reads again; a change that comes
while it works is kept in `fired`, as the Go channel of the watch would.  `RootRead` to `RootDel` go through a
read node by node, as the map they compare with may change between two sends.  `HandleTake` destroys the
client that is replaced before `HandleReplace` replaces it: in between, a caller of `GetComet` finds a closed client.
A `CometNodeInfo` is the process it was made for, and `open` counts the `RandLB` objects not destroyed.

Left out: the parsing of addresses, several addresses of one process, the ring (see `CometLookup`), sleeps, errors of ZooKeeper that lead to another try.

### Ketama, CometLookup

`Ketama` is what `NewKetama2` makes of a list of nodes: the sorted positions of all virtual nodes and the node written to each, the last of
the list where two collide.  The hash function is a parameter, any function from nodes and numbers of virtual nodes to positions; the code's is Murmur3 with
2^32 positions and 255 virtual nodes.  `Owners` is the reference: the nodes with a virtual node at the first position from the key's on, around the circle.

In `CometLookup` the event goroutine puts an event into the map (`HandleEvent`) and then makes a circle of the nodes in the map, in any order, as Go's
maps have none (`HandleHash`).  A call of `GetComet` checks both (`GetComet`), reads the circle (`Node`), searches it round by round (`searchLeft`, `Find`) and looks the
node up in the map there is then (`Lookup`).  Any sequence of events is allowed, so whatever `CometNodes` sends is among them.  A call changes
nothing, so one at a time is enough.  `call.quiet` is a history variable: no event was under way since the call began.

### MessageNodes, Watchers

`MessageNodes` is the counterpart for message processes.  A process registers the addresses it serves (`binds`), which others may serve
too.  The watcher of the root (`rootW`) reads the nodes (`MessageRead`), then the data of each (`MessageGet`, which may
fail: the node is skipped), sends an add event for what the map lacks at that moment (`MessageAdd`), and then del
events for what is in the map and was not read (`MessageAdded`, `MessageDel`).  The handler takes an event
*and copies the map* (`TakeEvent`), changes the copy (`Change`), or gives up when it cannot dial (`Discard`), and
puts the copy in the place of the map (`Replace`).  Of a client only the address is kept: whether it works is
the business of `RandLB`.  `quiet` is a history variable: the last pass began with no event under way and nothing failed since.

`Watchers` is `web/zk.go`, which starts both, and the lookups of the process.  They share only the session (the lookups, the events, which they take as
arbitrary), so a behaviour is about one of the three (`about`) and leaves the others at rest.  It exists to check and prove them under one specification.

### AppTables, App

`AppTables` has the tables and what each SQL statement does to them.  No table has an index besides its primary key, so
the members of a group and the rows of a contact are *counted*.  It also says which locks a statement takes to the
end of its transaction and what a transaction sees (its own writes where it has the lock).

`App` has one goroutine per HTTP request (`req[r]`), with the arguments the client sent and the point of its handler it is at.
Every read, statement, Redis command and push is a step of its own that may fail; `Read`, `Begin`, `Exec`, `ExecFails`,
`Commit` are the steps handlers are made of, and each handler of the package is an operator named after it.  A `Commit` that
answers with an error may have been done.

| state | code |
|---|---|
| `db` | the tables, as committed |
| `leased` | connections in use, by request and purpose; at most `app.dbMaxOpenConns` |
| `left`, `dead` | connections of transactions that no code will end, and what these keep locked |
| `token` | the session of a user in Redis: none, half (stored, no expiry yet), live |
| `given`, `used` | tokens clients got and group names that were given out: what clients can know |
| `req` | the requests; `reached`, `were`, `stayed`, `lost` are history for the properties of pushes and contacts |
| `mix` | the operations the clients of this behaviour call, chosen in `Init` |

Operations that write the same tables are together in one of the `Mixes`; those of different mixes meet in the
pool, which two requests of any mix exercise, and in reads, which are atomic.  A read that is done in one step needs
its connection for that step only (`HasConn`); rows that are deferred to the end of a handler keep theirs (`Keep`).

Left out: argument parsing, avatars, templates and the other columns of the rows; `SyncUser`, which no route
reaches; the Chinese sort keys; the text of notifications.

### Proof modules

`CometChannelProofs` (types, lists, streams, pushes) and `CometStoreProofs` (keys, the store, the invariant as a whole and the
theorems) are about `CometChannel`; `AppProofs` (leases, sessions, members that are there once) and `AppTablesProofs` (what
transactions make of the tables, what pushes reach, the pool) about `App`; `ChannelPartsProofs`, `MessageServiceProofs` (both
storages), `RandLBProofs` and `WatchersProofs` (both watchers and the lookups) about the module they are named after.

## 3. What the runs check

| run | instance | distinct states | what it shows |
|---|---|---|---|
| `CometPush` | 1 channel, 2 connections, one of either protocol, 2 RPC goroutines, 3 pushes, buffer of 1 | 485 k | what is written is a prefix of what was handed over (`GapFree`), was saved first (`SavedBeforePushed`), what a subscriber missed lies above what it got, or its push was answered with an error (`Recoverable`), ids reach the store in order (`SaveOrder`); and the inductive invariant `IInv`, types among its parts, while two pushes compete |
| `CometChurn` | 1 key, 2 connections, limit 1, 2 channel objects, all methods | 475 k | `NoPanic`, `SubscriberLimit`, `ListedIffServed` |
| `CometMigrate` | tokens on, 2 keys in 2 buckets, 1 connection, `New`, `Close`, `Migrate`, shutdown | 154 k | `ClosingLeftTable` |
| `CometLive` | 1 channel, 1 connection, 2 RPC goroutines, 2 pushes, any number of `Close`, fairness | 22 k | `DeadConnectionsLeave`, `ClosedConnectionsLeave`, `RequestsEnd` |
| `CometPerKey` | 2 connections, limit 1 | | `LimitPerKey` is **violated** |
| `ChannelParts` | 3 tickets lasting 2, 4 list elements, clock to 7, set twice | 113 k | a ticket refused as expired can be added again (`RefusedIsForgotten`), `OneSleepIsEnough`, `KeyIdsGrow`, the list implements a sequence (`Linked`) |
| `Message` | both storages, 2 requests, 2 ids, 2 seconds, one message kept | 182 k | types with the keys of the tables, `ToldAreExpired`, and that both implement `MessageStore` (`Implements`) |
| `MessageClean` | 2 databases, of which one may fail for ever, fairness | 13 k | `ExpiredLeave` |
| `Clients` | 2 addresses, a channel of length 1, one outage, 7 client objects, fairness | 230 k | `OnlyBrokenAreClosed`, `Reconnects`, `RetrierStops` |
| `Nodes` | comet: 2 nodes, 2 processes, event channel of 1, 1 removal, 4 watcher slots; message: 2 processes that serve `{a1}` or `{a1, a2}`, event channel of 1, 1 read that fails; lookups: 3 nodes with 2 virtual nodes, apart or colliding, 2 keys | 1.4 M | `OneOwner`, `FollowedWhenQuiet`, `SettlesWhenQuiet`; `FindsOwner`, `QuietLookup`, `KeysStay` |
| `NodesFollow` | 1 node, 2 processes, event channel of 1, 1 removal, 1 lost session, fairness | 94 k | `FollowsFirst`, `WatchersEnd` |
| `App` | 2 users, 2 groups (one old), 2 requests of any of 8 mixes, lists with and without a user twice, pool of 3, fairness | 123 k | connections come back (`ConnsReturn`), `MemberOnce`, `CreationIsWhole`, `OnlyCreatorRemoves`, `PushReaches`, `SecondContactRaced`, `GivenTokensEnd`, `Answered` |

Every property of a passing run has a mutant in `PROJECT.json`: a definition with a plausible
bug put in the place of the one translated from the code, under which TLC finds the
property violated.  Operators marked *Mutation* exist for that only.
The types of `RandLB`, `CometNodes` and `App` are proved (section 4) and not part of a run.

Why the bounds are enough.  A buffer of one message makes overflow the second message a client
does not read; three pushes give one written, one waiting and one dropped, with two goroutines racing
for the mutex.  Two subscribers of the two protocols are what a push can reach one of and not the other.  In `CometPush` the
last of three pushes is made only while a connection has not subscribed yet (`LastPushOfOne`): full buffers need three pushes and one subscriber,
partial pushes two subscribers and a push before and after.  `Close` and `Migrate` are not called there; `CometChurn`
has them with pushes, also partial in that they reach nobody, and the proof of `IInv` has everything at once.
Two connections meet the limit of one and the churn of a list; two channel objects
are the old and the new one of a key.  In `CometLive` two goroutines are what waiting for a mutex needs, two pushes behind
each other or a `Close` behind a push; there the system may stop, when the clients have left and no more is pushed.  Two keys in two buckets are what a walk of `Migrate` can meet in two orders.
Three tickets are one that is used between an older and a younger one; a clock of 7 lets the first expire while
the last is valid, after being set forth and back.  Four elements are a list with a first, a last, and two neighbours in between.
In `Message` two ids and one kept message make trims happen, and the clock passes the
expiry of a message while others read it.  In `Clients` a second failed ping can queue an address
that was connected again already, and the client dialled then replaces one that is never closed:
seven objects are enough for that to happen as often as one outage allows.
In `NodesFollow` the directory of the node can be created, removed and created again and the session be lost, while
an event is in the channel and another one is worked on, so the node is added twice before the map shows it; three
slots for watchers are all that can be used then.  A node that is deleted while another stays takes two, in
`Nodes`, without fairness; the comet nodes are symmetric there, and of four slots each node can have two.  Two message processes that share an
address or not, one of which comes or goes during a pass, are the cases of an address: kept by one, taken over, lost.
Six virtual nodes give the search three rounds; one key is at the position of a virtual node, the other past all of them, and in one of the two
placements two pairs of virtual nodes collide, of different nodes and of the same one.
In `App` two requests are what races need.  A pool of three is used up by two requests only where one keeps
several connections or transactions were left, and both happen.  A list with a user twice is what a client may send.

### Fairness

*CometChannel.*  Goroutines that can run do run (weak fairness), and a mutex that is free again and again is
granted in the end (strong fairness of the steps that take it).  Nothing is assumed of clients: a
blocked write ends only when the socket fails, and a heartbeat loop only when the socket is
gone.  A push that waits for the mutex has no other step than to take it.  A call to the message service answers or fails in the end: Go's `rpc.Client` ends pending
calls when its connection breaks, and the ping goroutine closes broken ones.  `AddConn` writes a heartbeat while it
holds the mutex; the model takes that write as not blocking, which holds as it is the first on
a fresh socket.
*MessageService.*  The sleep of `clean` ends and every statement gets an answer, which may be an error.  A database of `UpDbs` that is
asked again and again answers in the end without one; the others may fail for ever, so that `ExpiredLeave` fails if their errors
keep the cleaner from the rest.  Nothing is assumed of the order in which the databases are asked, or of the clock.
*RandLB.*  The goroutines are scheduled and a dial returns; nothing is assumed of servers or the
owner.  `Reconnects` speaks of a server that is up for good, `RetrierStops` of a `Stop` that was called.
*CometNodes.*  The goroutines are scheduled; one that waits for room in the channel gets it in
the end, which Go's queue of senders grants (strong fairness of the sends); a process that stays registered is
reached by one of the dials that are tried again and again.  Nothing is assumed of the processes, the operator or the session.
*App.*  `SF_vars(Handle(r))`: a request that can go on again and again does.  The pool of `database/sql` serves those who wait in
their order, and a lock of MySQL is granted or times out, which is a failed statement.  `Answered` says
when that is enough: while the connections kept by handlers that ask for a second one (`GetOrgInfo`, `SyncOrg`) and those
nobody will return (`left`) are never the whole pool.  It is not claimed without that condition, and would not hold.

### Where the code and its documentation disagree

* `CometPerKey`.  `comet/comet-example.conf:208` and the error text at `comet/pubsub.go:38` give the limit
  per key; the code counts the list of one channel object.  A subscriber that fetched the
  channel before `Close` or `Migrate` joins it after, while others of its key get a new one.  The same
  connection also outlives the migration: no later push reaches it.

### Seen while modelling

The following is what the code does, in the models or beside them.  None is a property, either because the code does it
in every run that gets there, so that a schedule has nothing to decide, or because no doc or test says otherwise.

*comet.*  A push whose body is not JSON is accepted: `MarshalJSON` of a `json.RawMessage` (`web/admin.go:74`) does not look at it.  `PushMsg`
saves it, writes it to connections of the old protocol, which embeds it as a string, and returns the error of `Bytes` at the first connection of the new one
(`comet/seq_channel.go:131`), which with all behind it in the list gets nothing of it, and later pushes as before.  A client that was left out asks above the last id it got and so
never reads it, as after a save that failed once it was stored: `Recoverable` excepts messages whose push was answered with an error
(`refused`).  `Migrate` deletes channels without counting them (`comet/rpc.go:150`).  `Add` looks a ticket up before it cleans, so one
that has expired and is still in the map is refused as existing; only `AuthToken` makes room for it.  A clock that is set
back makes `clean` stop early, lets a new channel of a key give ids below those of the old one, and lets `ID` sleep, with the
mutex of the channel, for as long as the clock was set back.

*rpc: clients.*  A ping that fails because `Destroy` closed the client queues the address, and the retry goroutine, whose `select` need not see
`exitCH` first, may dial a client nobody closes (`rpc/rand_lb.go:154`).  The send on `retryCH` (line 119) has no exit
case, so after `Stop` ping goroutines can stay blocked once the channel is full.

*rpc: watchers.*  The comment at `rpc/comet.go:49` says the map has nil for a node without a live
service; `watchCometNode` polls such a node and sends nothing (line 187), so the map keeps the client of the process that
ended.  When one of several addresses cannot be dialled the clients dialled before it stay open (line 238).
`FollowedWhenQuiet` and `FollowsFirst` speak of nodes that were never removed because the others may go wrong: a node
that is removed and created again while its `del` event is in the channel is in the map when the root is read, so it is not
added, and the event then takes it out until the root changes again; and a watcher that was registering a
process when the node was removed puts it back in the map afterwards.  `SettlesWhenQuiet` speaks of one undisturbed pass because a
dial that failed, or a second pass that began while the events of the first were under way, may leave the map of message processes different from
ZooKeeper until something changes there.

*rpc: lookups.*  A lookup that meets an event may answer nil for a key that has a node before and after it: it finds a node in the old circle that has left
the map, or one that is in neither (`QuietLookup` speaks of the others).  Between `HandleTake` and `HandleReplace` of `CometNodes` it may find a client that is closed.
When two virtual nodes collide the one listed last owns the position, and Go lists a map in any order: two web processes may then send a key to different
nodes, and the next event may move it (`KeysStay` leaves collisions out).

*web.*  `GetTime` returns its time id in units of 100 ns (`web/handle_1.0.go:128`); `TimeID` counts microseconds.

*app.*  `UserPush` and `Push` answer OK when the receivers could not be read, or not all of them: the reads of an organisation or a tenant
go on after an error of `Scan` and do not look at `rows.Err` (`app/org.go:288` and `319`), so a short list is pushed and answered OK
(`lost` in `PushReaches`; the read of a group does look, `app/qun.go:683`).  The handler panics when the
sender could not.  The users of a tenant are read without their user names (`app/org.go:270`), so a push
to a tenant reaches nobody and says so.  `CreateQun` goes on to announce a group whose creation failed.  `UpdateQunTopicById` answers OK for a group that
does not exist, and the announcements of two changes may arrive in the other order than the changes.  Two requests that add the same contact at once leave it
twice (`SecondContactRaced` says only then).  `SyncOrg` leaves its transaction open on a body it cannot parse (`app/org.go:449`); the fields of
the struct it parses into are not exported, so it is always about the organisation `""`; `recover` is not deferred and recovers nothing; and
`caculateLocation` indexes an empty location when there is no other root.

## 4. What is proved

Every safety property and every refinement that a passing run checks is also a theorem; the rest is liveness.
All theorems hold for every value of the constants under the assumptions the modules name: finitely many connections, natural
numbers where the configuration has them, values that stand for different things differ.  Every one has the form
`Spec => []P` or `Spec => [][A]_vars`, or is a refinement, and goes through an invariant that is inductive.

| module | theorem | result |
|---|---|---|
| `CometChannelProofs` | `Typing` | `[]TypeOK` |
| `CometStoreProofs` | `Invariance` | `[]IInv` |
| | `PanicFree` | `[]NoPanic` |
| | `StreamsGapFree` | `[]GapFree` |
| | `ListsBounded` | `[]SubscriberLimit` |
| | `ListsServe` | `[]ListedIffServed` |
| | `PushedIsSaved` | `[]SavedBeforePushed` |
| | `ReconnectMissesNothing` | `[]Recoverable` |
| | `StoredInOrder` | `SaveOrder` |
| | `ClosedIsUnreachable` | `[]ClosingLeftTable` |
| `ChannelPartsProofs` | `ExpiredTicketsLeave` | `[]RefusedIsForgotten` |
| | `IDSleepsOnce` | `[]OneSleepIsEnough` |
| | `IdsOfAKeyGrow` | `KeyIdsGrow` |
| | `PartsTyping` | `[]TypeOK` |
| | `PointersMakeSequence` | `Linked`: the linked list refines `ConnList` |
| `MessageServiceProofs` | `ServiceTyping` | `[]TypeOK` |
| | `CleanerSpares` | `[]ToldAreExpired` |
| | `ServiceImplements` | `Implements`: both storages refine `MessageStore` |
| `RandLBProofs` | `BalancerTyping` | `[]TypeOK` |
| | `WorkingStayOpen` | `OnlyBrokenAreClosed` |
| `WatchersProofs` | `WatchersTypes` | `[]TypeOK` |
| | `CometClientsOwned` | `[]OneOwner` |
| | `QuietMapFollows` | `[]FollowedWhenQuiet` |
| | `MessagePassSettles` | `[]SettlesWhenQuiet` |
| | `LookupFindsOwner` | `[]FindsOwner` |
| | `QuietLookupAnswers` | `[]QuietLookup` |
| | `OtherKeysStay` | `KeysStay` |
| `AppProofs` | `MembersStayApart` | `[]MemberOnce` |
| | `NoLeaseIsLost` | `[]ConnsReturn` |
| | `SessionsEnd` | `GivenTokensEnd` |
| `AppTablesProofs` | `TypesHold` | `[]TypeOK` |
| | `CreationsWhole` | `CreationIsWhole` |
| | `CreatorsRemove` | `OnlyCreatorRemoves` |
| | `PushesReach` | `[]PushReaches` |
| | `SecondContactsRace` | `SecondContactRaced` |

Assumptions: `ConstAssumption` (`CometChannel`), `TokenAssumption`, `HlistAssumption` and `PartsAssumption`, `ConfAssumption` and
`UpDbsAssumption` (message service), those of `RandLB`, `CometNodesAssumption`, `MessageNodesAssumption` and `LookupAssumption` (`Watchers`), `TablesAssumption` and `AppAssumption`.

**CometChannel.**  None of the properties is inductive alone.

* `NoPanic` needs that a listed connection has an open `Buf`: `ListedIffServed` (a connection is in the list of
  the channel its handler holds exactly while that handler is between `AddConn` and
  `RemoveConn`) and `BufOpenWhileListed` (the handler closes `Buf` after it left).
* `GapFree` needs `StreamWhole`: while the socket works, what was handed to `Write` is what was written, what is in the
  writer's hand and what is in `Buf`, in this order.  Once it does not work nothing more is
  written.  `NothingBeforeAdd` starts it.
* `Recoverable` needs `Accounted` besides: what was stored for a channel since a connection joined was handed to it, unless its push was
  answered with an error, or is still about to be, or the connection left before.  As `PushMsg` may return half way through the list, this does not
  follow from what was handed over; with `GapFree` it says that what is missing on the wire is above it.
* `Recoverable` and `SaveOrder` need that ids grow along a stream and in the store (`IdsIncrease`, `SavedIdsBelow`), which need that
  the one push under way owns the mutex and the newest id (`PushOwnsChannel`).
* `SavedBeforePushed` needs `SavedBeforeDeliver`, and, as messages are stored by key and pushed by channel,
  that a channel has one key (`OneKeyPerChannel`).
* `ClosingLeftTable` needs `OneKeyPerChannel` and that what is being closed was allocated, while a new entry of the
  table is above all allocated ones.

`IInv` is their conjunction, checked in `CometPush` before it was proved.  Frame lemmas (`StreamFrame`,
`PushFrame`, `StoreFrame`, `CloseFrame`) take care of the steps that leave a part of the state alone.

**ChannelParts** (`TInv`).  `clean` stops at the first ticket that is not expired, so it finds all that are only if the list is
sorted by expiry: `InOrder`, as long as the clock was not set back.  A ticket that was refused leaves with the next `clean`,
which comes before the mutex is released: `AboutToLeave`.  `SameTickets` relates map and list.  `IdsBehind` says ids and
sleeps stay behind the clock, unless it was set back.

The list of connections (`ListInv`).  `Chained`: there is a sequence of elements, none of them twice, that `first` and `next` make (`Makes`),
whose `pprev` lead back, and behind which no other element has one.  It is what the two pointer operations need of each other: `Remove` follows
`pprev` to the pointer it changes, and only in such a list is that the one that points to the element.  `PushFrontChains` and `RemoveChains` give the
sequence after each.  What `Front` and `Next` find in it (`NthFinds`) is an induction along the list, done with the least element that is
not as it should be (`HasLeast`, from the well-founded inclusion of intervals), as the induction theorems of the library are out of reach.

**Message service** (`ServiceInv`).  For Redis: types, and `Ids`: an id is given to one message of a key, stored or about to be, and not to one whose id the cleaner was told, so
what it deletes by id is expired however long it takes.  For MySQL: the rows of a key
differ in their id, and the cleaner's reading of the clock is not ahead of it.  The refinement is shown step by step: each
action of either storage is a step of `MessageStore` or a stutter.

**RandLB** (`BInv`).  A goroutine closes the client it used in a ping that failed; before the owner stops nobody else closes one.

**Watchers** (`CometInv`, `FollowInv`, `MessageInv`, `LookupInv`).  `Owned`: the number of clients of a process that are open is the cardinality of the set of places
(`PlacesOf`: the map, an event in the channel, the handler, a watcher) that hold one.  Each step moves a client between two places, adds or
removes one; taking an event shifts the places of the others, a bijection.

`FollowInv` is why the map follows ZooKeeper, for a node whose directory is never removed.  `RootKnows`: the goroutine on the root has read every
directory there is unless its watch fired (`RootIsFresh`), what it read and has not left to do is known, and nothing it deletes is such a node.
A node is known when it is in the map or an event about it is under way, which is less than what the root compares with, so it may be added twice.
`Served`: a known node is being added or has a goroutine, and the last update there is about it names the process in service
(`LastIs`), unless a goroutine is still to send one; that one's process is in service, or its watch fired and it reads again (`WatchersAreFresh`).
Each step of the cluster changes the processes of a node only with the watches on it (`ClusterFollows`).  `QuietMapFollows` is the safety half of `FollowsFirst`:
fairness brings the quiet, the invariant what the map has then.  It was checked with TLC on two nodes and three processes first.

`MessageInv` speaks of a pass that is `Undisturbed`: an address
it has noted is in the map or an add event for it is under way, and no other add event is (`PassAdds`); while nodes are read what is noted and
what is still to be read make up what is registered, and no del event is under way (`PassReads`); afterwards what is in
the map and not registered is about to be deleted (`PassDeletes`).  The copy a handler holds is the map (`CopyIsMap`), as nobody else writes it.
`LookupInv`: `PlacesAreSorted` shows that the i-th smallest position, defined by counting, gives a sorted sequence of exactly the positions of the virtual nodes;
`Searching` is the invariant of the binary search (what is before `lo` is below the key, what is from `hi` on is not), and `FoundIs` draws the conclusion.
While a call is quiet its circle is one of the nodes in the map.  `OtherKeysStay` is from `KeysMove`: the nearest position of either circle is one of the other.

**App** (`AInv`, in `AppProofs`).  `Requests`: every view a transaction has, and the tables, have no member twice; statements keep that, and so does a commit, which takes
whole tables from one or the other.  `Leases`: what a request holds is among what its next steps release.  `Sessions`: a token is half stored
only while the one request that logs its user in is at work, and clients get it once it has an expiry.

**App** (`TInv`, in `AppTablesProofs`).  The properties speak of what a commit makes of the tables, which is decided statements earlier and by
what was looked up before the transaction began, while other requests commit in between.  None is inductive; the invariant has a part for each of the reasons they hold.

* `Typing` and `Isolated`: what a request may have under way, by the handler it is in; no row is locked by two, and outside a transaction
  nothing is locked or seen.
* `Writing`: what an open transaction sees differs from the tables only by what its own request wrote (`OwnMembers`, `OwnGroups`, `OwnContacts`), and what
  it has not written is still among its statements (`StillToWrite`).  Another commit keeps this (`OthersWrites`), as it changes rows
  of its own locks only; one's own statement adds what it may (`ExecWrites`), and one's own commit (`CommitWrites`) makes the difference that of the
  tables, from which the action properties are read off: `GroupsCome`, `GroupsStay`, `MembersCome`.
* `QunsMade`: a group's name is given out once, to one creation at a time, and a group that is not there has no members.  Without it a creation
  could find members it did not put there.
* `AllLooked`: what a handler checked before `Begin` holds until `Commit` (`Checked`): a group is never deleted and never changes its creator, so that the
  check of `DelQunMember`, which is outside of the transaction, does not grow stale; for contacts it does, and `SecondContactRaced` says how.
* `AllReceive`: who was reached, who is left and who was to be told, point by point of the handlers that push.

`HandleSteps` is the one place that goes through the handlers: it says of each step of a request which of the fields change and how, and the proofs
of the parts go by that.  `OthersIs` says what the loop of `CreateQun` leaves, `CreateQunIs` that its statements write the group and each founder.
`Pool` adds that connections leased and left stay below the limit.  `TablesAssumption` has that `NoQun` is neither an id nor a row, as a model value is for TLC.

Model-checked only: all liveness (`DeadConnectionsLeave`, `ClosedConnectionsLeave`, `RequestsEnd`, `ExpiredLeave`, `Reconnects`, `RetrierStops`,
`FollowsFirst`, `WatchersEnd`, `Answered`), as fairness and `ENABLED` are out of the prover's reach.

## 5. Plan

Done: the channel, its parts, the message service, the clients of a service, both watchers and the lookups, the handlers of app.  What is left, by importance:

1. `Delivery`: the client with its cursor, the gateway, the store and a channel, composed; a client that
   reconnects above its cursor sees every message that lives, once.  `Recoverable` and `Implements` are its two halves.
2. `Failover`: the smallest child of a node is active, a process that lost its node serves on until it kills itself, an empty table in the successor.
3. Theorems about what the properties leave to be concluded: that reading `MessageStore` again and again from the last id
   received fetches all that lives; what steps a request of `App` has left, as the safety half of `Answered`.

Independent questions can share a run, one of them chosen in `Init`, as the storages do in
`MessageService`, the watchers and the lookups in `Watchers`, the parts in `ChannelParts` and the mixes in `App`.

## 6. Not modelled

* *Configuration, signals, pid files, profiling, reply formatting, the load generator*: no state worth checking.
* *Statistics* (`comet/stat.go`): atomic counters that only the statistics page reads.
* *Murmur3* (`hash/mmhash3.go`): arithmetic on words without state; the circle is checked for two hash functions and proved for any.
  `BucketOf`, `DbOf` and the keys a `Migrate` moves are arbitrary, so the circle is not part of `CometChannel`.
* *The handlers of web itself*: they keep no state; each makes one or two calls that are actions of other modules.
* *Killing itself when the ephemeral node is gone* (`zk/zk.go`): in the models a process and its node end together.
* *`SyncUser`* and the functions behind it (`app/org.go`): no route reaches them.
* *Wire formats and JSON*: taken as faithful.  The group and public messages of `message/rpc.go` are empty or commented out.
