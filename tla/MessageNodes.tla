----------------------------- MODULE MessageNodes -----------------------------
(***************************************************************************)
(* How a process follows the message nodes in ZooKeeper (rpc/message.go).  *)
(* A message process registers the addresses it serves in an ephemeral     *)
(* node of its own.  One goroutine watches the root and sends events to    *)
(* the one that owns MessageRPC, which puts a new RandLB in its place for  *)
(* each of them, with a copy of the clients of the last; the first         *)
(* compares ZooKeeper with these clients while events are on their way.    *)
(* Of a client the model keeps its address: whether its connection works   *)
(* is the business of RandLB.                                              *)
(***************************************************************************)
EXTENDS Integers, Sequences, FiniteSets

CONSTANTS
  Addrs,           \* addresses of message processes
  Binds,           \* sets of addresses a process serves
  MessageCap,      \* capacity of the event channel
  MaxMessageProcs, \* bound: message processes that register
  MaxErrors        \* bound: times the data of a node cannot be read

MessageProcs == 1..MaxMessageProcs

VARIABLES
  binds,    \* the addresses of each process that ever registered
  nodes,    \* (ZooKeeper) processes whose node exists
  errors,   \* reads of data that failed so far
  clients,  \* the addresses in MessageRPC.Clients
  queue,    \* the event channel
  work,     \* the goroutine handleMessageNodeEvent: its event and its copy of the map
  rootW,    \* the goroutine watchMessageRoot
  quiet     \* history: no event was under way at the root's last read, and none failed since

zooKeeper == <<binds, nodes, errors>>
vars      == <<zooKeeper, clients, queue, work, rootW, quiet>>

Registered == UNION {binds[p] : p \in nodes}

NodeEvent(e, a) == [event |-> e, key |-> a]
Idle == [at |-> "take", event |-> "none", key |-> CHOOSE a \in Addrs : TRUE, copy |-> {}]

\* The watcher of the root: the nodes it has to read, the addresses it has to send
\* events for, nodesMap and whether its watch has fired.
Reading == [at |-> "read", nodes |-> {}, addrs |-> {}, nodesMap |-> {}, fired |-> FALSE]
Waiting == IF rootW.fired THEN Reading ELSE [Reading EXCEPT !.at = "wait"]

Init ==
  /\ binds   = [p \in MessageProcs |-> {}]
  /\ nodes   = {} /\ errors = 0
  /\ clients = {} /\ queue = <<>> /\ work = Idle
  /\ rootW   = Reading /\ quiet = TRUE

FireMessageRoot ==
  rootW' = CASE rootW.at = "wait"             -> Reading
             [] rootW.at \in {"read", "kick"} -> rootW
             [] OTHER                         -> [rootW EXCEPT !.fired = TRUE]

-----------------------------------------------------------------------------
\* A message process starts and registers.
RegisterProc(p, B) ==
  /\ p = Cardinality({x \in MessageProcs : binds[x] # {}}) + 1
  /\ binds' = [binds EXCEPT ![p] = B]
  /\ nodes' = nodes \cup {p}
  /\ FireMessageRoot
  /\ UNCHANGED <<errors, clients, queue, work, quiet>>

\* It ends, or its session does.
EndProc(p) ==
  /\ p \in nodes
  /\ nodes' = nodes \ {p}
  /\ FireMessageRoot
  /\ UNCHANGED <<binds, errors, clients, queue, work, quiet>>

\* The watch fires because the session of the process that watches was lost.
LoseWatch == FireMessageRoot /\ UNCHANGED <<zooKeeper, clients, queue, work, quiet>>

-----------------------------------------------------------------------------
\* A send blocks while the channel is full.
SendEvent(e, a) == Len(queue) < MessageCap /\ queue' = Append(queue, NodeEvent(e, a))

\* The nodes are read and a watch set; without any, all clients are kicked out and
\* the goroutine polls.  It goes through the map as it is at this moment.
MessageRead ==
  /\ rootW.at = "read"
  /\ rootW' = IF nodes # {} THEN [Reading EXCEPT !.at = "get", !.nodes = nodes]
              ELSE IF clients = {} THEN Reading
              ELSE [Reading EXCEPT !.at = "kick", !.addrs = clients]
  /\ quiet' = (queue = <<>> /\ work = Idle)
  /\ UNCHANGED <<zooKeeper, clients, queue, work>>

\* The data of the next node is read; a node whose data cannot be read is skipped.
MessageGet ==
  /\ rootW.at = "get" /\ rootW.addrs = {}
  /\ \E p \in rootW.nodes :
       LET rest == [rootW EXCEPT !.nodes = @ \ {p}] IN
       \/ /\ p \in nodes
          /\ rootW' = [rest EXCEPT !.addrs = binds[p]]
          /\ UNCHANGED <<errors, quiet>>
       \/ /\ p \in nodes => errors < MaxErrors
          /\ errors' = IF p \in nodes THEN errors + 1 ELSE errors
          /\ quiet' = (quiet /\ p \notin nodes)
          /\ rootW' = rest
  /\ UNCHANGED <<binds, nodes, clients, queue, work>>

\* Mutation: only an address that is added is noted.
NotedIfNew(a) == rootW.nodesMap \cup ({a} \ clients)

\* nodesMap with address a.
Noted(a) == rootW.nodesMap \cup {a}

\* An address of the node that is not in the map at this moment is added.
MessageAdd ==
  /\ rootW.at = "get"
  /\ \E a \in rootW.addrs :
       /\ rootW' = [rootW EXCEPT !.addrs = @ \ {a}, !.nodesMap = Noted(a)]
       /\ IF a \in clients THEN UNCHANGED queue ELSE SendEvent("add", a)
  /\ UNCHANGED <<zooKeeper, clients, work, quiet>>

\* What is in the map and was not read is deleted; then the goroutine waits.
MessageAdded ==
  /\ rootW.at = "get" /\ rootW.nodes = {} /\ rootW.addrs = {}
  /\ rootW' = IF clients \subseteq rootW.nodesMap THEN Waiting
              ELSE [rootW EXCEPT !.at = "del", !.addrs = clients \ rootW.nodesMap]
  /\ UNCHANGED <<zooKeeper, clients, queue, work, quiet>>

MessageDel ==
  /\ rootW.at \in {"del", "kick"}
  /\ \E a \in rootW.addrs :
       /\ SendEvent("del", a)
       /\ rootW' = IF rootW.addrs # {a} THEN [rootW EXCEPT !.addrs = @ \ {a}]
                   ELSE IF rootW.at = "kick" THEN Reading ELSE Waiting
  /\ UNCHANGED <<zooKeeper, clients, work, quiet>>

MessageRoot == MessageRead \/ MessageGet \/ MessageAdd \/ MessageAdded \/ MessageDel

-----------------------------------------------------------------------------
\* handleMessageNodeEvent takes an event and copies the map ...
TakeEvent ==
  /\ work = Idle /\ queue # <<>>
  /\ work' = [at |-> "work", event |-> Head(queue).event, key |-> Head(queue).key,
              copy |-> clients]
  /\ queue' = Tail(queue)
  /\ UNCHANGED <<zooKeeper, clients, rootW, quiet>>

\* ... adds a client, the one the map holds or one it dials, or leaves one out ...
Changed ==
  IF work.event = "add" THEN work.copy \cup {work.key} ELSE work.copy \ {work.key}

Change ==
  /\ work.at = "work"
  /\ work' = [work EXCEPT !.at = "replace", !.copy = Changed]
  /\ UNCHANGED <<zooKeeper, clients, queue, rootW, quiet>>

\* ... or drops the event when it cannot dial ...
Discard ==
  /\ work.at = "work" /\ work.event = "add" /\ work.key \notin clients
  /\ work' = Idle /\ quiet' = FALSE
  /\ UNCHANGED <<zooKeeper, clients, queue, rootW>>

\* ... and puts the RandLB with the copy in the place of the last.
Replace ==
  /\ work.at = "replace"
  /\ clients' = work.copy /\ work' = Idle
  /\ UNCHANGED <<zooKeeper, queue, rootW, quiet>>

MessageHandler == TakeEvent \/ Change \/ Discard \/ Replace

Next ==
  \/ \E p \in MessageProcs : EndProc(p) \/ \E B \in Binds : RegisterProc(p, B)
  \/ LoseWatch \/ MessageRoot \/ MessageHandler

Spec == Init /\ [][Next]_vars

-----------------------------------------------------------------------------
\* A pass of the root watcher that began with no event under way, and in which
\* nothing failed, leaves a client for exactly the addresses that are registered
\* once its events are handled: events of one pass, even two for one address that
\* two nodes share, add up.  (After another pass, or after a dial or a read that
\* failed, the map may differ from ZooKeeper for as long as nothing changes there.)
SettlesWhenQuiet ==
  (rootW.at = "wait" /\ queue = <<>> /\ work = Idle /\ quiet) => clients = Registered
=============================================================================
