------------------------------ MODULE CometNodes ------------------------------
(***************************************************************************)
(* How a web process follows the comet nodes in ZooKeeper (rpc/comet.go).  *)
(* A node is a directory that lasts, with one ephemeral sequence number    *)
(* per comet process of the node; the smallest number is the one in        *)
(* service.  One goroutine watches the root, one each node that was added, *)
(* and they send events to the one that owns cometNodeInfoMap, which the   *)
(* others read while events are still on their way.                        *)
(*                                                                         *)
(* A CometNodeInfo is the process its clients are connected to, by number; *)
(* open counts the RandLBs that were made for a process and not destroyed. *)
(***************************************************************************)
EXTENDS Integers, Sequences, FiniteSets

CONSTANTS
  Nodes,       \* names of comet nodes
  ChanCap,     \* capacity of the event channel
  MaxProcs,    \* bound: comet processes that register
  MaxWatchers, \* bound: goroutines of watchCometNode at a time
  MaxLost,     \* bound: sessions lost
  MaxRemoved,  \* bound: directories removed
  NoNode,      \* the node of a goroutine that watches none
  Missing      \* the entry of a node that is not in the map

Procs == 1..MaxProcs
Slots == 1..MaxWatchers
Nil   == 0

ASSUME NodesAssumption ==
  /\ IsFiniteSet(Nodes)
  /\ {ChanCap, MaxProcs, MaxWatchers} \subseteq Nat \ {0}
  /\ {MaxLost, MaxRemoved} \subseteq Nat
  /\ NoNode \notin Nodes
  /\ Missing \notin Procs \cup {Nil}

VARIABLES
  dirs,     \* (ZooKeeper) nodes whose directory exists
  kids,     \* (ZooKeeper) processes registered in each node
  born,     \* (ZooKeeper) last sequence number given
  removed,  \* history: nodes whose directory was removed
  lost,     \* sessions lost so far
  infoMap,  \* cometNodeInfoMap: Missing, Nil or the process of a CometNodeInfo
  open,     \* RandLBs to each process that were not destroyed
  ch,       \* the event channel
  handler,  \* the event the goroutine handleCometNodeEvent works on
  root,     \* the goroutine watchCometRoot
  watcher   \* the goroutines watchCometNode

zk   == <<dirs, kids, born, removed, lost>>
view == <<infoMap, open>>
vars == <<zk, view, ch, handler, root, watcher>>

Event(e, n, p) == [event |-> e, key |-> n, value |-> p]
NoEvent     == Event("none", NoNode, Nil)
NoGoroutine == [at |-> "none", node |-> NoNode, info |-> Nil, fired |-> FALSE]
Watching(n) == [NoGoroutine EXCEPT !.at = "read", !.node = n]

Init ==
  /\ dirs    = {}
  /\ kids    = [n \in Nodes |-> {}]
  /\ born    = 0
  /\ removed = {}
  /\ lost    = 0
  /\ infoMap = [n \in Nodes |-> Missing]
  /\ open    = [p \in Procs |-> 0]
  /\ ch      = <<>>
  /\ handler = NoEvent
  /\ root    = [at |-> "read", seen |-> {}, todo |-> {}, fired |-> FALSE]
  /\ watcher = [w \in Slots |-> NoGoroutine]

Listed == {n \in Nodes : infoMap[n] # Missing}

\* A goroutine holds a watch from its read until it reads again.  The one on the
\* root, or those on the nodes in S, fire: who waits for it goes on.
FireRoot ==
  root' = CASE root.at = "wait"           -> [root EXCEPT !.at = "read"]
            [] root.at \in {"add", "added", "del"} -> [root EXCEPT !.fired = TRUE]
            [] OTHER                      -> root

FireNodes(S) ==
  watcher' = [w \in Slots |->
    LET v == watcher[w] IN
    CASE v.node \in S /\ v.at = "wait"                 -> Watching(v.node)
      [] v.node \in S /\ v.at \in {"register", "send"} -> [v EXCEPT !.fired = TRUE]
      [] OTHER                                         -> v]

-----------------------------------------------------------------------------
\* A comet process starts: it creates the directory of its node, if need be ...
CreateDir(n) ==
  /\ n \notin dirs /\ born < MaxProcs
  /\ dirs' = dirs \cup {n}
  /\ FireRoot
  /\ UNCHANGED <<kids, born, removed, lost, view, ch, handler, watcher>>

\* ... and registers itself in it, under the next sequence number.
Register(n) ==
  /\ n \in dirs /\ born < MaxProcs
  /\ born' = born + 1
  /\ kids' = [kids EXCEPT ![n] = @ \cup {born + 1}]
  /\ FireNodes({n})
  /\ UNCHANGED <<dirs, removed, lost, view, ch, handler, root>>

\* A comet process, or its session, ends.
Die(n) ==
  /\ \E p \in kids[n] : kids' = [kids EXCEPT ![n] = @ \ {p}]
  /\ FireNodes({n})
  /\ UNCHANGED <<dirs, born, removed, lost, view, ch, handler, root>>

\* Somebody removes the empty directory of a node.
RemoveDir(n) ==
  /\ n \in dirs \ removed /\ kids[n] = {}
  /\ Cardinality(removed) < MaxRemoved
  /\ dirs' = dirs \ {n}
  /\ removed' = removed \cup {n}
  /\ FireRoot /\ FireNodes({n})
  /\ UNCHANGED <<kids, born, lost, view, ch, handler>>

\* The session of this process is lost: every watch fires.
LoseSession ==
  /\ lost < MaxLost
  /\ lost' = lost + 1
  /\ FireRoot /\ FireNodes(Nodes)
  /\ UNCHANGED <<dirs, kids, born, removed, view, ch, handler>>

-----------------------------------------------------------------------------
\* A send blocks while the channel is full.
HasRoom  == Len(ch) < ChanCap
Send(ev) == HasRoom /\ ch' = Append(ch, ev)

\* The root goroutine goes on with the next of the nodes it has to send events
\* for, and when that was the last as `done` says.
Sent(n, done) ==
  root' = IF root.todo = {n} THEN done ELSE [root EXCEPT !.todo = @ \ {n}]

Reading == [at |-> "read", seen |-> {}, todo |-> {}, fired |-> FALSE]

\* Mutation: the goroutine waits for a watch that has fired.
WaitsAnyway == [Reading EXCEPT !.at = "wait"]

Waiting == IF root.fired THEN Reading ELSE [Reading EXCEPT !.at = "wait"]

\* watchCometRoot reads the nodes and sets a watch; without any node it kicks the
\* ones in the map out and polls.
RootRead ==
  /\ root.at = "read"
  /\ root' = IF dirs # {}
               THEN [at |-> "add", seen |-> dirs, todo |-> dirs, fired |-> FALSE]
               ELSE [root EXCEPT !.at = IF Listed = {} THEN "read" ELSE "kick",
                                 !.todo = Listed]
  /\ UNCHANGED <<zk, view, ch, handler, watcher>>

\* A node that is not in the map at this moment is added ...
RootAdd ==
  /\ root.at = "add"
  /\ \E n \in root.todo :
       /\ Sent(n, [root EXCEPT !.at = "added", !.todo = {}])
       /\ IF n \in Listed THEN UNCHANGED ch ELSE Send(Event("add", n, Nil))
  /\ UNCHANGED <<zk, view, handler, watcher>>

\* ... and one that is in the map after that and was not read is deleted; then the
\* goroutine waits for its watch.
RootAdded ==
  /\ root.at = "added"
  /\ root' = IF Listed \subseteq root.seen THEN Waiting
             ELSE [root EXCEPT !.at = "del", !.todo = Listed \ root.seen]
  /\ UNCHANGED <<zk, view, ch, handler, watcher>>

\* A node is deleted, or kicked out: after the last of these it polls.
RootDel ==
  /\ root.at \in {"kick", "del"}
  /\ \E n \in root.todo :
       /\ Send(Event("del", n, Nil))
       /\ Sent(n, IF root.at = "kick" THEN Reading ELSE Waiting)
  /\ UNCHANGED <<zk, view, handler, watcher>>

Root == RootRead \/ RootAdd \/ RootAdded \/ RootDel

-----------------------------------------------------------------------------
\* Mutation: only an update destroys what it replaces.
ReplacedByUpdate(ev) ==
  IF ev.event = "update" /\ infoMap[ev.key] \in Procs THEN {infoMap[ev.key]} ELSE {}

\* The CometNodeInfo in the map under the key of an event, if any.
Replaced(ev) == {infoMap[ev.key]} \cap Procs

\* handleCometNodeEvent takes an event, starts the watcher of a node that is added
\* and destroys what the map holds for the node ...
HandleTake ==
  /\ handler = NoEvent /\ ch # <<>>
  /\ handler' = Head(ch)
  /\ ch' = Tail(ch)
  /\ IF Head(ch).event # "add" THEN UNCHANGED watcher
     ELSE \E w \in Slots :
            /\ watcher[w].at = "none" /\ \A v \in 1..(w - 1) : watcher[v].at # "none"
            /\ watcher' = [watcher EXCEPT ![w] = Watching(Head(ch).key)]
  /\ open' = [p \in Procs |-> IF p \in Replaced(Head(ch)) THEN open[p] - 1 ELSE open[p]]
  /\ UNCHANGED <<zk, infoMap, root>>

\* ... then replaces the map, and the ring that is built from its nodes.
HandleReplace ==
  /\ handler # NoEvent
  /\ infoMap' = [infoMap EXCEPT ![handler.key] =
                   IF handler.event = "del" THEN Missing ELSE handler.value]
  /\ handler' = NoEvent
  /\ UNCHANGED <<zk, open, ch, root, watcher>>

Handler == HandleTake \/ HandleReplace

-----------------------------------------------------------------------------
\* Mutation: the last process is taken.
LastOf(S) == CHOOSE p \in S : \A q \in S : q <= p

\* The process in service: the first of the sorted children.
FirstOf(S) == CHOOSE p \in S : \A q \in S : p <= q

\* watchCometNode reads the processes of its node, with a watch.
WatcherRead(w) ==
  LET n == watcher[w].node IN
  /\ watcher[w].at = "read" /\ n \in dirs /\ kids[n] # {}
  /\ watcher' = [watcher EXCEPT ![w].at = "register", ![w].info = FirstOf(kids[n])]
  /\ UNCHANGED <<zk, view, ch, handler, root>>

\* Mutation: the goroutine waits for the node as watchCometRoot does for the root.
Stays(w) == watcher[w]

\* What is left of a goroutine whose node does not exist: "never watch again".
Ended(w) == NoGoroutine

WatcherEnd(w) ==
  /\ watcher[w].at = "read" /\ watcher[w].node \notin dirs
  /\ watcher' = [watcher EXCEPT ![w] = Ended(w)]
  /\ UNCHANGED <<zk, view, ch, handler, root>>

\* registerCometNode: the process is registered and its address can be dialled.
RegisterOk(w) ==
  LET p == watcher[w].info IN
  /\ watcher[w].at = "register" /\ p \in kids[watcher[w].node]
  /\ open' = [open EXCEPT ![p] = @ + 1]
  /\ watcher' = [watcher EXCEPT ![w].at = "send"]
  /\ UNCHANGED <<zk, infoMap, ch, handler, root>>

\* Its data cannot be read, or the address not be dialled: again from the start.
RegisterFail(w) ==
  /\ watcher[w].at = "register"
  /\ watcher' = [watcher EXCEPT ![w] = Watching(@.node)]
  /\ UNCHANGED <<zk, view, ch, handler, root>>

\* The update is sent; the goroutine waits for its watch.
WatcherSend(w) ==
  LET v == watcher[w] IN
  /\ v.at = "send"
  /\ Send(Event("update", v.node, v.info))
  /\ watcher' = [watcher EXCEPT ![w] = IF v.fired THEN Watching(v.node)
                                       ELSE [Watching(v.node) EXCEPT !.at = "wait"]]
  /\ UNCHANGED <<zk, view, handler, root>>

Watcher(w) ==
  WatcherRead(w) \/ WatcherEnd(w) \/ RegisterOk(w) \/ RegisterFail(w) \/ WatcherSend(w)

Cluster ==
  \/ LoseSession
  \/ \E n \in Nodes : CreateDir(n) \/ Register(n) \/ Die(n) \/ RemoveDir(n)

Next == Cluster \/ Root \/ Handler \/ \E w \in Slots : Watcher(w)

Spec == Init /\ [][Next]_vars

\* The goroutines run, a sender that waits for room in the channel gets it, and a
\* process that stays registered is reached by one of the attempts to dial it.
\* Nothing is assumed of the cluster.
FairSpec ==
  /\ Spec
  /\ SF_vars(Root) /\ WF_vars(Handler)
  /\ \A w \in Slots : WF_vars(Watcher(w)) /\ SF_vars(RegisterOk(w)) /\ SF_vars(WatcherSend(w))

-----------------------------------------------------------------------------
\* The types of the variables; the event channel keeps to its capacity.
TypeOK ==
  /\ dirs \subseteq Nodes /\ removed \subseteq Nodes
  /\ kids    \in [Nodes -> SUBSET Procs]
  /\ born    \in 0..MaxProcs /\ lost \in 0..MaxLost
  /\ infoMap \in [Nodes -> Procs \cup {Missing, Nil}]
  /\ open    \in [Procs -> Nat]
  /\ Len(ch) <= ChanCap
  /\ \A i \in DOMAIN ch : ch[i].event \in {"add", "del", "update"} /\ ch[i].key \in Nodes
  /\ root.at \in {"read", "kick", "add", "added", "del", "wait"}
  /\ \A w \in Slots : /\ watcher[w].at \in {"none", "read", "register", "send", "wait"}
                      /\ watcher[w].at = "none" <=> watcher[w].node = NoNode

\* Where a RandLB to process p is: in the map (unless its entry is being
\* replaced), in an event, or with a watcher that has just made it.
PlacesOf(p) ==
  {<<"map", n>> : n \in {m \in Nodes : infoMap[m] = p /\ m # handler.key}}
    \cup {<<"event", i>> : i \in {j \in DOMAIN ch : ch[j].value = p}}
    \cup {<<"handler", w>> : w \in {x \in {0} : handler.value = p}}
    \cup {<<"watcher", w>> : w \in {v \in Slots : watcher[v].at = "send"
                                                    /\ watcher[v].info = p}}

\* Every RandLB that is not destroyed is in one place, and every place has one:
\* none is leaked, none destroyed twice, none that was destroyed stays in the map.
OneOwner == \A p \in Procs : open[p] = Cardinality(PlacesOf(p))

\* Process p of node n is the one in service.
InService(n, p) == p \in kids[n] /\ \A q \in kids[n] : p <= q

\* Everybody has done with node n: the root is watched, no event about the node is on
\* its way, and its goroutines wait for their watches.
Quiet(n) ==
  /\ n \in dirs /\ root.at = "wait" /\ handler.key # n
  /\ \A i \in DOMAIN ch : ch[i].key # n
  /\ \A w \in Slots : watcher[w].node = n => watcher[w].at = "wait"

\* "Store the first alive Comet service of every node": whenever everybody has done
\* with a node whose directory was never removed, the map has the first of its
\* processes, although the map was read while events were on their way, and the
\* updates of several watchers of the node came in any order.
FollowedWhenQuiet == \A n \in Nodes \ removed : Quiet(n) => InService(n, infoMap[n])

\* It does not stay unquiet: once the processes of such a node stay as they are, the
\* map ends with the first of them, however many watchers the node has got.
FollowsFirst ==
  \A n \in Nodes, p \in Procs :
    [](n \notin removed) /\ <>[]InService(n, p) => <>[](infoMap[n] = p)

\* When the directory of a node is gone for good, so are its goroutines in the
\* end, even those that were registering it.
WatchersEnd ==
  \A n \in Nodes :
    <>[](n \notin dirs) => <>[](\A w \in Slots : watcher[w].node # n)
=============================================================================
