---------------------------- MODULE WatchersProofs ----------------------------
(***************************************************************************)
(* Theorems about the two watchers of a web process, for any number of     *)
(* nodes, processes, addresses and goroutines and any capacity of their    *)
(* event channels: no client of a comet node is leaked or destroyed twice, *)
(* the map follows ZooKeeper, and one undisturbed pass over the message    *)
(* nodes is enough.  And about the lookups, for any hash function and any  *)
(* number of virtual nodes.                                                *)
(***************************************************************************)
EXTENDS Watchers, FiniteSetTheorems, FunctionTheorems, TLAPS

-----------------------------------------------------------------------------
(* The comet nodes: types. *)

Procs == Comet!Procs

\* An event: only an update carries clients.
CometEvent ==
  {e \in [event : {"add", "del", "update"}, key : Nodes, value : Procs \cup {0}] :
     e.event # "update" => e.value = 0}

\* A goroutine that watches a node, or none; it has a process while it registers it.
Goroutine(v) ==
  /\ v \in [at : {"none", "read", "register", "send", "wait"},
            node : Nodes \cup {NoNode}, info : Procs \cup {0}, fired : BOOLEAN]
  /\ v.at = "none" <=> v.node = NoNode
  /\ v.at \in {"register", "send"} => v.info \in Procs

ZkTypes ==
  /\ dirs \subseteq Nodes /\ removed \subseteq Nodes
  /\ kids \in [Nodes -> SUBSET Procs]
  /\ born \in 0..MaxProcs /\ lost \in 0..MaxLost

ViewTypes ==
  /\ infoMap \in [Nodes -> Procs \cup {Missing, 0}]
  /\ ch \in Seq(CometEvent) /\ Len(ch) <= ChanCap
  /\ handler = Comet!NoEvent \/ handler \in CometEvent

RootTypes ==
  root \in [at : {"read", "kick", "add", "added", "del", "wait"},
            seen : SUBSET Nodes, todo : SUBSET Nodes, fired : BOOLEAN]

WatcherTypes ==
  /\ DOMAIN watcher = Comet!Slots /\ watcher = [w \in Comet!Slots |-> watcher[w]]
  /\ \A w \in Comet!Slots : Goroutine(watcher[w])

CometTypes == ZkTypes /\ ViewTypes /\ RootTypes /\ WatcherTypes

\* Every client that is not destroyed is in one place.
Owned ==
  /\ open \in [Procs -> Nat]
  /\ \A p \in Procs : /\ IsFiniteSet(Comet!PlacesOf(p))
                      /\ open[p] = Cardinality(Comet!PlacesOf(p))

\* A set of naturals has a least element.
LEMMA HasLeast ==
  ASSUME NEW S \in SUBSET Nat, S # {}
  PROVE  \E x \in S : \A y \in S : x <= y
<1> DEFINE Below == {0..x : x \in S}
<1>1. Below \subseteq FiniteSubsetsOf(Nat) /\ Below # {}
  <2>1. \A x \in S : 0..x \subseteq Nat /\ IsFiniteSet(0..x) BY FS_Interval
  <2> QED BY <2>1 DEF FiniteSubsetsOf
<1>2. PICK B \in Below : \A C \in Below : <<C, B>> \notin StrictSubsetOrdering(Nat)
  <2> HIDE DEF Below
  <2> QED BY <1>1, FS_StrictSubsetOrderingWellFounded, WFMin
<1>3. PICK x \in S : B = 0..x OBVIOUS
<1>4. \A y \in S : x <= y
  <2> SUFFICES ASSUME NEW y \in S, ~(x <= y) PROVE FALSE OBVIOUS
  <2>1. x \in Nat /\ y \in Nat /\ y < x OBVIOUS
  <2>2. 0..y \subseteq 0..x /\ x \in 0..x /\ x \notin 0..y /\ 0..x \subseteq Nat BY <2>1
  <2>3. <<0..y, 0..x>> \in StrictSubsetOrdering(Nat) BY <2>2 DEF StrictSubsetOrdering
  <2> QED BY <1>2, <1>3, <2>3
<1> QED BY <1>4

\* Processes have numbers from 1; 0 and Missing are none.
LEMMA Numbers ==
  /\ Procs \subseteq Nat \ {0} /\ 0 \notin Procs /\ Missing \notin Procs /\ Missing # 0
  /\ Comet!Nil = 0 /\ NoNode \notin Nodes
BY CometNodesAssumption DEF Procs, Comet!Procs, Comet!Nil

\* What CometNodes has of FiniteSets.
LEMMA SharedCardinality == \A S : Comet!Cardinality(S) = Cardinality(S)
BY DEF Comet!Cardinality, Cardinality

\* A set of processes has a first one.
LEMMA FirstIsOne ==
  ASSUME NEW S \in SUBSET Procs, S # {}
  PROVE  Comet!FirstOf(S) \in S
<1>1. \E x \in S : \A y \in S : x <= y BY Numbers, HasLeast
<1> QED BY <1>1 DEF Comet!FirstOf

\* A goroutine that begins to watch a node.
LEMMA WatchingType ==
  ASSUME NEW n \in Nodes
  PROVE  Goroutine(Comet!Watching(n)) /\ Comet!Watching(n).at = "read"
BY Numbers DEF Comet!Watching, Comet!NoGoroutine, Goroutine

\* The watch on the root fires.
LEMMA FireRootType == RootTypes /\ Comet!FireRoot => RootTypes'
BY DEF RootTypes, Comet!FireRoot

\* The same for the watches on nodes: no goroutine comes to, or leaves, a send.
LEMMA FireNodesType ==
  ASSUME WatcherTypes, NEW S \in SUBSET Nodes, Comet!FireNodes(S)
  PROVE  /\ WatcherTypes'
         /\ \A w \in Comet!Slots : /\ watcher'[w].at = "send" <=> watcher[w].at = "send"
                                   /\ watcher[w].at = "send" => watcher'[w].info = watcher[w].info
<1> DEFINE Fired(v) ==
      CASE v.node \in S /\ v.at = "wait"                 -> Comet!Watching(v.node)
        [] v.node \in S /\ v.at \in {"register", "send"} -> [v EXCEPT !.fired = TRUE]
        [] OTHER                                         -> v
<1>1. watcher' = [w \in Comet!Slots |-> Fired(watcher[w])] BY DEF Comet!FireNodes
<1>2. ASSUME NEW v, Goroutine(v)
      PROVE  /\ Goroutine(Fired(v))
             /\ Fired(v).at = "send" <=> v.at = "send"
             /\ v.at = "send" => Fired(v).info = v.info
  <2>1. CASE v.node \in S /\ v.at = "wait"
    <3>1. Fired(v) = Comet!Watching(v.node) BY <2>1
    <3> QED BY <2>1, <3>1, WatchingType
  <2>2. CASE v.node \in S /\ v.at \in {"register", "send"}
    <3>1. Fired(v) = [v EXCEPT !.fired = TRUE] BY <2>2
    <3> QED BY <1>2, <2>2, <3>1 DEF Goroutine
  <2>3. CASE ~(v.node \in S /\ v.at \in {"wait", "register", "send"})
    <3>1. Fired(v) = v BY <2>3
    <3> QED BY <1>2, <3>1
  <2> QED BY <2>1, <2>2, <2>3
<1> HIDE DEF Fired
<1> QED BY <1>1, <1>2 DEF WatcherTypes

\* One goroutine goes on.
LEMMA OneGoesOn ==
  ASSUME WatcherTypes, NEW w \in Comet!Slots, NEW v, Goroutine(v),
         watcher' = [watcher EXCEPT ![w] = v]
  PROVE  WatcherTypes' /\ \A x \in Comet!Slots : watcher'[x] = IF x = w THEN v ELSE watcher[x]
BY DEF WatcherTypes

-----------------------------------------------------------------------------
(* The comet nodes: clients and their places. *)

\* Place x holds a client of process p.
Place(p, x) ==
  \/ \E n \in Nodes : x = <<"map", n>> /\ infoMap[n] = p /\ n # handler.key
  \/ \E i \in DOMAIN ch : x = <<"event", i>> /\ ch[i].value = p
  \/ x = <<"handler", 0>> /\ handler.value = p
  \/ \E w \in Comet!Slots : x = <<"watcher", w>> /\ watcher[w].at = "send" /\ watcher[w].info = p

\* These are the places of OneOwner, before and after a step.
LEMMA PlacesAre ==
  /\ \A p, x : x \in Comet!PlacesOf(p) <=> Place(p, x)
  /\ \A p, x : x \in Comet!PlacesOf(p)' <=> Place(p, x)'
BY DEF Place, Comet!PlacesOf

\* No client comes, goes or moves.
LEMMA NoneMoves ==
  ASSUME Owned, UNCHANGED open, \A p \in Procs : \A x : Place(p, x)' <=> Place(p, x)
  PROVE  Owned'
<1>1. ASSUME NEW p \in Procs PROVE Comet!PlacesOf(p)' = Comet!PlacesOf(p)
  BY PlacesAre
<1> QED BY <1>1 DEF Owned

\* A client of one process goes from one place to another.
LEMMA OneMoves ==
  ASSUME Owned, UNCHANGED open, NEW p \in Procs, NEW x, NEW y, Place(p, x), ~Place(p, y),
         \A q \in Procs \ {p} : \A z : Place(q, z)' <=> Place(q, z),
         \A z : Place(p, z)' <=> (Place(p, z) /\ z # x) \/ z = y
  PROVE  Owned'
<1>1. \A q \in Procs \ {p} : Comet!PlacesOf(q)' = Comet!PlacesOf(q) BY PlacesAre
<1> DEFINE S == Comet!PlacesOf(p)
           T == S \ {x}
<1>2. Comet!PlacesOf(p)' = T \cup {y} /\ x \in S /\ y \notin T BY PlacesAre
<1>3. IsFiniteSet(S) /\ open[p] = Cardinality(S) /\ Cardinality(S) \in Nat
  BY FS_CardinalityType DEF Owned
<1> HIDE DEF S
<1>4. IsFiniteSet(T) /\ Cardinality(T) = Cardinality(S) - 1 /\ Cardinality(T) \in Nat
  BY <1>2, <1>3, FS_RemoveElement, FS_CardinalityType
<1> HIDE DEF T
<1>5. IsFiniteSet(T \cup {y}) /\ Cardinality(T \cup {y}) = Cardinality(T) + 1
  BY <1>2, <1>4, FS_AddElement
<1>6. IsFiniteSet(Comet!PlacesOf(p)') /\ open'[p] = Cardinality(Comet!PlacesOf(p)')
  BY <1>2, <1>3, <1>4, <1>5
<1>7. \A q \in Procs : /\ IsFiniteSet(Comet!PlacesOf(q)')
                       /\ open'[q] = Cardinality(Comet!PlacesOf(q)')
  BY <1>1, <1>6 DEF Owned
<1> QED BY <1>7 DEF Owned

\* A step that changes neither the view nor who sends.
LEMMA ViewStays ==
  ASSUME ViewTypes, Owned, UNCHANGED <<infoMap, open, ch, handler>>,
         \A w \in Comet!Slots : /\ watcher'[w].at = "send" <=> watcher[w].at = "send"
                                /\ watcher[w].at = "send" => watcher'[w].info = watcher[w].info
  PROVE  ViewTypes' /\ Owned'
<1>1. \A p \in Procs : \A x : Place(p, x)' <=> Place(p, x) BY DEF Place
<1> QED BY <1>1, NoneMoves DEF ViewTypes

\* An event without a client is sent.
LEMMA EmptySend ==
  ASSUME ViewTypes, Owned, UNCHANGED <<infoMap, open, handler, watcher>>,
         NEW e \in {"add", "del"}, NEW n \in Nodes, Comet!Send(Comet!Event(e, n, Comet!Nil))
  PROVE  ViewTypes' /\ Owned'
<1> DEFINE ev == Comet!Event(e, n, Comet!Nil)
<1>1. ev \in CometEvent /\ ev.value = 0 BY Numbers DEF Comet!Event, CometEvent
<1> HIDE DEF ev
<1>2. /\ ch \in Seq(CometEvent) /\ Len(ch) \in Nat /\ Len(ch) < ChanCap /\ ch' = Append(ch, ev)
  BY DEF ViewTypes, Comet!Send, Comet!HasRoom, ev
<1>3. /\ ch' \in Seq(CometEvent) /\ Len(ch') = Len(ch) + 1
      /\ DOMAIN ch = 1..Len(ch) /\ DOMAIN ch' = 1..(Len(ch) + 1)
      /\ \A i \in 1..Len(ch) : ch'[i] = ch[i]
      /\ ch'[Len(ch) + 1] = ev
  BY <1>1, <1>2
<1>4. Len(ch') <= ChanCap BY <1>2, <1>3, CometNodesAssumption
<1>5. \A p \in Procs, i \in DOMAIN ch' : ch'[i].value = p <=> i \in DOMAIN ch /\ ch[i].value = p
  BY <1>1, <1>2, <1>3, Numbers
<1>6. DOMAIN ch \subseteq DOMAIN ch' BY <1>2, <1>3
<1>7. \A p \in Procs : \A x : Place(p, x)' <=> Place(p, x) BY <1>5, <1>6 DEF Place
<1> QED BY <1>3, <1>4, <1>7, NoneMoves DEF ViewTypes

CometInv == CometTypes /\ Owned

\* The cluster.
LEMMA ClusterKeeps == CometInv /\ Comet!Cluster => CometInv'
<1> SUFFICES ASSUME CometInv, Comet!Cluster PROVE CometInv' OBVIOUS
<1> USE DEF CometInv, CometTypes
<1>1. ASSUME UNCHANGED watcher
      PROVE  /\ WatcherTypes'
             /\ \A w \in Comet!Slots : /\ watcher'[w].at = "send" <=> watcher[w].at = "send"
                                       /\ watcher[w].at = "send" => watcher'[w].info = watcher[w].info
  BY <1>1 DEF WatcherTypes
<1>2. CASE Comet!LoseSession
  <2>1. ZkTypes' BY <1>2, CometNodesAssumption DEF Comet!LoseSession, ZkTypes
  <2> QED BY <1>2, <2>1, FireRootType, FireNodesType, ViewStays DEF Comet!LoseSession, Comet!view
<1>3. ASSUME NEW n \in Nodes, Comet!CreateDir(n) PROVE CometInv'
  <2>1. ZkTypes' BY <1>3 DEF Comet!CreateDir, ZkTypes
  <2> QED BY <1>1, <1>3, <2>1, FireRootType, ViewStays DEF Comet!CreateDir, Comet!view
<1>4. ASSUME NEW n \in Nodes, Comet!Register(n) PROVE CometInv'
  <2>1. born' = born + 1 /\ born' \in 0..MaxProcs /\ born + 1 \in Procs
    BY <1>4, CometNodesAssumption DEF Comet!Register, ZkTypes, Procs, Comet!Procs
  <2>2. ZkTypes' BY <1>4, <2>1 DEF Comet!Register, ZkTypes
  <2>3. RootTypes' BY <1>4 DEF Comet!Register, RootTypes
  <2> QED BY <1>4, <2>2, <2>3, FireNodesType, ViewStays DEF Comet!Register, Comet!view
<1>5. ASSUME NEW n \in Nodes, Comet!Die(n) PROVE CometInv'
  <2>1. ZkTypes' BY <1>5 DEF Comet!Die, ZkTypes
  <2>2. RootTypes' BY <1>5 DEF Comet!Die, RootTypes
  <2> QED BY <1>5, <2>1, <2>2, FireNodesType, ViewStays DEF Comet!Die, Comet!view
<1>6. ASSUME NEW n \in Nodes, Comet!RemoveDir(n) PROVE CometInv'
  <2>1. ZkTypes' BY <1>6 DEF Comet!RemoveDir, ZkTypes
  <2> QED BY <1>6, <2>1, FireRootType, FireNodesType, ViewStays DEF Comet!RemoveDir, Comet!view
<1> QED BY <1>2, <1>3, <1>4, <1>5, <1>6 DEF Comet!Cluster

\* The goroutine that watches the root.
LEMMA RootKeeps == CometInv /\ Comet!Root => CometInv'
<1> SUFFICES ASSUME CometInv, Comet!Root PROVE CometInv' OBVIOUS
<1> USE DEF CometInv, CometTypes
<1>1. UNCHANGED <<dirs, kids, born, removed, lost, infoMap, open, handler, watcher>>
  BY DEF Comet!Root, Comet!RootRead, Comet!RootAdd, Comet!RootAdded, Comet!RootDel,
         Comet!zk, Comet!view
<1>2. ZkTypes' /\ WatcherTypes' BY <1>1 DEF ZkTypes, WatcherTypes
<1>3. UNCHANGED ch => ViewTypes' /\ Owned' BY <1>1, ViewStays
<1>4. Comet!Reading \in [at : {"read"}, seen : {{}}, todo : {{}}, fired : {FALSE}]
      /\ Comet!Waiting \in [at : {"read", "wait"}, seen : {{}}, todo : {{}}, fired : {FALSE}]
  BY DEF Comet!Reading, Comet!Waiting
<1>5. Comet!Listed \subseteq Nodes BY DEF Comet!Listed
<1>6. CASE Comet!RootRead
  <2>1. RootTypes' BY <1>5, <1>6 DEF Comet!RootRead, RootTypes, ZkTypes
  <2> QED BY <1>2, <1>3, <1>6, <2>1 DEF Comet!RootRead
<1>7. CASE Comet!RootAdd
  <2>1. PICK n \in root.todo :
          /\ Comet!Sent(n, [root EXCEPT !.at = "added", !.todo = {}])
          /\ UNCHANGED ch \/ Comet!Send(Comet!Event("add", n, Comet!Nil))
    BY <1>7 DEF Comet!RootAdd
  <2>2. n \in Nodes BY DEF RootTypes
  <2>3. RootTypes' BY <2>1 DEF RootTypes, Comet!Sent
  <2>4. ViewTypes' /\ Owned' BY <1>1, <1>3, <2>1, <2>2, EmptySend
  <2> QED BY <1>2, <2>3, <2>4
<1>8. CASE Comet!RootAdded
  <2>1. RootTypes' BY <1>4, <1>5, <1>8 DEF Comet!RootAdded, RootTypes
  <2> QED BY <1>2, <1>3, <1>8, <2>1 DEF Comet!RootAdded
<1>9. CASE Comet!RootDel
  <2>1. PICK n \in root.todo :
          /\ Comet!Send(Comet!Event("del", n, Comet!Nil))
          /\ Comet!Sent(n, IF root.at = "kick" THEN Comet!Reading ELSE Comet!Waiting)
    BY <1>9 DEF Comet!RootDel
  <2>2. n \in Nodes BY DEF RootTypes
  <2>3. RootTypes' BY <1>4, <2>1 DEF RootTypes, Comet!Sent
  <2>4. ViewTypes' /\ Owned' BY <1>1, <2>1, <2>2, EmptySend
  <2> QED BY <1>2, <2>3, <2>4
<1> QED BY <1>6, <1>7, <1>8, <1>9 DEF Comet!Root

\* An event is taken: what the map holds for its node is destroyed, and every
\* other client keeps its place or moves one place on.
LEMMA TakeKeeps == CometInv /\ Comet!HandleTake => CometInv'
<1> SUFFICES ASSUME CometInv, Comet!HandleTake PROVE CometInv' OBVIOUS
<1> USE DEF CometInv, CometTypes
<1> DEFINE e == Head(ch)
<1>1. /\ ch \in Seq(CometEvent) /\ Len(ch) \in Nat /\ Len(ch) > 0 /\ DOMAIN ch = 1..Len(ch)
      /\ e = ch[1] /\ e \in CometEvent /\ e.key \in Nodes /\ e.value \in Procs \cup {0}
      /\ ch' = Tail(ch) /\ ch' \in Seq(CometEvent) /\ Len(ch') = Len(ch) - 1
      /\ DOMAIN ch' = 1..(Len(ch) - 1)
      /\ \A i \in 1..(Len(ch) - 1) : ch'[i] = ch[i + 1]
  BY DEF Comet!HandleTake, ViewTypes, CometEvent
<1>2. /\ handler = Comet!NoEvent /\ handler' = e /\ UNCHANGED <<infoMap, root>>
      /\ UNCHANGED <<dirs, kids, born, removed, lost>>
      /\ handler.key = NoNode /\ handler.value = 0
  BY DEF Comet!HandleTake, Comet!zk, Comet!NoEvent, Comet!Event, Comet!Nil
<1>3. ZkTypes' /\ RootTypes' BY <1>2 DEF ZkTypes, RootTypes
<1>4. ViewTypes' BY <1>1, <1>2, CometNodesAssumption DEF ViewTypes
<1>5. /\ WatcherTypes'
      /\ \A w \in Comet!Slots : /\ watcher'[w].at = "send" <=> watcher[w].at = "send"
                                /\ watcher[w].at = "send" => watcher'[w].info = watcher[w].info
  <2>1. CASE e.event # "add"
    <3>1. UNCHANGED watcher BY <2>1 DEF Comet!HandleTake
    <3> QED BY <3>1 DEF WatcherTypes
  <2>2. CASE e.event = "add"
    <3>1. PICK w \in Comet!Slots : /\ watcher[w].at = "none"
                                   /\ watcher' = [watcher EXCEPT ![w] = Comet!Watching(e.key)]
      BY <2>2 DEF Comet!HandleTake
    <3>2. Goroutine(Comet!Watching(e.key)) /\ Comet!Watching(e.key).at = "read"
      BY <1>1, WatchingType
    <3>3. WatcherTypes' /\ \A x \in Comet!Slots :
            watcher'[x] = IF x = w THEN Comet!Watching(e.key) ELSE watcher[x]
      BY <3>1, <3>2, OneGoesOn
    <3> QED BY <3>1, <3>2, <3>3
  <2> QED BY <2>1, <2>2
<1>6. open' = [p \in Procs |-> IF p = infoMap[e.key] THEN open[p] - 1 ELSE open[p]]
  BY <1>1 DEF Comet!HandleTake, Comet!Replaced, Procs
<1> HIDE DEF e
<1>7. ASSUME NEW p \in Procs
      PROVE  /\ IsFiniteSet(Comet!PlacesOf(p)') /\ open'[p] = Cardinality(Comet!PlacesOf(p)')
             /\ open'[p] \in Nat
  <2> DEFINE S == Comet!PlacesOf(p)
             x == <<"map", e.key>>
             M == S \ {x}
             T == Comet!PlacesOf(p)'
             On(y) == IF y = <<"event", 1>> THEN <<"handler", 0>>
                      ELSE IF y[1] = "event" THEN <<"event", y[2] - 1>> ELSE y
             f == [y \in M |-> On(y)]
  <2>1. IsFiniteSet(S) /\ open[p] = Cardinality(S) BY DEF Owned
  <2>2. x \in S <=> infoMap[e.key] = p
    BY <1>1, <1>2, Numbers, PlacesAre DEF Place
  <2>3. \A y : y \in M <=> \/ \E n \in Nodes : y = <<"map", n>> /\ infoMap[n] = p /\ n # e.key
                           \/ \E i \in 1..Len(ch) : y = <<"event", i>> /\ ch[i].value = p
                           \/ \E w \in Comet!Slots : y = <<"watcher", w>> /\ watcher[w].at = "send"
                                                     /\ watcher[w].info = p
    <3>1. \A y : y \in S <=> Place(p, y) BY PlacesAre
    <3>2. handler.value # p /\ \A n \in Nodes : n # handler.key BY <1>2, Numbers
    <3> HIDE DEF S
    <3> QED BY <1>1, <3>1, <3>2 DEF Place
  <2>4. \A y : y \in T <=> \/ \E n \in Nodes : y = <<"map", n>> /\ infoMap[n] = p /\ n # e.key
                           \/ \E i \in 1..(Len(ch) - 1) : y = <<"event", i>> /\ ch[i + 1].value = p
                           \/ y = <<"handler", 0>> /\ ch[1].value = p
                           \/ \E w \in Comet!Slots : y = <<"watcher", w>> /\ watcher[w].at = "send"
                                                     /\ watcher[w].info = p
    <3>1. \A y : y \in T <=> Place(p, y)' BY PlacesAre
    <3> HIDE DEF T
    <3> QED BY <1>1, <1>2, <1>5, <3>1, SMTT(30) DEF Place
  <2>5. IsFiniteSet(M) /\ open'[p] = Cardinality(M) /\ Cardinality(M) \in Nat
    <3>1. open'[p] = IF x \in S THEN open[p] - 1 ELSE open[p] BY <1>6, <2>2
    <3> HIDE DEF S, x
    <3>2. IsFiniteSet(M) /\ Cardinality(M) = IF x \in S THEN Cardinality(S) - 1 ELSE Cardinality(S)
      BY <2>1, FS_RemoveElement
    <3> QED BY <2>1, <3>1, <3>2, FS_CardinalityType
  <2> DEFINE Stays(y) == \/ \E n \in Nodes : y = <<"map", n>> /\ infoMap[n] = p /\ n # e.key
                         \/ \E w \in Comet!Slots : y = <<"watcher", w>> /\ watcher[w].at = "send"
                                                   /\ watcher[w].info = p
  <2>6. \A y : Stays(y) => /\ On(y) = y /\ y[1] # "event" /\ y # <<"handler", 0>>
                           /\ y \in M /\ y \in T
    BY <2>3, <2>4
  <2>7. /\ On(<<"event", 1>>) = <<"handler", 0>>
        /\ \A i \in Int : i # 1 => On(<<"event", i>>) = <<"event", i - 1>>
    OBVIOUS
  <2>8. \A y \in M : \/ Stays(y)
                     \/ \E i \in 1..Len(ch) : y = <<"event", i>> /\ ch[i].value = p
    BY <2>3
  <2>9. \A y \in T : \/ Stays(y)
                     \/ \E i \in 1..(Len(ch) - 1) : y = <<"event", i>> /\ ch[i + 1].value = p
                     \/ y = <<"handler", 0>> /\ ch[1].value = p
    BY <2>4
  <2>10. /\ \A i \in 1..Len(ch) : ch[i].value = p => <<"event", i>> \in M
         /\ \A i \in 1..(Len(ch) - 1) : ch[i + 1].value = p => <<"event", i>> \in T
         /\ ch[1].value = p => <<"handler", 0>> \in T
    BY <2>3, <2>4
  <2>11. \A i \in Int : \A y : Stays(y) => y # <<"event", i>> /\ y # <<"handler", 0>>
    OBVIOUS
  <2> HIDE DEF M, T, Stays, On
  <2>12. \A y \in M : On(y) \in T
    <3> SUFFICES ASSUME NEW y \in M, ~Stays(y) PROVE On(y) \in T BY <2>6
    <3>1. PICK i \in 1..Len(ch) : y = <<"event", i>> /\ ch[i].value = p BY <2>8
    <3>2. CASE i = 1
      <4>1. y = <<"event", 1>> /\ ch[1].value = p BY <3>1, <3>2
      <4>2. On(y) = <<"handler", 0>> BY <2>7, <4>1
      <4>3. <<"handler", 0>> \in T BY <2>10, <4>1
      <4> QED BY <4>2, <4>3
    <3>3. CASE i # 1
      <4>1. i \in Int /\ i - 1 \in 1..(Len(ch) - 1) /\ (i - 1) + 1 = i BY <1>1, <3>3
      <4>2. On(y) = <<"event", i - 1>> BY <2>7, <3>1, <3>3, <4>1
      <4>3. <<"event", i - 1>> \in T BY <2>10, <3>1, <4>1
      <4> QED BY <4>2, <4>3
    <3> QED BY <3>2, <3>3
  <2>13. \A y, z \in M : On(y) = On(z) => y = z
    <3>1. \A y \in M : \/ Stays(y) /\ On(y) = y
                       \/ \E i \in 1..Len(ch) : y = <<"event", i>> /\
                            On(y) = IF i = 1 THEN <<"handler", 0>> ELSE <<"event", i - 1>>
      BY <2>6, <2>7, <2>8
    <3>2. \A i \in 1..Len(ch) : i - 1 \in Int BY <1>1
    <3>3. ASSUME NEW y \in M, NEW z \in M, On(y) = On(z), ~Stays(y), ~Stays(z) PROVE y = z
      BY <3>1, <3>3
    <3>4. ASSUME NEW y \in M, NEW z \in M, On(y) = On(z), Stays(y), ~Stays(z) PROVE FALSE
      BY <2>6, <2>11, <3>1, <3>2, <3>4
    <3> QED BY <2>6, <3>3, <3>4
  <2>14. \A t \in T : \E y \in M : On(y) = t
    <3> SUFFICES ASSUME NEW t \in T, ~Stays(t) PROVE \E y \in M : On(y) = t BY <2>6
    <3>1. CASE t = <<"handler", 0>> /\ ch[1].value = p
      BY <1>1, <2>7, <2>10, <3>1
    <3>2. ASSUME NEW i \in 1..(Len(ch) - 1), t = <<"event", i>>, ch[i + 1].value = p
          PROVE  \E y \in M : On(y) = t
      <4>1. i + 1 \in 1..Len(ch) /\ i + 1 # 1 /\ (i + 1) - 1 = i /\ i + 1 \in Int BY <1>1
      <4>2. <<"event", i + 1>> \in M BY <2>10, <3>2, <4>1
      <4>3. On(<<"event", i + 1>>) = t BY <2>7, <3>2, <4>1
      <4> QED BY <4>2, <4>3
    <3> QED BY <2>9, <3>1, <3>2
  <2>15. f \in Bijection(M, T)
    <3> HIDE DEF M, T, On
    <3>1. f \in [M -> T] /\ (\A y, z \in M : f[y] = f[z] => y = z)
          /\ \A t \in T : \E y \in M : f[y] = t
      BY <2>12, <2>13, <2>14
    <3> HIDE DEF f
    <3> QED BY <3>1, Fun_IsBij
  <2> HIDE DEF M, T, f
  <2>16. IsFiniteSet(T) /\ Cardinality(T) = Cardinality(M)
    BY <2>5, <2>15, Fun_ExistsBij, FS_Bijection
  <2> QED BY <2>5, <2>16 DEF T
<1>8. open' \in [Procs -> Nat] BY <1>6, <1>7
<1> QED BY <1>3, <1>4, <1>5, <1>7, <1>8 DEF Owned

\* The map is replaced: an update's client goes from the event into it.
LEMMA ReplaceKeeps == CometInv /\ Comet!HandleReplace => CometInv'
<1> SUFFICES ASSUME CometInv, Comet!HandleReplace PROVE CometInv' OBVIOUS
<1> USE DEF CometInv, CometTypes
<1> DEFINE k == handler.key
           v == IF handler.event = "del" THEN Missing ELSE handler.value
<1>1. /\ handler \in CometEvent /\ k \in Nodes /\ handler' = Comet!NoEvent
      /\ handler.value \in Procs \cup {0}
      /\ handler.value \in Procs => v = handler.value
      /\ v \in Procs \cup {Missing, 0}
  BY Numbers DEF Comet!HandleReplace, ViewTypes, CometEvent
<1>2. /\ infoMap' = [infoMap EXCEPT ![k] = v] /\ UNCHANGED <<open, ch, root, watcher>>
      /\ UNCHANGED <<dirs, kids, born, removed, lost>>
  BY DEF Comet!HandleReplace, Comet!zk
<1> HIDE DEF v, k
<1>3. /\ infoMap' \in [Nodes -> Procs \cup {Missing, 0}]
      /\ \A n \in Nodes : infoMap'[n] = IF n = k THEN v ELSE infoMap[n]
  BY <1>1, <1>2 DEF ViewTypes
<1>4. ZkTypes' /\ RootTypes' /\ ViewTypes' /\ WatcherTypes'
  BY <1>1, <1>2, <1>3 DEF ZkTypes, RootTypes, ViewTypes, WatcherTypes
<1>5. handler'.key = NoNode /\ handler'.value = 0
  BY <1>1 DEF Comet!NoEvent, Comet!Event, Comet!Nil
<1>6. \A n \in Nodes : n # handler'.key BY <1>5, Numbers
<1>7. CASE handler.value \notin Procs
  <2>1. v \notin Procs /\ handler'.value \notin Procs
    BY <1>1, <1>5, <1>7, Numbers DEF v
  <2>2. \A q \in Procs : \A z : Place(q, z)' <=> Place(q, z)
    BY <1>2, <1>3, <1>6, <1>7, <2>1 DEF Place, k
  <2> QED BY <1>2, <1>4, <2>2, NoneMoves
<1>8. CASE handler.value \in Procs
  <2> PICK p \in Procs : p = handler.value BY <1>8
  <2> PICK x : x = <<"handler", 0>> OBVIOUS
  <2> PICK y : y = <<"map", k>> OBVIOUS
  <2>1. v = p /\ handler'.value \notin Procs BY <1>1, <1>5, <1>8, Numbers
  <2>2. Place(p, x) /\ ~Place(p, y) BY DEF Place, k
  <2>3. \A q \in Procs \ {p} : \A z : Place(q, z)' <=> Place(q, z)
    BY <1>2, <1>3, <1>6, <2>1 DEF Place, k
  <2>4. \A z : Place(p, z)' <=> (Place(p, z) /\ z # x) \/ z = y
    BY <1>1, <1>2, <1>3, <1>6, <1>8, <2>1 DEF Place, k
  <2> QED BY <1>2, <1>4, <2>2, <2>3, <2>4, OneMoves
<1> QED BY <1>7, <1>8

\* A goroutine that reads, ends or fails takes no client along.
LEMMA WatcherKeeps ==
  ASSUME CometInv, NEW w \in Comet!Slots,
         Comet!WatcherRead(w) \/ Comet!WatcherEnd(w) \/ Comet!RegisterFail(w)
  PROVE  CometInv'
<1> USE DEF CometInv, CometTypes
<1>1. /\ UNCHANGED <<infoMap, open, ch, handler, root>>
      /\ UNCHANGED <<dirs, kids, born, removed, lost>>
      /\ watcher[w].at \in {"read", "register"}
  BY DEF Comet!WatcherRead, Comet!WatcherEnd, Comet!RegisterFail, Comet!zk, Comet!view
<1>2. ZkTypes' /\ RootTypes' BY <1>1 DEF ZkTypes, RootTypes
<1>3. \E v : Goroutine(v) /\ v.at # "send" /\ watcher' = [watcher EXCEPT ![w] = v]
  <2>1. Goroutine(watcher[w]) BY DEF WatcherTypes
  <2>2. CASE Comet!WatcherRead(w)
    <3> DEFINE n == watcher[w].node
               p == Comet!FirstOf(kids[n])
               v == [watcher[w] EXCEPT !.at = "register", !.info = p]
    <3>1. n \in Nodes BY <2>1, <1>1 DEF Goroutine
    <3>2. kids[n] \subseteq Procs /\ kids[n] # {} BY <2>2, <3>1 DEF Comet!WatcherRead, ZkTypes
    <3>3. p \in Procs BY <3>2, FirstIsOne
    <3>4. watcher' = [watcher EXCEPT ![w] = v] BY <2>2 DEF Comet!WatcherRead
    <3> HIDE DEF p, n
    <3>5. Goroutine(v) /\ v.at = "register" BY <1>1, <2>1, <3>3 DEF Goroutine
    <3> QED BY <3>4, <3>5
  <2>3. CASE Comet!WatcherEnd(w)
    BY <2>3, Numbers DEF Comet!WatcherEnd, Comet!Ended, Comet!NoGoroutine, Goroutine
  <2>4. CASE Comet!RegisterFail(w)
    <3> DEFINE n == watcher[w].node
    <3>1. n \in Nodes BY <2>1, <1>1 DEF Goroutine
    <3>2. watcher' = [watcher EXCEPT ![w] = Comet!Watching(n)] BY <2>4 DEF Comet!RegisterFail
    <3> QED BY <3>1, <3>2, WatchingType
  <2> QED BY <2>2, <2>3, <2>4
<1>4. PICK v : Goroutine(v) /\ v.at # "send" /\ watcher' = [watcher EXCEPT ![w] = v] BY <1>3
<1>5. WatcherTypes' /\ \A x \in Comet!Slots : watcher'[x] = IF x = w THEN v ELSE watcher[x]
  BY <1>4, OneGoesOn
<1>6. ViewTypes' /\ Owned' BY <1>1, <1>4, <1>5, ViewStays
<1> QED BY <1>2, <1>5, <1>6

\* A client that is made is with its goroutine.
LEMMA RegisterKeeps ==
  ASSUME CometInv, NEW w \in Comet!Slots, Comet!RegisterOk(w) PROVE CometInv'
<1> USE DEF CometInv, CometTypes
<1>1. watcher[w].at = "register" /\ Goroutine(watcher[w]) /\ watcher[w].info \in Procs
  <2>1. Goroutine(watcher[w]) BY DEF WatcherTypes
  <2> QED BY <2>1 DEF Goroutine, Comet!RegisterOk
<1> PICK p \in Procs : p = watcher[w].info BY <1>1
<1> PICK y : y = <<"watcher", w>> OBVIOUS
<1>2. /\ UNCHANGED <<infoMap, ch, handler, root>>
      /\ UNCHANGED <<dirs, kids, born, removed, lost>>
      /\ watcher[w].at = "register" /\ open' = [open EXCEPT ![p] = @ + 1]
  BY DEF Comet!RegisterOk, Comet!zk
<1>3. ZkTypes' /\ RootTypes' /\ ViewTypes' BY <1>2 DEF ZkTypes, RootTypes, ViewTypes
<1>4. PICK v : /\ Goroutine(v) /\ v.at = "send" /\ v.info = p
               /\ watcher' = [watcher EXCEPT ![w] = v]
  <2> DEFINE u == [watcher[w] EXCEPT !.at = "send"]
  <2>1. Goroutine(u) /\ u.at = "send" /\ u.info = p BY <1>1 DEF Goroutine
  <2>2. watcher' = [watcher EXCEPT ![w] = u] BY DEF Comet!RegisterOk
  <2> QED BY <2>1, <2>2
<1>5. WatcherTypes' /\ \A x \in Comet!Slots : watcher'[x] = IF x = w THEN v ELSE watcher[x]
  BY <1>2, <1>4, OneGoesOn
<1>6. ~Place(p, y) BY <1>2 DEF Place
<1>7. \A q \in Procs \ {p} : \A z : Place(q, z)' <=> Place(q, z)
  BY <1>2, <1>4, <1>5 DEF Place
<1>8. \A z : Place(p, z)' <=> Place(p, z) \/ z = y
  BY <1>2, <1>4, <1>5 DEF Place
<1>9. \A q \in Procs \ {p} : Comet!PlacesOf(q)' = Comet!PlacesOf(q) BY <1>7, PlacesAre
<1> PICK S : S = Comet!PlacesOf(p) OBVIOUS
<1>10. Comet!PlacesOf(p)' = S \cup {y} /\ y \notin S BY <1>6, <1>8, PlacesAre
<1>11. IsFiniteSet(S) /\ open[p] = Cardinality(S) /\ Cardinality(S) \in Nat
  BY <1>4, FS_CardinalityType DEF Owned
<1>12. IsFiniteSet(S \cup {y}) /\ Cardinality(S \cup {y}) = Cardinality(S) + 1
  BY <1>10, <1>11, FS_AddElement
<1>13. open' \in [Procs -> Nat] /\ \A q \in Procs : open'[q] = IF q = p THEN open[q] + 1 ELSE open[q]
  BY <1>2, <1>4 DEF Owned
<1>14. Owned' BY <1>9, <1>10, <1>11, <1>12, <1>13 DEF Owned
<1> QED BY <1>3, <1>5, <1>14

\* An update is sent: its client goes from the goroutine into the channel.
LEMMA SendKeeps ==
  ASSUME CometInv, NEW w \in Comet!Slots, Comet!WatcherSend(w) PROVE CometInv'
<1> USE DEF CometInv, CometTypes
<1>1. watcher[w].at = "send" /\ watcher[w].info \in Procs /\ watcher[w].node \in Nodes
  <2>1. Goroutine(watcher[w]) BY DEF WatcherTypes
  <2> QED BY <2>1 DEF Goroutine, Comet!WatcherSend
<1> PICK p \in Procs : p = watcher[w].info BY <1>1
<1> PICK n \in Nodes : n = watcher[w].node BY <1>1
<1> PICK ev : ev = Comet!Event("update", n, p) OBVIOUS
<1> PICK from : from = <<"watcher", w>> OBVIOUS
<1> PICK to : to = <<"event", Len(ch) + 1>> OBVIOUS
<1>2. /\ UNCHANGED <<infoMap, open, handler, root>>
      /\ UNCHANGED <<dirs, kids, born, removed, lost>>
      /\ watcher[w].at = "send"
  BY DEF Comet!WatcherSend, Comet!zk, Comet!view
<1>3. Len(ch) < ChanCap /\ ch' = Append(ch, ev)
  BY DEF Comet!WatcherSend, Comet!Send, Comet!HasRoom
<1>4. ZkTypes' /\ RootTypes' BY <1>2 DEF ZkTypes, RootTypes
<1>5. PICK v : /\ Goroutine(v) /\ v.at # "send"
               /\ watcher' = [watcher EXCEPT ![w] = v]
  <2> DEFINE u == IF watcher[w].fired THEN Comet!Watching(n)
                  ELSE [Comet!Watching(n) EXCEPT !.at = "wait"]
  <2>1. Goroutine(Comet!Watching(n)) /\ Comet!Watching(n).at = "read" BY WatchingType
  <2>2. Goroutine(u) /\ u.at # "send" BY <2>1 DEF Goroutine
  <2>3. watcher' = [watcher EXCEPT ![w] = u] BY DEF Comet!WatcherSend
  <2> QED BY <2>2, <2>3
<1>6. ev \in CometEvent /\ ev.value = p BY DEF Comet!Event, CometEvent
<1>7. WatcherTypes' /\ \A x \in Comet!Slots : watcher'[x] = IF x = w THEN v ELSE watcher[x]
  BY <1>5, OneGoesOn
<1>8. /\ ch \in Seq(CometEvent) /\ Len(ch) \in Nat
      /\ ch' \in Seq(CometEvent) /\ Len(ch') = Len(ch) + 1
      /\ DOMAIN ch = 1..Len(ch) /\ DOMAIN ch' = 1..(Len(ch) + 1)
      /\ \A i \in 1..Len(ch) : ch'[i] = ch[i]
      /\ ch'[Len(ch) + 1] = ev
  BY <1>3, <1>6 DEF ViewTypes
<1>9. ViewTypes' BY <1>3, <1>2, <1>8, CometNodesAssumption DEF ViewTypes
<1>10. \A i \in DOMAIN ch' : \A q :
        ch'[i].value = q <=> (i \in DOMAIN ch /\ ch[i].value = q) \/ (i = Len(ch) + 1 /\ q = p)
  BY <1>6, <1>8
<1>11. DOMAIN ch \subseteq DOMAIN ch' /\ Len(ch) + 1 \in DOMAIN ch' /\ Len(ch) + 1 \notin DOMAIN ch
  BY <1>8
<1>12. Place(p, from) /\ ~Place(p, to) BY <1>2, <1>11 DEF Place
<1>13. \A q : \A u \in Comet!Slots :
        watcher'[u].at = "send" /\ watcher'[u].info = q <=>
          u # w /\ watcher[u].at = "send" /\ watcher[u].info = q
  BY <1>5, <1>7
<1>14. \A q, i : i \in DOMAIN ch' /\ ch'[i].value = q <=>
          \/ i \in DOMAIN ch /\ ch[i].value = q
          \/ i = Len(ch) + 1 /\ q = p
  BY <1>10, <1>11
<1>15. \A q \in Procs \ {p} : \A z : Place(q, z)' <=> Place(q, z)
  BY <1>2, <1>13, <1>14, ZenonT(30) DEF Place
<1>16. ASSUME NEW z PROVE Place(p, z)' <=> (Place(p, z) /\ z # from) \/ z = to
  <2>1. ASSUME NEW i, z = <<"event", i>>
        PROVE  Place(p, z)' <=> Place(p, z) \/ z = to
    <3>1. z = to <=> i = Len(ch) + 1 BY <2>1
    <3>2. Place(p, z) <=> i \in DOMAIN ch /\ ch[i].value = p BY <2>1 DEF Place
    <3>3. Place(p, z)' <=> i \in DOMAIN ch' /\ ch'[i].value = p BY <2>1 DEF Place
    <3> QED BY <1>14, <3>1, <3>2, <3>3
  <2>2. ASSUME NEW u \in Comet!Slots, z = <<"watcher", u>>
        PROVE  Place(p, z)' <=> Place(p, z) /\ z # from
    <3>1. z = from <=> u = w BY <2>2
    <3>2. Place(p, z) <=> watcher[u].at = "send" /\ watcher[u].info = p BY <2>2 DEF Place
    <3>3. Place(p, z)' <=> watcher'[u].at = "send" /\ watcher'[u].info = p BY <2>2 DEF Place
    <3> QED BY <1>13, <3>1, <3>2, <3>3
  <2>3. ASSUME \A i : z # <<"event", i>>, \A u \in Comet!Slots : z # <<"watcher", u>>
        PROVE  (Place(p, z)' <=> Place(p, z)) /\ z # to /\ z # from
    BY <1>2, <2>3 DEF Place
  <2>4. /\ \A i : <<"event", i>> # from
        /\ \A u : <<"watcher", u>> # to
    OBVIOUS
  <2> QED BY <2>1, <2>2, <2>3, <2>4
<1>17. Owned' BY <1>2, <1>12, <1>15, <1>16, OneMoves
<1> QED BY <1>4, <1>7, <1>9, <1>17

\* At the start there is no client and no place.
LEMMA CometBegins == Comet!Init => CometInv
<1> SUFFICES ASSUME Comet!Init PROVE CometInv OBVIOUS
<1> USE DEF Comet!Init
<1>1. ZkTypes /\ RootTypes BY CometNodesAssumption DEF ZkTypes, RootTypes
<1>2. ViewTypes BY CometNodesAssumption DEF ViewTypes
<1>3. Goroutine(Comet!NoGoroutine) /\ Comet!NoGoroutine.at = "none"
  BY Numbers DEF Goroutine, Comet!NoGoroutine, Comet!Nil
<1>4. WatcherTypes BY <1>3 DEF WatcherTypes
<1>5. handler.value = 0 BY DEF Comet!NoEvent, Comet!Event, Comet!Nil
<1>6. ASSUME NEW p \in Procs PROVE Comet!PlacesOf(p) = {}
  <2>1. \A x : ~Place(p, x) BY <1>3, <1>5, Numbers DEF Place
  <2> QED BY <2>1, PlacesAre
<1>7. Owned
  <2>1. open \in [Procs -> Nat] /\ \A p \in Procs : open[p] = 0 BY DEF Procs
  <2> QED BY <1>6, <2>1, FS_EmptySet DEF Owned
<1> QED BY <1>1, <1>2, <1>4, <1>7 DEF CometInv, CometTypes

\* A step of the watchers that is about the comet nodes.
LEMMA CometGoesOn == CometInv /\ Comet!Next => CometInv'
<1>1. ASSUME CometInv, NEW w \in Comet!Slots, Comet!Watcher(w) PROVE CometInv'
  BY <1>1, WatcherKeeps, RegisterKeeps, SendKeeps DEF Comet!Watcher
<1> QED BY <1>1, ClusterKeeps, RootKeeps, TakeKeeps, ReplaceKeeps DEF Comet!Next, Comet!Handler

-----------------------------------------------------------------------------
(* The comet nodes: what the map follows. *)

Attentive == {"read", "register", "send", "wait"}
Busy      == {"read", "register", "send"}

\* Node n is in the map, or an event about it is on its way.
Known(n) == infoMap[n] # Missing \/ handler.key = n \/ \E i \in DOMAIN ch : ch[i].key = n

\* It is being added, and will be watched then.
AddUnderWay(n) == \E i \in DOMAIN ch : ch[i].key = n /\ ch[i].event = "add"

\* A goroutine that watches it is at one of the places in S.
WatchedBy(n, S) == \E w \in Comet!Slots : watcher[w].node = n /\ watcher[w].at \in S

\* The map will have v for it in the end, if nothing more is sent.
LastIs(n, v) ==
  \/ \E i \in DOMAIN ch :
       ch[i].key = n /\ ch[i].value = v /\ \A j \in DOMAIN ch : ch[j].key = n => j <= i
  \/ /\ \A i \in DOMAIN ch : ch[i].key # n
     /\ IF handler.key = n THEN handler.value = v ELSE infoMap[n] = v

\* It is not being deleted.
NoneDeletes(n) ==
  /\ \A i \in DOMAIN ch : ch[i].key = n => ch[i].event # "del"
  /\ handler.key = n => handler.event # "del"

\* A node that is known has a watcher, or gets one, and its last update is about the
\* process in service unless another one is still to come.
Served(n) ==
  /\ WatchedBy(n, Attentive) => Known(n)
  /\ Known(n) => /\ n \in dirs
                 /\ AddUnderWay(n) \/ WatchedBy(n, Attentive)
                 /\ \/ AddUnderWay(n) \/ WatchedBy(n, Busy)
                    \/ \E p \in Procs : Comet!InService(n, p) /\ LastIs(n, p)

\* What the goroutine on the root knows of a node.
RootKnows(n) ==
  /\ n \in root.seen => n \in dirs
  /\ Known(n) /\ root.at \in {"add", "added", "del"} => n \in root.seen
  /\ n \in root.seen /\ (root.at = "add" => n \notin root.todo) => Known(n)
  /\ root.at = "wait" /\ n \in dirs => Known(n)
  /\ root.at \in {"kick", "del"} => n \notin root.todo

\* Until its watch fires, what a goroutine has read is still so.
RootIsFresh ==
  /\ root.at = "add" => root.todo \subseteq root.seen
  /\ root.at \in {"add", "added", "del"} /\ ~root.fired => dirs \subseteq root.seen

WatchersAreFresh ==
  \A w \in Comet!Slots : watcher[w].at \in {"register", "send"} /\ ~watcher[w].fired =>
    Comet!InService(watcher[w].node, watcher[w].info)

Followed(n) == NoneDeletes(n) /\ Served(n) /\ RootKnows(n)

FollowInv ==
  /\ RootIsFresh /\ WatchersAreFresh
  /\ \A n \in Nodes \ removed : Followed(n)

\* No event comes, goes or takes effect.
LEMMA EventsStay ==
  ASSUME UNCHANGED <<infoMap, ch, handler>>, NEW n \in Nodes
  PROVE  /\ Known(n)' <=> Known(n)
         /\ AddUnderWay(n)' <=> AddUnderWay(n)
         /\ NoneDeletes(n)' <=> NoneDeletes(n)
         /\ \A v : LastIs(n, v)' <=> LastIs(n, v)
BY DEF Known, AddUnderWay, NoneDeletes, LastIs

\* An event is appended to the channel.
LEMMA EventAppended ==
  ASSUME ViewTypes, NEW ev \in CometEvent, ch' = Append(ch, ev), UNCHANGED <<infoMap, handler>>,
         NEW n \in Nodes
  PROVE  /\ Known(n)' <=> Known(n) \/ ev.key = n
         /\ AddUnderWay(n)' <=> AddUnderWay(n) \/ (ev.key = n /\ ev.event = "add")
         /\ NoneDeletes(n)' <=> NoneDeletes(n) /\ ~(ev.key = n /\ ev.event = "del")
         /\ ev.key = n => LastIs(n, ev.value)'
         /\ ev.key # n => \A v : LastIs(n, v) => LastIs(n, v)'
<1>1. /\ ch \in Seq(CometEvent) /\ Len(ch) \in Nat
      /\ DOMAIN ch = 1..Len(ch) /\ DOMAIN ch' = 1..(Len(ch) + 1)
      /\ \A i \in 1..Len(ch) : ch'[i] = ch[i]
      /\ ch'[Len(ch) + 1] = ev
  BY DEF ViewTypes
<1>2. \A i : i \in DOMAIN ch' <=> i \in DOMAIN ch \/ i = Len(ch) + 1 BY <1>1
<1>3. \A i \in DOMAIN ch : ch'[i] = ch[i] BY <1>1
<1>4. Known(n)' <=> Known(n) \/ ev.key = n BY <1>1, <1>2, <1>3 DEF Known
<1>5. AddUnderWay(n)' <=> AddUnderWay(n) \/ (ev.key = n /\ ev.event = "add")
  BY <1>1, <1>2, <1>3 DEF AddUnderWay
<1>6. NoneDeletes(n)' <=> NoneDeletes(n) /\ ~(ev.key = n /\ ev.event = "del")
  BY <1>1, <1>2, <1>3 DEF NoneDeletes
<1>7. ev.key = n => LastIs(n, ev.value)'
  <2>1. Len(ch) + 1 \in DOMAIN ch' /\ \A j \in DOMAIN ch' : j <= Len(ch) + 1 BY <1>1
  <2> QED BY <1>1, <2>1 DEF LastIs
<1>8. ASSUME ev.key # n, NEW v, LastIs(n, v) PROVE LastIs(n, v)'
  BY <1>1, <1>2, <1>3, <1>8 DEF LastIs
<1> QED BY <1>4, <1>5, <1>6, <1>7, <1>8

\* An event is taken from the channel.
LEMMA EventTaken ==
  ASSUME ViewTypes, handler = Comet!NoEvent, ch # <<>>,
         handler' = Head(ch), ch' = Tail(ch), UNCHANGED infoMap, NEW n \in Nodes
  PROVE  /\ Known(n)' <=> Known(n)
         /\ AddUnderWay(n) => AddUnderWay(n)' \/ (Head(ch).event = "add" /\ Head(ch).key = n)
         /\ Head(ch).key = n => Known(n)
         /\ NoneDeletes(n) => NoneDeletes(n)'
         /\ \A v : LastIs(n, v) => LastIs(n, v)'
<1>1. /\ ch \in Seq(CometEvent) /\ Len(ch) \in Nat /\ Len(ch) > 0
      /\ DOMAIN ch = 1..Len(ch) /\ DOMAIN ch' = 1..(Len(ch) - 1)
      /\ handler' = ch[1] /\ Head(ch) = ch[1]
      /\ \A i \in 1..(Len(ch) - 1) : ch'[i] = ch[i + 1]
  BY DEF ViewTypes
<1>2. handler.key # n BY Numbers DEF Comet!NoEvent, Comet!Event
<1>3. ASSUME NEW i \in DOMAIN ch
      PROVE  i = 1 \/ (i - 1 \in DOMAIN ch' /\ ch'[i - 1] = ch[i])
  <2>1. i # 1 => i - 1 \in 1..(Len(ch) - 1) /\ (i - 1) + 1 = i BY <1>1
  <2> QED BY <1>1, <2>1
<1>4. \A i \in DOMAIN ch' : i + 1 \in DOMAIN ch /\ ch'[i] = ch[i + 1] BY <1>1
<1>5. 1 \in DOMAIN ch BY <1>1
<1>6. Known(n)' <=> Known(n)
  <2>1. (\E i \in DOMAIN ch : ch[i].key = n) <=>
          handler'.key = n \/ \E i \in DOMAIN ch' : ch'[i].key = n
    <3>1. ASSUME NEW i \in DOMAIN ch, ch[i].key = n
          PROVE  handler'.key = n \/ \E j \in DOMAIN ch' : ch'[j].key = n
      <4>1. CASE i = 1 BY <1>1, <3>1, <4>1
      <4>2. CASE i - 1 \in DOMAIN ch' /\ ch'[i - 1] = ch[i] BY <3>1, <4>2
      <4> QED BY <1>3, <4>1, <4>2
    <3>2. handler'.key = n => \E i \in DOMAIN ch : ch[i].key = n BY <1>1, <1>5
    <3>3. (\E i \in DOMAIN ch' : ch'[i].key = n) => \E i \in DOMAIN ch : ch[i].key = n
      BY <1>4
    <3> QED BY <3>1, <3>2, <3>3
  <2> QED BY <1>2, <2>1 DEF Known
<1>7. AddUnderWay(n) => AddUnderWay(n)' \/ (Head(ch).event = "add" /\ Head(ch).key = n)
  BY <1>1, <1>3 DEF AddUnderWay
<1>8. Head(ch).key = n => Known(n) BY <1>1, <1>5 DEF Known
<1>9. NoneDeletes(n) => NoneDeletes(n)' BY <1>1, <1>4, <1>5 DEF NoneDeletes
<1>10. ASSUME NEW v, LastIs(n, v) PROVE LastIs(n, v)'
  <2>1. CASE \A i \in DOMAIN ch : ch[i].key # n
    BY <1>1, <1>2, <1>4, <1>5, <1>10, <2>1 DEF LastIs
  <2>2. ASSUME NEW i \in DOMAIN ch, ch[i].key = n, ch[i].value = v,
               \A j \in DOMAIN ch : ch[j].key = n => j <= i
        PROVE  LastIs(n, v)'
    <3>1. CASE i = 1
      <4>1. \A j \in DOMAIN ch' : ch'[j].key # n
        <5> SUFFICES ASSUME NEW j \in DOMAIN ch', ch'[j].key = n PROVE FALSE OBVIOUS
        <5>1. j + 1 \in DOMAIN ch /\ ch[j + 1].key = n /\ j \in Nat /\ j >= 1 BY <1>1, <1>4
        <5>2. j + 1 <= 1 BY <2>2, <3>1, <5>1
        <5> QED BY <5>1, <5>2
      <4> QED BY <1>1, <2>2, <3>1, <4>1 DEF LastIs
    <3>2. CASE i # 1
      <4>1. i - 1 \in DOMAIN ch' /\ ch'[i - 1].key = n /\ ch'[i - 1].value = v BY <1>3, <2>2, <3>2
      <4>2. ASSUME NEW j \in DOMAIN ch', ch'[j].key = n PROVE j <= i - 1
        <5>1. j + 1 \in DOMAIN ch /\ ch[j + 1].key = n BY <1>4, <4>2
        <5>2. j + 1 <= i BY <2>2, <5>1
        <5>3. i \in Int /\ j \in Int BY <1>1
        <5> QED BY <5>2, <5>3
      <4> QED BY <4>1, <4>2 DEF LastIs
    <3> QED BY <3>1, <3>2
  <2> QED BY <1>10, <2>1, <2>2 DEF LastIs
<1> QED BY <1>6, <1>7, <1>8, <1>9, <1>10

\* The map takes the event: a node that is not deleted stays known.
LEMMA EventApplied ==
  ASSUME ViewTypes, Comet!HandleReplace, NEW n \in Nodes, NoneDeletes(n)
  PROVE  /\ Known(n)' <=> Known(n)
         /\ AddUnderWay(n)' <=> AddUnderWay(n)
         /\ NoneDeletes(n)'
         /\ \A v : LastIs(n, v) => LastIs(n, v)'
<1>1. /\ handler \in CometEvent /\ handler' = Comet!NoEvent /\ UNCHANGED ch
      /\ handler'.key # n /\ handler.key \in Nodes /\ handler.value # Missing
  BY Numbers DEF Comet!HandleReplace, ViewTypes, CometEvent, Comet!NoEvent, Comet!Event
<1>2. infoMap'[n] = IF handler.key # n THEN infoMap[n]
                    ELSE handler.value
  <2>1. handler.key = n => handler.event # "del" BY DEF NoneDeletes
  <2> QED BY <2>1 DEF Comet!HandleReplace, ViewTypes
<1> QED BY <1>1, <1>2 DEF Known, AddUnderWay, NoneDeletes, LastIs

\* A goroutine goes on and watches the same node.
LEMMA SameNodeGoesOn ==
  ASSUME WatcherTypes, NEW w \in Comet!Slots, NEW v, Goroutine(v),
         watcher' = [watcher EXCEPT ![w] = v], v.node = watcher[w].node,
         watcher[w].at \in Attentive, v.at \in Attentive, NEW n \in Nodes
  PROVE  /\ WatchedBy(n, Attentive)' <=> WatchedBy(n, Attentive)
         /\ v.at \in Busy \/ n # v.node => (WatchedBy(n, Busy) => WatchedBy(n, Busy)')
<1>1. \A x \in Comet!Slots : watcher'[x] = IF x = w THEN v ELSE watcher[x] BY OneGoesOn
<1>2. \A x \in Comet!Slots : /\ watcher'[x].node = watcher[x].node
                             /\ watcher'[x].at \in Attentive <=> watcher[x].at \in Attentive
  BY <1>1
<1>3. v.at \in Busy \/ n # v.node =>
        \A x \in Comet!Slots : watcher[x].node = n /\ watcher[x].at \in Busy => watcher'[x].at \in Busy
  BY <1>1
<1> QED BY <1>2, <1>3 DEF WatchedBy

\* What a node that stays served keeps.
LEMMA ServedStays ==
  ASSUME NEW n \in Nodes, Served(n), n \in dirs => n \in dirs',
         Known(n)' <=> Known(n),
         AddUnderWay(n) => AddUnderWay(n)' \/ WatchedBy(n, Busy)',
         WatchedBy(n, Attentive)' => WatchedBy(n, Attentive) \/ Known(n),
         WatchedBy(n, Attentive) => WatchedBy(n, Attentive)',
         WatchedBy(n, Busy) => WatchedBy(n, Busy)',
         \/ WatchedBy(n, Busy)'
         \/ \A p \in Procs : Comet!InService(n, p) /\ LastIs(n, p) =>
                               Comet!InService(n, p)' /\ LastIs(n, p)'
  PROVE  Served(n)'
<1>1. WatchedBy(n, Busy)' => WatchedBy(n, Attentive)' BY DEF WatchedBy, Busy, Attentive
<1> QED BY <1>1 DEF Served

\* The watches on the nodes in S fire.
LEMMA FireNodesWatched ==
  ASSUME WatcherTypes, NEW S \in SUBSET Nodes, Comet!FireNodes(S)
  PROVE  /\ \A n \in Nodes : /\ WatchedBy(n, Attentive)' <=> WatchedBy(n, Attentive)
                             /\ WatchedBy(n, Busy) => WatchedBy(n, Busy)'
                             /\ n \in S /\ WatchedBy(n, Attentive) => WatchedBy(n, Busy)'
         /\ \A w \in Comet!Slots :
              watcher'[w].at \in {"register", "send"} /\ ~watcher'[w].fired =>
                /\ watcher[w].node \notin S /\ watcher'[w] = watcher[w]
<1> DEFINE Fired(v) ==
      CASE v.node \in S /\ v.at = "wait"                 -> Comet!Watching(v.node)
        [] v.node \in S /\ v.at \in {"register", "send"} -> [v EXCEPT !.fired = TRUE]
        [] OTHER                                         -> v
<1>1. \A w \in Comet!Slots : watcher'[w] = Fired(watcher[w]) /\ Goroutine(watcher[w])
  BY DEF Comet!FireNodes, WatcherTypes
<1>2. ASSUME NEW v, Goroutine(v)
      PROVE  /\ Fired(v).node = v.node
             /\ Fired(v).at \in Attentive <=> v.at \in Attentive
             /\ v.at \in Busy => Fired(v).at \in Busy
             /\ v.node \in S /\ v.at \in Attentive => Fired(v).at \in Busy
             /\ Fired(v).at \in {"register", "send"} /\ ~Fired(v).fired =>
                  v.node \notin S /\ Fired(v) = v
  <2>1. CASE v.node \in S /\ v.at = "wait"
    <3>1. Fired(v) = Comet!Watching(v.node) BY <2>1
    <3> QED BY <2>1, <3>1 DEF Comet!Watching, Comet!NoGoroutine, Attentive, Busy
  <2>2. CASE v.node \in S /\ v.at \in {"register", "send"}
    <3>1. Fired(v) = [v EXCEPT !.fired = TRUE] BY <2>2
    <3> QED BY <1>2, <2>2, <3>1 DEF Goroutine, Attentive, Busy
  <2>3. CASE ~(v.node \in S /\ v.at \in {"wait", "register", "send"})
    <3>1. Fired(v) = v BY <2>3
    <3> QED BY <2>3, <3>1 DEF Attentive, Busy
  <2> QED BY <2>1, <2>2, <2>3
<1> HIDE DEF Fired
<1>3. ASSUME NEW n \in Nodes
      PROVE  /\ WatchedBy(n, Attentive)' <=> WatchedBy(n, Attentive)
             /\ WatchedBy(n, Busy) => WatchedBy(n, Busy)'
             /\ n \in S /\ WatchedBy(n, Attentive) => WatchedBy(n, Busy)'
  BY <1>1, <1>2 DEF WatchedBy
<1>4. \A w \in Comet!Slots :
        watcher'[w].at \in {"register", "send"} /\ ~watcher'[w].fired =>
          watcher[w].node \notin S /\ watcher'[w] = watcher[w]
  BY <1>1, <1>2
<1> QED BY <1>3, <1>4

\* The watch on the root fires: what it knows is stale, or it reads again.
LEMMA FireRootKnows ==
  ASSUME RootTypes, Comet!FireRoot
  PROVE  /\ UNCHANGED <<root.seen, root.todo>> /\ root'.at # "wait"
         /\ root.at # "wait" => root'.at = root.at
         /\ root.at = "wait" => root'.at = "read"
         /\ root'.at \in {"add", "added", "del"} => root'.fired
BY DEF RootTypes, Comet!FireRoot

\* A step of the cluster.  The processes of a node only change, and directories only
\* come and go, together with the watches on them; no event and no map entry moves.
LEMMA ClusterFollows ==
  ASSUME CometInv, FollowInv, Comet!Cluster
  PROVE  FollowInv'
<1> USE DEF CometInv, CometTypes
<1>1. UNCHANGED <<infoMap, ch, handler>>
  BY DEF Comet!Cluster, Comet!LoseSession, Comet!CreateDir, Comet!Register, Comet!Die,
         Comet!RemoveDir, Comet!view
<1>2. removed \subseteq removed' /\ \A n \in Nodes \ removed' : n \in dirs => n \in dirs'
  BY DEF Comet!Cluster, Comet!LoseSession, Comet!CreateDir, Comet!Register, Comet!Die,
         Comet!RemoveDir
<1>3. \/ Comet!FireRoot
      \/ UNCHANGED <<root, dirs>>
  BY DEF Comet!Cluster, Comet!LoseSession, Comet!CreateDir, Comet!Register, Comet!Die,
         Comet!RemoveDir
<1> DEFINE Fires(T) == /\ Comet!FireNodes(T) \/ (T = {} /\ UNCHANGED watcher)
                       /\ \A n \in Nodes \ T : kids'[n] = kids[n]
<1>4. PICK S \in SUBSET Nodes : Fires(S)
  <2>1. CASE Comet!LoseSession
    <3>1. Fires(Nodes) BY <2>1 DEF Comet!LoseSession
    <3> QED BY <3>1
  <2>2. ASSUME NEW n \in Nodes, Comet!CreateDir(n) PROVE Fires({})
    BY <2>2 DEF Comet!CreateDir
  <2>3. ASSUME NEW n \in Nodes, Comet!Register(n) \/ Comet!Die(n) \/ Comet!RemoveDir(n)
        PROVE  Fires({n})
    BY <2>3 DEF Comet!Register, Comet!Die, Comet!RemoveDir, ZkTypes
  <2> HIDE DEF Fires
  <2>4. {} \in SUBSET Nodes /\ \A n \in Nodes : {n} \in SUBSET Nodes OBVIOUS
  <2> QED BY <2>1, <2>2, <2>3, <2>4 DEF Comet!Cluster
<1>5. /\ \A n \in Nodes : /\ WatchedBy(n, Attentive)' <=> WatchedBy(n, Attentive)
                          /\ WatchedBy(n, Busy) => WatchedBy(n, Busy)'
                          /\ n \in S /\ WatchedBy(n, Attentive) => WatchedBy(n, Busy)'
      /\ \A w \in Comet!Slots :
           watcher'[w].at \in {"register", "send"} /\ ~watcher'[w].fired =>
             watcher[w].node \notin S /\ watcher'[w] = watcher[w]
  <2>1. CASE Comet!FireNodes(S) BY <2>1, FireNodesWatched
  <2>2. CASE S = {} /\ UNCHANGED watcher BY <2>2 DEF WatchedBy
  <2> QED BY <1>4, <2>1, <2>2
<1>6. RootIsFresh'
  <2>1. CASE Comet!FireRoot BY <2>1, FireRootKnows DEF FollowInv, RootIsFresh
  <2>2. CASE UNCHANGED <<root, dirs>> BY <2>2 DEF FollowInv, RootIsFresh
  <2> QED BY <1>3, <2>1, <2>2
<1>7. WatchersAreFresh'
  <2> SUFFICES ASSUME NEW w \in Comet!Slots,
                      watcher'[w].at \in {"register", "send"}, ~watcher'[w].fired
               PROVE  Comet!InService(watcher[w].node, watcher[w].info)'
    BY DEF WatchersAreFresh
  <2>1. watcher[w].node \notin S /\ watcher'[w] = watcher[w] BY <1>5
  <2>2. watcher[w].node \in Nodes BY <2>1 DEF WatcherTypes, Goroutine
  <2>3. Comet!InService(watcher[w].node, watcher[w].info)
    BY <2>1 DEF FollowInv, WatchersAreFresh
  <2>4. kids'[watcher[w].node] = kids[watcher[w].node] BY <1>4, <2>1, <2>2
  <2> QED BY <2>1, <2>3, <2>4 DEF Comet!InService
<1>8. ASSUME NEW n \in Nodes \ removed' PROVE Followed(n)'
  <2>1. Followed(n) BY <1>2 DEF FollowInv
  <2>2. /\ Known(n)' <=> Known(n)
        /\ AddUnderWay(n)' <=> AddUnderWay(n)
        /\ NoneDeletes(n)' <=> NoneDeletes(n)
        /\ \A v : LastIs(n, v)' <=> LastIs(n, v)
    BY <1>1, EventsStay
  <2>3. n \in dirs => n \in dirs' BY <1>2
  <2>4. n \in S \/ \A p \in Procs : Comet!InService(n, p) => Comet!InService(n, p)'
    BY <1>4 DEF Comet!InService
  <2>5. Served(n)'
    <3>1. CASE n \notin S BY <1>5, <2>1, <2>2, <2>3, <2>4, <3>1, ServedStays DEF Followed
    <3>2. CASE n \in S /\ WatchedBy(n, Attentive)
      BY <1>5, <2>1, <2>2, <2>3, <3>2, ServedStays DEF Followed
    <3>3. CASE ~WatchedBy(n, Attentive)
      BY <1>5, <2>1, <2>2, <2>3, <3>3 DEF Followed, Served
    <3> QED BY <3>1, <3>2, <3>3
  <2>6. RootKnows(n)'
    <3>1. CASE Comet!FireRoot
      <4>1. n \in root'.seen <=> n \in root.seen BY <3>1, FireRootKnows
      <4> QED BY <2>1, <2>2, <2>3, <3>1, <4>1, FireRootKnows DEF Followed, RootKnows
    <3>2. CASE UNCHANGED <<root, dirs>> BY <2>1, <2>2, <3>2 DEF Followed, RootKnows
    <3> QED BY <1>3, <3>1, <3>2
  <2> QED BY <2>1, <2>2, <2>5, <2>6 DEF Followed
<1> QED BY <1>6, <1>7, <1>8 DEF FollowInv

\* A step of the goroutine on the root that sends nothing leaves all but its own
\* knowledge as it was.
LEMMA RootAloneMoves ==
  ASSUME FollowInv, UNCHANGED <<dirs, kids, removed, infoMap, ch, handler, watcher>>,
         RootIsFresh', \A n \in Nodes \ removed : RootKnows(n)'
  PROVE  FollowInv'
<1>1. WatchersAreFresh' BY DEF FollowInv, WatchersAreFresh, Comet!InService
<1>2. ASSUME NEW n \in Nodes \ removed PROVE Followed(n)'
  <2>1. /\ Known(n)' <=> Known(n)
        /\ AddUnderWay(n)' <=> AddUnderWay(n)
        /\ NoneDeletes(n)' <=> NoneDeletes(n)
        /\ \A v : LastIs(n, v)' <=> LastIs(n, v)
    BY EventsStay
  <2>2. Served(n)'
    BY <2>1, ServedStays DEF FollowInv, Followed, WatchedBy, Comet!InService
  <2> QED BY <2>1, <2>2 DEF FollowInv, Followed
<1> QED BY <1>1, <1>2 DEF FollowInv

\* The root is read.
LEMMA ReadFollows == CometInv /\ FollowInv /\ Comet!RootRead => FollowInv'
<1> SUFFICES ASSUME CometInv, FollowInv, Comet!RootRead PROVE FollowInv' OBVIOUS
<1> USE DEF CometInv, CometTypes
<1>1. UNCHANGED <<dirs, kids, removed, infoMap, ch, handler, watcher>>
  BY DEF Comet!RootRead, Comet!zk, Comet!view
<1>2. \/ dirs # {} /\ root' = [at |-> "add", seen |-> dirs, todo |-> dirs, fired |-> FALSE]
      \/ /\ dirs = {} /\ root'.at \in {"read", "kick"}
         /\ root'.seen = root.seen /\ root'.todo = Comet!Listed
  BY DEF Comet!RootRead, RootTypes
<1>3. RootIsFresh' BY <1>1, <1>2 DEF RootIsFresh
<1>4. ASSUME NEW n \in Nodes \ removed PROVE RootKnows(n)'
  <2>1. Known(n)' <=> Known(n) BY <1>1, EventsStay
  <2>2. Known(n) => n \in dirs BY DEF FollowInv, Followed, Served
  <2>3. n \in Comet!Listed => Known(n) BY DEF Comet!Listed, Known
  <2>4. RootKnows(n) BY DEF FollowInv, Followed
  <2>5. root.at = "read" BY DEF Comet!RootRead
  <2> QED BY <1>1, <1>2, <2>1, <2>2, <2>3, <2>4, <2>5 DEF RootKnows
<1> QED BY <1>1, <1>3, <1>4, RootAloneMoves

\* The goroutine waits, or reads again if the watch has fired: every directory is known.
LEMMA WaitingKnows ==
  ASSUME RootTypes, RootIsFresh, root.at \in {"added", "del"},
         NEW n \in Nodes, RootKnows(n), root' = Comet!Waiting, UNCHANGED dirs,
         Known(n)' <=> Known(n)
  PROVE  RootKnows(n)'
<1>1. root' = [at |-> IF root.fired THEN "read" ELSE "wait", seen |-> {}, todo |-> {}, fired |-> FALSE]
  BY DEF Comet!Waiting, Comet!Reading, RootTypes
<1>2. ~root.fired /\ n \in dirs => Known(n) BY DEF RootIsFresh, RootKnows
<1> QED BY <1>1, <1>2 DEF RootKnows

\* What is deleted was not read, and is none of the nodes that stay.
LEMMA AddedFollows == CometInv /\ FollowInv /\ Comet!RootAdded => FollowInv'
<1> SUFFICES ASSUME CometInv, FollowInv, Comet!RootAdded PROVE FollowInv' OBVIOUS
<1> USE DEF CometInv, CometTypes
<1>1. UNCHANGED <<dirs, kids, removed, infoMap, ch, handler, watcher>> /\ root.at = "added"
  BY DEF Comet!RootAdded, Comet!zk, Comet!view
<1>2. \/ root' = Comet!Waiting
      \/ /\ root'.at = "del" /\ root'.seen = root.seen /\ root'.fired = root.fired
         /\ root'.todo = Comet!Listed \ root.seen
  BY DEF Comet!RootAdded, RootTypes
<1>3. Comet!Waiting.at \in {"read", "wait"} BY DEF Comet!Waiting, Comet!Reading
<1>4. RootIsFresh' BY <1>1, <1>2, <1>3 DEF FollowInv, RootIsFresh
<1>5. ASSUME NEW n \in Nodes \ removed PROVE RootKnows(n)'
  <2>1. Known(n)' <=> Known(n) BY <1>1, EventsStay
  <2>2. RootKnows(n) BY DEF FollowInv, Followed
  <2>3. n \in Comet!Listed => Known(n) BY DEF Comet!Listed, Known
  <2>4. CASE root' = Comet!Waiting
    BY <1>1, <2>1, <2>2, <2>4, WaitingKnows DEF FollowInv
  <2>5. CASE /\ root'.at = "del" /\ root'.seen = root.seen
             /\ root'.todo = Comet!Listed \ root.seen
    BY <1>1, <2>1, <2>2, <2>3, <2>5 DEF RootKnows
  <2> QED BY <1>2, <2>4, <2>5
<1> QED BY <1>1, <1>4, <1>5, RootAloneMoves

\* An event without a process is sent by the goroutine on the root.
LEMMA RootSends ==
  ASSUME CometInv, FollowInv, UNCHANGED <<dirs, kids, removed, infoMap, handler, watcher>>,
         NEW e \in {"add", "del"}, NEW m \in Nodes, Comet!Send(Comet!Event(e, m, Comet!Nil)),
         e = "add" => m \in dirs \cup removed, e = "del" => m \in removed,
         RootIsFresh',
         \A n \in Nodes \ removed : (Known(n)' <=> Known(n) \/ n = m) => RootKnows(n)'
  PROVE  FollowInv'
<1> USE DEF CometInv, CometTypes
<1> DEFINE ev == Comet!Event(e, m, Comet!Nil)
<1>1. ev \in CometEvent /\ ev.event = e /\ ev.key = m BY Numbers DEF Comet!Event, CometEvent
<1>2. ch' = Append(ch, ev) BY DEF Comet!Send
<1> HIDE DEF ev
<1>3. WatchersAreFresh' BY DEF FollowInv, WatchersAreFresh, Comet!InService
<1>4. ASSUME NEW n \in Nodes \ removed PROVE Followed(n)'
  <2>1. Followed(n) BY DEF FollowInv
  <2>2. /\ Known(n)' <=> Known(n) \/ ev.key = n
        /\ AddUnderWay(n)' <=> AddUnderWay(n) \/ (ev.key = n /\ ev.event = "add")
        /\ NoneDeletes(n)' <=> NoneDeletes(n) /\ ~(ev.key = n /\ ev.event = "del")
        /\ ev.key # n => \A v : LastIs(n, v) => LastIs(n, v)'
    BY <1>1, <1>2, EventAppended
  <2>3. \A S : WatchedBy(n, S)' <=> WatchedBy(n, S) BY DEF WatchedBy
  <2>4. NoneDeletes(n)' BY <1>1, <2>1, <2>2 DEF Followed
  <2>5. Served(n)'
    <3>1. CASE n = m
      <4>1. e = "add" BY <3>1
      <4> QED BY <1>1, <2>2, <3>1, <4>1 DEF Served
    <3>2. CASE n # m
      <4>1. \A p : Comet!InService(n, p) => Comet!InService(n, p)' BY DEF Comet!InService
      <4> QED BY <1>1, <2>1, <2>2, <2>3, <3>2, <4>1, ServedStays DEF Followed
    <3> QED BY <3>1, <3>2
  <2>6. RootKnows(n)' BY <1>1, <2>2
  <2> QED BY <2>4, <2>5, <2>6 DEF Followed
<1> QED BY <1>3, <1>4 DEF FollowInv

\* A node that was read and is not listed is added.
LEMMA AddFollows == CometInv /\ FollowInv /\ Comet!RootAdd => FollowInv'
<1> SUFFICES ASSUME CometInv, FollowInv, Comet!RootAdd PROVE FollowInv' OBVIOUS
<1> USE DEF CometInv, CometTypes
<1>1. UNCHANGED <<dirs, kids, removed, infoMap, handler, watcher>> /\ root.at = "add"
  BY DEF Comet!RootAdd, Comet!zk, Comet!view
<1>2. PICK m \in root.todo :
        /\ Comet!Sent(m, [root EXCEPT !.at = "added", !.todo = {}])
        /\ IF m \in Comet!Listed THEN UNCHANGED ch
           ELSE Comet!Send(Comet!Event("add", m, Comet!Nil))
  BY DEF Comet!RootAdd
<1>3. m \in Nodes /\ m \in root.seen BY <1>1 DEF RootTypes, FollowInv, RootIsFresh
<1>4. /\ root'.seen = root.seen /\ root'.fired = root.fired
      /\ \/ root'.at = "added" /\ root.todo = {m}
         \/ root'.at = "add" /\ root'.todo = root.todo \ {m}
  BY <1>1, <1>2 DEF Comet!Sent, RootTypes
<1>5. RootIsFresh' BY <1>1, <1>4 DEF FollowInv, RootIsFresh
<1>6. ASSUME NEW n \in Nodes \ removed, Known(n)' <=> Known(n) \/ n = m PROVE RootKnows(n)'
  <2>1. RootKnows(n) BY DEF FollowInv, Followed
  <2> QED BY <1>1, <1>3, <1>4, <1>6, <2>1 DEF RootKnows
<1>7. CASE m \in Comet!Listed
  <2>1. Known(m) BY <1>7 DEF Comet!Listed, Known
  <2>2. UNCHANGED ch BY <1>2, <1>7
  <2>3. \A n \in Nodes \ removed : RootKnows(n)' BY <1>1, <1>6, <2>1, <2>2, EventsStay
  <2> QED BY <1>1, <1>5, <2>2, <2>3, RootAloneMoves
<1>8. CASE m \notin Comet!Listed
  <2>1. Comet!Send(Comet!Event("add", m, Comet!Nil)) BY <1>2, <1>8
  <2>2. m \in dirs \cup removed BY <1>3 DEF FollowInv, Followed, RootKnows
  <2> QED BY <1>1, <1>3, <1>5, <1>6, <2>1, <2>2, RootSends
<1> QED BY <1>7, <1>8

\* What is deleted, or kicked out, is a node whose directory was removed.
LEMMA DeleteFollows == CometInv /\ FollowInv /\ Comet!RootDel => FollowInv'
<1> SUFFICES ASSUME CometInv, FollowInv, Comet!RootDel PROVE FollowInv' OBVIOUS
<1> USE DEF CometInv, CometTypes
<1>1. UNCHANGED <<dirs, kids, removed, infoMap, handler, watcher>> /\ root.at \in {"kick", "del"}
  BY DEF Comet!RootDel, Comet!zk, Comet!view
<1>2. PICK m \in root.todo :
        /\ Comet!Send(Comet!Event("del", m, Comet!Nil))
        /\ Comet!Sent(m, IF root.at = "kick" THEN Comet!Reading ELSE Comet!Waiting)
  BY DEF Comet!RootDel
<1>3. m \in Nodes /\ m \in removed
  BY <1>1 DEF RootTypes, FollowInv, Followed, RootKnows
<1>4. \/ root.at = "kick" /\ root' = Comet!Reading
      \/ root.at = "del" /\ root' = Comet!Waiting
      \/ /\ root'.at = root.at /\ root'.seen = root.seen /\ root'.fired = root.fired
         /\ root'.todo = root.todo \ {m}
  BY <1>1, <1>2 DEF Comet!Sent, RootTypes
<1>5. Comet!Reading.at = "read" /\ Comet!Reading.seen = {} /\ Comet!Waiting.at \in {"read", "wait"}
  BY DEF Comet!Waiting, Comet!Reading
<1>6. RootIsFresh' BY <1>1, <1>4, <1>5 DEF FollowInv, RootIsFresh
<1>7. ASSUME NEW n \in Nodes \ removed, Known(n)' <=> Known(n) \/ n = m PROVE RootKnows(n)'
  <2>1. RootKnows(n) BY DEF FollowInv, Followed
  <2>2. Known(n)' <=> Known(n) BY <1>3, <1>7
  <2>3. CASE root.at = "kick" /\ root' = Comet!Reading
    BY <1>5, <2>3 DEF RootKnows
  <2>4. CASE root.at = "del" /\ root' = Comet!Waiting
    BY <1>1, <2>1, <2>2, <2>4, WaitingKnows DEF FollowInv
  <2>5. CASE /\ root'.at = root.at /\ root'.seen = root.seen
             /\ root'.todo = root.todo \ {m}
    BY <1>1, <2>1, <2>2, <2>5 DEF RootKnows
  <2> QED BY <1>4, <2>3, <2>4, <2>5
<1> QED BY <1>1, <1>2, <1>3, <1>6, <1>7, RootSends

\* An event is taken: a node that is added gets its watcher.
LEMMA TakeFollows == CometInv /\ FollowInv /\ Comet!HandleTake => FollowInv'
<1> SUFFICES ASSUME CometInv, FollowInv, Comet!HandleTake PROVE FollowInv' OBVIOUS
<1> USE DEF CometInv, CometTypes
<1>1. /\ UNCHANGED <<dirs, kids, removed, infoMap, root>>
      /\ handler = Comet!NoEvent /\ ch # <<>> /\ handler' = Head(ch) /\ ch' = Tail(ch)
  BY DEF Comet!HandleTake, Comet!zk
<1>2. Head(ch) \in CometEvent /\ Head(ch).key \in Nodes BY <1>1 DEF ViewTypes, CometEvent
<1> DEFINE k == Head(ch).key
           adds == Head(ch).event = "add"
<1>3. /\ \A n \in Nodes : /\ WatchedBy(n, Attentive)' <=> WatchedBy(n, Attentive) \/ (adds /\ n = k)
                          /\ WatchedBy(n, Busy) => WatchedBy(n, Busy)'
                          /\ adds /\ n = k => WatchedBy(n, Busy)'
      /\ WatchersAreFresh'
  <2>1. CASE ~adds
    <3>1. UNCHANGED watcher BY <2>1 DEF Comet!HandleTake
    <3>2. WatchersAreFresh'
      BY <1>1, <3>1 DEF FollowInv, WatchersAreFresh, Comet!InService
    <3> QED BY <2>1, <3>1, <3>2 DEF WatchedBy
  <2>2. CASE adds
    <3>1. PICK w \in Comet!Slots : /\ watcher[w].at = "none"
                                   /\ watcher' = [watcher EXCEPT ![w] = Comet!Watching(k)]
      BY <2>2 DEF Comet!HandleTake
    <3> PICK v : v = Comet!Watching(k) OBVIOUS
    <3>2. /\ Goroutine(v) /\ v.at = "read" /\ v.node = k
          /\ watcher' = [watcher EXCEPT ![w] = v]
      BY <1>2, <3>1, WatchingType DEF Comet!Watching, Comet!NoGoroutine
    <3> HIDE DEF k, adds
    <3>3. \A x \in Comet!Slots : watcher'[x] = IF x = w THEN v ELSE watcher[x]
      BY <3>1, <3>2, OneGoesOn
    <3>4. \A S : "none" \notin S /\ "read" \in S =>
            \A n : WatchedBy(n, S)' <=> WatchedBy(n, S) \/ n = k
      BY <3>1, <3>2, <3>3 DEF WatchedBy
    <3>5. WatchersAreFresh'
      BY <1>1, <3>2, <3>3 DEF FollowInv, WatchersAreFresh, Comet!InService
    <3> QED BY <2>2, <3>4, <3>5 DEF Attentive, Busy
  <2> QED BY <2>1, <2>2
<1>4. RootIsFresh' BY <1>1 DEF FollowInv, RootIsFresh
<1>5. ASSUME NEW n \in Nodes \ removed PROVE Followed(n)'
  <2>1. Followed(n) BY DEF FollowInv
  <2>2. /\ Known(n)' <=> Known(n)
        /\ AddUnderWay(n) => AddUnderWay(n)' \/ (adds /\ k = n)
        /\ k = n => Known(n)
        /\ NoneDeletes(n) => NoneDeletes(n)'
        /\ \A v : LastIs(n, v) => LastIs(n, v)'
    BY <1>1, EventTaken
  <2> HIDE DEF k, adds
  <2>3. \A p : Comet!InService(n, p) => Comet!InService(n, p)' BY <1>1 DEF Comet!InService
  <2>4. Served(n)' BY <1>1, <1>3, <2>1, <2>2, <2>3, ServedStays DEF Followed
  <2>5. RootKnows(n)' BY <1>1, <2>1, <2>2 DEF Followed, RootKnows
  <2> QED BY <2>1, <2>2, <2>4, <2>5 DEF Followed
<1> QED BY <1>1, <1>3, <1>4, <1>5 DEF FollowInv

\* The map takes the event.
LEMMA ReplaceFollows == CometInv /\ FollowInv /\ Comet!HandleReplace => FollowInv'
<1> SUFFICES ASSUME CometInv, FollowInv, Comet!HandleReplace PROVE FollowInv' OBVIOUS
<1>1. UNCHANGED <<dirs, kids, removed, root, watcher>> BY DEF Comet!HandleReplace, Comet!zk
<1>2. RootIsFresh' /\ WatchersAreFresh'
  BY <1>1 DEF FollowInv, RootIsFresh, WatchersAreFresh, Comet!InService
<1>3. ASSUME NEW n \in Nodes \ removed PROVE Followed(n)'
  <2>1. Followed(n) BY DEF FollowInv
  <2>2. /\ Known(n)' <=> Known(n)
        /\ AddUnderWay(n)' <=> AddUnderWay(n)
        /\ NoneDeletes(n)'
        /\ \A v : LastIs(n, v) => LastIs(n, v)'
    BY <2>1, EventApplied DEF Followed, CometInv, CometTypes
  <2>3. Served(n)'
    BY <1>1, <2>1, <2>2, ServedStays DEF Followed, WatchedBy, Comet!InService
  <2>4. RootKnows(n)' BY <1>1, <2>1, <2>2 DEF Followed, RootKnows
  <2> QED BY <2>2, <2>3, <2>4 DEF Followed
<1> QED BY <1>1, <1>2, <1>3 DEF FollowInv

\* The first of the processes of a node is the one in service.
LEMMA FirstIsFirst ==
  ASSUME NEW n \in Nodes, kids[n] \subseteq Procs, kids[n] # {}
  PROVE  Comet!FirstOf(kids[n]) \in Procs /\ Comet!InService(n, Comet!FirstOf(kids[n]))
<1>1. \E x \in kids[n] : \A y \in kids[n] : x <= y BY Numbers, HasLeast
<1> QED BY <1>1 DEF Comet!FirstOf, Comet!InService

\* A goroutine goes on that watches the same node: what it sends, if anything, is
\* about its process.
LEMMA WatcherGoesOn ==
  ASSUME CometInv, FollowInv, UNCHANGED <<dirs, kids, removed, infoMap, handler, root>>,
         NEW w \in Comet!Slots, NEW v, Goroutine(v), watcher' = [watcher EXCEPT ![w] = v],
         v.node = watcher[w].node, watcher[w].at \in Attentive, v.at \in Attentive,
         v.at \in {"register", "send"} /\ ~v.fired => Comet!InService(v.node, v.info),
         \/ UNCHANGED ch /\ v.at \in Busy
         \/ \E p \in Procs : /\ Comet!Send(Comet!Event("update", v.node, p))
                             /\ v.at = "wait" => Comet!InService(v.node, p)
  PROVE  FollowInv'
<1> USE DEF CometInv, CometTypes
<1>1. \A x \in Comet!Slots : watcher'[x] = IF x = w THEN v ELSE watcher[x] BY OneGoesOn
<1>2. RootIsFresh' BY DEF FollowInv, RootIsFresh
<1>3. WatchersAreFresh'
  BY <1>1 DEF FollowInv, WatchersAreFresh, Comet!InService
<1>4. v.node \in Nodes BY DEF Goroutine, Attentive
<1>5. ASSUME NEW n \in Nodes \ removed PROVE Followed(n)'
  <2>1. Followed(n) BY DEF FollowInv
  <2>2. /\ WatchedBy(n, Attentive)' <=> WatchedBy(n, Attentive)
        /\ v.at \in Busy \/ n # v.node => (WatchedBy(n, Busy) => WatchedBy(n, Busy)')
    BY SameNodeGoesOn
  <2>3. \A p : Comet!InService(n, p) => Comet!InService(n, p)' BY DEF Comet!InService
  <2>4. v.node = n => Known(n) /\ n \in dirs
    <3>1. v.node = n => WatchedBy(n, Attentive) BY DEF WatchedBy
    <3> QED BY <2>1, <3>1 DEF Followed, Served
  <2>5. v.at \in Busy /\ v.node = n => WatchedBy(n, Busy)' BY <1>1 DEF WatchedBy
  <2>6. CASE UNCHANGED ch /\ v.at \in Busy
    <3>1. /\ Known(n)' <=> Known(n)
          /\ AddUnderWay(n)' <=> AddUnderWay(n)
          /\ NoneDeletes(n)' <=> NoneDeletes(n)
          /\ \A u : LastIs(n, u)' <=> LastIs(n, u)
      BY <2>6, EventsStay
    <3>2. Served(n)' BY <2>1, <2>2, <2>3, <2>6, <3>1, ServedStays DEF Followed
    <3>3. RootKnows(n)' BY <2>1, <3>1 DEF Followed, RootKnows
    <3> QED BY <2>1, <3>1, <3>2, <3>3 DEF Followed
  <2>7. ASSUME NEW p \in Procs, Comet!Send(Comet!Event("update", v.node, p)),
               v.at = "wait" => Comet!InService(v.node, p)
        PROVE  Followed(n)'
    <3> PICK ev : ev = Comet!Event("update", v.node, p) OBVIOUS
    <3>1. /\ ev \in CometEvent /\ ev.event = "update" /\ ev.key = v.node /\ ev.value = p
          /\ ch' = Append(ch, ev)
      BY <1>4, <2>7 DEF Comet!Event, CometEvent, Comet!Send
    <3>2. /\ Known(n)' <=> Known(n) \/ ev.key = n
          /\ AddUnderWay(n)' <=> AddUnderWay(n) \/ (ev.key = n /\ ev.event = "add")
          /\ NoneDeletes(n)' <=> NoneDeletes(n) /\ ~(ev.key = n /\ ev.event = "del")
          /\ ev.key = n => LastIs(n, ev.value)'
          /\ ev.key # n => \A u : LastIs(n, u) => LastIs(n, u)'
      BY <3>1, EventAppended
    <3>3. Known(n)' <=> Known(n) BY <2>4, <3>1, <3>2
    <3>4. Served(n)'
      <4>1. CASE v.node = n
        <5>1. v.at = "wait" => Comet!InService(n, p)' /\ LastIs(n, p)' BY <2>3, <2>7, <3>1, <3>2, <4>1
        <5>2. v.at \in Busy => WatchedBy(n, Busy)' BY <2>5, <4>1
        <5>3. v.at = "wait" \/ v.at \in Busy BY DEF Attentive, Busy
        <5>4. WatchedBy(n, Attentive)' BY <1>1, <4>1 DEF WatchedBy
        <5> QED BY <2>4, <3>3, <4>1, <5>1, <5>2, <5>3, <5>4 DEF Served
      <4>2. CASE v.node # n BY <2>1, <2>2, <2>3, <3>1, <3>2, <4>2, ServedStays DEF Followed
      <4> QED BY <4>1, <4>2
    <3>5. RootKnows(n)' BY <2>1, <3>3 DEF Followed, RootKnows
    <3>6. NoneDeletes(n)' BY <2>1, <3>1, <3>2 DEF Followed
    <3> QED BY <3>4, <3>5, <3>6 DEF Followed
  <2> QED BY <2>6, <2>7
<1> QED BY <1>2, <1>3, <1>5 DEF FollowInv

\* A goroutine reads its node, registers it or begins again.
LEMMA WatcherFollows ==
  ASSUME CometInv, FollowInv, NEW w \in Comet!Slots,
         Comet!WatcherRead(w) \/ Comet!RegisterOk(w) \/ Comet!RegisterFail(w)
  PROVE  FollowInv'
<1> USE DEF CometInv, CometTypes
<1>1. Goroutine(watcher[w]) BY DEF WatcherTypes
<1>2. /\ UNCHANGED <<dirs, kids, removed, infoMap, ch, handler, root>>
      /\ watcher[w].at \in {"read", "register"} /\ watcher[w].at \in Attentive
  BY DEF Comet!WatcherRead, Comet!RegisterOk, Comet!RegisterFail, Comet!zk, Comet!view, Attentive
<1> PICK n : n = watcher[w].node OBVIOUS
<1>3. n \in Nodes BY <1>1, <1>2 DEF Goroutine
<1>4. CASE Comet!WatcherRead(w)
  <2> PICK p : p = Comet!FirstOf(kids[n]) OBVIOUS
  <2> PICK v : v = [watcher[w] EXCEPT !.at = "register", !.info = p] OBVIOUS
  <2>1. kids[n] \subseteq Procs /\ kids[n] # {} BY <1>3, <1>4 DEF Comet!WatcherRead, ZkTypes
  <2>2. p \in Procs /\ Comet!InService(n, p) BY <1>3, <2>1, FirstIsFirst
  <2>3. /\ v.at = "register" /\ v.at \in Attentive /\ v.at \in Busy /\ v.node = n
        /\ v.info = p /\ Goroutine(v)
    BY <1>1, <1>2, <2>2 DEF Goroutine, Attentive, Busy
  <2>4. watcher' = [watcher EXCEPT ![w] = v] BY <1>4 DEF Comet!WatcherRead
  <2> QED BY <1>2, <2>2, <2>3, <2>4, WatcherGoesOn
<1>5. CASE Comet!RegisterOk(w)
  <2> PICK v : v = [watcher[w] EXCEPT !.at = "send"] OBVIOUS
  <2>1. watcher[w].at = "register" BY <1>5 DEF Comet!RegisterOk
  <2>2. /\ v.at = "send" /\ v.at \in Attentive /\ v.at \in Busy /\ v.node = n
        /\ v.info = watcher[w].info /\ v.fired = watcher[w].fired /\ Goroutine(v)
    BY <1>1, <2>1 DEF Goroutine, Attentive, Busy
  <2>3. ~v.fired => Comet!InService(v.node, v.info)
    BY <2>1, <2>2 DEF FollowInv, WatchersAreFresh
  <2>4. watcher' = [watcher EXCEPT ![w] = v] BY <1>5 DEF Comet!RegisterOk
  <2> QED BY <1>2, <2>2, <2>3, <2>4, WatcherGoesOn
<1>6. CASE Comet!RegisterFail(w)
  <2> PICK v : v = Comet!Watching(n) OBVIOUS
  <2>1. /\ v.at = "read" /\ v.at \in Attentive /\ v.at \in Busy /\ v.node = n /\ Goroutine(v)
    BY <1>3, WatchingType DEF Comet!Watching, Comet!NoGoroutine, Attentive, Busy
  <2>2. watcher' = [watcher EXCEPT ![w] = v] BY <1>6 DEF Comet!RegisterFail
  <2> QED BY <1>2, <2>1, <2>2, WatcherGoesOn
<1> QED BY <1>4, <1>5, <1>6

\* The update is sent.
LEMMA SendFollows ==
  ASSUME CometInv, FollowInv, NEW w \in Comet!Slots, Comet!WatcherSend(w) PROVE FollowInv'
<1> USE DEF CometInv, CometTypes
<1>1. Goroutine(watcher[w]) /\ watcher[w].at = "send" /\ watcher[w].at \in Attentive
  BY DEF WatcherTypes, Comet!WatcherSend, Attentive
<1>2. UNCHANGED <<dirs, kids, removed, infoMap, handler, root>>
  BY DEF Comet!WatcherSend, Comet!zk, Comet!view
<1> PICK n : n = watcher[w].node OBVIOUS
<1> PICK p : p = watcher[w].info OBVIOUS
<1>3. n \in Nodes /\ p \in Procs BY <1>1 DEF Goroutine
<1> PICK v : v = IF watcher[w].fired THEN Comet!Watching(n)
                 ELSE [Comet!Watching(n) EXCEPT !.at = "wait"] OBVIOUS
<1>4. Goroutine(Comet!Watching(n)) /\ Comet!Watching(n).at = "read" /\ Comet!Watching(n).node = n
  BY <1>3, WatchingType DEF Comet!Watching, Comet!NoGoroutine
<1>5. /\ Goroutine(v) /\ v.node = n /\ v.at \in {"read", "wait"} /\ v.at \in Attentive
      /\ v.at = "wait" => ~watcher[w].fired
  BY <1>4 DEF Goroutine, Attentive
<1>6. ~watcher[w].fired => Comet!InService(n, p) BY <1>1 DEF FollowInv, WatchersAreFresh
<1>7. watcher' = [watcher EXCEPT ![w] = v] /\ Comet!Send(Comet!Event("update", n, p))
  BY DEF Comet!WatcherSend
<1> QED BY <1>1, <1>2, <1>3, <1>5, <1>6, <1>7, WatcherGoesOn

\* A goroutine only ends when its node is gone, which is then known to nobody.
LEMMA EndFollows ==
  ASSUME CometInv, FollowInv, NEW w \in Comet!Slots, Comet!WatcherEnd(w) PROVE FollowInv'
<1> USE DEF CometInv, CometTypes
<1>1. /\ UNCHANGED <<dirs, kids, removed, infoMap, ch, handler, root>>
      /\ watcher[w].at = "read" /\ watcher[w].node \notin dirs
  BY DEF Comet!WatcherEnd, Comet!zk, Comet!view
<1> PICK v : v = Comet!NoGoroutine OBVIOUS
<1>2. Goroutine(v) /\ v.at = "none" /\ v.node = NoNode
  BY Numbers DEF Comet!NoGoroutine, Goroutine
<1>3. watcher' = [watcher EXCEPT ![w] = v] BY DEF Comet!WatcherEnd, Comet!Ended
<1>4. \A x \in Comet!Slots : watcher'[x] = IF x = w THEN v ELSE watcher[x]
  BY <1>3 DEF WatcherTypes
<1>5. RootIsFresh' BY <1>1 DEF FollowInv, RootIsFresh
<1>6. WatchersAreFresh' BY <1>1, <1>2, <1>4 DEF FollowInv, WatchersAreFresh, Comet!InService
<1>7. ASSUME NEW n \in Nodes \ removed PROVE Followed(n)'
  <2>1. Followed(n) BY DEF FollowInv
  <2>2. /\ Known(n)' <=> Known(n)
        /\ AddUnderWay(n)' <=> AddUnderWay(n)
        /\ NoneDeletes(n)' <=> NoneDeletes(n)
        /\ \A u : LastIs(n, u)' <=> LastIs(n, u)
    BY <1>1, EventsStay
  <2>3. watcher[w].node # n
    <3>1. watcher[w].node = n => WatchedBy(n, Attentive) BY <1>1 DEF WatchedBy, Attentive
    <3> QED BY <1>1, <2>1, <3>1 DEF Followed, Served
  <2>4. \A S : "none" \notin S => (WatchedBy(n, S)' <=> WatchedBy(n, S))
    BY <1>2, <1>4, <2>3 DEF WatchedBy
  <2>5. "none" \notin Attentive /\ "none" \notin Busy BY DEF Attentive, Busy
  <2>6. \A p : Comet!InService(n, p) => Comet!InService(n, p)' BY <1>1 DEF Comet!InService
  <2>7. Served(n)' BY <1>1, <2>1, <2>2, <2>4, <2>5, <2>6, ServedStays DEF Followed
  <2>8. RootKnows(n)' BY <1>1, <2>1, <2>2 DEF Followed, RootKnows
  <2> QED BY <2>1, <2>2, <2>7, <2>8 DEF Followed
<1> QED BY <1>1, <1>5, <1>6, <1>7 DEF FollowInv

\* At the start no node is there, and none is known.
LEMMA FollowBegins == Comet!Init => FollowInv
<1> SUFFICES ASSUME Comet!Init PROVE FollowInv OBVIOUS
<1> USE DEF Comet!Init
<1>1. RootIsFresh /\ WatchersAreFresh
  BY DEF RootIsFresh, WatchersAreFresh, Comet!NoGoroutine
<1>2. ASSUME NEW n \in Nodes PROVE Followed(n)
  <2>1. handler.key # n BY Numbers DEF Comet!NoEvent, Comet!Event
  <2>2. DOMAIN ch = {} OBVIOUS
  <2>3. ~Known(n) /\ NoneDeletes(n) BY <2>1, <2>2 DEF Known, NoneDeletes
  <2>4. ~WatchedBy(n, Attentive) BY DEF WatchedBy, Comet!NoGoroutine, Attentive
  <2> QED BY <2>3, <2>4 DEF Followed, Served, RootKnows
<1> QED BY <1>1, <1>2 DEF FollowInv

\* A step that is about the comet nodes, and one that is not.
LEMMA FollowGoesOn == CometInv /\ FollowInv /\ Comet!Next => FollowInv'
<1>1. ASSUME CometInv, FollowInv, NEW w \in Comet!Slots, Comet!Watcher(w) PROVE FollowInv'
  BY <1>1, WatcherFollows, SendFollows, EndFollows DEF Comet!Watcher
<1>2. CometInv /\ FollowInv /\ Comet!Root => FollowInv'
  BY ReadFollows, AddFollows, AddedFollows, DeleteFollows DEF Comet!Root
<1> QED BY <1>1, <1>2, ClusterFollows, TakeFollows, ReplaceFollows DEF Comet!Next, Comet!Handler

LEMMA FollowStays == FollowInv /\ UNCHANGED cometVars => FollowInv'
<1> SUFFICES ASSUME FollowInv, UNCHANGED cometVars PROVE FollowInv' OBVIOUS
<1> USE DEF cometVars
<1>1. RootIsFresh' /\ WatchersAreFresh'
  BY DEF FollowInv, RootIsFresh, WatchersAreFresh, Comet!InService
<1>2. ASSUME NEW n \in Nodes \ removed PROVE Followed(n)'
  <2>1. Followed(n) BY DEF FollowInv
  <2> QED BY <2>1 DEF Followed, NoneDeletes, Served, RootKnows, Known, AddUnderWay, WatchedBy,
                      LastIs, Comet!InService
<1> QED BY <1>1, <1>2 DEF FollowInv

-----------------------------------------------------------------------------
(* The message nodes. *)

MessageProcs == Message!MessageProcs
Registered   == Message!Registered

MessageEvent == [event : {"add", "del"}, key : Addrs]

MessageTypes ==
  /\ binds \in [MessageProcs -> SUBSET Addrs]
  /\ nodes \subseteq MessageProcs /\ clients \subseteq Addrs /\ quiet \in BOOLEAN
  /\ queue \in Seq(MessageEvent)
  /\ work = Message!Idle \/ work \in [at : {"work", "replace"}, event : {"add", "del"},
                                      key : Addrs, copy : SUBSET Addrs]
  /\ rootW \in [at : {"read", "kick", "get", "del", "wait"}, nodes : SUBSET MessageProcs,
                addrs : SUBSET Addrs, nodesMap : SUBSET Addrs, fired : BOOLEAN]
  /\ rootW.at = "wait" => ~rootW.fired

\* The copy that will replace the map is the map, with the event applied in the end.
CopyIsMap ==
  /\ work.at = "work" => work.copy = clients
  /\ work.at = "replace" =>
       work.copy = IF work.event = "add" THEN clients \cup {work.key} ELSE clients \ {work.key}

\* An event that is sent and not handled.
UnderWay(e, a) ==
  \/ \E i \in DOMAIN queue : queue[i].event = e /\ queue[i].key = a
  \/ work.event = e /\ work.key = a

\* Nothing has disturbed the pass the root watcher is in.
Undisturbed == quiet /\ ~rootW.fired /\ rootW.at \in {"get", "del", "wait"}

\* The addresses this pass has seen so far.
Seen == IF rootW.at = "get" THEN rootW.nodesMap ELSE Registered

\* While the nodes are read, they are all registered, and nothing is deleted.
PassReads ==
  /\ rootW.nodes \subseteq nodes
  /\ Registered = rootW.nodesMap \cup rootW.addrs \cup UNION {binds[p] : p \in rootW.nodes}
  /\ \A a : ~UnderWay("del", a)

\* After that what is not registered is deleted, or is about to be.
PassDeletes ==
  /\ rootW.at = "del" => rootW.addrs \cap Registered = {}
  /\ \A a : UnderWay("del", a) => a \notin Registered
  /\ \A a \in clients : \/ a \in Registered \/ UnderWay("del", a)
                        \/ rootW.at = "del" /\ a \in rootW.addrs

\* What the pass has seen has a client or is being added, and nothing else is.
PassAdds ==
  /\ \A a : UnderWay("add", a) => a \in Seen
  /\ \A a \in Seen : a \in clients \/ UnderWay("add", a)

PassInv ==
  Undisturbed => /\ PassAdds
                 /\ IF rootW.at = "get" THEN PassReads ELSE PassDeletes

MessageInv == MessageTypes /\ CopyIsMap /\ PassInv

\* At rest the goroutine has no event.
LEMMA AtRest ==
  /\ Message!Idle.at = "take" /\ Message!Idle.event = "none" /\ Message!Idle.copy = {}
  /\ Message!Idle.key \in Addrs
BY MessageNodesAssumption DEF Message!Idle

\* Steps of the cluster disturb the pass.
LEMMA FireKeeps ==
  ASSUME MessageInv, Message!FireMessageRoot, UNCHANGED <<clients, queue, work, quiet>>,
         binds' \in [MessageProcs -> SUBSET Addrs], nodes' \subseteq MessageProcs
  PROVE  MessageInv'
<1> USE DEF MessageInv
<1>1. rootW' \in [at : {"read", "kick", "get", "del", "wait"}, nodes : SUBSET MessageProcs,
                  addrs : SUBSET Addrs, nodesMap : SUBSET Addrs, fired : BOOLEAN]
      /\ rootW'.at # "wait" /\ ~(~rootW'.fired /\ rootW'.at \in {"get", "del"})
  <2>1. CASE rootW.at = "wait"
    BY <2>1 DEF Message!FireMessageRoot, MessageTypes, Message!Reading
  <2>2. CASE rootW.at \in {"read", "kick"}
    BY <2>2 DEF Message!FireMessageRoot, MessageTypes
  <2>3. CASE rootW.at \in {"get", "del"}
    BY <2>3 DEF Message!FireMessageRoot, MessageTypes
  <2> QED BY <2>1, <2>2, <2>3 DEF MessageTypes
<1>2. MessageTypes' /\ CopyIsMap' BY <1>1 DEF MessageTypes, CopyIsMap
<1>3. ~Undisturbed' BY <1>1 DEF Undisturbed
<1> QED BY <1>2, <1>3 DEF PassInv

\* A process registers, or ends, or the session with ZooKeeper is lost.
LEMMA ProcessesKeep ==
  MessageInv /\ (\/ \E p \in MessageProcs : \/ Message!EndProc(p)
                                            \/ \E B \in Binds : Message!RegisterProc(p, B)
                 \/ Message!LoseWatch) => MessageInv'
<1>1. ASSUME MessageInv, NEW p \in MessageProcs, Message!EndProc(p) PROVE MessageInv'
  <2>1. /\ UNCHANGED <<binds, clients, queue, work, quiet>> /\ nodes' \subseteq nodes
        /\ Message!FireMessageRoot
    BY <1>1 DEF Message!EndProc
  <2> QED BY <1>1, <2>1, FireKeeps DEF MessageInv, MessageTypes
<1>2. ASSUME MessageInv, NEW p \in MessageProcs, NEW B \in Binds, Message!RegisterProc(p, B)
      PROVE  MessageInv'
  <2>1. /\ UNCHANGED <<clients, queue, work, quiet>> /\ nodes' = nodes \cup {p}
        /\ binds' = [binds EXCEPT ![p] = B] /\ Message!FireMessageRoot
    BY <1>2 DEF Message!RegisterProc
  <2>2. binds' \in [MessageProcs -> SUBSET Addrs] /\ nodes' \subseteq MessageProcs
    BY <1>2, <2>1, MessageNodesAssumption DEF MessageInv, MessageTypes
  <2> QED BY <1>2, <2>1, <2>2, FireKeeps
<1>3. ASSUME MessageInv, Message!LoseWatch PROVE MessageInv'
  BY <1>3, FireKeeps DEF Message!LoseWatch, Message!zooKeeper, MessageInv, MessageTypes
<1> QED BY <1>1, <1>2, <1>3

\* Steps that leave the events and the map alone.
LEMMA NoEventMoves ==
  UNCHANGED <<queue, work>> => \A e, a : UnderWay(e, a)' <=> UnderWay(e, a)
BY DEF UnderWay

\* An event is sent.
LEMMA EventSent ==
  ASSUME MessageTypes, UNCHANGED work, NEW e \in {"add", "del"}, NEW a \in Addrs,
         Message!SendEvent(e, a)
  PROVE  /\ queue' \in Seq(MessageEvent)
         /\ \A f, b : UnderWay(f, b)' <=> UnderWay(f, b) \/ (f = e /\ b = a)
<1> PICK ev : ev = Message!NodeEvent(e, a) OBVIOUS
<1>1. ev \in MessageEvent /\ ev.event = e /\ ev.key = a BY DEF Message!NodeEvent, MessageEvent
<1>2. /\ queue \in Seq(MessageEvent) /\ Len(queue) \in Nat /\ queue' = Append(queue, ev)
  BY DEF MessageTypes, Message!SendEvent
<1>3. /\ queue' \in Seq(MessageEvent)
      /\ DOMAIN queue = 1..Len(queue) /\ DOMAIN queue' = 1..(Len(queue) + 1)
      /\ \A i \in 1..Len(queue) : queue'[i] = queue[i]
      /\ queue'[Len(queue) + 1] = ev
  BY <1>1, <1>2
<1>4. \A i : i \in DOMAIN queue' <=> i \in DOMAIN queue \/ i = Len(queue) + 1
  BY <1>2, <1>3
<1>5. \A i \in DOMAIN queue : queue'[i] = queue[i] BY <1>3
<1>6. ASSUME NEW f, NEW b PROVE UnderWay(f, b)' <=> UnderWay(f, b) \/ (f = e /\ b = a)
  BY <1>1, <1>3, <1>4, <1>5 DEF UnderWay
<1> QED BY <1>3, <1>6

\* A pass begins undisturbed only when no event is under way.
LEMMA ReadKeeps == MessageInv /\ Message!MessageRead => MessageInv'
<1> SUFFICES ASSUME MessageInv, Message!MessageRead PROVE MessageInv' OBVIOUS
<1> USE DEF MessageInv
<1>1. /\ UNCHANGED <<binds, nodes, clients, queue, work>>
      /\ quiet' = (queue = <<>> /\ work = Message!Idle)
      /\ rootW' = IF nodes # {} THEN [Message!Reading EXCEPT !.at = "get", !.nodes = nodes]
                  ELSE IF clients = {} THEN Message!Reading
                  ELSE [Message!Reading EXCEPT !.at = "kick", !.addrs = clients]
  BY DEF Message!MessageRead, Message!zooKeeper
<1>2. MessageTypes' BY <1>1 DEF MessageTypes, Message!Reading
<1>3. CopyIsMap' BY <1>1 DEF CopyIsMap
<1>4. ASSUME Undisturbed' PROVE PassAdds' /\ rootW'.at = "get" /\ PassReads'
  <2>1. rootW' = [at |-> "get", nodes |-> nodes, addrs |-> {}, nodesMap |-> {}, fired |-> FALSE]
    BY <1>1, <1>4 DEF Undisturbed, Message!Reading
  <2>2. queue' = <<>> /\ work' = Message!Idle BY <1>1, <1>4 DEF Undisturbed
  <2>3. DOMAIN queue' = {} BY <2>2
  <2>4. \A a : ~UnderWay("add", a)' /\ ~UnderWay("del", a)'
    BY <2>2, <2>3, AtRest DEF UnderWay
  <2>5. Registered' = Registered /\ Registered = UNION {binds[p] : p \in nodes}
    BY <1>1 DEF Registered, Message!Registered
  <2>6. rootW'.nodes = nodes /\ rootW'.nodesMap = {} /\ rootW'.addrs = {} BY <2>1
  <2>7. binds' = binds /\ nodes' = nodes BY <1>1
  <2>8. PassReads' BY <2>4, <2>5, <2>6, <2>7 DEF PassReads
  <2>9. PassAdds' BY <2>1, <2>4 DEF PassAdds, Seen
  <2> QED BY <2>1, <2>8, <2>9
<1> QED BY <1>2, <1>3, <1>4 DEF PassInv

\* A node is read: its addresses go from the nodes to be read to those to be sent.
LEMMA GetKeeps == MessageInv /\ Message!MessageGet => MessageInv'
<1> SUFFICES ASSUME MessageInv, Message!MessageGet PROVE MessageInv' OBVIOUS
<1> USE DEF MessageInv
<1>1. /\ UNCHANGED <<binds, nodes, clients, queue, work>>
      /\ rootW.at = "get" /\ rootW.addrs = {}
  BY DEF Message!MessageGet
<1>2. PICK p \in rootW.nodes :
        \/ /\ p \in nodes
           /\ rootW' = [rootW EXCEPT !.nodes = @ \ {p}, !.addrs = binds[p]]
           /\ UNCHANGED <<errors, quiet>>
        \/ /\ quiet' = (quiet /\ p \notin nodes)
           /\ rootW' = [rootW EXCEPT !.nodes = @ \ {p}]
  BY DEF Message!MessageGet
<1>3. MessageTypes' BY <1>1, <1>2, ZenonT(30) DEF MessageTypes
<1>4. CopyIsMap' BY <1>1 DEF CopyIsMap
<1>5. ASSUME Undisturbed' PROVE PassAdds' /\ rootW'.at = "get" /\ PassReads'
  <2>1. rootW'.at = "get" /\ rootW'.nodesMap = rootW.nodesMap /\ rootW'.fired = rootW.fired
        /\ rootW'.nodes = rootW.nodes \ {p}
    BY <1>1, <1>2 DEF MessageTypes
  <2>2. Undisturbed BY <1>1, <1>2, <1>5, <2>1 DEF Undisturbed, MessageTypes
  <2>3. PassAdds /\ PassReads BY <1>1, <2>2 DEF PassInv
  <2>4. p \in nodes BY <1>2, <2>3 DEF PassReads
  <2>5. rootW'.addrs = binds[p]
    BY <1>2, <1>5, <2>4 DEF Undisturbed, MessageTypes
  <2>6. \A e, a : UnderWay(e, a)' <=> UnderWay(e, a) BY <1>1, NoEventMoves
  <2>7. Registered' = Registered BY <1>1 DEF Registered, Message!Registered
  <2>8. UNION {binds[q] : q \in rootW.nodes} = binds[p] \cup UNION {binds[q] : q \in rootW.nodes \ {p}}
    OBVIOUS
  <2>9. PassReads' BY <1>1, <2>1, <2>3, <2>5, <2>6, <2>7, <2>8 DEF PassReads
  <2>10. PassAdds' BY <1>1, <2>1, <2>3, <2>6 DEF PassAdds, Seen
  <2> QED BY <2>1, <2>9, <2>10
<1> QED BY <1>3, <1>4, <1>5 DEF PassInv

\* An address is noted, and added when it has no client.
LEMMA AddKeeps == MessageInv /\ Message!MessageAdd => MessageInv'
<1> SUFFICES ASSUME MessageInv, Message!MessageAdd PROVE MessageInv' OBVIOUS
<1> USE DEF MessageInv
<1>1. /\ UNCHANGED <<binds, nodes, clients, work, quiet>> /\ rootW.at = "get"
  BY DEF Message!MessageAdd, Message!zooKeeper
<1>2. PICK a \in rootW.addrs :
        /\ rootW' = [rootW EXCEPT !.addrs = @ \ {a}, !.nodesMap = rootW.nodesMap \cup {a}]
        /\ IF a \in clients THEN UNCHANGED queue ELSE Message!SendEvent("add", a)
  BY DEF Message!MessageAdd, Message!Noted
<1>3. a \in Addrs BY DEF MessageTypes
<1>4. /\ queue' \in Seq(MessageEvent)
      /\ \A e, b : UnderWay(e, b)' <=> UnderWay(e, b) \/ (e = "add" /\ b = a /\ a \notin clients)
  <2>1. CASE a \in clients BY <1>1, <1>2, <2>1, NoEventMoves DEF MessageTypes
  <2>2. CASE a \notin clients BY <1>1, <1>2, <1>3, <2>2, EventSent
  <2> QED BY <2>1, <2>2
<1>5. MessageTypes' BY <1>1, <1>2, <1>3, <1>4 DEF MessageTypes
<1>6. CopyIsMap' BY <1>1 DEF CopyIsMap
<1>7. ASSUME Undisturbed' PROVE PassAdds' /\ rootW'.at = "get" /\ PassReads'
  <2>1. /\ rootW'.at = "get" /\ rootW'.nodesMap = rootW.nodesMap \cup {a}
        /\ rootW'.fired = rootW.fired /\ rootW'.nodes = rootW.nodes
        /\ rootW'.addrs = rootW.addrs \ {a}
    BY <1>1, <1>2 DEF MessageTypes
  <2>2. Undisturbed BY <1>1, <1>7, <2>1 DEF Undisturbed
  <2>3. PassAdds /\ PassReads BY <1>1, <2>2 DEF PassInv
  <2>4. Registered' = Registered BY <1>1 DEF Registered, Message!Registered
  <2>5. PassReads' BY <1>1, <1>2, <1>4, <2>1, <2>3, <2>4 DEF PassReads
  <2>6. PassAdds' BY <1>1, <1>4, <2>1, <2>3 DEF PassAdds, Seen
  <2> QED BY <2>1, <2>5, <2>6
<1> QED BY <1>5, <1>6, <1>7 DEF PassInv

\* All nodes are read: what the pass has seen is what is registered.
LEMMA AddedKeeps == MessageInv /\ Message!MessageAdded => MessageInv'
<1> SUFFICES ASSUME MessageInv, Message!MessageAdded PROVE MessageInv' OBVIOUS
<1> USE DEF MessageInv
<1>1. /\ UNCHANGED <<binds, nodes, clients, queue, work, quiet>>
      /\ rootW.at = "get" /\ rootW.nodes = {} /\ rootW.addrs = {}
      /\ rootW' = IF clients \subseteq rootW.nodesMap THEN Message!Waiting
                  ELSE [rootW EXCEPT !.at = "del", !.addrs = clients \ rootW.nodesMap]
  BY DEF Message!MessageAdded, Message!zooKeeper
<1>2. MessageTypes' BY <1>1 DEF MessageTypes, Message!Waiting, Message!Reading
<1>3. CopyIsMap' BY <1>1 DEF CopyIsMap
<1>4. ASSUME Undisturbed' PROVE PassAdds' /\ rootW'.at # "get" /\ PassDeletes'
  <2>1. \/ rootW'.at = "wait" /\ clients \subseteq rootW.nodesMap /\ ~rootW.fired
        \/ rootW'.at = "del" /\ rootW'.addrs = clients \ rootW.nodesMap /\ rootW'.fired = rootW.fired
    BY <1>1, <1>4 DEF Undisturbed, MessageTypes, Message!Waiting, Message!Reading
  <2>2. Undisturbed BY <1>1, <1>4, <2>1 DEF Undisturbed, MessageTypes
  <2>3. PassAdds /\ PassReads BY <1>1, <2>2 DEF PassInv
  <2>4. Registered' = Registered /\ Registered = rootW.nodesMap
    BY <1>1, <2>3 DEF Registered, Message!Registered, PassReads
  <2>5. \A e, a : UnderWay(e, a)' <=> UnderWay(e, a) BY <1>1, NoEventMoves
  <2>6. PassDeletes' BY <1>1, <2>1, <2>3, <2>4, <2>5 DEF PassDeletes, PassReads
  <2>7. PassAdds' BY <1>1, <2>1, <2>3, <2>4, <2>5 DEF PassAdds, Seen
  <2> QED BY <2>1, <2>6, <2>7
<1> QED BY <1>2, <1>3, <1>4 DEF PassInv

\* An address that is not registered is deleted.
LEMMA DelKeeps == MessageInv /\ Message!MessageDel => MessageInv'
<1> SUFFICES ASSUME MessageInv, Message!MessageDel PROVE MessageInv' OBVIOUS
<1> USE DEF MessageInv
<1>1. UNCHANGED <<binds, nodes, clients, work, quiet>> /\ rootW.at \in {"del", "kick"}
  BY DEF Message!MessageDel, Message!zooKeeper
<1>2. PICK a \in rootW.addrs :
        /\ Message!SendEvent("del", a)
        /\ rootW' = IF rootW.addrs # {a} THEN [rootW EXCEPT !.addrs = @ \ {a}]
                    ELSE IF rootW.at = "kick" THEN Message!Reading ELSE Message!Waiting
  BY DEF Message!MessageDel
<1>3. a \in Addrs BY DEF MessageTypes
<1>4. /\ queue' \in Seq(MessageEvent)
      /\ \A e, b : UnderWay(e, b)' <=> UnderWay(e, b) \/ (e = "del" /\ b = a)
  BY <1>1, <1>2, <1>3, EventSent
<1>5. MessageTypes' BY <1>1, <1>2, <1>3, <1>4 DEF MessageTypes, Message!Waiting, Message!Reading
<1>6. CopyIsMap' BY <1>1 DEF CopyIsMap
<1>7. ASSUME Undisturbed' PROVE PassAdds' /\ rootW'.at # "get" /\ PassDeletes'
  <2>1. /\ rootW.at = "del" /\ ~rootW.fired
        /\ \/ rootW'.at = "wait" /\ rootW.addrs = {a}
           \/ rootW'.at = "del" /\ rootW'.addrs = rootW.addrs \ {a}
    BY <1>1, <1>2, <1>7 DEF Undisturbed, MessageTypes, Message!Waiting, Message!Reading
  <2>2. Undisturbed BY <1>1, <1>7, <2>1 DEF Undisturbed
  <2>3. PassAdds /\ PassDeletes BY <2>1, <2>2 DEF PassInv
  <2>4. Registered' = Registered BY <1>1 DEF Registered, Message!Registered
  <2>5. a \notin Registered BY <1>2, <2>1, <2>3 DEF PassDeletes
  <2>6. PassDeletes' BY <1>1, <1>4, <2>1, <2>3, <2>4, <2>5 DEF PassDeletes
  <2>7. PassAdds' BY <1>1, <1>4, <2>1, <2>3, <2>4 DEF PassAdds, Seen
  <2> QED BY <2>1, <2>6, <2>7
<1> QED BY <1>5, <1>6, <1>7 DEF PassInv

\* The goroutine that owns the map: an event goes from the channel to its work, and
\* from there into the map.
LEMMA TakeEventKeeps == MessageInv /\ Message!TakeEvent => MessageInv'
<1> SUFFICES ASSUME MessageInv, Message!TakeEvent PROVE MessageInv' OBVIOUS
<1> USE DEF MessageInv
<1>1. /\ UNCHANGED <<binds, nodes, clients, rootW, quiet>>
      /\ work = Message!Idle /\ queue # <<>> /\ queue' = Tail(queue)
      /\ work' = [at |-> "work", event |-> Head(queue).event, key |-> Head(queue).key,
                  copy |-> clients]
  BY DEF Message!TakeEvent, Message!zooKeeper
<1>2. /\ queue \in Seq(MessageEvent) /\ Len(queue) \in Nat /\ Len(queue) > 0
      /\ DOMAIN queue = 1..Len(queue) /\ Head(queue) = queue[1] /\ queue[1] \in MessageEvent
      /\ queue' \in Seq(MessageEvent) /\ DOMAIN queue' = 1..(Len(queue) - 1)
      /\ \A i \in 1..(Len(queue) - 1) : queue'[i] = queue[i + 1]
  BY <1>1 DEF MessageTypes
<1>3. MessageTypes' BY <1>1, <1>2 DEF MessageTypes, MessageEvent
<1>4. CopyIsMap' BY <1>1 DEF CopyIsMap
<1>5. ASSUME NEW e \in {"add", "del"}, NEW a PROVE UnderWay(e, a)' <=> UnderWay(e, a)
  <2>1. work.event # e BY <1>1, AtRest
  <2>2. ASSUME NEW i \in DOMAIN queue, queue[i].event = e, queue[i].key = a
        PROVE  UnderWay(e, a)'
    <3>1. CASE i = 1 BY <1>1, <1>2, <2>2, <3>1 DEF UnderWay
    <3>2. CASE i # 1
      <4>1. i - 1 \in 1..(Len(queue) - 1) /\ (i - 1) + 1 = i BY <1>2, <3>2
      <4>2. i - 1 \in DOMAIN queue' /\ queue'[i - 1] = queue[i] BY <1>2, <4>1
      <4> QED BY <2>2, <4>2 DEF UnderWay
    <3> QED BY <3>1, <3>2
  <2>3. ASSUME NEW i \in DOMAIN queue', queue'[i].event = e, queue'[i].key = a
        PROVE  UnderWay(e, a)
    <3>1. i + 1 \in DOMAIN queue /\ queue'[i] = queue[i + 1] BY <1>2
    <3> QED BY <2>3, <3>1 DEF UnderWay
  <2>4. work'.event = e /\ work'.key = a => UnderWay(e, a)
    BY <1>1, <1>2 DEF UnderWay
  <2> QED BY <2>1, <2>2, <2>3, <2>4 DEF UnderWay
<1>6. Registered' = Registered BY <1>1 DEF Registered, Message!Registered
<1>7. PassInv'
  BY <1>1, <1>5, <1>6 DEF PassInv, Undisturbed, PassAdds, PassReads, PassDeletes, Seen
<1> QED BY <1>3, <1>4, <1>7

\* The event is applied to the copy.
LEMMA ChangeKeeps == MessageInv /\ Message!Change => MessageInv'
<1> SUFFICES ASSUME MessageInv, Message!Change PROVE MessageInv' OBVIOUS
<1> USE DEF MessageInv
<1>1. /\ UNCHANGED <<binds, nodes, clients, queue, rootW, quiet>>
      /\ work.at = "work" /\ work' = [work EXCEPT !.at = "replace", !.copy = Message!Changed]
  BY DEF Message!Change, Message!zooKeeper
<1>2. work \in [at : {"work", "replace"}, event : {"add", "del"}, key : Addrs, copy : SUBSET Addrs]
  BY <1>1, AtRest DEF MessageTypes
<1>3. Message!Changed = IF work.event = "add" THEN clients \cup {work.key} ELSE clients \ {work.key}
  BY <1>1 DEF Message!Changed, CopyIsMap
<1>4. /\ work' \in [at : {"work", "replace"}, event : {"add", "del"}, key : Addrs, copy : SUBSET Addrs]
      /\ work'.at = "replace" /\ work'.event = work.event /\ work'.key = work.key
      /\ work'.copy = Message!Changed
  BY <1>1, <1>2, <1>3 DEF MessageTypes
<1>5. MessageTypes' BY <1>1, <1>4 DEF MessageTypes
<1>6. CopyIsMap' BY <1>1, <1>3, <1>4 DEF CopyIsMap
<1>7. \A e, a : UnderWay(e, a)' <=> UnderWay(e, a) BY <1>1, <1>4 DEF UnderWay
<1>8. Registered' = Registered BY <1>1 DEF Registered, Message!Registered
<1>9. PassInv'
  BY <1>1, <1>7, <1>8 DEF PassInv, Undisturbed, PassAdds, PassReads, PassDeletes, Seen
<1> QED BY <1>5, <1>6, <1>9

\* An event that is dropped disturbs the pass.
LEMMA DiscardKeeps == MessageInv /\ Message!Discard => MessageInv'
<1> SUFFICES ASSUME MessageInv, Message!Discard PROVE MessageInv' OBVIOUS
<1>1. /\ UNCHANGED <<binds, nodes, clients, queue, rootW>>
      /\ work' = Message!Idle /\ quiet' = FALSE
  BY DEF Message!Discard, Message!zooKeeper
<1>2. MessageTypes' BY <1>1 DEF MessageInv, MessageTypes
<1>3. CopyIsMap' BY <1>1, AtRest DEF CopyIsMap
<1>4. ~Undisturbed' BY <1>1 DEF Undisturbed
<1> QED BY <1>2, <1>3, <1>4 DEF MessageInv, PassInv

\* The copy becomes the map: an event that was under way has had its effect.
LEMMA MapReplaceKeeps == MessageInv /\ Message!Replace => MessageInv'
<1> SUFFICES ASSUME MessageInv, Message!Replace PROVE MessageInv' OBVIOUS
<1> USE DEF MessageInv
<1>1. /\ UNCHANGED <<binds, nodes, queue, rootW, quiet>>
      /\ work.at = "replace" /\ clients' = work.copy /\ work' = Message!Idle
  BY DEF Message!Replace, Message!zooKeeper
<1>2. work.event \in {"add", "del"} /\ work.key \in Addrs
  BY <1>1, AtRest DEF MessageTypes
<1>3. clients' = IF work.event = "add" THEN clients \cup {work.key} ELSE clients \ {work.key}
  BY <1>1 DEF CopyIsMap
<1>4. clients' \subseteq Addrs BY <1>2, <1>3 DEF MessageTypes
<1>5. MessageTypes' BY <1>1, <1>4 DEF MessageTypes
<1>6. CopyIsMap' BY <1>1, AtRest DEF CopyIsMap
<1>7. /\ \A e \in {"add", "del"} : \A a : UnderWay(e, a)' => UnderWay(e, a)
      /\ \A e \in {"add", "del"} : \A a :
           UnderWay(e, a) => UnderWay(e, a)' \/ (e = work.event /\ a = work.key)
  BY <1>1, AtRest DEF UnderWay
<1>8. UnderWay(work.event, work.key) BY DEF UnderWay
<1>9. Registered' = Registered BY <1>1 DEF Registered, Message!Registered
<1>10. ASSUME Undisturbed' PROVE PassAdds' /\ IF rootW'.at = "get" THEN PassReads' ELSE PassDeletes'
  <2>1. Undisturbed BY <1>1, <1>10 DEF Undisturbed
  <2>2. PassAdds /\ IF rootW.at = "get" THEN PassReads ELSE PassDeletes BY <2>1 DEF PassInv
  <2>3. Seen' = Seen /\ Seen \subseteq Registered
    BY <1>1, <1>9, <2>2 DEF Seen, PassReads
  <2>4. CASE work.event = "add"
    <3>1. work.key \in Seen BY <1>8, <2>2, <2>4 DEF PassAdds
    <3>2. clients' = clients \cup {work.key} BY <1>3, <2>4
    <3>3. PassAdds' BY <1>7, <2>2, <2>3, <2>4, <3>2 DEF PassAdds
    <3>4. CASE rootW.at = "get"
      <4>1. PassReads' BY <1>1, <1>7, <1>9, <2>2, <3>4 DEF PassReads
      <4> QED BY <1>1, <3>3, <3>4, <4>1
    <3>5. CASE rootW.at # "get"
      <4>1. PassDeletes' BY <1>1, <1>7, <1>9, <2>2, <2>3, <2>4, <3>1, <3>2, <3>5 DEF PassDeletes
      <4> QED BY <1>1, <3>3, <3>5, <4>1
    <3> QED BY <3>4, <3>5
  <2>5. CASE work.event = "del"
    <3>1. rootW.at # "get" /\ work.key \notin Registered
      BY <1>8, <2>2, <2>5 DEF PassReads, PassDeletes
    <3>2. clients' = clients \ {work.key} BY <1>3, <2>5
    <3>3. PassAdds' BY <1>7, <2>2, <2>3, <2>5, <3>1, <3>2 DEF PassAdds
    <3>4. PassDeletes' BY <1>1, <1>7, <1>9, <2>2, <2>5, <3>1, <3>2 DEF PassDeletes
    <3> QED BY <1>1, <3>1, <3>3, <3>4
  <2> QED BY <1>2, <2>4, <2>5
<1> QED BY <1>5, <1>6, <1>10 DEF PassInv

\* At the start nobody is registered and nothing is under way.
LEMMA MessageBegins == Message!Init => MessageInv
<1> SUFFICES ASSUME Message!Init PROVE MessageInv OBVIOUS
<1> USE DEF Message!Init
<1>1. MessageTypes BY DEF MessageTypes, Message!Reading, MessageProcs
<1>2. CopyIsMap BY AtRest DEF CopyIsMap
<1>3. PassInv BY DEF PassInv, Undisturbed, Message!Reading
<1> QED BY <1>1, <1>2, <1>3 DEF MessageInv

\* A step of the watchers that is about the message nodes.
LEMMA MessageGoesOn == MessageInv /\ Message!Next => MessageInv'
BY ProcessesKeep, ReadKeeps, GetKeeps, AddKeeps, AddedKeeps, DelKeeps, TakeEventKeeps, ChangeKeeps,
   DiscardKeeps, MapReplaceKeeps
DEF Message!Next, Message!MessageRoot, Message!MessageHandler, MessageProcs

-----------------------------------------------------------------------------
(* The circle. *)

Positions == Lookup!Positions
Hashes    == Lookup!Hashes
Lists     == UNION {[1..n -> RingNodes] : n \in Nat}

\* What Ketama has of FiniteSets.
LEMMA LookupCardinality == \A S : Lookup!Cardinality(S) = Cardinality(S)
BY DEF Lookup!Cardinality, Cardinality

LEMMA PositionsAreNat == Positions = 0..MaxPos /\ MaxPos \in Nat /\ Positions \subseteq Nat
BY LookupAssumption DEF Positions, Lookup!Positions

\* Least finds the least.
LEMMA LeastIs ==
  ASSUME NEW S \in SUBSET Nat, S # {}
  PROVE  /\ Lookup!Least(S) \in S /\ \A y \in S : Lookup!Least(S) <= y
         /\ \A x \in S : (\A y \in S : x <= y) => Lookup!Least(S) = x
<1>1. Lookup!Least(S) \in S /\ \A y \in S : Lookup!Least(S) <= y
  BY HasLeast DEF Lookup!Least
<1>2. \A x \in S : (\A y \in S : x <= y) => Lookup!Least(S) = x
  <2> SUFFICES ASSUME NEW x \in S, \A y \in S : x <= y PROVE Lookup!Least(S) = x OBVIOUS
  <2> DEFINE l == Lookup!Least(S)
  <2>1. l \in Nat /\ x \in Nat /\ x <= l /\ l <= x BY <1>1
  <2> HIDE DEF l
  <2>2. l = x BY <2>1
  <2> QED BY <2>2 DEF l
<1> QED BY <1>1, <1>2

\* The virtual nodes of a list are finitely many, each at a position.
LEMMA VirtualIs ==
  ASSUME NEW h \in Hashes, NEW list \in Lists
  PROVE  /\ IsFiniteSet(Lookup!Virtual(list))
         /\ \A v \in Lookup!Virtual(list) : Lookup!Place(h, list, v) \in Positions
         /\ Lookup!Virtual(list) = {} => Lookup!Range(list) = {}
<1>1. PICK n \in Nat : list \in [1..n -> RingNodes] BY DEF Lists
<1>2. IsFiniteSet(1..n) /\ IsFiniteSet(1..VNodes) BY LookupAssumption, FS_Interval
<1>3. IsFiniteSet((1..n) \X (1..VNodes)) BY <1>2, FS_Product
<1>4. \A v \in Lookup!Virtual(list) : Lookup!Place(h, list, v) \in Positions
  <2> SUFFICES ASSUME NEW i \in 1..n, NEW j \in 1..VNodes
               PROVE  h[list[i]][j] \in Positions
    BY <1>1 DEF Lookup!Virtual, Lookup!Place
  <2>1. list[i] \in RingNodes BY <1>1
  <2> QED BY <2>1 DEF Hashes, Lookup!Hashes, Positions
<1>5. IsFiniteSet(Lookup!Virtual(list)) BY <1>1, <1>3 DEF Lookup!Virtual
<1>6. Lookup!Virtual(list) = {} => Lookup!Range(list) = {}
  <2>1. 1 \in 1..VNodes BY LookupAssumption
  <2>2. \A i \in DOMAIN list : <<i, 1>> \in Lookup!Virtual(list) BY <2>1 DEF Lookup!Virtual
  <2> QED BY <2>2 DEF Lookup!Range
<1> QED BY <1>4, <1>5, <1>6

\* The sorted positions are those of the virtual nodes, in order.
LEMMA PlacesAreSorted ==
  ASSUME NEW h \in Hashes, NEW list \in Lists
  PROVE  LET s == Lookup!SortedPlaces(h, list)
             V == Lookup!Virtual(list) IN
         /\ s \in Seq(Positions)
         /\ s = <<>> => V = {}
         /\ \A i, j \in DOMAIN s : i <= j => s[i] <= s[j]
         /\ Lookup!Range(s) = {Lookup!Place(h, list, v) : v \in V}
<1> DEFINE s == Lookup!SortedPlaces(h, list)
           V == Lookup!Virtual(list)
           Up(p) == Lookup!UpTo(h, list, p)
           c == Cardinality(V)
           Enough(i) == {p \in Positions : i <= Cardinality(Up(p))}
<1>1. IsFiniteSet(V) /\ c \in Nat /\ \A v \in V : Lookup!Place(h, list, v) \in Positions
  BY VirtualIs, FS_CardinalityType
<1>2. Positions = 0..MaxPos /\ MaxPos \in Nat /\ Positions \subseteq Nat BY PositionsAreNat
<1>3. \A p : Up(p) \subseteq V /\ IsFiniteSet(Up(p)) /\ Cardinality(Up(p)) \in Nat
  <2> TAKE p
  <2>1. Up(p) \subseteq V BY DEF Lookup!UpTo
  <2> QED BY <1>1, <2>1, FS_Subset, FS_CardinalityType
<1>4. \A i \in 1..c : Enough(i) # {} /\ Enough(i) \subseteq Nat
  <2>1. Up(MaxPos) = V BY <1>1, <1>2 DEF Lookup!UpTo
  <2> QED BY <1>2, <2>1
<1>5. s = [i \in 1..c |-> Lookup!Least(Enough(i))]
  <2>1. \A i : {p \in Lookup!Positions : i <= Lookup!Cardinality(Up(p))} = Enough(i)
    BY LookupCardinality DEF Positions
  <2>2. Lookup!Cardinality(V) = c BY LookupCardinality
  <2> HIDE DEF V, Enough, c
  <2> QED BY <2>1, <2>2 DEF Lookup!SortedPlaces, V
<1>6. \A i \in 1..c : s[i] \in Enough(i) /\ \A p \in Enough(i) : s[i] <= p
  <2> HIDE DEF Enough
  <2> QED BY <1>4, <1>5, LeastIs
<1> HIDE DEF s
<1>7. s \in [1..c -> Positions] BY <1>5, <1>6
<1>8. s \in Seq(Positions) /\ DOMAIN s = 1..c BY <1>1, <1>7
<1>9. s = <<>> => V = {}
  <2> SUFFICES ASSUME s = <<>> PROVE V = {} OBVIOUS
  <2>1. c = 0 BY <1>1, <1>8
  <2> QED BY <1>1, <2>1, FS_EmptySet
<1>10. \A i, j \in 1..c : i <= j => s[i] <= s[j]
  <2> SUFFICES ASSUME NEW i \in 1..c, NEW j \in 1..c, i <= j PROVE s[i] <= s[j] OBVIOUS
  <2>1. s[j] \in Enough(i) BY <1>1, <1>3, <1>6
  <2> QED BY <1>6, <2>1
<1>11. \A v \in V : \E i \in 1..c : s[i] = Lookup!Place(h, list, v)
  <2> SUFFICES ASSUME NEW v \in V PROVE \E i \in 1..c : s[i] = Lookup!Place(h, list, v) OBVIOUS
  <2> DEFINE p == Lookup!Place(h, list, v)
             i == Cardinality(Up(p))
  <2>1. p \in Positions BY <1>1
  <2>2. v \in Up(p) BY <1>2, <2>1 DEF Lookup!UpTo
  <2>3. i # 0 BY <1>3, <2>2, FS_EmptySet
  <2>4. i <= c BY <1>1, <1>3, FS_Subset
  <2>5. i \in 1..c BY <1>1, <1>3, <2>3, <2>4
  <2>6. p \in Enough(i) BY <1>3, <2>1
  <2>7. s[i] \in Positions /\ s[i] <= p /\ i <= Cardinality(Up(s[i])) BY <1>6, <2>5, <2>6
  <2>8. ASSUME s[i] # p PROVE FALSE
    <3>1. s[i] < p BY <1>2, <2>1, <2>7, <2>8
    <3>2. Up(s[i]) \subseteq Up(p) /\ v \notin Up(s[i])
      BY <1>1, <1>2, <2>1, <2>7, <3>1 DEF Lookup!UpTo
    <3>3. Cardinality(Up(s[i])) <= i /\ (i = Cardinality(Up(s[i])) => Up(p) = Up(s[i]))
      BY <1>3, <3>2, FS_Subset
    <3> QED BY <1>3, <2>2, <2>7, <3>2, <3>3
  <2> QED BY <2>5, <2>8
<1>12. \A i \in 1..c : \E v \in V : s[i] = Lookup!Place(h, list, v)
  <2> SUFFICES ASSUME NEW i \in 1..c, \A v \in V : s[i] # Lookup!Place(h, list, v) PROVE FALSE
    OBVIOUS
  <2>1. s[i] \in Positions /\ i <= Cardinality(Up(s[i])) BY <1>6
  <2>2. CASE s[i] = 0
    <3>1. Up(s[i]) = {} BY <1>1, <1>2, <2>2 DEF Lookup!UpTo
    <3> QED BY <2>1, <3>1, FS_EmptySet
  <2>3. CASE s[i] # 0
    <3>1. s[i] - 1 \in Positions BY <1>2, <2>1, <2>3
    <3>2. Up(s[i] - 1) = Up(s[i]) BY <1>1, <1>2, <2>1 DEF Lookup!UpTo
    <3>3. s[i] - 1 \in Enough(i) BY <2>1, <3>1, <3>2
    <3> QED BY <1>2, <1>6, <2>1, <3>3
  <2> QED BY <2>2, <2>3
<1>13. Lookup!Range(s) = {Lookup!Place(h, list, v) : v \in V}
  BY <1>8, <1>11, <1>12 DEF Lookup!Range
<1> QED BY <1>8, <1>9, <1>10, <1>13 DEF s

\* The last node of the list with a virtual node at a position has one there.
LEMMA WrittenIs ==
  ASSUME NEW h \in Hashes, NEW list \in Lists,
         NEW w \in Lookup!Virtual(list), NEW p, p = Lookup!Place(h, list, w)
  PROVE  /\ Lookup!Written(h, list, p) \in Lookup!Range(list)
         /\ \E i \in 1..VNodes : h[Lookup!Written(h, list, p)][i] = p
<1>1. PICK n \in Nat : list \in [1..n -> RingNodes] BY DEF Lists
<1> DEFINE Has(j) == \E i \in 1..VNodes : Lookup!Place(h, list, <<j, i>>) = p
           Back == {n - j : j \in {k \in 1..n : Has(k)}}
<1>2. Back \subseteq Nat BY <1>1
<1>3. Back # {}
  <2>1. w[1] \in 1..n /\ w[2] \in 1..VNodes /\ w = <<w[1], w[2]>> BY <1>1 DEF Lookup!Virtual
  <2> QED BY <2>1
<1>4. PICK b \in Back : \A y \in Back : b <= y BY <1>2, <1>3, HasLeast
<1>5. PICK j \in 1..n : Has(j) /\ b = n - j OBVIOUS
<1>6. \A k \in 1..n : Has(k) => k <= j
  <2> SUFFICES ASSUME NEW k \in 1..n, Has(k) PROVE k <= j OBVIOUS
  <2>1. n - k \in Back OBVIOUS
  <2> HIDE DEF Has, Back
  <2> QED BY <1>1, <1>4, <1>5, <2>1
<1>7. \A v \in Lookup!Virtual(list) : Lookup!Place(h, list, v) = p => v[1] <= j
  <2> SUFFICES ASSUME NEW v \in Lookup!Virtual(list), Lookup!Place(h, list, v) = p
               PROVE  v[1] <= j
    OBVIOUS
  <2>1. v[1] \in 1..n /\ v[2] \in 1..VNodes /\ v = <<v[1], v[2]>> BY <1>1 DEF Lookup!Virtual
  <2>2. Has(v[1]) BY <2>1
  <2> QED BY <1>6, <2>1, <2>2
<1> DEFINE g == CHOOSE k \in DOMAIN list :
                  /\ \E i \in 1..VNodes : Lookup!Place(h, list, <<k, i>>) = p
                  /\ \A v \in Lookup!Virtual(list) : Lookup!Place(h, list, v) = p => v[1] <= k
<1>8. g \in DOMAIN list /\ Has(g) BY <1>1, <1>5, <1>7
<1>9. Lookup!Written(h, list, p) = list[g] BY DEF Lookup!Written
<1> HIDE DEF g
<1> QED BY <1>8, <1>9 DEF Lookup!Place, Lookup!Range

-----------------------------------------------------------------------------
(* Lookups. *)

Circles(h) == {Lookup!initCircle2(h, list) : list \in Lists}

PlacesOf(h, S) == {h[n][i] : n \in S, i \in 1..VNodes}

\* The parts of a circle.
LEMMA CircleIs ==
  ASSUME NEW h \in Hashes, NEW c \in Circles(h)
  PROVE  /\ c.nodes \in Seq(Positions) /\ c.from \subseteq RingNodes
         /\ c.nodes = <<>> => c.from = {}
         /\ \A i, j \in DOMAIN c.nodes : i <= j => c.nodes[i] <= c.nodes[j]
         /\ Lookup!Range(c.nodes) = PlacesOf(h, c.from)
         /\ DOMAIN c.nodesMapping = PlacesOf(h, c.from)
         /\ \A p \in PlacesOf(h, c.from) :
              /\ c.nodesMapping[p] \in c.from
              /\ \E i \in 1..VNodes : h[c.nodesMapping[p]][i] = p
<1>1. PICK list \in Lists : c = Lookup!initCircle2(h, list) BY DEF Circles
<1> DEFINE V == Lookup!Virtual(list)
           P == {Lookup!Place(h, list, v) : v \in V}
<1>2. /\ c.nodes = Lookup!SortedPlaces(h, list) /\ c.from = Lookup!Range(list)
      /\ c.nodesMapping = [p \in P |-> Lookup!Written(h, list, p)]
  BY <1>1 DEF Lookup!initCircle2
<1>3. Lookup!Range(list) \subseteq RingNodes BY DEF Lists, Lookup!Range
<1>4. P = PlacesOf(h, c.from)
  <2>1. ASSUME NEW n \in c.from, NEW i \in 1..VNodes PROVE h[n][i] \in P
    <3>1. PICK j \in DOMAIN list : n = list[j] BY <1>2 DEF Lookup!Range
    <3>2. <<j, i>> \in V /\ Lookup!Place(h, list, <<j, i>>) = h[n][i]
      BY <3>1 DEF Lookup!Virtual, Lookup!Place
    <3> QED BY <3>2
  <2>2. ASSUME NEW v \in V PROVE Lookup!Place(h, list, v) \in PlacesOf(h, c.from)
    BY <1>2 DEF Lookup!Virtual, Lookup!Place, Lookup!Range, PlacesOf
  <2> QED BY <2>1, <2>2 DEF PlacesOf
<1>5. ASSUME NEW p \in P
      PROVE  /\ c.nodesMapping[p] \in c.from
             /\ \E i \in 1..VNodes : h[c.nodesMapping[p]][i] = p
  <2>1. PICK v \in V : p = Lookup!Place(h, list, v) OBVIOUS
  <2>2. c.nodesMapping[p] = Lookup!Written(h, list, p) BY <1>2
  <2> QED BY <1>2, <2>1, <2>2, WrittenIs
<1>6. c.nodes = <<>> => c.from = {} BY <1>2, PlacesAreSorted, VirtualIs
<1> QED BY <1>2, <1>3, <1>4, <1>5, <1>6, PlacesAreSorted

\* q is the first of the positions P from x on, around the circle.
IsNearest(P, q, x) ==
  \A p \in P : IF x <= q THEN x <= p => q <= p ELSE q <= p /\ p < x

LEMMA NearestIs ==
  ASSUME NEW P \in SUBSET Positions, P # {}, NEW x \in Positions
  PROVE  /\ Lookup!Nearest(P, x) \in P /\ IsNearest(P, Lookup!Nearest(P, x), x)
         /\ \A q \in P : IsNearest(P, q, x) => Lookup!Nearest(P, x) = q
<1> DEFINE after == {p \in P : x <= p}
           F == IF after = {} THEN P ELSE after
           l == Lookup!Least(F)
<1>1. Lookup!Nearest(P, x) = l BY DEF Lookup!Nearest
<1>2. P \subseteq Nat /\ x \in Nat /\ F \subseteq Nat /\ F # {}
  <2>1. P \subseteq Nat /\ x \in Nat BY PositionsAreNat
  <2> QED BY <2>1
<1>3. l \in F /\ (\A y \in F : l <= y) /\ \A q \in F : (\A y \in F : q <= y) => l = q
  <2> HIDE DEF F
  <2> QED BY <1>2, LeastIs
<1> HIDE DEF l
<1>4. IsNearest(P, l, x) BY <1>2, <1>3 DEF IsNearest
<1>5. \A q \in P : IsNearest(P, q, x) => l = q
  <2> SUFFICES ASSUME NEW q \in P, IsNearest(P, q, x) PROVE l = q OBVIOUS
  <2>1. q \in F /\ \A y \in F : q <= y BY <1>2 DEF IsNearest
  <2> QED BY <1>3, <2>1
<1> QED BY <1>1, <1>3, <1>4, <1>5

\* What is known of a search that is under way.
Searching(q) ==
  /\ q.circle \in Circles(hash) /\ q.circle.nodes # <<>>
  /\ q.lo \in Nat /\ q.hi \in Nat /\ q.lo <= q.hi /\ q.hi <= Len(q.circle.nodes)
  /\ \A k \in 1..q.lo : q.circle.nodes[k] < q.x
  /\ \A k \in (q.hi + 1)..Len(q.circle.nodes) : q.x <= q.circle.nodes[k]

\* The search ends at the position nearest to the key.
LEMMA FoundIs ==
  ASSUME NEW q, hash \in Hashes, q.x \in Positions, Searching(q), q.lo = q.hi
  PROVE  /\ q.circle.nodesMapping[Lookup!Found(q)] \in q.circle.from
         /\ q.circle.nodesMapping[Lookup!Found(q)] \in Lookup!Owners(hash, q.circle.from, q.x)
<1> DEFINE c == q.circle
           s == q.circle.nodes
           f == Lookup!Found(q)
           P == PlacesOf(hash, c.from)
<1>1. c \in Circles(hash) /\ s \in Seq(Positions) /\ s # <<>> BY CircleIs DEF Searching
<1>2. Len(s) \in Nat \ {0} /\ DOMAIN s = 1..Len(s) /\ \A i \in 1..Len(s) : s[i] \in Positions
  BY <1>1
<1>3. /\ \A i, j \in 1..Len(s) : i <= j => s[i] <= s[j]
      /\ P = {s[i] : i \in 1..Len(s)}
      /\ \A p \in P : c.nodesMapping[p] \in c.from /\ \E i \in 1..VNodes : hash[c.nodesMapping[p]][i] = p
  BY <1>1, <1>2, CircleIs DEF Lookup!Range
<1>4. P \subseteq Positions /\ P # {}
  <2>1. 1 \in 1..Len(s) BY <1>2
  <2>2. P = {s[i] : i \in 1..Len(s)} BY <1>3
  <2> HIDE DEF P
  <2>3. s[1] \in P BY <2>1, <2>2
  <2>4. P \subseteq Positions BY <1>2, <2>2
  <2> QED BY <2>3, <2>4
<1>5. Positions \subseteq Nat BY PositionsAreNat
<1> DEFINE k == IF q.lo = Len(s) THEN 1 ELSE q.lo + 1
<1>6. f = s[k] /\ k \in 1..Len(s) /\ f \in P BY <1>2, <1>3 DEF Lookup!Found, Searching
<1>7. IsNearest(P, f, q.x)
  <2> SUFFICES ASSUME NEW j \in 1..Len(s)
               PROVE  IF q.x <= f THEN q.x <= s[j] => f <= s[j] ELSE f <= s[j] /\ s[j] < q.x
    BY <1>3 DEF IsNearest
  <2>1. s[j] \in Nat /\ f \in Nat /\ q.x \in Nat BY <1>2, <1>4, <1>5, <1>6
  <2>2. CASE q.lo = Len(s)
    <3>1. s[j] < q.x BY <2>2 DEF Searching
    <3>2. f <= s[j] BY <1>2, <1>3, <1>6, <2>2
    <3> QED BY <2>1, <3>1, <3>2
  <2>3. CASE q.lo # Len(s)
    <3>1. q.lo \in Nat /\ q.lo < Len(s) /\ k = q.lo + 1 BY <1>2, <2>3 DEF Searching
    <3>2. q.x <= f BY <1>2, <1>6, <3>1 DEF Searching
    <3>3. CASE j <= q.lo
      <4>1. s[j] < q.x BY <3>1, <3>3 DEF Searching
      <4> QED BY <2>1, <3>2, <4>1
    <3>4. CASE ~(j <= q.lo)
      <4>1. f <= s[j] BY <1>2, <1>3, <1>6, <3>1, <3>4
      <4> QED BY <2>1, <3>2, <4>1
    <3> QED BY <3>3, <3>4
  <2> QED BY <2>2, <2>3
<1>8. f = Lookup!Nearest(P, q.x)
  <2> HIDE DEF P, f
  <2>1. P \in SUBSET Positions BY <1>4
  <2>2. f \in P BY <1>6
  <2> QED BY <1>4, <1>7, <2>1, <2>2, NearestIs
<1>9. c.nodesMapping[f] \in c.from /\ \E i \in 1..VNodes : hash[c.nodesMapping[f]][i] = f
  BY <1>3, <1>6
<1>10. Lookup!Owners(hash, c.from, q.x) =
         {n \in c.from : \E i \in 1..VNodes : hash[n][i] = Lookup!Nearest(P, q.x)}
  BY DEF Lookup!Owners, PlacesOf
<1> HIDE DEF P, f
<1>11. c.nodesMapping[f] \in Lookup!Owners(hash, c.from, q.x) BY <1>8, <1>9, <1>10
<1> QED BY <1>9, <1>11 DEF f

Node == RingNodes \cup {NoNode}

IsCall(q) ==
  q = [at |-> q.at, x |-> q.x, circle |-> q.circle, lo |-> q.lo, hi |-> q.hi,
       node |-> q.node, ans |-> q.ans, quiet |-> q.quiet]

\* What the call has seen: while it is quiet, its circle is that of the map.
CallInv ==
  /\ IsCall(call) /\ call.at \in {"idle", "ring", "search", "map", "answered"}
  /\ call.quiet => changed = NoNode
  /\ Lookup!Pending => call.x \in Positions
  /\ call.at = "ring" => circle \in Circles(hash) /\ call.node = NoNode /\ call.lo = 0
  /\ call.at = "search" =>
       Searching(call) /\ (call.quiet => call.circle.from = Lookup!Listed(info))
  /\ call.at = "map" /\ call.node = NoNode => (call.quiet => Lookup!Listed(info) = {})
  /\ call.at = "map" /\ call.node # NoNode =>
       /\ call.node \in RingNodes /\ call.node \in Lookup!Owners(hash, call.circle.from, call.x)
       /\ call.quiet => call.circle.from = Lookup!Listed(info)
  /\ Lookup!QuietLookup

\* The circle is the one of the map, but between the two steps of an event.
MapInv ==
  /\ hash \in Hashes
  /\ info \in [RingNodes -> {"absent", "nil", "client"}]
  /\ changed \in Node
  /\ circle \in Circles(hash) \cup {Lookup!NoCircle}
  /\ changed = NoNode => circle.from = Lookup!Listed(info)

LookupInv == MapInv /\ CallInv

LEMMA NoCircleIs ==
  /\ Lookup!NoCircle.from = {} /\ Lookup!NoCircle.nodes = <<>>
  /\ \A h : \A c \in Circles(h) : c # Lookup!NoCircle
<1>1. ASSUME NEW h, NEW c \in Circles(h) PROVE c.is = "made"
  <2>1. PICK list : c = Lookup!initCircle2(h, list) BY DEF Circles
  <2> QED BY <2>1 DEF Lookup!initCircle2
<1>2. Lookup!NoCircle.is = "nil" BY DEF Lookup!NoCircle
<1> QED BY <1>1, <1>2 DEF Lookup!NoCircle

\* No call, and one that is answered.
LEMMA NoCallIs ==
  /\ IsCall(Lookup!NoCall) /\ Lookup!NoCall.at = "idle" /\ Lookup!NoCall.quiet = FALSE
  /\ Lookup!NoCall.node = NoNode /\ Lookup!NoCall.lo = 0
<1> DEFINE c == Lookup!NoCall
<1>1. c.at = "idle" /\ c.x = 0 /\ c.circle = Lookup!NoCircle /\ c.lo = 0 /\ c.hi = 0
      /\ c.node = NoNode /\ c.ans = "nil" /\ c.quiet = FALSE
  BY DEF Lookup!NoCall
<1>2. c = [at |-> "idle", x |-> 0, circle |-> Lookup!NoCircle, lo |-> 0, hi |-> 0,
           node |-> NoNode, ans |-> "nil", quiet |-> FALSE]
  BY DEF Lookup!NoCall
<1> QED BY ONLY <1>1, <1>2 DEF IsCall

LEMMA AnswerIs ==
  ASSUME NEW q, NEW a
  PROVE  LET r == Lookup!Answer(q, a) IN
         IsCall(r) /\ r.at = "answered" /\ r.x = q.x /\ r.ans = a /\ r.quiet = q.quiet
<1> DEFINE r == Lookup!Answer(q, a)
<1>1. IsCall(Lookup!NoCall) BY NoCallIs
<1>2. r = [Lookup!NoCall EXCEPT !.at = "answered", !.x = q.x, !.ans = a, !.quiet = q.quiet]
  BY DEF Lookup!Answer
<1> HIDE DEF r
<1>3. IsCall(r) /\ r.at = "answered" /\ r.x = q.x /\ r.ans = a /\ r.quiet = q.quiet
  BY <1>1, <1>2 DEF IsCall
<1> QED BY <1>3 DEF r

\* A call that begins.
LEMMA BegunIs ==
  ASSUME NEW x, NEW b
  PROVE  LET r == [Lookup!NoCall EXCEPT !.x = x, !.quiet = b] IN
         IsCall(r) /\ r.x = x /\ r.node = NoNode /\ r.lo = 0
<1> DEFINE r == [Lookup!NoCall EXCEPT !.x = x, !.quiet = b]
<1>1. IsCall(Lookup!NoCall) /\ Lookup!NoCall.node = NoNode /\ Lookup!NoCall.lo = 0 BY NoCallIs
<1>2. r = [Lookup!NoCall EXCEPT !.x = x, !.quiet = b] OBVIOUS
<1> HIDE DEF r
<1>3. IsCall(r) /\ r.x = x /\ r.node = NoNode /\ r.lo = 0 BY <1>1, <1>2 DEF IsCall
<1> QED BY <1>3 DEF r

LEMMA LookupBegins == Lookup!Init => LookupInv
<1> SUFFICES ASSUME Lookup!Init PROVE LookupInv OBVIOUS
<1> USE DEF Lookup!Init
<1>1. MapInv
  <2>1. hash \in Hashes
    BY LookupAssumption DEF Hashes, Lookup!Hashes, Lookup!Positions
  <2>2. Lookup!Listed(info) = {} BY DEF Lookup!Listed
  <2> QED BY <2>1, <2>2, NoCircleIs DEF MapInv, Node
<1>2. CallInv BY NoCallIs DEF CallInv, Lookup!Pending, Lookup!QuietLookup
<1> QED BY <1>1, <1>2 DEF LookupInv

\* An event goes into the map: no call is quiet any more.
LEMMA EventKeeps ==
  ASSUME LookupInv, NEW n \in RingNodes, Lookup!HandleEvent(n) PROVE LookupInv'
<1> USE DEF LookupInv, Lookup!HandleEvent
<1>1. n # NoNode /\ n \in Node BY LookupAssumption DEF Node
<1>2. MapInv' BY <1>1 DEF MapInv, Circles
<1>3. /\ IsCall(call') /\ call'.quiet = FALSE /\ call'.at = call.at /\ call'.x = call.x
      /\ call'.circle = call.circle /\ call'.lo = call.lo /\ call'.hi = call.hi
      /\ call'.node = call.node
  BY DEF CallInv, IsCall
<1>4. call.at = "search" => Searching(call)' BY <1>3 DEF CallInv, Searching, Circles
<1>5. Lookup!Pending' <=> Lookup!Pending BY <1>3 DEF Lookup!Pending
<1>6. hash' = hash /\ circle' = circle OBVIOUS
<1>7. call.at = "map" /\ call.node # NoNode =>
        call'.node \in Lookup!Owners(hash', call'.circle.from, call'.x)
  BY <1>3, <1>6 DEF CallInv
<1>8. Lookup!QuietLookup' BY <1>3 DEF Lookup!QuietLookup
<1>9. CallInv' BY <1>3, <1>4, <1>5, <1>6, <1>7, <1>8 DEF CallInv, Circles
<1> QED BY <1>2, <1>9

\* A list of the nodes in the map, and the circle made of it.
LEMMA HashKeeps == LookupInv /\ Lookup!HandleHash => LookupInv'
<1> SUFFICES ASSUME LookupInv, Lookup!HandleHash PROVE LookupInv' OBVIOUS
<1> USE DEF LookupInv
<1> DEFINE S == Lookup!Listed(info)
<1>1. PICK list \in Lookup!Bijection(1..Lookup!Cardinality(S), S) :
         circle' = Lookup!initCircle2(hash, list)
  BY DEF Lookup!HandleHash
<1>2. S \subseteq RingNodes /\ Cardinality(S) \in Nat
  <2>1. S \subseteq RingNodes BY DEF Lookup!Listed
  <2> QED BY <2>1, LookupAssumption, FS_Subset, FS_CardinalityType
<1>3. list \in [1..Cardinality(S) -> S] /\ Lookup!Range(list) = S
  BY <1>1, LookupCardinality
  DEF Lookup!Bijection, Lookup!Injection, Lookup!Surjection, Lookup!IsInjective, Lookup!Range
<1>4. list \in Lists BY <1>2, <1>3 DEF Lists
<1>5. /\ UNCHANGED <<hash, info, call>> /\ changed' = NoNode /\ changed # NoNode
      /\ circle' \in Circles(hash) /\ circle'.from = S
  BY <1>1, <1>3, <1>4 DEF Lookup!HandleHash, Circles, Lookup!initCircle2
<1> HIDE DEF S
<1>6. MapInv' BY <1>5 DEF MapInv, Node, Circles, S
<1>7. call.at = "search" => Searching(call)' BY <1>5 DEF CallInv, Searching, Circles
<1>8. call.quiet = FALSE BY <1>5 DEF CallInv
<1>9. Lookup!QuietLookup' /\ (Lookup!Pending' <=> Lookup!Pending)
  BY <1>5, <1>8 DEF Lookup!QuietLookup, Lookup!Pending
<1>10. call.at = "map" /\ call.node # NoNode =>
         call'.node \in Lookup!Owners(hash', call'.circle.from, call'.x)
  BY <1>5 DEF CallInv
<1>11. CallInv' BY <1>5, <1>7, <1>8, <1>9, <1>10 DEF CallInv, Circles
<1> QED BY <1>6, <1>11

\* A call changes neither the map nor the circle.
LEMMA CallLeavesMap == MapInv /\ UNCHANGED <<hash, info, circle, changed>> => MapInv'
BY DEF MapInv, Circles

LEMMA GetCometKeeps ==
  ASSUME LookupInv, NEW x \in Sought, Lookup!GetComet(x) PROVE LookupInv'
<1> USE DEF LookupInv, Lookup!GetComet
<1>1. MapInv' BY CallLeavesMap
<1> DEFINE q == [Lookup!NoCall EXCEPT !.x = x, !.quiet = (changed = NoNode)]
<1>2. IsCall(q) /\ q.x = x /\ q.node = NoNode /\ q.lo = 0 BY ONLY BegunIs
<1>5. x \in Positions BY LookupAssumption DEF Positions, Lookup!Positions
<1>6. q.quiet <=> changed = NoNode BY NoCallIs DEF IsCall
<1>3. CASE circle = Lookup!NoCircle \/ Lookup!Listed(info) = {}
  <2>1. call' = Lookup!Answer(q, "nil") BY <1>3
  <2> HIDE DEF q
  <2>2. IsCall(call') /\ call'.at = "answered" /\ call'.ans = "nil" /\ call'.quiet = q.quiet
    <3> DEFINE r == Lookup!Answer(q, "nil")
    <3>1. IsCall(r) /\ r.at = "answered" /\ r.ans = "nil" /\ r.quiet = q.quiet BY AnswerIs
    <3> HIDE DEF r
    <3> QED BY <2>1, <3>1 DEF r
  <2>3. changed = NoNode => Lookup!Listed(info) = {} BY <1>3, NoCircleIs DEF MapInv
  <2>4. Lookup!Listed(info)' = Lookup!Listed(info) BY DEF Lookup!Listed
  <2>5. Lookup!QuietLookup' BY <2>2, <2>3, <2>4, <1>6 DEF Lookup!QuietLookup
  <2> QED BY <1>1, <2>2, <2>5, <1>6 DEF CallInv, Lookup!Pending
<1>4. CASE ~(circle = Lookup!NoCircle \/ Lookup!Listed(info) = {})
  <2>1. call' = [q EXCEPT !.at = "ring"] BY <1>4
  <2> HIDE DEF q
  <2>2. /\ IsCall(call') /\ call'.at = "ring" /\ call'.x = x /\ call'.quiet = q.quiet
        /\ call'.lo = 0 /\ call'.node = NoNode
    BY <1>2, <2>1 DEF IsCall
  <2>3. circle \in Circles(hash) BY <1>4 DEF MapInv
  <2> QED BY <1>1, <1>5, <1>6, <2>2, <2>3 DEF CallInv, Lookup!Pending, Lookup!QuietLookup, Circles
<1> QED BY <1>3, <1>4

LEMMA NodeKeeps == LookupInv /\ Lookup!Node => LookupInv'
<1> SUFFICES ASSUME LookupInv, Lookup!Node PROVE LookupInv' OBVIOUS
<1> USE DEF LookupInv, Lookup!Node
<1>1. MapInv' BY CallLeavesMap
<1>2. circle \in Circles(hash) /\ hash \in Hashes /\ call.x \in Positions
  BY DEF CallInv, MapInv, Lookup!Pending
<1>3. CASE circle.nodes = <<>>
  <2>1. /\ IsCall(call') /\ call'.at = "map" /\ call'.x = call.x /\ call'.quiet = call.quiet
        /\ call'.node = NoNode
    BY <1>3 DEF CallInv, IsCall
  <2>2. circle.from = {} BY <1>2, <1>3, CircleIs
  <2>3. call.quiet => Lookup!Listed(info) = {} BY <2>2 DEF CallInv, MapInv
  <2>4. CallInv' BY <1>2, <2>1, <2>3 DEF CallInv, Lookup!QuietLookup, Lookup!Listed
  <2> QED BY <1>1, <2>4
<1>4. CASE circle.nodes # <<>>
  <2>1. /\ IsCall(call') /\ call'.at = "search" /\ call'.x = call.x /\ call'.quiet = call.quiet
        /\ call'.circle = circle /\ call'.lo = 0 /\ call'.hi = Len(circle.nodes)
    BY <1>4 DEF CallInv, IsCall
  <2>2. circle.nodes \in Seq(Positions) BY <1>2, CircleIs
  <2>3. Len(circle.nodes) \in Nat BY <2>2
  <2>4. Searching(call)' BY <1>2, <1>4, <2>1, <2>3 DEF Searching, Circles
  <2>5. call.quiet => circle.from = Lookup!Listed(info) BY DEF CallInv, MapInv
  <2>6. CallInv' BY <1>2, <2>1, <2>4, <2>5 DEF CallInv, Lookup!QuietLookup, Lookup!Listed
  <2> QED BY <1>1, <2>6
<1> QED BY <1>3, <1>4

\* A round of the search keeps what is before lo below the key, and from hi on not.
LEMMA SearchKeeps == LookupInv /\ Lookup!searchLeft => LookupInv'
<1> SUFFICES ASSUME LookupInv, Lookup!searchLeft PROVE LookupInv' OBVIOUS
<1> USE DEF LookupInv, Lookup!searchLeft
<1>1. MapInv' BY CallLeavesMap
<1> DEFINE s == call.circle.nodes
           mid == (call.lo + call.hi) \div 2
<1>2. /\ IsCall(call) /\ call.x \in Positions /\ Searching(call) /\ hash \in Hashes
      /\ call.quiet => call.circle.from = Lookup!Listed(info)
  BY DEF CallInv, MapInv, Lookup!Pending
<1>3. s \in Seq(Positions) /\ \A i, j \in DOMAIN s : i <= j => s[i] <= s[j]
  BY <1>2, CircleIs DEF Searching
<1>4. Len(s) \in Nat /\ DOMAIN s = 1..Len(s) /\ \A i \in 1..Len(s) : s[i] \in Nat
  BY <1>3, PositionsAreNat
<1>5. call.lo \in Nat /\ call.hi \in Nat /\ call.lo < call.hi /\ call.hi <= Len(s)
  BY <1>2 DEF Searching
<1>6. mid \in Nat /\ call.lo <= mid /\ mid < call.hi BY <1>5
<1>7. call.x \in Nat BY <1>2, PositionsAreNat
<1> HIDE DEF mid
<1>8. CASE s[mid + 1] < call.x
  <2>1. call' = [call EXCEPT !.lo = mid + 1] BY <1>8 DEF Lookup!Before, mid
  <2>2. /\ IsCall(call') /\ call'.at = "search" /\ call'.x = call.x /\ call'.quiet = call.quiet
        /\ call'.circle = call.circle /\ call'.lo = mid + 1 /\ call'.hi = call.hi
    BY <1>2, <2>1 DEF IsCall
  <2>3. \A k \in 1..(mid + 1) : s[k] < call.x
    <3> SUFFICES ASSUME NEW k \in 1..(mid + 1) PROVE s[k] < call.x OBVIOUS
    <3>1. k \in 1..Len(s) /\ mid + 1 \in 1..Len(s) /\ k <= mid + 1 BY <1>4, <1>5, <1>6
    <3>2. s[k] <= s[mid + 1] BY <1>3, <1>4, <3>1
    <3> QED BY <1>4, <1>7, <1>8, <3>1, <3>2
  <2>4. Searching(call)' BY <1>2, <1>5, <1>6, <2>2, <2>3 DEF Searching, Circles
  <2>5. CallInv'
    BY <1>2, <2>2, <2>4 DEF CallInv, Lookup!QuietLookup, Lookup!Listed
  <2> QED BY <1>1, <2>5
<1>9. CASE ~(s[mid + 1] < call.x)
  <2>1. call' = [call EXCEPT !.hi = mid] BY <1>9 DEF Lookup!Before, mid
  <2>2. /\ IsCall(call') /\ call'.at = "search" /\ call'.x = call.x /\ call'.quiet = call.quiet
        /\ call'.circle = call.circle /\ call'.lo = call.lo /\ call'.hi = mid
    BY <1>2, <2>1 DEF IsCall
  <2>3. \A k \in (mid + 1)..Len(s) : call.x <= s[k]
    <3> SUFFICES ASSUME NEW k \in (mid + 1)..Len(s) PROVE call.x <= s[k] OBVIOUS
    <3>1. k \in 1..Len(s) /\ mid + 1 \in 1..Len(s) /\ mid + 1 <= k BY <1>4, <1>5, <1>6
    <3>2. s[mid + 1] <= s[k] BY <1>3, <1>4, <3>1
    <3> QED BY <1>4, <1>7, <1>9, <3>1, <3>2
  <2>4. Searching(call)' BY <1>2, <1>4, <1>5, <1>6, <2>2, <2>3 DEF Searching, Circles
  <2>5. CallInv'
    BY <1>2, <2>2, <2>4 DEF CallInv, Lookup!QuietLookup, Lookup!Listed
  <2> QED BY <1>1, <2>5
<1> QED BY <1>8, <1>9

\* The search is over.
LEMMA FindKeeps == LookupInv /\ Lookup!Find => LookupInv'
<1> SUFFICES ASSUME LookupInv, Lookup!Find PROVE LookupInv' OBVIOUS
<1> USE DEF LookupInv, Lookup!Find
<1>1. MapInv' BY CallLeavesMap
<1> DEFINE n == call.circle.nodesMapping[Lookup!Found(call)]
<1>2. /\ IsCall(call) /\ call.x \in Positions /\ Searching(call) /\ hash \in Hashes
      /\ call.quiet => call.circle.from = Lookup!Listed(info)
      /\ call.lo = call.hi
  BY DEF CallInv, MapInv, Lookup!Pending
<1>3. n \in call.circle.from /\ n \in Lookup!Owners(hash, call.circle.from, call.x)
  BY <1>2, FoundIs
<1>4. call.circle.from \subseteq RingNodes BY <1>2, CircleIs DEF Searching
<1>5. n \in RingNodes /\ n # NoNode BY <1>3, <1>4, LookupAssumption
<1> HIDE DEF n
<1>6. call' = [call EXCEPT !.at = "map", !.node = n] BY DEF n
<1>7. /\ IsCall(call') /\ call'.at = "map" /\ call'.x = call.x /\ call'.quiet = call.quiet
      /\ call'.circle = call.circle /\ call'.node = n
  BY <1>2, <1>6 DEF IsCall
<1>8. CallInv'
  BY <1>2, <1>3, <1>5, <1>7 DEF CallInv, Lookup!QuietLookup, Lookup!Listed
<1> QED BY <1>1, <1>8

\* The map is asked for the node.
LEMMA AnswerKeeps == LookupInv /\ Lookup!Lookup => LookupInv'
<1> SUFFICES ASSUME LookupInv, Lookup!Lookup PROVE LookupInv' OBVIOUS
<1> USE DEF LookupInv, Lookup!Lookup
<1>1. MapInv' BY CallLeavesMap
<1> DEFINE a == IF call.node \in RingNodes /\ info[call.node] = "client" THEN "client" ELSE "nil"
<1>2. call' = Lookup!Answer(call, a) OBVIOUS
<1> HIDE DEF a
<1>3. /\ IsCall(call') /\ call'.at = "answered" /\ call'.x = call.x /\ call'.ans = a
      /\ call'.quiet = call.quiet
  BY <1>2, AnswerIs
<1>4. CASE call.node = NoNode
  <2>1. a = "nil" BY <1>4, LookupAssumption DEF a
  <2>2. call.quiet => Lookup!Listed(info) = {} BY <1>4 DEF CallInv
  <2> QED BY <1>1, <1>3, <2>1, <2>2 DEF CallInv, Lookup!QuietLookup, Lookup!Listed, Lookup!Pending
<1>5. CASE call.node # NoNode
  <2>1. call.node \in RingNodes /\ (a = "client" <=> info[call.node] = "client")
    BY <1>5 DEF CallInv, a
  <2>2. call.quiet => call.node \in Lookup!Owners(hash, Lookup!Listed(info), call.x)
    BY <1>5 DEF CallInv
  <2>3. Lookup!Listed(info)' = Lookup!Listed(info) BY DEF Lookup!Listed
  <2>4. \A S : Lookup!Owners(hash', S, call'.x) = Lookup!Owners(hash, S, call.x) BY <1>3
  <2>5. Lookup!QuietLookup'
    BY <1>3, <2>1, <2>2, <2>3, <2>4 DEF Lookup!QuietLookup
  <2> QED BY <1>1, <1>3, <2>5 DEF CallInv, Lookup!Pending
<1> QED BY <1>4, <1>5

\* A step of the lookups, and one of something else.
LEMMA LookupGoesOn == LookupInv /\ Lookup!Next => LookupInv'
BY EventKeeps, HashKeeps, GetCometKeeps, NodeKeeps, SearchKeeps, FindKeeps, AnswerKeeps
DEF Lookup!Next

LEMMA LookupStays == LookupInv /\ UNCHANGED lookupVars => LookupInv'
<1> SUFFICES ASSUME LookupInv, UNCHANGED lookupVars PROVE LookupInv' OBVIOUS
<1>1. UNCHANGED <<hash, info, circle, changed, call>> BY DEF lookupVars
<1>2. MapInv' BY <1>1, CallLeavesMap DEF LookupInv
<1>3. Lookup!Listed(info)' = Lookup!Listed(info) BY <1>1 DEF Lookup!Listed
<1>4. Searching(call)' <=> Searching(call) BY <1>1 DEF Searching, Circles
<1>5. \A S : Lookup!Owners(hash', S, call'.x) = Lookup!Owners(hash, S, call.x) BY <1>1
<1>6. Lookup!QuietLookup' <=> Lookup!QuietLookup BY <1>1, <1>3, <1>5 DEF Lookup!QuietLookup
<1>7. CallInv' BY <1>1, <1>3, <1>4, <1>5, <1>6 DEF LookupInv, CallInv, Lookup!Pending, Circles
<1> QED BY <1>2, <1>7 DEF LookupInv

\* The keys of the nodes that stay, stay.
LEMMA KeysMove ==
  ASSUME NEW h \in Hashes, NEW c \in Circles(h), NEW d \in Circles(h), NEW x \in Positions,
         Lookup!Distinct(h), c.from # {}, d.from # {},
         Lookup!NodeOf(d, x) \in c.from, Lookup!NodeOf(c, x) \in d.from
  PROVE  Lookup!NodeOf(d, x) = Lookup!NodeOf(c, x)
<1> DEFINE P == PlacesOf(h, c.from)
           Q == PlacesOf(h, d.from)
           p == Lookup!Nearest(P, x)
           q == Lookup!Nearest(Q, x)
<1>1. /\ DOMAIN c.nodesMapping = P /\ DOMAIN d.nodesMapping = Q
      /\ c.from \subseteq RingNodes /\ d.from \subseteq RingNodes
      /\ \A y \in P : \E i \in 1..VNodes : h[c.nodesMapping[y]][i] = y
      /\ \A y \in Q : \E i \in 1..VNodes : h[d.nodesMapping[y]][i] = y
  BY CircleIs
<1>2. \A S \in SUBSET RingNodes : PlacesOf(h, S) \subseteq Positions
  <2>1. \A n \in RingNodes : \A i \in 1..VNodes : h[n][i] \in Positions
    BY DEF Hashes, Lookup!Hashes, Positions
  <2> QED BY <2>1 DEF PlacesOf
<1>3. \A S : S # {} => PlacesOf(h, S) # {}
  <2>1. 1 \in 1..VNodes BY LookupAssumption
  <2>2. \A S : \A n \in S : h[n][1] \in PlacesOf(h, S) BY <2>1 DEF PlacesOf
  <2> QED BY <2>2
<1>4. p \in P /\ IsNearest(P, p, x) /\ q \in Q /\ IsNearest(Q, q, x)
  BY <1>1, <1>2, <1>3, NearestIs
<1>5. Lookup!NodeOf(c, x) = c.nodesMapping[p] /\ Lookup!NodeOf(d, x) = d.nodesMapping[q]
  BY <1>1 DEF Lookup!NodeOf
<1>6. PICK i \in 1..VNodes, j \in 1..VNodes :
         h[Lookup!NodeOf(c, x)][i] = p /\ h[Lookup!NodeOf(d, x)][j] = q
  BY <1>1, <1>4, <1>5
<1>7. p \in Q /\ q \in P
  <2>1. \A S : \A n \in S : \A k \in 1..VNodes : h[n][k] \in PlacesOf(h, S) BY DEF PlacesOf
  <2>2. h[Lookup!NodeOf(c, x)][i] \in Q /\ h[Lookup!NodeOf(d, x)][j] \in P BY <2>1
  <2> QED BY <1>6, <2>2
<1>8. p \in Nat /\ q \in Nat /\ x \in Nat BY <1>1, <1>2, <1>4, PositionsAreNat
<1> HIDE DEF p, q, P, Q
<1>9. p = q BY <1>4, <1>7, <1>8 DEF IsNearest
<1> QED BY <1>1, <1>6, <1>9 DEF Lookup!Distinct

-----------------------------------------------------------------------------
(* The theorems. *)

\* A step that is not about the comet nodes.
LEMMA CometStays == CometInv /\ UNCHANGED cometVars => CometInv'
<1> SUFFICES ASSUME CometInv, UNCHANGED cometVars PROVE CometInv' OBVIOUS
<1>1. ZkTypes' /\ ViewTypes' /\ RootTypes' /\ WatcherTypes'
  BY DEF CometInv, CometTypes, cometVars, ZkTypes, ViewTypes, RootTypes, WatcherTypes
<1>2. \A p \in Procs : \A x : Place(p, x)' <=> Place(p, x) BY DEF cometVars, Place
<1>3. Owned' BY <1>2, NoneMoves DEF CometInv, cometVars
<1> QED BY <1>1, <1>3 DEF CometInv, CometTypes

\* The same for the message nodes.
LEMMA MessageStays == MessageInv /\ UNCHANGED messageVars => MessageInv'
<1> SUFFICES ASSUME MessageInv, UNCHANGED messageVars PROVE MessageInv' OBVIOUS
<1> USE DEF MessageInv, messageVars
<1>1. MessageTypes' /\ CopyIsMap' BY DEF MessageTypes, CopyIsMap
<1>2. \A e, a : UnderWay(e, a)' <=> UnderWay(e, a) BY NoEventMoves
<1>3. Registered' = Registered BY DEF Registered, Message!Registered
<1>4. PassInv'
  BY <1>2, <1>3 DEF PassInv, Undisturbed, PassAdds, PassReads, PassDeletes, Seen
<1> QED BY <1>1, <1>4

WatchersInv == CometInv /\ FollowInv /\ MessageInv /\ LookupInv

\* The invariant holds in every state.
LEMMA Invariant == Spec => []WatchersInv
<1>1. Init => WatchersInv BY CometBegins, FollowBegins, MessageBegins, LookupBegins DEF Init, WatchersInv
<1>2. WatchersInv /\ [Next]_vars => WatchersInv'
  <2> SUFFICES ASSUME WatchersInv, [Next]_vars PROVE WatchersInv' OBVIOUS
  <2> USE DEF WatchersInv
  <2>1. CASE Comet!Next /\ UNCHANGED <<messageVars, lookupVars>>
    BY <2>1, CometGoesOn, FollowGoesOn, MessageStays, LookupStays
  <2>2. CASE Message!Next /\ UNCHANGED <<cometVars, lookupVars>>
    BY <2>2, MessageGoesOn, CometStays, FollowStays, LookupStays
  <2>3. CASE Lookup!Next /\ UNCHANGED <<cometVars, messageVars>>
    BY <2>3, LookupGoesOn, CometStays, FollowStays, MessageStays
  <2>4. CASE UNCHANGED vars BY <2>4, CometStays, FollowStays, MessageStays, LookupStays DEF vars
  <2> QED BY <2>1, <2>2, <2>3, <2>4 DEF Next
<1> QED BY <1>1, <1>2, PTL DEF Spec

\* The variables of CometNodes keep their types, and the event channel its
\* capacity: a goroutine only sends when there is room.
THEOREM WatchersTypes == Spec => []TypeOK
<1>1. CometInv => TypeOK
  <2> SUFFICES ASSUME CometInv PROVE TypeOK OBVIOUS
  <2>1. \A i \in DOMAIN ch : ch[i] \in CometEvent BY DEF CometInv, CometTypes, ViewTypes
  <2>2. \A i \in DOMAIN ch : ch[i].event \in {"add", "del", "update"} /\ ch[i].key \in Nodes
    BY <2>1 DEF CometEvent
  <2>3. \A w \in Comet!Slots : /\ watcher[w].at \in {"none", "read", "register", "send", "wait"}
                               /\ watcher[w].at = "none" <=> watcher[w].node = NoNode
    BY DEF CometInv, CometTypes, WatcherTypes, Goroutine
  <2> QED BY <2>2, <2>3 DEF CometInv, CometTypes, ZkTypes, ViewTypes, RootTypes, Owned, TypeOK,
                            Comet!TypeOK, Procs, Comet!Nil
<1> QED BY <1>1, Invariant, PTL DEF WatchersInv

\* Every RandLB of a comet process that is not destroyed is in one place, in the
\* map, in an event on its way or with the goroutine that made it, and every place
\* has one: no connection is leaked and none is closed twice, for any number of
\* nodes, processes and goroutines (registerCometNode, handleCometNodeEvent).
THEOREM CometClientsOwned == Spec => []OneOwner
<1>1. CometInv => OneOwner
  BY SharedCardinality DEF CometInv, Owned, OneOwner, Comet!OneOwner, Procs
<1> QED BY <1>1, Invariant, PTL DEF WatchersInv

\* Whenever everybody has done with a node whose directory was never removed, the map
\* has the first of its processes, for any number of nodes, processes, goroutines and
\* lost sessions and any capacity of the event channel: no change of ZooKeeper is missed
\* while a goroutine works or waits for room, no node is left without a watcher, and no
\* late update is the last (watchCometRoot, watchCometNode, handleCometNodeEvent).
THEOREM QuietMapFollows == Spec => []FollowedWhenQuiet
<1>1. CometInv /\ FollowInv => FollowedWhenQuiet
  <2> SUFFICES ASSUME CometInv, FollowInv, NEW n \in Nodes \ removed, Comet!Quiet(n)
               PROVE  Comet!InService(n, infoMap[n])
    BY DEF FollowedWhenQuiet, Comet!FollowedWhenQuiet
  <2>1. Served(n) /\ RootKnows(n) BY DEF FollowInv, Followed
  <2>2. Known(n) BY <2>1 DEF Comet!Quiet, RootKnows
  <2>3. ~AddUnderWay(n) /\ ~WatchedBy(n, Busy)
    BY DEF Comet!Quiet, AddUnderWay, WatchedBy, Busy
  <2>4. PICK p \in Procs : Comet!InService(n, p) /\ LastIs(n, p) BY <2>1, <2>2, <2>3 DEF Served
  <2>5. infoMap[n] = p BY <2>4 DEF LastIs, Comet!Quiet
  <2> QED BY <2>4, <2>5
<1> QED BY <1>1, Invariant, PTL DEF WatchersInv

\* A pass over the message nodes in which nothing failed, and during which nothing
\* changed in ZooKeeper, leaves exactly the registered addresses in the map, for any
\* number of processes, shared addresses and any capacity of the event channel
\* (watchMessageRoot, handleMessageNodeEvent).
THEOREM MessagePassSettles == Spec => []SettlesWhenQuiet
<1>1. MessageInv => SettlesWhenQuiet
  <2> SUFFICES ASSUME MessageInv, rootW.at = "wait", queue = <<>>, work = Message!Idle, quiet
               PROVE  clients = Registered
    BY DEF SettlesWhenQuiet, Message!SettlesWhenQuiet, Registered
  <2> USE DEF MessageInv
  <2>1. \A e \in {"add", "del"} : \A a : ~UnderWay(e, a)
    <3>1. DOMAIN queue = {} OBVIOUS
    <3> QED BY <3>1, AtRest DEF UnderWay
  <2>2. ~rootW.fired BY DEF MessageTypes
  <2>3. PassAdds /\ PassDeletes BY <2>2 DEF PassInv, Undisturbed
  <2> QED BY <2>1, <2>3 DEF PassAdds, PassDeletes, Seen
<1> QED BY <1>1, Invariant, PTL DEF WatchersInv

\* The node a lookup finds by binary search is an owner of the key: it has a virtual
\* node at the first position from the key's on, around the circle, of the nodes the
\* circle was made of (Node and searchLeft, hash/ketama.go).
THEOREM LookupFindsOwner == Spec => []FindsOwner
<1>1. LookupInv => FindsOwner BY DEF LookupInv, CallInv, FindsOwner, Lookup!FindsOwner
<1> QED BY <1>1, Invariant, PTL DEF WatchersInv

\* A lookup during which no event was handled answers with what the map has for an
\* owner of the key among the nodes in it (GetComet, rpc/comet.go).
THEOREM QuietLookupAnswers == Spec => []QuietLookup
<1>1. LookupInv => QuietLookup BY DEF LookupInv, CallInv, QuietLookup
<1> QED BY <1>1, Invariant, PTL DEF WatchersInv

\* Only the keys of the nodes that come or go change hands, in whatever order the map
\* lists the nodes, when no two nodes collide (NewKetama2, hash/ketama.go).
THEOREM OtherKeysStay == Spec => KeysStay
<1>1. LookupInv /\ LookupInv' /\ [Next]_vars =>
        [Lookup!Distinct(hash) => \A x \in Lookup!Positions : Lookup!KeyStays(x)]_circle
  <2> SUFFICES ASSUME LookupInv, LookupInv', [Next]_vars, circle' # circle,
                      Lookup!Distinct(hash), NEW x \in Positions,
                      circle.from # {}, circle'.from # {},
                      Lookup!NodeOf(circle', x) \in circle.from,
                      Lookup!NodeOf(circle, x) \in circle'.from
               PROVE  Lookup!NodeOf(circle', x) = Lookup!NodeOf(circle, x)
    BY DEF Lookup!KeyStays, Positions
  <2>1. Lookup!Next BY DEF Next, vars, lookupVars
  <2>2. hash' = hash
    BY <2>1 DEF Lookup!Next, Lookup!HandleEvent, Lookup!HandleHash, Lookup!GetComet, Lookup!Node,
                Lookup!searchLeft, Lookup!Find, Lookup!Lookup
  <2>3. circle \in Circles(hash) /\ circle' \in Circles(hash) /\ hash \in Hashes
    BY <2>2, NoCircleIs DEF LookupInv, MapInv
  <2> QED BY <2>3, KeysMove
<1> QED BY <1>1, Invariant, PTL DEF Spec, WatchersInv, KeysStay, Lookup!KeysStay
=============================================================================
