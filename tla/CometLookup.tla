----------------------------- MODULE CometLookup -----------------------------
(***************************************************************************)
(* How a web process finds the comet node of a key (GetComet, rpc/comet.go *)
(* and hash/ketama.go).  handleCometNodeEvent replaces the map of nodes    *)
(* and, in another step, the circle; whoever looks a key up reads the map, *)
(* the circle and the map again, without a lock.  Nothing is assumed of    *)
(* the order of the events (see CometNodes).  A lookup changes nothing, so *)
(* one at a time is enough.                                                *)
(***************************************************************************)
EXTENDS Ketama

CONSTANTS
  Placements, \* the hash functions there are
  Sought,     \* positions of the keys that are looked up
  NoNode      \* no node, and the node of an empty circle ("")

VARIABLES
  hash,    \* the hash function (Murmur3 in the code)
  info,    \* cometNodeInfoMap: a node is absent, nil or has a client
  circle,  \* cometHash
  changed, \* the node whose event was put into the map and not into the circle yet
  call     \* a call of GetComet

vars == <<hash, info, circle, changed, call>>

Listed(map) == {n \in Nodes : map[n] # "absent"}

\* A call: its key, the circle it has read, lo and hi of searchLeft, the node it
\* found, what it answers; history: no event was under way since it began.
NoCall ==
  [at |-> "idle", x |-> 0, circle |-> NoCircle, lo |-> 0, hi |-> 0, node |-> NoNode,
   ans |-> "nil", quiet |-> FALSE]

Init ==
  /\ hash \in Placements
  /\ info = [n \in Nodes |-> "absent"] /\ circle = NoCircle
  /\ changed = NoNode /\ call = NoCall

-----------------------------------------------------------------------------
Pending == call.at \in {"ring", "search", "map"}

\* handleCometNodeEvent puts an event into the map ...
HandleEvent(n) ==
  /\ changed = NoNode
  /\ \E v \in {"absent", "nil", "client"} : info' = [info EXCEPT ![n] = v]
  /\ changed' = n
  /\ call' = [call EXCEPT !.quiet = FALSE]
  /\ UNCHANGED <<hash, circle>>

\* Mutation: a node that goes stays in the circle.
HandleHashAdds ==
  /\ changed # NoNode
  /\ \E list \in Bijection(1..Cardinality(Listed(info)), Listed(info)) :
       circle' = IF info[changed] = "absent" THEN circle ELSE initCircle2(hash, list)
  /\ changed' = NoNode
  /\ UNCHANGED <<hash, info, call>>

\* ... and makes a circle of the nodes in the map, in whatever order they come.
HandleHash ==
  /\ changed # NoNode
  /\ \E list \in Bijection(1..Cardinality(Listed(info)), Listed(info)) :
       circle' = initCircle2(hash, list)
  /\ changed' = NoNode
  /\ UNCHANGED <<hash, info, call>>

Answer(q, a) == [NoCall EXCEPT !.at = "answered", !.x = q.x, !.ans = a, !.quiet = q.quiet]

\* GetComet: without a circle or a node there is nothing to look for.
GetComet(x) ==
  /\ ~Pending
  /\ LET q == [NoCall EXCEPT !.x = x, !.quiet = (changed = NoNode)] IN
     call' = IF circle = NoCircle \/ Listed(info) = {} THEN Answer(q, "nil")
             ELSE [q EXCEPT !.at = "ring"]
  /\ UNCHANGED <<hash, info, circle, changed>>

\* The circle is read; the node of an empty one is in no map.
Node ==
  /\ call.at = "ring"
  /\ call' = IF circle.nodes = <<>> THEN [call EXCEPT !.at = "map"]
             ELSE [call EXCEPT !.at = "search", !.circle = circle, !.hi = Len(circle.nodes)]
  /\ UNCHANGED <<hash, info, circle, changed>>

\* Mutation: a key at the position of a virtual node goes past it.
NotAfter(q, mid) == q.circle.nodes[mid + 1] <= q.x

\* a[mid] < x, in a slice that starts at 0.
Before(q, mid) == q.circle.nodes[mid + 1] < q.x

\* One round of the loop of searchLeft.
searchLeft ==
  /\ call.at = "search" /\ call.lo < call.hi
  /\ LET mid == (call.lo + call.hi) \div 2 IN
     call' = IF Before(call, mid) THEN [call EXCEPT !.lo = mid + 1] ELSE [call EXCEPT !.hi = mid]
  /\ UNCHANGED <<hash, info, circle, changed>>

\* The position found, or the first when the search has come to the end.
Found(q) == q.circle.nodes[IF q.lo = Len(q.circle.nodes) THEN 1 ELSE q.lo + 1]

Find ==
  /\ call.at = "search" /\ call.lo = call.hi
  /\ call' = [call EXCEPT !.at = "map", !.node = call.circle.nodesMapping[Found(call)]]
  /\ UNCHANGED <<hash, info, circle, changed>>

\* The node is looked up in the map, which may be another one by now.
Lookup ==
  /\ call.at = "map"
  /\ call' = Answer(call, IF call.node \in Nodes /\ info[call.node] = "client"
                          THEN "client" ELSE "nil")
  /\ UNCHANGED <<hash, info, circle, changed>>

Next ==
  \/ \E n \in Nodes : HandleEvent(n)
  \/ HandleHash
  \/ \E x \in Sought : GetComet(x)
  \/ Node \/ searchLeft \/ Find \/ Lookup

Spec == Init /\ [][Next]_vars

-----------------------------------------------------------------------------
\* Binary search finds the node the key belongs to: the owner of the first virtual
\* node from its position on, around the circle, of the nodes the circle was made of.
FindsOwner ==
  (call.at = "map" /\ call.node # NoNode) =>
    call.node \in Owners(hash, call.circle.from, call.x)

\* A call during which no event was handled answers with the node that owns the key
\* among those in the map: nil only when there is none, or it has no client.
QuietLookup ==
  (call.at = "answered" /\ call.quiet) =>
    \/ Listed(info) = {} /\ call.ans = "nil"
    \/ \E n \in Owners(hash, Listed(info), call.x) : call.ans = "client" <=> info[n] = "client"

\* The node of a key, from the circle.
NodeOf(ring, x) == ring.nodesMapping[Nearest(DOMAIN ring.nodesMapping, x)]

KeyStays(x) ==
  LET old == circle.from
      new == circle'.from IN
  (old # {} /\ new # {}) =>
    \/ NodeOf(circle', x) = NodeOf(circle, x)
    \/ NodeOf(circle', x) \notin old \/ NodeOf(circle, x) \notin new

\* When nodes come and go only the keys that belong to these move, however the nodes
\* are ordered in the map, as long as no two nodes have a virtual node at one position.
KeysStay == [][Distinct(hash) => \A x \in Positions : KeyStays(x)]_circle
=============================================================================
