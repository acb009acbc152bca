------------------------------- MODULE Watchers -------------------------------
(***************************************************************************)
(* The two watchers web/zk.go starts in a web process, InitComet and       *)
(* InitMessage, and the lookups of the process (CometLookup).  They share  *)
(* nothing but the session with ZooKeeper and, the lookups, the map: what  *)
(* these see of the events is any sequence of them, so a behaviour is      *)
(* about one of the three and leaves the others at rest.                   *)
(***************************************************************************)
EXTENDS Integers, Sequences, FiniteSets

CONSTANTS
  Nodes, ChanCap, MaxProcs, MaxWatchers, MaxLost, MaxRemoved, NoNode, Missing, \* CometNodes
  Addrs, Binds, MessageCap, MaxMessageProcs, MaxErrors,                       \* MessageNodes
  RingNodes, VNodes, MaxPos, Placements, Sought                               \* CometLookup

ASSUME CometNodesAssumption ==
  /\ {ChanCap, MaxProcs, MaxWatchers} \subseteq Nat \ {0}
  /\ {MaxLost, MaxRemoved} \subseteq Nat
  /\ NoNode \notin Nodes
  /\ Missing \notin 0..MaxProcs

ASSUME MessageNodesAssumption ==
  /\ Binds \subseteq (SUBSET Addrs) \ {{}} /\ Addrs # {}
  /\ MessageCap \in Nat \ {0} /\ MaxMessageProcs \in Nat /\ MaxErrors \in Nat

ASSUME LookupAssumption ==
  /\ IsFiniteSet(RingNodes) /\ VNodes \in Nat \ {0} /\ MaxPos \in Nat
  /\ Placements \subseteq [RingNodes -> [1..VNodes -> 0..MaxPos]]
  /\ Sought \subseteq 0..MaxPos /\ NoNode \notin RingNodes

VARIABLES
  dirs, kids, born, removed, lost, infoMap, open, ch, handler, root, watcher,
  binds, nodes, errors, clients, queue, work, rootW, quiet,
  hash, info, circle, changed, call,
  about  \* which of the three this behaviour is about

cometVars   == <<dirs, kids, born, removed, lost, infoMap, open, ch, handler, root, watcher>>
messageVars == <<binds, nodes, errors, clients, queue, work, rootW, quiet>>
lookupVars  == <<hash, info, circle, changed, call>>
vars        == <<cometVars, messageVars, lookupVars, about>>

Comet   == INSTANCE CometNodes
Message == INSTANCE MessageNodes
Lookup  == INSTANCE CometLookup WITH Nodes <- RingNodes

\* The hash function tells behaviours apart only when there are lookups.
Init ==
  /\ Comet!Init /\ Message!Init /\ Lookup!Init
  /\ about \in {"comet", "message", "lookup"}
  /\ about # "lookup" => hash = CHOOSE h \in Placements : TRUE

Next ==
  \/ about = "comet" /\ Comet!Next /\ UNCHANGED <<messageVars, lookupVars, about>>
  \/ about = "message" /\ Message!Next /\ UNCHANGED <<cometVars, lookupVars, about>>
  \/ about = "lookup" /\ Lookup!Next /\ UNCHANGED <<cometVars, messageVars, about>>

Spec == Init /\ [][Next]_vars

-----------------------------------------------------------------------------
\* The types of the variables of CometNodes (see there).
TypeOK == Comet!TypeOK

\* Every client of a comet node that is not destroyed is in one place (see CometNodes).
OneOwner == Comet!OneOwner

\* The map has the first process of a node everybody has done with (see CometNodes).
FollowedWhenQuiet == Comet!FollowedWhenQuiet

\* One pass over the message nodes is enough (see MessageNodes).
SettlesWhenQuiet == Message!SettlesWhenQuiet

\* Binary search finds the node a key belongs to (see CometLookup).
FindsOwner == Lookup!FindsOwner

\* A lookup that no event disturbs answers with what the map has for the owner of the
\* key (see CometLookup).
QuietLookup == Lookup!QuietLookup

\* Only the keys of the nodes that come and go move (see CometLookup).
KeysStay == Lookup!KeysStay
=============================================================================
