-------------------------------- MODULE Ketama --------------------------------
(***************************************************************************)
(* The circle of consistent hashing (hash/ketama.go).  Of a hash the model *)
(* keeps that it is a position; `h` is the hash function: it gives those   *)
(* of the virtual nodes of each node, two of which may be the same.        *)
(***************************************************************************)
EXTENDS Integers, Sequences, FiniteSets, Functions

CONSTANTS
  Nodes,  \* names of nodes
  VNodes, \* virtual nodes of a node
  MaxPos  \* the last position (2^32 - 1 in the code)

Positions == 0..MaxPos
Hashes    == [Nodes -> [1..VNodes -> Positions]]

Least(S) == CHOOSE x \in S : \A y \in S : x <= y

\* Mutation: the hash is not reset, so what came before a node moves it.
PlaceNoReset(h, list, v) == (h[list[v[1]]][v[2]] + v[1] - 1) % (MaxPos + 1)

\* The position of virtual node v[2] of the node that is v[1]-th in the list.
Place(h, list, v) == h[list[v[1]]][v[2]]

Virtual(list) == (DOMAIN list) \X (1..VNodes)

UpTo(h, list, p) == {v \in Virtual(list) : Place(h, list, v) <= p}

\* The positions of all virtual nodes, sorted: the i-th smallest is the first with i
\* of them up to it.
SortedPlaces(h, list) ==
  [i \in 1..Cardinality(Virtual(list)) |->
     Least({p \in Positions : i <= Cardinality(UpTo(h, list, p))})]

\* The last node of the list that is written to a position.
Written(h, list, p) ==
  list[CHOOSE j \in DOMAIN list :
         /\ \E i \in 1..VNodes : Place(h, list, <<j, i>>) = p
         /\ \A v \in Virtual(list) : Place(h, list, v) = p => v[1] <= j]

\* What NewKetama2 makes of a list of nodes; only the properties use `from`, the nodes.
initCircle2(h, list) ==
  [nodes |-> SortedPlaces(h, list),
   nodesMapping |-> [p \in {Place(h, list, v) : v \in Virtual(list)} |->
                       Written(h, list, p)],
   from |-> Range(list), is |-> "made"]

\* No circle: the pointer is nil.
NoCircle == [nodes |-> <<>>, nodesMapping |-> <<>>, from |-> {}, is |-> "nil"]

-----------------------------------------------------------------------------
(* What the circle is for. *)

\* The first of the positions P from x on, around the circle.
Nearest(P, x) ==
  LET after == {p \in P : x <= p} IN Least(IF after = {} THEN P ELSE after)

\* Those of the nodes S that key x may belong to: one, unless two collide.
Owners(h, S, x) ==
  LET P == {h[n][i] : n \in S, i \in 1..VNodes} IN
  {n \in S : \E i \in 1..VNodes : h[n][i] = Nearest(P, x)}

\* No two nodes have a virtual node at one position.
Distinct(h) ==
  \A m, n \in Nodes, i, j \in 1..VNodes : h[m][i] = h[n][j] => m = n
=============================================================================
