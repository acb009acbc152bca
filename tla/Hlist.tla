-------------------------------- MODULE Hlist --------------------------------
(***************************************************************************)
(* The linked list of a channel's connections (hlist/hlist.go).  pprev     *)
(* points to the pointer that points to the element: the first of the list *)
(* or the next of another element.                                         *)
(***************************************************************************)
EXTENDS Integers

CONSTANTS
  Elements, \* elements of the list, one for each connection
  First,    \* what pprev of the first element points to
  Nil

ASSUME HlistAssumption == First \notin Elements /\ Nil \notin Elements \cup {First}

VARIABLES first, next, pprev, len

NewHlist ==
  /\ first = Nil /\ len = 0
  /\ next = [e \in Elements |-> Nil] /\ pprev = [e \in Elements |-> Nil]

PushFront(n) ==
  /\ first' = n
  /\ next' = [next EXCEPT ![n] = first]
  /\ pprev' = [e \in Elements |->
       IF e = n THEN First ELSE IF e = first THEN n ELSE pprev[e]]
  /\ len' = len + 1

\* Mutation: the element behind the one that leaves still points to it.
UnlinkedOnce(e) == [pprev EXCEPT ![e] = Nil]

\* The pprev of all elements after e has left.
Unlinked(e) ==
  [x \in Elements |-> IF x = e THEN Nil ELSE IF x = next[e] THEN pprev[e] ELSE pprev[x]]

Remove(e) ==
  /\ first' = IF pprev[e] = First THEN next[e] ELSE first
  /\ next' = [x \in Elements |->
       IF x = e THEN Nil ELSE IF x = pprev[e] THEN next[e] ELSE next[x]]
  /\ pprev' = Unlinked(e)
  /\ len' = len - 1

\* The n-th element, or Nil behind the last, as Front and Next find it.
Nth[n \in Nat \ {0}] ==
  IF n = 1 THEN first ELSE IF Nth[n - 1] = Nil THEN Nil ELSE next[Nth[n - 1]]
=============================================================================
