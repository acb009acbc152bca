------------------------------ MODULE MCWatchers ------------------------------
(* Small instances of Watchers for TLC. *)
EXTENDS Watchers, TLC

CONSTANTS a1, a2, r1, r2, r3

\* Processes that serve one address or two, one of them the same.
MCBinds == {{a1}, {a1, a2}}

\* Two virtual nodes of three nodes: apart from each other, or two pairs at one position.
MCPlacements ==
  {r1 :> <<0, 3>> @@ r2 :> <<1, 4>> @@ r3 :> <<2, 5>>,
   r1 :> <<0, 3>> @@ r2 :> <<3, 1>> @@ r3 :> <<2, 2>>}

\* Nothing tells one comet node from another.
Symmetry == Permutations(Nodes)
=============================================================================
