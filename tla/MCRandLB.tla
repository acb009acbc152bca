------------------------------ MODULE MCRandLB ------------------------------
(* Small instances of RandLB for TLC. *)
EXTENDS RandLB

CONSTANTS a1, a2, c1, c2

GivenClients == [a \in Addrs |-> IF a = a1 THEN c1 ELSE c2]
=============================================================================
