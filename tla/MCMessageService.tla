-------------------------- MODULE MCMessageService --------------------------
(* Small instances of MessageService for TLC. *)
EXTENDS MessageService, TLC

CONSTANT db1, db2

\* The first key lives alone in the first database.
MCDbOf == [k \in Keys |-> IF k = CHOOSE x \in Keys : TRUE THEN db1 ELSE db2]

Symmetry == Permutations(Procs)
=============================================================================
