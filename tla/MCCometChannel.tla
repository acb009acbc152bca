--------------------------- MODULE MCCometChannel ---------------------------
(* Small instances of CometChannel for TLC. *)
EXTENDS CometChannel, TLC

\* Keys are spread over the buckets: the first key alone in bucket 1.
MCBucketOf == [k \in Keys |-> IF k = CHOOSE x \in Keys : TRUE THEN 1 ELSE NBuckets]

\* Bound: the last push is made only while a connection has not subscribed, so
\* that full buffers are met by one subscriber, partial pushes by two.
LastPushOfOne == pushes = MaxPushes => \E c \in Conns : cpc[c] = "init"

RpcSymmetry == Permutations(Rpcs)
Symmetry == Permutations(Conns) \cup Permutations(Rpcs)
=============================================================================
