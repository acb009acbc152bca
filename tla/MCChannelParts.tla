--------------------------- MODULE MCChannelParts ---------------------------
(* Small instances of ChannelParts for TLC. *)
EXTENDS ChannelParts, TLC

Symmetry == Permutations(Tickets) \cup Permutations(Elements)
=============================================================================
