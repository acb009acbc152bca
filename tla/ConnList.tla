------------------------------- MODULE ConnList -------------------------------
(***************************************************************************)
(* What the list of a channel's connections promises: a sequence, that of  *)
(* CometChannel, to whose front elements are added and from anywhere in    *)
(* which they leave.                                                       *)
(***************************************************************************)
EXTENDS Integers, Sequences

CONSTANT Elements

VARIABLE list

In(e) == \E i \in DOMAIN list : list[i] = e

Add(e) == ~In(e) /\ list' = <<e>> \o list

Take(e) ==
  \E i \in DOMAIN list :
    /\ list[i] = e
    /\ list' = SubSeq(list, 1, i - 1) \o SubSeq(list, i + 1, Len(list))

Init == list = <<>>

Next == \E e \in Elements : Add(e) \/ Take(e)

Spec == Init /\ [][Next]_list
=============================================================================
