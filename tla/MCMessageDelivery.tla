-------------------------- MODULE MCMessageDelivery --------------------------
(* MessageDelivery on a small instance.                                     *)
EXTENDS MessageDelivery, TLC

CONSTANT d1

MCAddressee == [m \in Msg |-> d1]
Symmetry == Permutations(Uuid) \cup Permutations(Socket) \cup Permutations(Worker)
=============================================================================
