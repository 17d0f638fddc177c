---------------------------- MODULE MCDelivery -----------------------------
(* Delivery for TLC. The connections are alike.                             *)
EXTENDS Delivery, TLC

Alike == Permutations(Conns)

=============================================================================
