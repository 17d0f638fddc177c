----------------------------- MODULE MCRegistry -----------------------------
(* Registry for TLC: everybody asks under one role and one client, which     *)
(* leaves the reservations, the tokens and the owner to tell joins apart.    *)
EXTENDS Registry, TLC

Alike == Permutations(Conns) \cup Permutations(RoomIds)

=============================================================================
