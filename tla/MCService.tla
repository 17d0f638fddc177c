----------------------------- MODULE MCService ------------------------------
(* Service for TLC. The connections are alike, and so are the rooms.        *)
EXTENDS Service, TLC

Alike == Permutations(Conns) \cup Permutations(RoomIds)

\* EveryRoomIsARound in the form that TLC takes.
EveryStepIsARounds ==
    /\ \A id \in RoomIds : Rounds(id)!Init
    /\ [][ \A id \in RoomIds : [Rounds(id)!Next]_(Rounds(id)!vars) ]_vars

=============================================================================
