------------------------------ MODULE Registry ------------------------------
(***************************************************************************)
(* The rooms of the server (Registry in backend/app/room/room.go): a room  *)
(* is reserved first, becomes a room when the first participant joins it,  *)
(* and is dropped when it is found empty.  Every method holds the mutex of *)
(* the registry and takes the mutex of a room inside it, so each of them   *)
(* is one step.  Who holds a pointer to a room goes on using it after the  *)
(* registry has dropped it: rooms keeps such a room, live does not.        *)
(***************************************************************************)
EXTENDS RoomOps

CONSTANTS
    RoomIds,        \* the fresh room IDs
    MaxConcurrent,  \* rooms.max_concurrent, as it is configured
    DefaultMaxRooms,\* the limit when none is configured
    ReservationTTL  \* life of a reservation, in ticks of the clock

ASSUME RegistryAssumption ==
    /\ MaxConcurrent \in Int
    /\ DefaultMaxRooms \in Nat \ {0}
    /\ ReservationTTL \in Nat \ {0}

VARIABLES
    pending,    \* reservations, from room IDs to the time left and the owner
    live,       \* the IDs of the rooms in the registry
    rooms,      \* the rooms made so far
    drawn       \* the connections whose fresh names have been drawn

registryVars == <<pending, live, rooms, drawn>>

\* NewRegistry, and Load before it: rooms and reservations together.
MaxRooms == IF MaxConcurrent <= 0 THEN DefaultMaxRooms ELSE MaxConcurrent

Reservation == [ left : 0 .. ReservationTTL, owner : {OwnerToken, None} ]

RegistryInit ==
    /\ pending = EmptyFcn
    /\ live = {}
    /\ rooms = EmptyFcn
    /\ drawn = {}

\* Mutant: no reservation ever expires.
UnexpiredEver == DOMAIN pending

\* The reservations that purgeExpiredLocked leaves.
Unexpired == { id \in DOMAIN pending : pending[id].left > 0 }

\* The reservations after the purge, and those after it without id.
Purged     == Restrict(pending, Unexpired)

\* Mutant: the reservation outlives its room's first join.
PurgedKeeping(id) == Restrict(pending, Unexpired)

PurgedBut(id) == Restrict(pending, Unexpired \ {id})

\* Mutant: reservations take no place.
HasSpaceForRooms == Cardinality(live) < MaxRooms

HasSpace == Cardinality(live) + Cardinality(Unexpired) < MaxRooms

\* uuid.NewString never repeats an ID.
Fresh(id) == id \notin DOMAIN pending \cup DOMAIN rooms

ReserveWithOwner(id, owner) ==
    /\ Fresh(id)
    /\ pending' = IF HasSpace
                  THEN Put(Purged, id, [ left |-> ReservationTTL, owner |-> owner ])
                  ELSE Purged
    /\ UNCHANGED <<live, rooms, drawn>>

\* Create and CreateWithOwner, which the server leaves to other callers.
Create(id, owner) ==
    /\ Fresh(id)
    /\ pending' = Purged
    /\ IF HasSpace
       THEN /\ live' = live \cup {id}
            /\ rooms' = Put(rooms, id, NewRoom(owner))
       ELSE UNCHANGED <<live, rooms>>
    /\ UNCHANGED drawn

\* The room a join is for: one in the registry, or the one reserved.
JoinTarget(id) ==
    IF id \in live THEN AfterPurge(rooms[id]) ELSE NewRoom(pending[id].owner)

JoinFound(id) == id \in live \cup Unexpired

JoinAccepted(id, q) ==
    JoinFound(id) /\ JoinError(JoinTarget(id), q) = "none"

\* Registry.Join. A reservation becomes a room only if the join succeeds.
Join(id, c, q) ==
    /\ c \notin drawn
    /\ drawn' = drawn \cup {c}
    /\ IF id \in live
       THEN /\ rooms' = [ rooms EXCEPT ![id] = AfterAddConnection(@, c, q) ]
            /\ pending' = Purged
            /\ UNCHANGED live
       ELSE IF JoinAccepted(id, q)
            THEN /\ rooms' = Put(rooms, id, Admit(JoinTarget(id), c, q))
                 /\ pending' = PurgedBut(id)
                 /\ live' = live \cup {id}
            ELSE /\ pending' = Purged
                 /\ UNCHANGED <<live, rooms>>

\* PublicState and Get: reading a room purges it.
Read(id) ==
    /\ pending' = Purged
    /\ rooms' = IF id \in live THEN [ rooms EXCEPT ![id] = AfterPurge(@) ] ELSE rooms
    /\ UNCHANGED <<live, drawn>>

\* Mutant: any room is dropped.
DropsAny(id) == id \in live

\* Mutant: a room stays as long as it retains anybody.
DropsForgotten(id) == id \in live /\ Present(rooms[id]) = {}

\* The room is dropped: nobody is connected to it.
Drops(id) == id \in live /\ IsEmpty(rooms[id])

DeleteIfEmpty(id) ==
    /\ pending' = Purged
    /\ rooms' = IF id \in live THEN [ rooms EXCEPT ![id] = AfterPurge(@) ] ELSE rooms
    /\ live' = IF Drops(id) THEN live \ {id} ELSE live
    /\ UNCHANGED drawn

\* RemoveConnection of a room that somebody holds, outside the registry's mutex.
RemoveConnection(id, i, c) ==
    /\ \E r \in AfterRemoveConnection(rooms[id], i, c) :
          rooms' = [ rooms EXCEPT ![id] = r ]
    /\ UNCHANGED <<pending, live, drawn>>

\* The rest of what the holder of a room can do in it.
InRoom(id, r) ==
    /\ rooms' = [ rooms EXCEPT ![id] = r ]
    /\ UNCHANGED <<pending, live, drawn>>

\* Time passes for reservations and for the disconnected of every room.
Tick ==
    /\ pending' = [ id \in DOMAIN pending |->
                      [ pending[id] EXCEPT !.left = IF @ = 0 THEN 0 ELSE @ - 1 ] ]
    /\ rooms' = [ id \in DOMAIN rooms |-> AfterTick(rooms[id]) ]
    /\ UNCHANGED <<live, drawn>>

RegistryNext ==
    \/ \E id \in RoomIds, owner \in {OwnerToken, None} :
          ReserveWithOwner(id, owner) \/ Create(id, owner)
    \/ \E id \in RoomIds, c \in Conns, q \in Request :
          q.token \in drawn \cup {None} /\ Join(id, c, q)
    \/ \E id \in RoomIds : Read(id) \/ DeleteIfEmpty(id)
    \/ \E id \in DOMAIN rooms, i \in drawn, c \in drawn : RemoveConnection(id, i, c)
    \/ Tick

RegistrySpec == RegistryInit /\ [][RegistryNext]_registryVars

-----------------------------------------------------------------------------

(***************************************************************************)
(* The reservations, the registry and the rooms have their types, and a    *)
(* room ID is reserved or made, never both.                                *)
(***************************************************************************)
RegistryTypeOK ==
    /\ pending \in [ DOMAIN pending -> Reservation ]
    /\ DOMAIN pending \cup DOMAIN rooms \subseteq RoomIds
    /\ DOMAIN pending \cap DOMAIN rooms = {}
    /\ live \subseteq DOMAIN rooms
    /\ drawn \subseteq Conns
    /\ \A id \in DOMAIN rooms :
          rooms[id].participants \in [ Present(rooms[id]) -> Participant ]

(***************************************************************************)
(* Rooms and reservations together never exceed MaxRooms, the expired      *)
(* reservations that nobody has purged yet included: a reservation that    *)
(* becomes a room keeps the place it took.                                 *)
(***************************************************************************)
WithinRoomLimit == Cardinality(live) + Cardinality(DOMAIN pending) <= MaxRooms

(***************************************************************************)
(* As docker/README.md has it, "0 disables limit" for the rooms: another   *)
(* room can always be reserved.                                            *)
(***************************************************************************)
ZeroIsNoLimit == MaxConcurrent = 0 => HasSpace

(***************************************************************************)
(* Whoever is connected to a room finds it in the registry: no order of    *)
(* the first join, later joins, departures and DeleteIfEmpty drops a room  *)
(* from under a participant.                                               *)
(***************************************************************************)
OccupiedRoomsAreLive ==
    \A id \in DOMAIN rooms : Connected(rooms[id]) # {} => id \in live

(***************************************************************************)
(* A room ID goes through reserved, live and dropped in this order. A      *)
(* reservation lasts until it expires or becomes a room, for the owner it  *)
(* was made for: no refused join takes it away. One that has expired never *)
(* becomes a room, a room begins with somebody in it or by Create, and one *)
(* that was dropped never comes back, not even for the owner or for a      *)
(* participant with a good token.                                          *)
(***************************************************************************)
RoomIdsAreNotReused ==
    [][ \A id \in RoomIds :
          /\ id \in DOMAIN rooms \ live => id \notin live' \cup DOMAIN pending'
          /\ id \in live' /\ id \in DOMAIN pending =>
                pending[id].left > 0 /\ Connected(rooms'[id]) # {}
          /\ id \in DOMAIN pending /\ pending[id].left > 0 =>
                \/ id \in live'
                \/ id \in DOMAIN pending' /\ pending'[id].owner = pending[id].owner
      ]_registryVars

=============================================================================
