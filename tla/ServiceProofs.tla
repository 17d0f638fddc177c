---------------------------- MODULE ServiceProofs ----------------------------
(***************************************************************************)
(* The safety of the WebSocket service, proved for every number of rooms,  *)
(* connections and handlers and for all limits.                            *)
(*                                                                         *)
(* First the registry of rooms: each of its operations has a lemma that it *)
(* preserves the inductive invariant RInv.                                 *)
(*                                                                         *)
(* Then the service, whose handlers change the rooms through these very    *)
(* operations: however they interleave, the rooms, the hub and the         *)
(* handlers agree on who is connected.  Lemmas say what each operation     *)
(* does to the seats: the connections of the participants of a room.       *)
(*                                                                         *)
(* What is proved of one room then holds of each: every step of the        *)
(* service is a call of a room or leaves it alone, so results and          *)
(* identities are kept and each room plays its rounds as Round has them.   *)
(* And the hub that the handlers work with is a Directory.                 *)
(*                                                                         *)
(* At last the handlers send their messages (Delivery).  They take the     *)
(* steps of Service, so its invariant holds there too, and whoever has not *)
(* been sent the present state is owed it by a handler that is under way:  *)
(* nobody misses a change.                                                 *)
(***************************************************************************)
EXTENDS Delivery, RoomOpsProofs

-----------------------------------------------------------------------------
(* The inductive invariant of the registry *)

RoomsOK == \A id \in DOMAIN rooms : RoomOK(rooms[id], drawn)

\* There are finitely many rooms and reservations, and not too many.
PlacesOK ==
    /\ IsFiniteSet(live)
    /\ IsFiniteSet(DOMAIN pending)
    /\ WithinRoomLimit

RInv ==
    /\ RegistryTypeOK
    /\ RoomsOK
    /\ PlacesOK
    /\ OccupiedRoomsAreLive

LEMMA MaxRoomsType == MaxRooms \in Nat \ {0}
BY RegistryAssumption DEF MaxRooms

LEMMA PurgedFacts ==
    ASSUME RInv
    PROVE  /\ Unexpired \subseteq DOMAIN pending
           /\ DOMAIN Purged = Unexpired
           /\ Purged \in [ DOMAIN Purged -> Reservation ]
           /\ \A id : /\ DOMAIN PurgedBut(id) = Unexpired \ {id}
                      /\ PurgedBut(id) \in [ DOMAIN PurgedBut(id) -> Reservation ]
<1>1. Unexpired \subseteq DOMAIN pending
  BY DEF Unexpired
<1>2. pending \in [ DOMAIN pending -> Reservation ]
  BY DEF RInv, RegistryTypeOK
<1>3. DOMAIN Purged = Unexpired /\ Purged \in [ Unexpired -> Reservation ]
  BY <1>1, <1>2, RestrictFacts, RestrictType DEF Purged
<1>4. ASSUME NEW id
      PROVE  /\ DOMAIN PurgedBut(id) = Unexpired \ {id}
             /\ PurgedBut(id) \in [ Unexpired \ {id} -> Reservation ]
  BY <1>1, <1>2, RestrictFacts, RestrictType DEF PurgedBut
<1> QED
  BY <1>1, <1>3, <1>4

\* The reservations and the rooms with fewer reservations.
LEMMA PlacesKept ==
    ASSUME PlacesOK, live' \subseteq live, DOMAIN pending' \subseteq DOMAIN pending
    PROVE  PlacesOK'
<1>1. /\ IsFiniteSet(live') /\ Cardinality(live') <= Cardinality(live)
      /\ IsFiniteSet(DOMAIN pending')
      /\ Cardinality(DOMAIN pending') <= Cardinality(DOMAIN pending)
  BY FS_Subset DEF PlacesOK
<1>2. /\ Cardinality(live) \in Nat /\ Cardinality(live') \in Nat
      /\ Cardinality(DOMAIN pending) \in Nat /\ Cardinality(DOMAIN pending') \in Nat
  BY <1>1, FS_CardinalityType DEF PlacesOK
<1>3. Cardinality(live') + Cardinality(DOMAIN pending') <= MaxRooms
  BY <1>1, <1>2, MaxRoomsType DEF PlacesOK, WithinRoomLimit
<1> QED
  BY <1>1, <1>3 DEF PlacesOK, WithinRoomLimit

\* What the rooms in RInv are made of.
LEMMA RoomParts ==
    ASSUME RInv, NEW id \in DOMAIN rooms
    PROVE  /\ RoomOK(rooms[id], drawn)
           /\ HasFields(rooms[id])
           /\ id \in RoomIds
           /\ id \notin DOMAIN pending
           /\ DOMAIN Seats(rooms[id]) = Connected(rooms[id])
BY SeatsFacts DEF RInv, RoomsOK, RoomOK, RoomTyped, RegistryTypeOK

LEMMA RoomsTyped ==
    ASSUME RoomsOK
    PROVE  \A id \in DOMAIN rooms :
              rooms[id].participants \in [ Present(rooms[id]) -> Participant ]
BY DEF RoomsOK, RoomOK, RoomTyped

-----------------------------------------------------------------------------
(* The operations preserve the invariant *)

LEMMA InitRInv == RegistryInit => RInv
<1> SUFFICES ASSUME RegistryInit
             PROVE  RInv
  OBVIOUS
<1>1. live = {} /\ DOMAIN pending = {} /\ DOMAIN rooms = {} /\ drawn = {}
  BY DEF RegistryInit, EmptyFcn
<1>2. pending \in [ DOMAIN pending -> Reservation ]
  BY DEF RegistryInit, EmptyFcn
<1>3. RegistryTypeOK
  BY <1>1, <1>2 DEF RegistryTypeOK
<1>4. PlacesOK
  <2>1. /\ IsFiniteSet(live) /\ Cardinality(live) = 0
        /\ IsFiniteSet(DOMAIN pending) /\ Cardinality(DOMAIN pending) = 0
    BY <1>1, FS_EmptySet
  <2> QED
    BY <2>1, MaxRoomsType DEF PlacesOK, WithinRoomLimit
<1> QED
  BY <1>1, <1>3, <1>4 DEF RInv, RoomsOK, OccupiedRoomsAreLive

\* A room changes, nobody sits down in it, and it stays where it is.
LEMMA InRoomInv ==
    ASSUME RInv, NEW id \in DOMAIN rooms, NEW r, RoomOK(r, drawn),
           Connected(r) \subseteq Connected(rooms[id]),
           InRoom(id, r)
    PROVE  RInv'
<1>1. /\ DOMAIN rooms' = DOMAIN rooms
      /\ rooms'[id] = r
      /\ \A x \in DOMAIN rooms \ {id} : rooms'[x] = rooms[x]
      /\ pending' = pending /\ live' = live /\ drawn' = drawn
  BY DEF InRoom
<1>2. RoomsOK'
  BY <1>1 DEF RInv, RoomsOK
<1>3. RegistryTypeOK'
  <2>1. \A x \in DOMAIN rooms' :
           rooms'[x].participants \in [ Present(rooms'[x]) -> Participant ]
    BY <1>2 DEF RoomsOK, RoomOK, RoomTyped
  <2> QED
    BY <1>1, <2>1 DEF RInv, RegistryTypeOK
<1>4. PlacesOK'
  BY <1>1, PlacesKept DEF RInv
<1>5. OccupiedRoomsAreLive'
  BY <1>1 DEF RInv, OccupiedRoomsAreLive
<1> QED
  BY <1>2, <1>3, <1>4, <1>5 DEF RInv

LEMMA ReserveInv ==
    ASSUME RInv, NEW id \in RoomIds, NEW owner \in {OwnerToken, None},
           ReserveWithOwner(id, owner)
    PROVE  RInv'
<1>1. /\ live' = live /\ rooms' = rooms /\ drawn' = drawn
      /\ id \notin DOMAIN pending /\ id \notin DOMAIN rooms
  BY DEF ReserveWithOwner, Fresh
<1>2. CASE ~ HasSpace
  <2>1. pending' = Purged
    BY <1>2 DEF ReserveWithOwner
  <2>2. RegistryTypeOK'
    BY <1>1, <2>1, PurgedFacts DEF RInv, RegistryTypeOK
  <2>3. PlacesOK'
    BY <1>1, <2>1, PurgedFacts, PlacesKept DEF RInv
  <2> QED
    BY <1>1, <2>2, <2>3 DEF RInv, RoomsOK, OccupiedRoomsAreLive
<1>3. CASE HasSpace
  <2> DEFINE v == [ left |-> ReservationTTL, owner |-> owner ]
  <2>1. pending' = Put(Purged, id, v)
    BY <1>3 DEF ReserveWithOwner
  <2>2. v \in Reservation
    BY RegistryAssumption DEF Reservation
  <2> HIDE DEF v
  <2>3. DOMAIN pending' = Unexpired \cup {id}
    BY <2>1, PurgedFacts, PutFacts
  <2>4. pending' \in [ DOMAIN pending' -> Reservation ]
    BY <2>1, <2>2, PurgedFacts, PutType
  <2>5. RegistryTypeOK'
    BY <1>1, <2>3, <2>4, PurgedFacts DEF RInv, RegistryTypeOK
  <2>6. PlacesOK'
    <3>1. IsFiniteSet(Unexpired) /\ Cardinality(Unexpired) \in Nat
      BY PurgedFacts, FS_Subset, FS_CardinalityType DEF RInv, PlacesOK
    <3>2. /\ IsFiniteSet(DOMAIN pending')
          /\ Cardinality(DOMAIN pending') = Cardinality(Unexpired) + 1
      BY <1>1, <2>3, <3>1, PurgedFacts, FS_AddElement
    <3>3. IsFiniteSet(live) /\ Cardinality(live) \in Nat
      BY FS_CardinalityType DEF RInv, PlacesOK
    <3> QED
      BY <1>1, <1>3, <3>1, <3>2, <3>3, MaxRoomsType
      DEF PlacesOK, WithinRoomLimit, HasSpace
  <2> QED
    BY <1>1, <2>5, <2>6 DEF RInv, RoomsOK, OccupiedRoomsAreLive
<1> QED
  BY <1>2, <1>3

\* A room that nobody knew appears in the registry.
LEMMA NewRoomInv ==
    ASSUME RInv, NEW id \in RoomIds, id \notin DOMAIN rooms, NEW r,
           drawn \subseteq drawn', drawn' \subseteq Conns,
           RoomOK(r, drawn'),
           rooms' = Put(rooms, id, r),
           live' = live \cup {id},
           pending' \in [ DOMAIN pending' -> Reservation ],
           DOMAIN pending' \subseteq DOMAIN pending \ {id},
           IsFiniteSet(DOMAIN pending'),
           Cardinality(live) + Cardinality(DOMAIN pending') < MaxRooms
    PROVE  RInv'
<1>1. /\ DOMAIN rooms' = DOMAIN rooms \cup {id}
      /\ rooms'[id] = r
      /\ \A x \in DOMAIN rooms : rooms'[x] = rooms[x]
  BY DEF Put
<1>2. RoomsOK'
  BY <1>1, Monotone DEF RInv, RoomsOK
<1>3. RegistryTypeOK'
  <2>1. \A x \in DOMAIN rooms' :
           rooms'[x].participants \in [ Present(rooms'[x]) -> Participant ]
    BY <1>2 DEF RoomsOK, RoomOK, RoomTyped
  <2> QED
    BY <1>1, <2>1 DEF RInv, RegistryTypeOK
<1>4. PlacesOK'
  <2>1. IsFiniteSet(live) /\ Cardinality(live) \in Nat
    BY FS_CardinalityType DEF RInv, PlacesOK
  <2>2. id \notin live
    BY DEF RInv, RegistryTypeOK
  <2>3. IsFiniteSet(live') /\ Cardinality(live') = Cardinality(live) + 1
    BY <2>1, <2>2, FS_AddElement
  <2>4. Cardinality(DOMAIN pending') \in Nat
    BY FS_CardinalityType
  <2> QED
    BY <2>1, <2>3, <2>4, MaxRoomsType DEF PlacesOK, WithinRoomLimit
<1>5. OccupiedRoomsAreLive'
  BY <1>1 DEF RInv, OccupiedRoomsAreLive
<1> QED
  BY <1>2, <1>3, <1>4, <1>5 DEF RInv

LEMMA CreateInv ==
    ASSUME RInv, NEW id \in RoomIds, NEW owner \in {OwnerToken, None}, Create(id, owner)
    PROVE  RInv'
<1>1. /\ pending' = Purged /\ drawn' = drawn
      /\ id \notin DOMAIN pending /\ id \notin DOMAIN rooms
  BY DEF Create, Fresh
<1>2. CASE ~ HasSpace
  <2>1. live' = live /\ rooms' = rooms
    BY <1>2 DEF Create
  <2>2. RegistryTypeOK'
    BY <1>1, <2>1, PurgedFacts DEF RInv, RegistryTypeOK
  <2>3. PlacesOK'
    BY <1>1, <2>1, PurgedFacts, PlacesKept DEF RInv
  <2> QED
    BY <1>1, <2>1, <2>2, <2>3 DEF RInv, RoomsOK, OccupiedRoomsAreLive
<1>3. CASE HasSpace
  <2>1. live' = live \cup {id} /\ rooms' = Put(rooms, id, NewRoom(owner))
    BY <1>3 DEF Create
  <2>2. RoomOK(NewRoom(owner), drawn')
    BY NewRoomOK, Monotone
  <2>3. drawn \subseteq drawn' /\ drawn' \subseteq Conns
    BY <1>1 DEF RInv, RegistryTypeOK
  <2>4. IsFiniteSet(Unexpired)
    BY PurgedFacts, FS_Subset DEF RInv, PlacesOK
  <2>5. Cardinality(live) + Cardinality(DOMAIN pending') < MaxRooms
    BY <1>1, <1>3, PurgedFacts DEF HasSpace
  <2> QED
    BY <1>1, <2>1, <2>2, <2>3, <2>4, <2>5, PurgedFacts, NewRoomInv
<1> QED
  BY <1>2, <1>3

-----------------------------------------------------------------------------
(* Joining *)

\* The room a join is for, which the join then changes.
LEMMA TargetOK ==
    ASSUME RInv, NEW id \in live \cup Unexpired
    PROVE  /\ RoomOK(JoinTarget(id), drawn)
           /\ id \in live => Seats(JoinTarget(id)) = Seats(rooms[id])
           /\ id \notin live => /\ id \in DOMAIN pending /\ id \notin DOMAIN rooms
                                /\ Seats(JoinTarget(id)) = EmptyFcn
<1>1. CASE id \in live
  <2>1. id \in DOMAIN rooms /\ JoinTarget(id) = AfterPurge(rooms[id])
    BY <1>1 DEF JoinTarget, RInv, RegistryTypeOK
  <2>2. RoomOK(rooms[id], drawn) /\ HasFields(rooms[id])
    BY <2>1, RoomParts
  <2> QED
    BY <1>1, <2>1, <2>2, PurgeOK, PurgeSeats
<1>2. CASE id \notin live
  <2>1. id \in DOMAIN pending /\ id \notin DOMAIN rooms
    BY <1>2 DEF Unexpired, RInv, RegistryTypeOK
  <2>2. pending[id].owner \in {OwnerToken, None}
    BY <2>1 DEF RInv, RegistryTypeOK, Reservation
  <2>3. JoinTarget(id) = NewRoom(pending[id].owner)
    BY <1>2 DEF JoinTarget
  <2>4. RoomOK(JoinTarget(id), drawn)
    BY <2>2, <2>3, NewRoomOK, Monotone
  <2>5. Seats(JoinTarget(id)) = EmptyFcn
    <3>1. Present(NewRoom(pending[id].owner)) = {}
      BY DEF Present, NewRoom, EmptyFcn
    <3>2. Connected(JoinTarget(id)) = {}
      BY <2>3, <3>1 DEF Connected
    <3> QED
      BY <3>2 DEF Seats, EmptyFcn
  <2> QED
    BY <1>2, <2>1, <2>4, <2>5
<1> QED
  BY <1>1, <1>2

\* What a join does to the rooms and to their seats.
LEMMA JoinEffect ==
    ASSUME RInv, NEW id \in RoomIds, NEW c \in Conns, NEW q \in Request, Join(id, c, q)
    PROVE  /\ drawn' = drawn \cup {c} /\ c \notin drawn
           /\ JoinFound(id) =>
                 RoomOK(Admit(JoinTarget(id), c, q), drawn')
           /\ JoinAccepted(id, q) =>
                 /\ id \in live'
                 /\ rooms' = Put(rooms, id, Admit(JoinTarget(id), c, q))
                 /\ JoinsAs(JoinTarget(id), c, q) \in drawn'
                 /\ Seats(rooms'[id]) =
                      Put(Seats(JoinTarget(id)), JoinsAs(JoinTarget(id), c, q), c)
           /\ ~ JoinAccepted(id, q) =>
                 /\ DOMAIN rooms' = DOMAIN rooms /\ live' = live
                 /\ \A x \in DOMAIN rooms : Seats(rooms'[x]) = Seats(rooms[x])
<1> DEFINE t == JoinTarget(id)
<1>1. drawn' = drawn \cup {c} /\ c \notin drawn
  BY DEF Join
<1>2. JoinFound(id) => RoomOK(t, drawn)
  BY TargetOK DEF JoinFound
<1>3. JoinFound(id) => RoomOK(Admit(t, c, q), drawn')
  BY <1>1, <1>2, AdmitOK
<1>4. live \subseteq DOMAIN rooms
  BY DEF RInv, RegistryTypeOK
<1>5. ASSUME id \in live
      PROVE  /\ rooms' = [ rooms EXCEPT ![id] = Admit(t, c, q) ]
             /\ live' = live
  BY <1>5 DEF Join, AfterAddConnection, JoinTarget
<1>6. ASSUME id \in live
      PROVE  rooms' = Put(rooms, id, Admit(t, c, q))
  BY <1>4, <1>5, <1>6 DEF Put
<1> HIDE DEF t
<1>7. ASSUME JoinAccepted(id, q)
      PROVE  /\ id \in live'
             /\ rooms' = Put(rooms, id, Admit(t, c, q))
             /\ JoinsAs(t, c, q) \in drawn'
             /\ Seats(rooms'[id]) = Put(Seats(t), JoinsAs(t, c, q), c)
  <2>1. JoinFound(id) /\ JoinError(t, q) = "none"
    BY <1>7 DEF JoinAccepted, t
  <2>2. id \in live' /\ rooms' = Put(rooms, id, Admit(t, c, q))
    BY <1>5, <1>6, <1>7 DEF Join, t
  <2>3. rooms'[id] = Admit(t, c, q)
    BY <2>2 DEF Put
  <2>4. /\ JoinsAs(t, c, q) \in Present(t) \cup {c}
        /\ Seats(Admit(t, c, q)) = Put(Seats(t), JoinsAs(t, c, q), c)
    BY <1>1, <1>2, <2>1, AdmitSeats
  <2>5. Present(t) \subseteq drawn
    BY <1>2, <2>1 DEF RoomOK, RoomTyped
  <2> QED
    BY <1>1, <2>2, <2>3, <2>4, <2>5
<1>8. ASSUME ~ JoinAccepted(id, q)
      PROVE  /\ DOMAIN rooms' = DOMAIN rooms /\ live' = live
             /\ \A x \in DOMAIN rooms : Seats(rooms'[x]) = Seats(rooms[x])
  <2>1. CASE id \in live
    <3>1. JoinError(t, q) # "none"
      BY <1>8, <2>1 DEF JoinAccepted, JoinFound, t
    <3>2. Admit(t, c, q) = t
      BY <3>1 DEF Admit
    <3>3. rooms' = Put(rooms, id, t) /\ live' = live
      BY <1>5, <1>6, <2>1, <3>2
    <3>4. Seats(t) = Seats(rooms[id])
      BY <2>1, TargetOK DEF t
    <3>5. /\ DOMAIN rooms' = DOMAIN rooms
          /\ rooms'[id] = t
          /\ \A x \in DOMAIN rooms \ {id} : rooms'[x] = rooms[x]
      BY <1>4, <2>1, <3>3 DEF Put
    <3> QED
      BY <3>3, <3>4, <3>5
  <2>2. CASE id \notin live
    BY <1>8, <2>2 DEF Join
  <2> QED
    BY <2>1, <2>2
<1> QED
  BY <1>1, <1>3, <1>7, <1>8 DEF t

LEMMA JoinInv ==
    ASSUME RInv, NEW id \in RoomIds, NEW c \in Conns, NEW q \in Request, Join(id, c, q)
    PROVE  RInv'
<1> DEFINE a == Admit(JoinTarget(id), c, q)
<1>1. /\ drawn' = drawn \cup {c} /\ c \notin drawn
      /\ drawn \subseteq drawn' /\ drawn' \subseteq Conns
  BY DEF Join, RInv, RegistryTypeOK
<1>2. JoinFound(id) => RoomOK(a, drawn')
  BY JoinEffect
<1>3. \A x \in DOMAIN rooms : RoomOK(rooms[x], drawn')
  BY <1>1, Monotone DEF RInv, RoomsOK
<1>4. CASE id \in live
  <2>1. /\ pending' = Purged /\ live' = live
        /\ rooms' = [ rooms EXCEPT ![id] = a ]
    BY <1>4 DEF Join, AfterAddConnection, JoinTarget
  <2> HIDE DEF a
  <2>2. id \in DOMAIN rooms
    BY <1>4 DEF RInv, RegistryTypeOK
  <2>3. /\ DOMAIN rooms' = DOMAIN rooms
        /\ rooms'[id] = a
        /\ \A x \in DOMAIN rooms \ {id} : rooms'[x] = rooms[x]
    BY <2>1, <2>2
  <2>4. RoomsOK'
    BY <1>2, <1>3, <1>4, <2>3 DEF RoomsOK, JoinFound
  <2>5. RegistryTypeOK'
    <3>1. \A x \in DOMAIN rooms' :
             rooms'[x].participants \in [ Present(rooms'[x]) -> Participant ]
      BY <2>4 DEF RoomsOK, RoomOK, RoomTyped
    <3> QED
      BY <1>1, <2>1, <2>3, <3>1, PurgedFacts DEF RInv, RegistryTypeOK
  <2>6. PlacesOK'
    BY <2>1, PurgedFacts, PlacesKept DEF RInv
  <2>7. OccupiedRoomsAreLive'
    BY <1>4, <2>1, <2>3 DEF RInv, OccupiedRoomsAreLive
  <2> QED
    BY <2>4, <2>5, <2>6, <2>7 DEF RInv
<1>5. CASE id \notin live /\ JoinAccepted(id, q)
  <2>1. /\ rooms' = Put(rooms, id, a)
        /\ pending' = PurgedBut(id)
        /\ live' = live \cup {id}
    BY <1>5 DEF Join
  <2> HIDE DEF a
  <2>2. id \in Unexpired /\ JoinFound(id)
    BY <1>5 DEF JoinAccepted, JoinFound
  <2>3. id \notin DOMAIN rooms
    BY <1>5, <2>2, TargetOK
  <2>4. IsFiniteSet(Unexpired) /\ Cardinality(Unexpired) <= Cardinality(DOMAIN pending)
    BY PurgedFacts, FS_Subset DEF RInv, PlacesOK
  <2>5. /\ IsFiniteSet(DOMAIN pending')
        /\ Cardinality(DOMAIN pending') = Cardinality(Unexpired) - 1
    <3>1. DOMAIN pending' = Unexpired \ {id}
      BY <2>1, PurgedFacts
    <3> QED
      BY <2>2, <2>4, <3>1, FS_RemoveElement
  <2>6. /\ Cardinality(live) \in Nat
        /\ Cardinality(Unexpired) \in Nat
        /\ Cardinality(DOMAIN pending) \in Nat
    BY <2>4, FS_CardinalityType DEF RInv, PlacesOK
  <2>7. Cardinality(live) + Cardinality(DOMAIN pending') < MaxRooms
    BY <2>4, <2>5, <2>6, MaxRoomsType DEF RInv, PlacesOK, WithinRoomLimit
  <2>8. /\ pending' \in [ DOMAIN pending' -> Reservation ]
        /\ DOMAIN pending' \subseteq DOMAIN pending \ {id}
    BY <2>1, PurgedFacts
  <2> QED
    BY <1>1, <1>2, <2>1, <2>2, <2>3, <2>5, <2>7, <2>8, NewRoomInv
<1>6. CASE id \notin live /\ ~ JoinAccepted(id, q)
  <2>1. pending' = Purged /\ live' = live /\ rooms' = rooms
    BY <1>6 DEF Join
  <2>2. RoomsOK'
    BY <1>3, <2>1 DEF RoomsOK
  <2>3. RegistryTypeOK'
    BY <1>1, <2>1, PurgedFacts DEF RInv, RegistryTypeOK
  <2>4. PlacesOK'
    BY <2>1, PurgedFacts, PlacesKept DEF RInv
  <2> QED
    BY <2>1, <2>2, <2>3, <2>4 DEF RInv, OccupiedRoomsAreLive
<1> QED
  BY <1>4, <1>5, <1>6

-----------------------------------------------------------------------------
(* Reading, leaving and time *)

\* A room that is read is purged, and nobody moves.
LEMMA ReadRooms ==
    ASSUME RInv, NEW id,
           rooms' = IF id \in live THEN [ rooms EXCEPT ![id] = AfterPurge(@) ] ELSE rooms
    PROVE  /\ DOMAIN rooms' = DOMAIN rooms
           /\ \A x \in DOMAIN rooms : /\ RoomOK(rooms'[x], drawn)
                                      /\ Seats(rooms'[x]) = Seats(rooms[x])
                                      /\ Connected(rooms'[x]) = Connected(rooms[x])
<1>1. DOMAIN rooms' = DOMAIN rooms
  OBVIOUS
<1>2. \A x \in DOMAIN rooms : rooms'[x] = rooms[x] \/ rooms'[x] = AfterPurge(rooms[x])
  BY DEF RInv, RegistryTypeOK
<1> QED
  BY <1>1, <1>2, RoomParts, PurgeOK, PurgeSeats

\* The rooms change, nobody sits down, and only empty rooms are dropped.
LEMMA QuietInv ==
    ASSUME RInv,
           DOMAIN rooms' = DOMAIN rooms,
           \A x \in DOMAIN rooms : /\ RoomOK(rooms'[x], drawn)
                                   /\ Connected(rooms'[x]) = Connected(rooms[x]),
           drawn' = drawn,
           live' \subseteq live,
           \A x \in live \ live' : Connected(rooms[x]) = {},
           pending' \in [ DOMAIN pending' -> Reservation ],
           DOMAIN pending' \subseteq DOMAIN pending
    PROVE  RInv'
<1>1. RoomsOK'
  BY DEF RoomsOK
<1>2. RegistryTypeOK'
  <2>1. \A x \in DOMAIN rooms' :
           rooms'[x].participants \in [ Present(rooms'[x]) -> Participant ]
    BY <1>1 DEF RoomsOK, RoomOK, RoomTyped
  <2> QED
    BY <2>1 DEF RInv, RegistryTypeOK
<1>3. PlacesOK'
  BY PlacesKept DEF RInv
<1>4. OccupiedRoomsAreLive'
  BY DEF RInv, OccupiedRoomsAreLive
<1> QED
  BY <1>1, <1>2, <1>3, <1>4 DEF RInv

LEMMA ReadInv ==
    ASSUME RInv, NEW id, Read(id)
    PROVE  RInv'
<1>1. pending' = Purged /\ live' = live /\ drawn' = drawn
  BY DEF Read
<1>2. /\ DOMAIN rooms' = DOMAIN rooms
      /\ \A x \in DOMAIN rooms : /\ RoomOK(rooms'[x], drawn)
                                 /\ Connected(rooms'[x]) = Connected(rooms[x])
  BY ReadRooms DEF Read
<1> QED
  BY <1>1, <1>2, PurgedFacts, QuietInv

LEMMA DeleteIfEmptyInv ==
    ASSUME RInv, NEW id, DeleteIfEmpty(id)
    PROVE  RInv'
<1>1. pending' = Purged /\ drawn' = drawn
  BY DEF DeleteIfEmpty
<1>2. /\ DOMAIN rooms' = DOMAIN rooms
      /\ \A x \in DOMAIN rooms : /\ RoomOK(rooms'[x], drawn)
                                 /\ Connected(rooms'[x]) = Connected(rooms[x])
  BY ReadRooms DEF DeleteIfEmpty
<1>3. /\ live' \subseteq live
      /\ \A x \in live \ live' : Connected(rooms[x]) = {}
  BY DEF DeleteIfEmpty, Drops, IsEmpty
<1> QED
  BY <1>1, <1>2, <1>3, PurgedFacts, QuietInv

LEMMA RemoveConnectionInv ==
    ASSUME RInv, NEW id \in DOMAIN rooms, NEW i, NEW c, RemoveConnection(id, i, c)
    PROVE  RInv'
<1>1. PICK r \in AfterRemoveConnection(rooms[id], i, c) :
         rooms' = [ rooms EXCEPT ![id] = r ]
  BY DEF RemoveConnection
<1>2. InRoom(id, r)
  BY <1>1 DEF InRoom, RemoveConnection
<1>3. RoomOK(rooms[id], drawn)
  BY RoomParts
<1>4. RoomOK(r, drawn)
  BY <1>3, RemoveConnectionOK
<1>5. Seats(r) = Seats(rooms[id]) \/ Seats(r) = Drop(Seats(rooms[id]), i)
  BY <1>3, RemoveConnectionSeats
<1>6. Connected(r) \subseteq Connected(rooms[id])
  <2>1. DOMAIN Seats(r) \subseteq DOMAIN Seats(rooms[id])
    BY <1>5 DEF Drop
  <2> QED
    BY <2>1, SeatsFacts
<1> QED
  BY <1>2, <1>4, <1>6, InRoomInv

LEMMA TickInv ==
    ASSUME RInv, Tick
    PROVE  RInv'
<1>1. live' = live /\ drawn' = drawn
  BY DEF Tick
<1>2. /\ DOMAIN rooms' = DOMAIN rooms
      /\ \A x \in DOMAIN rooms : rooms'[x] = AfterTick(rooms[x])
  BY DEF Tick
<1>3. ASSUME NEW x \in DOMAIN rooms
      PROVE  /\ RoomOK(rooms'[x], drawn)
             /\ Connected(rooms'[x]) = Connected(rooms[x])
  <2>1. RoomOK(rooms[x], drawn)
    BY RoomParts
  <2>2. Seats(AfterTick(rooms[x])) = Seats(rooms[x])
    BY <2>1, TickStayPut, StayPutSeats
  <2> QED
    BY <1>2, <2>1, <2>2, TickOK, SeatsFacts
<1>4. /\ DOMAIN pending' = DOMAIN pending
      /\ pending' \in [ DOMAIN pending' -> Reservation ]
  <2>1. ASSUME NEW v \in Reservation
        PROVE  [ v EXCEPT !.left = IF @ = 0 THEN 0 ELSE @ - 1 ] \in Reservation
    BY RegistryAssumption DEF Reservation
  <2>2. pending \in [ DOMAIN pending -> Reservation ]
    BY DEF RInv, RegistryTypeOK
  <2> QED
    BY <2>1, <2>2 DEF Tick
<1> QED
  BY <1>1, <1>2, <1>3, <1>4, QuietInv

LEMMA NextRInv == RInv /\ [RegistryNext]_registryVars => RInv'
<1> SUFFICES ASSUME RInv, [RegistryNext]_registryVars
             PROVE  RInv'
  OBVIOUS
<1>1. ASSUME NEW id \in RoomIds, NEW owner \in {OwnerToken, None},
             ReserveWithOwner(id, owner)
      PROVE  RInv'
  BY <1>1, ReserveInv
<1>2. ASSUME NEW id \in RoomIds, NEW owner \in {OwnerToken, None}, Create(id, owner)
      PROVE  RInv'
  BY <1>2, CreateInv
<1>3. ASSUME NEW id \in RoomIds, NEW c \in Conns, NEW q \in Request, Join(id, c, q)
      PROVE  RInv'
  BY <1>3, JoinInv
<1>4. ASSUME NEW id \in RoomIds, Read(id)
      PROVE  RInv'
  BY <1>4, ReadInv
<1>5. ASSUME NEW id \in RoomIds, DeleteIfEmpty(id)
      PROVE  RInv'
  BY <1>5, DeleteIfEmptyInv
<1>6. ASSUME NEW id \in DOMAIN rooms, NEW i \in drawn, NEW c \in drawn,
             RemoveConnection(id, i, c)
      PROVE  RInv'
  BY <1>6, RemoveConnectionInv
<1>7. CASE Tick
  BY <1>7, TickInv
<1>8. CASE UNCHANGED registryVars
  BY <1>8 DEF registryVars, RInv, RegistryTypeOK, RoomsOK, PlacesOK, WithinRoomLimit,
              OccupiedRoomsAreLive
<1> QED
  BY <1>1, <1>2, <1>3, <1>4, <1>5, <1>6, <1>7, <1>8 DEF RegistryNext

-----------------------------------------------------------------------------
(* The theorems *)

(***************************************************************************)
(* The invariant holds of every reachable registry: every room in it, and  *)
(* every room that somebody still holds after it was dropped, satisfies    *)
(* the invariant of a room.                                                *)
(***************************************************************************)
THEOREM RegistryInvariance == RegistrySpec => []RInv
<1>1. RegistryInit => RInv
  BY InitRInv
<1>2. RInv /\ [RegistryNext]_registryVars => RInv'
  BY NextRInv
<1> QED
  BY <1>1, <1>2, PTL DEF RegistrySpec

(***************************************************************************)
(* Reservations, registry and rooms keep their types, and no room ID is    *)
(* both reserved and made, whatever is created, joined, left and dropped.  *)
(***************************************************************************)
THEOREM RegistryTypeCorrectness == RegistrySpec => []RegistryTypeOK
<1>1. RInv => RegistryTypeOK
  BY DEF RInv
<1> QED
  BY <1>1, RegistryInvariance, PTL

(***************************************************************************)
(* Rooms and reservations never exceed the configured limit, or the one    *)
(* that stands in for a limit of zero or less: the check in reserve, the   *)
(* lazy purge and the join that turns a reservation into a room keep it    *)
(* together.                                                               *)
(***************************************************************************)
THEOREM RoomLimitHolds == RegistrySpec => []WithinRoomLimit
<1>1. RInv => WithinRoomLimit
  BY DEF RInv, PlacesOK
<1> QED
  BY <1>1, RegistryInvariance, PTL

(***************************************************************************)
(* DeleteIfEmpty never drops a room that somebody is connected to, and     *)
(* nobody joins one that was dropped.                                      *)
(***************************************************************************)
THEOREM NobodyLosesTheRoom == RegistrySpec => []OccupiedRoomsAreLive
<1>1. RInv => OccupiedRoomsAreLive
  BY DEF RInv
<1> QED
  BY <1>1, RegistryInvariance, PTL

\* What a step does to the life of a room ID.
Waits(id) ==
    id \in DOMAIN pending /\ pending[id].left > 0 =>
        \/ id \in live'
        \/ id \in DOMAIN pending' /\ pending'[id].owner = pending[id].owner

MovesForward(id) ==
    /\ id \in DOMAIN rooms \ live => id \notin live' \cup DOMAIN pending'
    /\ id \in live' /\ id \in DOMAIN pending =>
          pending[id].left > 0 /\ Connected(rooms'[id]) # {}
    /\ Waits(id)

LEMMA IdsStep ==
    ASSUME RInv, [RegistryNext]_registryVars, NEW id \in RoomIds
    PROVE  MovesForward(id)
<1>0. live \subseteq DOMAIN rooms /\ DOMAIN pending \cap DOMAIN rooms = {}
  BY DEF RInv, RegistryTypeOK
<1>1. ASSUME live' \subseteq live, DOMAIN pending' \subseteq DOMAIN pending, Waits(id)
      PROVE  MovesForward(id)
  BY <1>0, <1>1 DEF MovesForward
<1>2. DOMAIN Purged \subseteq DOMAIN pending
  BY PurgedFacts
<1>10. ASSUME pending' = Purged
       PROVE  Waits(id)
  BY <1>10 DEF Waits, Purged, Unexpired, Restrict
<1>11. ASSUME pending' = pending
       PROVE  Waits(id)
  BY <1>11 DEF Waits
<1>3. ASSUME NEW x \in RoomIds, NEW owner \in {OwnerToken, None},
             ReserveWithOwner(x, owner)
      PROVE  MovesForward(id)
  <2>1. live' = live /\ x \notin DOMAIN rooms
    BY <1>3 DEF ReserveWithOwner, Fresh
  <2>2. DOMAIN pending' \subseteq DOMAIN pending \cup {x}
    BY <1>2, <1>3 DEF ReserveWithOwner, Put
  <2>3. Waits(id)
    <3>1. CASE HasSpace
      <4>1. pending' = Put(Purged, x, [ left |-> ReservationTTL, owner |-> owner ])
        BY <1>3, <3>1 DEF ReserveWithOwner
      <4>2. x \notin DOMAIN pending
        BY <1>3 DEF ReserveWithOwner, Fresh
      <4> QED
        BY <4>1, <4>2 DEF Waits, Put, Purged, Unexpired, Restrict
    <3>2. CASE ~ HasSpace
      BY <1>3, <1>10, <3>2 DEF ReserveWithOwner
    <3> QED
      BY <3>1, <3>2
  <2> QED
    BY <1>0, <2>1, <2>2, <2>3 DEF MovesForward
<1>4. ASSUME NEW x \in RoomIds, NEW owner \in {OwnerToken, None}, Create(x, owner)
      PROVE  MovesForward(id)
  <2>1. /\ pending' = Purged
        /\ live' \subseteq live \cup {x}
        /\ x \notin DOMAIN rooms /\ x \notin DOMAIN pending
    BY <1>4 DEF Create, Fresh
  <2>2. Waits(id)
    BY <1>10, <2>1
  <2> QED
    BY <1>0, <1>2, <2>1, <2>2 DEF MovesForward
<1>5. ASSUME NEW x \in RoomIds, NEW c \in Conns, NEW q \in Request, Join(x, c, q)
      PROVE  MovesForward(id)
  <2>1. DOMAIN pending' \subseteq DOMAIN pending
    <3>1. pending' = Purged \/ pending' = PurgedBut(x)
      BY <1>5 DEF Join
    <3>2. DOMAIN PurgedBut(x) \subseteq DOMAIN pending
      BY PurgedFacts
    <3> QED
      BY <1>2, <3>1, <3>2
  <2>2. CASE x \notin live /\ JoinAccepted(x, q)
    <3>1. live' = live \cup {x}
      BY <1>5, <2>2 DEF Join
    <3>2. x \in Unexpired
      BY <2>2 DEF JoinAccepted, JoinFound
    <3>3. x \in DOMAIN pending /\ pending[x].left > 0
      BY <3>2 DEF Unexpired
    <3>4. Seats(rooms'[x]) = Put(Seats(JoinTarget(x)), JoinsAs(JoinTarget(x), c, q), c)
      BY <1>5, <2>2, JoinEffect
    <3>5. Connected(rooms'[x]) # {}
      <4>1. DOMAIN Seats(rooms'[x]) # {}
        BY <3>4 DEF Put
      <4> QED
        BY <4>1 DEF Seats
    <3>6. Waits(id)
      <4>1. pending' = PurgedBut(x)
        BY <1>5, <2>2 DEF Join
      <4> QED
        BY <3>1, <4>1 DEF Waits, PurgedBut, Unexpired, Restrict
    <3> QED
      BY <1>0, <2>1, <3>1, <3>3, <3>5, <3>6 DEF MovesForward
  <2>3. CASE ~ (x \notin live /\ JoinAccepted(x, q))
    <3>1. live' = live /\ pending' = Purged
      BY <1>5, <2>3 DEF Join
    <3> QED
      BY <1>1, <1>10, <2>1, <3>1
  <2> QED
    BY <2>2, <2>3
<1>6. ASSUME NEW x \in RoomIds, Read(x) \/ DeleteIfEmpty(x)
      PROVE  MovesForward(id)
  <2>1. live' \subseteq live /\ pending' = Purged
    BY <1>6 DEF Read, DeleteIfEmpty
  <2> QED
    BY <1>1, <1>2, <1>10, <2>1
<1>7. ASSUME NEW x \in DOMAIN rooms, NEW i \in drawn, NEW c \in drawn,
             RemoveConnection(x, i, c)
      PROVE  MovesForward(id)
  <2>1. live' = live /\ pending' = pending
    BY <1>7 DEF RemoveConnection
  <2> QED
    BY <1>1, <1>11, <2>1
<1>8. CASE Tick
  <2>1. live' = live /\ DOMAIN pending' = DOMAIN pending
    BY <1>8 DEF Tick
  <2>2. Waits(id)
    <3>1. pending \in [ DOMAIN pending -> Reservation ]
      BY DEF RInv, RegistryTypeOK
    <3> QED
      BY <1>8, <3>1 DEF Tick, Waits, Reservation
  <2> QED
    BY <1>1, <2>1, <2>2
<1>9. CASE UNCHANGED registryVars
  <2>1. live' = live /\ pending' = pending
    BY <1>9 DEF registryVars
  <2> QED
    BY <1>1, <1>11, <2>1
<1> QED
  BY <1>3, <1>4, <1>5, <1>6, <1>7, <1>8, <1>9 DEF RegistryNext

(***************************************************************************)
(* A reservation stays until it expires or becomes a room; an expired one  *)
(* never does, a reserved room begins with somebody in it, and a room that *)
(* DeleteIfEmpty dropped comes back for no join and no reservation.        *)
(***************************************************************************)
THEOREM RoomIdsMoveForward == RegistrySpec => RoomIdsAreNotReused
<1>1. ASSUME RInv, [RegistryNext]_registryVars
      PROVE  \A id \in RoomIds :
                /\ id \in DOMAIN rooms \ live => id \notin live' \cup DOMAIN pending'
                /\ id \in live' /\ id \in DOMAIN pending =>
                      pending[id].left > 0 /\ Connected(rooms'[id]) # {}
                /\ id \in DOMAIN pending /\ pending[id].left > 0 =>
                      \/ id \in live'
                      \/ id \in DOMAIN pending' /\ pending'[id].owner = pending[id].owner
  BY <1>1, IdsStep DEF MovesForward, Waits
<1> QED
  BY <1>1, RegistryInvariance, PTL DEF RegistrySpec, RoomIdsAreNotReused

-----------------------------------------------------------------------------
(* The inductive invariant of the service *)

\* The handlers' variables. A handler has drawn its names when it has joined.
HandlersOK ==
    /\ pc \in [ Conns -> Phases ]
    /\ at \in [ Conns -> DOMAIN rooms \cup {None} ]
    /\ self \in [ Conns -> drawn \cup {None} ]
    /\ previous \in [ Conns -> drawn \cup {None} ]
    /\ cancelled \subseteq drawn
    /\ hub \in [ DOMAIN hub -> drawn ]
    /\ \A c \in Conns : pc[c] \in InRoomPhases \cup {"removed"} =>
                            c \in drawn /\ at[c] # None /\ self[c] # None

\* ConnectedAreServed, by the seats.
SeatedAreServed ==
    \A id \in DOMAIN rooms : \A i \in DOMAIN Seats(rooms[id]) :
        /\ Seats(rooms[id])[i] \in drawn
        /\ pc[Seats(rooms[id])[i]] \in InRoomPhases
        /\ at[Seats(rooms[id])[i]] = id
        /\ self[Seats(rooms[id])[i]] = i

\* The hub has a handler that reads, unless the handler is about to be closed:
\* it is cancelled, or another one has replaced it and will cancel it.
ReadersAreReached ==
    \A c \in Conns : pc[c] \in {"registered", "serving"} =>
        \/ <<at[c], self[c]>> \in DOMAIN hub /\ hub[<<at[c], self[c]>>] = c
        \/ c \in cancelled
        \/ \E d \in Conns : pc[d] = "registered" /\ previous[d] = c

\* EmptyRoomsAreBeingDeleted, by the seats.
UnseatedAreBeingDeleted ==
    \A id \in live : DOMAIN Seats(rooms[id]) = {} =>
        \E c \in Conns : pc[c] = "removed" /\ at[c] = id

SvInv ==
    /\ RInv
    /\ HandlersOK
    /\ SeatedAreServed
    /\ HubEntriesAreServed
    /\ ReadersAreReached
    /\ UnseatedAreBeingDeleted

-----------------------------------------------------------------------------
(* What the invariant says *)

LEMMA ServedSeats ==
    ASSUME RInv
    PROVE  /\ SeatedAreServed => ConnectedAreServed
           /\ UnseatedAreBeingDeleted => EmptyRoomsAreBeingDeleted
<1>1. \A id \in DOMAIN rooms :
         /\ DOMAIN Seats(rooms[id]) = Connected(rooms[id])
         /\ \A i \in Connected(rooms[id]) :
               Seats(rooms[id])[i] = rooms[id].participants[i].conn
  BY SeatsFacts
<1>2. live \subseteq DOMAIN rooms
  BY DEF RInv, RegistryTypeOK
<1>3. SeatedAreServed => ConnectedAreServed
  BY <1>1 DEF SeatedAreServed, ConnectedAreServed
<1>4. UnseatedAreBeingDeleted => EmptyRoomsAreBeingDeleted
  BY <1>1, <1>2 DEF UnseatedAreBeingDeleted, EmptyRoomsAreBeingDeleted, IsEmpty
<1> QED
  BY <1>3, <1>4

\* A seat holds a connection that was drawn.
LEMMA SeatsDrawn ==
    ASSUME NEW r, NEW U, RoomOK(r, U)
    PROVE  \A i \in DOMAIN Seats(r) : Seats(r)[i] \in U
<1>1. DOMAIN Seats(r) = Connected(r)
  BY SeatsFacts
<1>2. ASSUME NEW i \in Connected(r)
      PROVE  Seats(r)[i] \in U
  <2>1. i \in Present(r) /\ r.participants[i].connected
    BY DEF Connected
  <2>2. r.participants[i].conn # None /\ r.participants[i].conn \in U \cup {None}
    BY <2>1 DEF RoomOK, RoomTyped, ConnsAgree
  <2> QED
    BY <2>2, SeatsFacts
<1> QED
  BY <1>1, <1>2

LEMMA ConnsDrawn ==
    ASSUME SvInv
    PROVE  /\ drawn \subseteq Conns
           /\ None \notin drawn
           /\ live \subseteq DOMAIN rooms
           /\ DOMAIN rooms \subseteq RoomIds
BY NoneAssumption DEF SvInv, RInv, RegistryTypeOK

LEMMA Placed ==
    ASSUME SvInv, NEW c \in Conns, pc[c] \in InRoomPhases \cup {"removed"}
    PROVE  at[c] \in DOMAIN rooms /\ self[c] \in drawn /\ c \in drawn
BY DEF SvInv, HandlersOK

-----------------------------------------------------------------------------
(* Initially *)

LEMMA InitSvInv == Init => SvInv
<1> SUFFICES ASSUME Init
             PROVE  SvInv
  OBVIOUS
<1>1. RInv
  BY InitRInv DEF Init
<1>2. /\ live = {} /\ DOMAIN rooms = {} /\ DOMAIN hub = {}
      /\ \A c \in Conns : pc[c] = "idle"
  BY DEF Init, RegistryInit, EmptyFcn
<1>3. HandlersOK
  <2>1. hub \in [ DOMAIN hub -> drawn ]
    BY DEF Init, EmptyFcn
  <2> QED
    BY <1>2, <2>1 DEF Init, HandlersOK, Phases, InRoomPhases
<1>4. SeatedAreServed /\ HubEntriesAreServed /\ UnseatedAreBeingDeleted
  BY <1>2 DEF SeatedAreServed, HubEntriesAreServed, UnseatedAreBeingDeleted
<1>5. ReadersAreReached
  BY <1>2 DEF ReadersAreReached
<1> QED
  BY <1>1, <1>3, <1>4, <1>5 DEF SvInv

-----------------------------------------------------------------------------
(* Steps that leave every handler where it is *)

\* Nobody sits down and nobody leaves.
QuietRooms == \A id \in DOMAIN rooms : Seats(rooms'[id]) = Seats(rooms[id])

LEMMA QuietStep ==
    ASSUME SvInv, RInv',
           DOMAIN rooms' = DOMAIN rooms,
           \A id \in DOMAIN rooms : Seats(rooms'[id]) = Seats(rooms[id]),
           live' = live,
           drawn' = drawn,
           UNCHANGED handlerVars
    PROVE  SvInv'
<1>1. /\ pc' = pc /\ at' = at /\ self' = self
      /\ previous' = previous /\ cancelled' = cancelled /\ hub' = hub
  BY DEF handlerVars
<1>2. HandlersOK'
  BY <1>1 DEF SvInv, HandlersOK
<1>3. SeatedAreServed'
  BY <1>1 DEF SvInv, SeatedAreServed
<1>4. HubEntriesAreServed'
  BY <1>1 DEF SvInv, HubEntriesAreServed
<1>5. ReadersAreReached'
  BY <1>1 DEF SvInv, ReadersAreReached
<1>6. UnseatedAreBeingDeleted'
  BY <1>1, ConnsDrawn DEF SvInv, UnseatedAreBeingDeleted
<1> QED
  BY <1>2, <1>3, <1>4, <1>5, <1>6 DEF SvInv

LEMMA CreateRoomStep ==
    ASSUME SvInv, NEW id \in RoomIds, CreateRoom(id)
    PROVE  SvInv' /\ QuietRooms
<1>1. ReserveWithOwner(id, OwnerToken) /\ UNCHANGED handlerVars
  BY DEF CreateRoom
<1>2. RInv'
  BY <1>1, ReserveInv DEF SvInv
<1>3. rooms' = rooms /\ live' = live /\ drawn' = drawn
  BY <1>1 DEF ReserveWithOwner
<1> QED
  BY <1>1, <1>2, <1>3, QuietStep DEF QuietRooms

LEMMA GetRoomStep ==
    ASSUME SvInv, NEW id \in RoomIds, GetRoom(id)
    PROVE  SvInv' /\ QuietRooms
<1>1. Read(id) /\ UNCHANGED handlerVars
  BY DEF GetRoom
<1>2. RInv'
  BY <1>1, ReadInv DEF SvInv
<1>3. /\ DOMAIN rooms' = DOMAIN rooms
      /\ \A x \in DOMAIN rooms : Seats(rooms'[x]) = Seats(rooms[x])
  BY <1>1, ReadRooms DEF Read, SvInv
<1>4. live' = live /\ drawn' = drawn
  BY <1>1 DEF Read
<1> QED
  BY <1>1, <1>2, <1>3, <1>4, QuietStep DEF QuietRooms

LEMMA TimePassesStep ==
    ASSUME SvInv, TimePasses
    PROVE  SvInv' /\ QuietRooms
<1>1. Tick /\ UNCHANGED handlerVars
  BY DEF TimePasses
<1>2. RInv'
  BY <1>1, TickInv DEF SvInv
<1>3. /\ DOMAIN rooms' = DOMAIN rooms
      /\ \A x \in DOMAIN rooms : rooms'[x] = AfterTick(rooms[x])
      /\ live' = live /\ drawn' = drawn
  BY <1>1 DEF Tick
<1>4. ASSUME NEW x \in DOMAIN rooms
      PROVE  Seats(rooms'[x]) = Seats(rooms[x])
  <2>1. RoomOK(rooms[x], drawn)
    BY RoomParts DEF SvInv
  <2>2. Seats(AfterTick(rooms[x])) = Seats(rooms[x])
    BY <2>1, TickStayPut, StayPutSeats
  <2> QED
    BY <1>3, <2>2
<1> QED
  BY <1>1, <1>2, <1>3, <1>4, QuietStep DEF QuietRooms

LEMMA ServeStep ==
    ASSUME SvInv, NEW c \in Conns, Serve(c)
    PROVE  SvInv' /\ QuietRooms
<1> DEFINE r == rooms[at[c]]
<1>1. at[c] \in DOMAIN rooms
  BY Placed DEF Serve, InRoomPhases
<1>2. RoomOK(r, drawn)
  BY <1>1, RoomParts DEF SvInv
<1>3. ASSUME NEW s, RoomOK(s, drawn), Seats(s) = Seats(r), InRoom(at[c], s),
             UNCHANGED handlerVars
      PROVE  SvInv' /\ QuietRooms
  <2>1. Connected(s) = Connected(r)
    BY <1>3, SeatsFacts
  <2>2. RInv'
    BY <1>1, <1>3, <2>1, InRoomInv DEF SvInv
  <2>3. /\ DOMAIN rooms' = DOMAIN rooms
        /\ \A x \in DOMAIN rooms : Seats(rooms'[x]) = Seats(rooms[x])
        /\ live' = live /\ drawn' = drawn
    BY <1>1, <1>3 DEF InRoom
  <2> QED
    BY <1>3, <2>2, <2>3, QuietStep DEF QuietRooms
<1>4. UNCHANGED handlerVars
  BY DEF Serve
<1>5. CASE \E v \in Cards \cup {None}, b \in BOOLEAN :
              InRoom(at[c], AfterVote(r, self[c], v, b))
  <2>1. PICK v \in Cards \cup {None}, b \in BOOLEAN :
            InRoom(at[c], AfterVote(r, self[c], v, b))
    BY <1>5
  <2>2. RoomOK(AfterVote(r, self[c], v, b), drawn)
    BY <1>2, VoteOK
  <2>3. Seats(AfterVote(r, self[c], v, b)) = Seats(r)
    BY <1>2, CallsKeepSeats
  <2> QED
    BY <1>3, <1>4, <2>1, <2>2, <2>3
<1>6. CASE InRoom(at[c], AfterSkipVote(r, self[c]))
  <2>1. RoomOK(AfterSkipVote(r, self[c]), drawn)
    BY <1>2, SkipVoteOK
  <2>2. Seats(AfterSkipVote(r, self[c])) = Seats(r)
    BY <1>2, CallsKeepSeats
  <2> QED
    BY <1>3, <1>4, <1>6, <2>1, <2>2
<1>7. CASE InRoom(at[c], AfterReset(r, self[c]))
  <2>1. RoomOK(AfterReset(r, self[c]), drawn)
    BY <1>2, ResetOK
  <2>2. Seats(AfterReset(r, self[c])) = Seats(r)
    BY <1>2, CallsKeepSeats
  <2> QED
    BY <1>3, <1>4, <1>7, <2>1, <2>2
<1> QED
  BY <1>5, <1>6, <1>7 DEF Serve, MyRoom

-----------------------------------------------------------------------------
(* Steps of one handler that do not touch the rooms *)

LEMMA RegistryUnchanged ==
    ASSUME RInv, UNCHANGED registryVars
    PROVE  /\ RInv'
           /\ pending' = pending /\ live' = live /\ rooms' = rooms /\ drawn' = drawn
<1>1. RInv'
  BY NextRInv
<1> QED
  BY <1>1 DEF registryVars

\* Accept, JoinFails, Refuse, ReadFails and Disconnect.
LEMMA PhaseStep ==
    ASSUME SvInv, NEW c \in Conns,
           UNCHANGED <<registryVars, at, self, previous, hub>>,
           pc' \in [ Conns -> Phases ],
           \A d \in Conns \ {c} : pc'[d] = pc[d],
           \/ pc'[c] = pc[c]
           \/ pc[c] \in {"idle", "accepted"} /\ pc'[c] \in {"accepted", "done"}
           \/ pc[c] = "serving" /\ pc'[c] = "closing",
           cancelled \subseteq cancelled', cancelled' \subseteq drawn
    PROVE  SvInv'
<1>1. /\ RInv' /\ live' = live /\ rooms' = rooms /\ drawn' = drawn
      /\ at' = at /\ self' = self /\ previous' = previous /\ hub' = hub
  BY RegistryUnchanged DEF SvInv
<1>2. HandlersOK'
  BY <1>1 DEF SvInv, HandlersOK, InRoomPhases
<1>3. SeatedAreServed'
  <2>1. \A d \in Conns : pc[d] \in InRoomPhases => pc'[d] \in InRoomPhases
    BY DEF InRoomPhases
  <2> QED
    BY <1>1, <2>1, ConnsDrawn DEF SvInv, SeatedAreServed
<1>4. HubEntriesAreServed'
  <2>1. \A d \in Conns : pc[d] \in {"registered", "serving", "closing"} =>
                            pc'[d] \in {"registered", "serving", "closing"}
    OBVIOUS
  <2>2. \A key \in DOMAIN hub : hub[key] \in Conns
    BY ConnsDrawn DEF SvInv, HandlersOK
  <2> QED
    BY <1>1, <2>1, <2>2 DEF SvInv, HubEntriesAreServed
<1>5. ReadersAreReached'
  <2>1. \A d \in Conns : /\ pc'[d] \in {"registered", "serving"} => pc'[d] = pc[d]
                         /\ pc[d] = "registered" => pc'[d] = "registered"
    OBVIOUS
  <2> QED
    BY <1>1, <2>1 DEF SvInv, ReadersAreReached
<1>6. UnseatedAreBeingDeleted'
  <2>1. \A d \in Conns : pc[d] = "removed" => pc'[d] = "removed"
    OBVIOUS
  <2> QED
    BY <1>1, <2>1 DEF SvInv, UnseatedAreBeingDeleted
<1> QED
  BY <1>1, <1>2, <1>3, <1>4, <1>5, <1>6 DEF SvInv

LEMMA GotoFacts ==
    ASSUME SvInv, NEW c \in Conns, NEW from, NEW next \in Phases, Goto(c, from, next)
    PROVE  /\ pc' \in [ Conns -> Phases ]
           /\ pc[c] = from /\ pc'[c] = next
           /\ \A d \in Conns \ {c} : pc'[d] = pc[d]
BY DEF SvInv, HandlersOK, Goto

LEMMA AcceptStep ==
    ASSUME SvInv, NEW c \in Conns,
           Accept(c) \/ JoinFails(c) \/ Refuse(c) \/ ReadFails(c)
    PROVE  SvInv'
<1>1. /\ UNCHANGED <<registryVars, at, self, previous, hub>>
      /\ cancelled' = cancelled /\ cancelled \subseteq drawn
  BY DEF Accept, JoinFails, Refuse, ReadFails, SvInv, HandlersOK
<1>2. \/ Goto(c, "idle", "accepted")
      \/ Goto(c, "accepted", "done")
      \/ Goto(c, "serving", "closing")
  BY DEF Accept, JoinFails, Refuse, ReadFails
<1>3. /\ pc' \in [ Conns -> Phases ]
      /\ \A d \in Conns \ {c} : pc'[d] = pc[d]
      /\ \/ pc[c] \in {"idle", "accepted"} /\ pc'[c] \in {"accepted", "done"}
         \/ pc[c] = "serving" /\ pc'[c] = "closing"
  BY <1>2, GotoFacts DEF Phases
<1> QED
  BY <1>1, <1>3, PhaseStep

LEMMA DisconnectStep ==
    ASSUME SvInv, NEW c \in Conns, Disconnect(c)
    PROVE  SvInv'
<1>1. /\ UNCHANGED <<registryVars, at, self, previous, hub>>
      /\ pc' = pc /\ cancelled' = cancelled \cup {c}
  BY DEF Disconnect
<1>2. c \in drawn
  BY Placed DEF Disconnect, InRoomPhases
<1>3. pc \in [ Conns -> Phases ] /\ cancelled \subseteq drawn
  BY DEF SvInv, HandlersOK
<1> QED
  BY <1>1, <1>2, <1>3, PhaseStep

LEMMA RegisterStep ==
    ASSUME SvInv, NEW c \in Conns, Register(c)
    PROVE  SvInv'
<1> DEFINE key == <<at[c], self[c]>>
<1>1. /\ RInv' /\ live' = live /\ rooms' = rooms /\ drawn' = drawn
      /\ at' = at /\ self' = self /\ cancelled' = cancelled
  BY RegistryUnchanged DEF SvInv, Register
<1>2. /\ pc' \in [ Conns -> Phases ]
      /\ pc[c] = "joined" /\ pc'[c] = "registered"
      /\ \A d \in Conns \ {c} : pc'[d] = pc[d]
  BY GotoFacts DEF Register, Phases
<1>3. /\ hub' = Put(hub, key, c)
      /\ previous' = [ previous EXCEPT
                         ![c] = IF key \in DOMAIN hub THEN hub[key] ELSE None ]
  BY DEF Register
<1>4. c \in drawn
  BY <1>2, Placed DEF InRoomPhases
<1> HIDE DEF key
<1>5. /\ DOMAIN hub' = DOMAIN hub \cup {key}
      /\ hub'[key] = c
      /\ \A k \in DOMAIN hub \ {key} : hub'[k] = hub[k]
  BY <1>3 DEF Put
<1>6. /\ previous' \in [ Conns -> drawn \cup {None} ]
      /\ \A d \in Conns \ {c} : previous'[d] = previous[d]
      /\ key \in DOMAIN hub => previous'[c] = hub[key]
  BY <1>3 DEF SvInv, HandlersOK
<1>7. HandlersOK'
  <2>1. hub' \in [ DOMAIN hub' -> drawn ]
    BY <1>3, <1>4, PutType DEF SvInv, HandlersOK
  <2> QED
    BY <1>1, <1>2, <1>6, <2>1 DEF SvInv, HandlersOK, InRoomPhases
<1>8. SeatedAreServed'
  <2>1. \A d \in Conns : pc[d] \in InRoomPhases => pc'[d] \in InRoomPhases
    BY <1>2 DEF InRoomPhases
  <2> QED
    BY <1>1, <2>1, ConnsDrawn DEF SvInv, SeatedAreServed
<1>9. HubEntriesAreServed'
  <2>1. ASSUME NEW k \in DOMAIN hub \ {key}
        PROVE  /\ pc'[hub'[k]] \in {"registered", "serving", "closing"}
               /\ k = <<at[hub'[k]], self[hub'[k]]>>
    <3>1. hub'[k] = hub[k] /\ hub[k] \in Conns
      BY <1>5, ConnsDrawn DEF SvInv, HandlersOK
    <3>2. /\ pc[hub[k]] \in {"registered", "serving", "closing"}
          /\ k = <<at[hub[k]], self[hub[k]]>>
      BY DEF SvInv, HubEntriesAreServed
    <3>3. hub[k] # c
      BY <1>2, <3>2
    <3> QED
      BY <1>2, <3>1, <3>2, <3>3
  <2> QED
    BY <1>1, <1>2, <1>5, <2>1 DEF HubEntriesAreServed, key
<1>10. ReadersAreReached'
  <2> SUFFICES ASSUME NEW d \in Conns, pc'[d] \in {"registered", "serving"}
               PROVE  \/ <<at[d], self[d]>> \in DOMAIN hub' /\ hub'[<<at[d], self[d]>>] = d
                      \/ d \in cancelled
                      \/ \E e \in Conns : pc'[e] = "registered" /\ previous'[e] = d
    BY <1>1 DEF ReadersAreReached
  <2>1. CASE d = c
    BY <1>5, <2>1 DEF key
  <2>2. CASE d # c /\ <<at[d], self[d]>> \in DOMAIN hub /\ hub[<<at[d], self[d]>>] = d
    <3>1. CASE <<at[d], self[d]>> = key
      BY <1>2, <1>6, <2>2, <3>1
    <3>2. CASE <<at[d], self[d]>> # key
      BY <1>5, <2>2, <3>2
    <3> QED
      BY <3>1, <3>2
  <2>3. CASE \E e \in Conns : pc[e] = "registered" /\ previous[e] = d
    BY <1>2, <1>6, <2>3
  <2>4. pc[d] \in {"registered", "serving"} \/ d = c
    BY <1>2
  <2> QED
    BY <2>1, <2>2, <2>3, <2>4 DEF SvInv, ReadersAreReached
<1>11. UnseatedAreBeingDeleted'
  <2>1. \A d \in Conns : pc[d] = "removed" => pc'[d] = "removed"
    BY <1>2
  <2> QED
    BY <1>1, <2>1 DEF SvInv, UnseatedAreBeingDeleted
<1> QED
  BY <1>1, <1>7, <1>8, <1>9, <1>10, <1>11 DEF SvInv

LEMMA ClosePreviousStep ==
    ASSUME SvInv, NEW c \in Conns, ClosePrevious(c)
    PROVE  SvInv'
<1>1. /\ RInv' /\ live' = live /\ rooms' = rooms /\ drawn' = drawn
      /\ at' = at /\ self' = self /\ hub' = hub
  BY RegistryUnchanged DEF SvInv, ClosePrevious
<1>2. /\ pc' \in [ Conns -> Phases ]
      /\ pc[c] = "registered" /\ pc'[c] = "serving"
      /\ \A d \in Conns \ {c} : pc'[d] = pc[d]
  BY GotoFacts DEF ClosePrevious, Phases
<1>3. /\ cancelled' = cancelled \cup ({previous[c]} \ {None})
      /\ previous' = [ previous EXCEPT ![c] = None ]
  BY DEF ClosePrevious, Closes
<1>4. HandlersOK'
  BY <1>1, <1>2, <1>3 DEF SvInv, HandlersOK, InRoomPhases
<1>5. SeatedAreServed'
  <2>1. \A d \in Conns : pc[d] \in InRoomPhases => pc'[d] \in InRoomPhases
    BY <1>2 DEF InRoomPhases
  <2> QED
    BY <1>1, <2>1, ConnsDrawn DEF SvInv, SeatedAreServed
<1>6. HubEntriesAreServed'
  <2>1. \A d \in Conns : pc[d] \in {"registered", "serving", "closing"} =>
                            pc'[d] \in {"registered", "serving", "closing"}
    BY <1>2
  <2>2. \A key \in DOMAIN hub : hub[key] \in Conns
    BY ConnsDrawn DEF SvInv, HandlersOK
  <2> QED
    BY <1>1, <2>1, <2>2 DEF SvInv, HubEntriesAreServed
<1>7. ReadersAreReached'
  <2> SUFFICES ASSUME NEW d \in Conns, pc'[d] \in {"registered", "serving"}
               PROVE  \/ <<at[d], self[d]>> \in DOMAIN hub /\ hub[<<at[d], self[d]>>] = d
                      \/ d \in cancelled'
                      \/ \E e \in Conns : pc'[e] = "registered" /\ previous'[e] = d
    BY <1>1 DEF ReadersAreReached
  <2>1. pc[d] \in {"registered", "serving"}
    BY <1>2
  <2>2. CASE d \in cancelled
    BY <1>3, <2>2
  <2>3. CASE \E e \in Conns : pc[e] = "registered" /\ previous[e] = d
    <3>1. PICK e \in Conns : pc[e] = "registered" /\ previous[e] = d
      BY <2>3
    <3>2. CASE e = c
      BY <1>3, <3>1, <3>2, NoneAssumption
    <3>3. CASE e # c
      <4>1. previous'[e] = previous[e] /\ pc'[e] = pc[e]
        BY <1>2, <1>3, <3>3 DEF SvInv, HandlersOK
      <4> QED
        BY <3>1, <4>1
    <3> QED
      BY <3>2, <3>3
  <2> QED
    BY <2>1, <2>2, <2>3 DEF SvInv, ReadersAreReached
<1>8. UnseatedAreBeingDeleted'
  <2>1. \A d \in Conns : pc[d] = "removed" => pc'[d] = "removed"
    BY <1>2
  <2> QED
    BY <1>1, <2>1 DEF SvInv, UnseatedAreBeingDeleted
<1> QED
  BY <1>1, <1>4, <1>5, <1>6, <1>7, <1>8 DEF SvInv

LEMMA UnregisterStep ==
    ASSUME SvInv, NEW c \in Conns, Unregister(c)
    PROVE  SvInv'
<1> DEFINE key == <<at[c], self[c]>>
<1>1. /\ RInv' /\ live' = live /\ rooms' = rooms /\ drawn' = drawn
      /\ at' = at /\ self' = self /\ previous' = previous /\ cancelled' = cancelled
  BY RegistryUnchanged DEF SvInv, Unregister
<1>2. /\ pc' \in [ Conns -> Phases ]
      /\ pc[c] = "closing" /\ pc'[c] = "unregistered"
      /\ \A d \in Conns \ {c} : pc'[d] = pc[d]
  BY GotoFacts DEF Unregister, Phases
<1>3. hub' = IF key \in DOMAIN hub /\ hub[key] = c THEN Drop(hub, key) ELSE hub
  BY DEF Unregister, HubWithout
<1> HIDE DEF key
<1>4. /\ hub' \in [ DOMAIN hub' -> drawn ]
      /\ DOMAIN hub' \subseteq DOMAIN hub
      /\ \A k \in DOMAIN hub' : hub'[k] = hub[k]
      /\ \A k \in DOMAIN hub : hub[k] # c => k \in DOMAIN hub'
      /\ key \in DOMAIN hub' => hub[key] # c
  BY <1>3 DEF SvInv, HandlersOK, Drop
<1>5. HandlersOK'
  BY <1>1, <1>2, <1>4 DEF SvInv, HandlersOK, InRoomPhases
<1>6. SeatedAreServed'
  <2>1. \A d \in Conns : pc[d] \in InRoomPhases => pc'[d] \in InRoomPhases
    BY <1>2 DEF InRoomPhases
  <2> QED
    BY <1>1, <2>1, ConnsDrawn DEF SvInv, SeatedAreServed
<1>7. HubEntriesAreServed'
  <2>1. ASSUME NEW k \in DOMAIN hub'
        PROVE  /\ pc'[hub'[k]] \in {"registered", "serving", "closing"}
               /\ k = <<at[hub'[k]], self[hub'[k]]>>
    <3>1. k \in DOMAIN hub /\ hub'[k] = hub[k] /\ hub[k] \in Conns
      BY <1>4, ConnsDrawn DEF SvInv, HandlersOK
    <3>2. /\ pc[hub[k]] \in {"registered", "serving", "closing"}
          /\ k = <<at[hub[k]], self[hub[k]]>>
      BY <3>1 DEF SvInv, HubEntriesAreServed
    <3>3. hub[k] # c
      BY <1>4, <3>1, <3>2 DEF key
    <3> QED
      BY <1>2, <3>1, <3>2, <3>3
  <2> QED
    BY <1>1, <2>1 DEF HubEntriesAreServed
<1>8. ReadersAreReached'
  <2> SUFFICES ASSUME NEW d \in Conns, pc'[d] \in {"registered", "serving"}
               PROVE  \/ <<at[d], self[d]>> \in DOMAIN hub' /\ hub'[<<at[d], self[d]>>] = d
                      \/ d \in cancelled
                      \/ \E e \in Conns : pc'[e] = "registered" /\ previous[e] = d
    BY <1>1 DEF ReadersAreReached
  <2>1. d # c /\ pc[d] \in {"registered", "serving"}
    BY <1>2
  <2>2. CASE <<at[d], self[d]>> \in DOMAIN hub /\ hub[<<at[d], self[d]>>] = d
    BY <1>4, <2>1, <2>2
  <2>3. CASE \E e \in Conns : pc[e] = "registered" /\ previous[e] = d
    BY <1>2, <2>3
  <2> QED
    BY <2>1, <2>2, <2>3 DEF SvInv, ReadersAreReached
<1>9. UnseatedAreBeingDeleted'
  <2>1. \A d \in Conns : pc[d] = "removed" => pc'[d] = "removed"
    BY <1>2
  <2> QED
    BY <1>1, <2>1 DEF SvInv, UnseatedAreBeingDeleted
<1> QED
  BY <1>1, <1>5, <1>6, <1>7, <1>8, <1>9 DEF SvInv

-----------------------------------------------------------------------------
(* Joining and leaving a room *)

\* A join that the room takes seats its connection, and moves nobody else.
LEMMA AcceptedJoin ==
    ASSUME SvInv, NEW c \in Conns, NEW id \in RoomIds, NEW q \in Request,
           Join(id, c, q), JoinAccepted(id, q)
    PROVE  LET j == JoinsAs(JoinTarget(id), c, q) IN
           /\ c \notin drawn /\ drawn' = drawn \cup {c}
           /\ j \in drawn'
           /\ DOMAIN rooms' = DOMAIN rooms \cup {id}
           /\ live' = live \cup {id}
           /\ \A x \in DOMAIN rooms \ {id} : rooms'[x] = rooms[x]
           /\ j \in DOMAIN Seats(rooms'[id]) /\ Seats(rooms'[id])[j] = c
           /\ \A i \in DOMAIN Seats(rooms'[id]) \ {j} :
                 /\ id \in DOMAIN rooms
                 /\ i \in DOMAIN Seats(rooms[id])
                 /\ Seats(rooms'[id])[i] = Seats(rooms[id])[i]
<1> DEFINE t == JoinTarget(id)
           j == JoinsAs(t, c, q)
<1>1. /\ c \notin drawn /\ drawn' = drawn \cup {c}
      /\ id \in live'
      /\ rooms' = Put(rooms, id, Admit(t, c, q))
      /\ j \in drawn'
      /\ Seats(rooms'[id]) = Put(Seats(t), j, c)
  BY JoinEffect DEF SvInv
<1>2. id \in live \cup Unexpired
  BY DEF JoinAccepted, JoinFound
<1>3. /\ id \in live => id \in DOMAIN rooms /\ Seats(t) = Seats(rooms[id])
      /\ id \notin live => DOMAIN Seats(t) = {}
  BY <1>2, TargetOK, ConnsDrawn DEF SvInv, EmptyFcn
<1>4. live' = live \cup {id}
  BY <1>1 DEF Join
<1> HIDE DEF t, j
<1>5. /\ DOMAIN rooms' = DOMAIN rooms \cup {id}
      /\ \A x \in DOMAIN rooms \ {id} : rooms'[x] = rooms[x]
  BY <1>1 DEF Put
<1>6. /\ DOMAIN Seats(rooms'[id]) = DOMAIN Seats(t) \cup {j}
      /\ Seats(rooms'[id])[j] = c
      /\ \A i \in DOMAIN Seats(t) \ {j} : Seats(rooms'[id])[i] = Seats(t)[i]
  BY <1>1 DEF Put
<1>7. \A i \in DOMAIN Seats(rooms'[id]) \ {j} :
         /\ id \in DOMAIN rooms
         /\ i \in DOMAIN Seats(rooms[id])
         /\ Seats(rooms'[id])[i] = Seats(rooms[id])[i]
  BY <1>3, <1>6
<1> QED
  BY <1>1, <1>4, <1>5, <1>6, <1>7 DEF t, j

LEMMA AcceptedJoinStep ==
    ASSUME SvInv, NEW c \in Conns, NEW id \in RoomIds, NEW q \in Request,
           JoinRoom(c, id, q), JoinAccepted(id, q)
    PROVE  SvInv'
<1> DEFINE j == JoinsAs(JoinTarget(id), c, q)
<1>1. /\ RInv'
      /\ previous' = previous /\ cancelled' = cancelled /\ hub' = hub
  BY JoinInv DEF JoinRoom, SvInv
<1>2. /\ c \notin drawn /\ drawn' = drawn \cup {c}
      /\ j \in drawn'
      /\ DOMAIN rooms' = DOMAIN rooms \cup {id}
      /\ live' = live \cup {id}
      /\ \A x \in DOMAIN rooms \ {id} : rooms'[x] = rooms[x]
      /\ j \in DOMAIN Seats(rooms'[id]) /\ Seats(rooms'[id])[j] = c
      /\ \A i \in DOMAIN Seats(rooms'[id]) \ {j} :
            /\ id \in DOMAIN rooms
            /\ i \in DOMAIN Seats(rooms[id])
            /\ Seats(rooms'[id])[i] = Seats(rooms[id])[i]
  BY AcceptedJoin DEF JoinRoom
<1>3. /\ Goto(c, "accepted", "joined")
      /\ at' = [ at EXCEPT ![c] = id ]
      /\ self' = [ self EXCEPT ![c] = j ]
  BY DEF JoinRoom
<1>4. /\ pc' \in [ Conns -> Phases ]
      /\ pc[c] = "accepted" /\ pc'[c] = "joined"
      /\ \A d \in Conns \ {c} : pc'[d] = pc[d]
  BY <1>3, GotoFacts DEF Phases
<1> HIDE DEF j
<1>5. /\ at' \in [ Conns -> DOMAIN rooms' \cup {None} ]
      /\ self' \in [ Conns -> drawn' \cup {None} ]
      /\ at'[c] = id /\ self'[c] = j
      /\ \A d \in Conns \ {c} : at'[d] = at[d] /\ self'[d] = self[d]
  BY <1>2, <1>3 DEF SvInv, HandlersOK
<1>6. id # None /\ j # None
  BY <1>2, ConnsDrawn, NoneAssumption, ServiceAssumption
<1>7. HandlersOK'
  <2>1. \A d \in Conns : pc'[d] \in InRoomPhases \cup {"removed"} =>
                            d \in drawn' /\ at'[d] # None /\ self'[d] # None
    BY <1>2, <1>4, <1>5, <1>6 DEF SvInv, HandlersOK
  <2>2. /\ previous' \in [ Conns -> drawn' \cup {None} ]
        /\ cancelled' \subseteq drawn'
        /\ hub' \in [ DOMAIN hub' -> drawn' ]
    BY <1>1, <1>2 DEF SvInv, HandlersOK
  <2> QED
    BY <1>4, <1>5, <2>1, <2>2 DEF HandlersOK
<1>8. ASSUME NEW x \in DOMAIN rooms, NEW i \in DOMAIN Seats(rooms[x])
      PROVE  LET d == Seats(rooms[x])[i] IN
             /\ d \in drawn' /\ pc'[d] \in InRoomPhases /\ at'[d] = x /\ self'[d] = i
  <2> DEFINE d == Seats(rooms[x])[i]
  <2>1. d \in drawn /\ pc[d] \in InRoomPhases /\ at[d] = x /\ self[d] = i
    BY DEF SvInv, SeatedAreServed
  <2>2. d # c /\ d \in Conns
    BY <1>2, <2>1, ConnsDrawn
  <2> HIDE DEF d
  <2>3. d \in drawn' /\ pc'[d] \in InRoomPhases /\ at'[d] = x /\ self'[d] = i
    BY <1>2, <1>4, <1>5, <2>1, <2>2
  <2> QED
    BY <2>3 DEF d
<1>9. SeatedAreServed'
  <2> SUFFICES ASSUME NEW x \in DOMAIN rooms', NEW i \in DOMAIN Seats(rooms'[x])
               PROVE  LET d == Seats(rooms'[x])[i] IN
                      /\ d \in drawn' /\ pc'[d] \in InRoomPhases
                      /\ at'[d] = x /\ self'[d] = i
    BY DEF SeatedAreServed
  <2>1. CASE x # id
    BY <1>2, <1>8, <2>1
  <2>2. CASE x = id /\ i # j
    BY <1>2, <1>8, <2>2
  <2>3. CASE x = id /\ i = j
    BY <1>2, <1>4, <1>5, <2>3 DEF InRoomPhases
  <2> QED
    BY <2>1, <2>2, <2>3
<1>10. HubEntriesAreServed'
  <2>1. ASSUME NEW k \in DOMAIN hub
        PROVE  /\ pc'[hub[k]] \in {"registered", "serving", "closing"}
               /\ k = <<at'[hub[k]], self'[hub[k]]>>
    <3>1. hub[k] \in Conns
      BY ConnsDrawn DEF SvInv, HandlersOK
    <3>2. /\ pc[hub[k]] \in {"registered", "serving", "closing"}
          /\ k = <<at[hub[k]], self[hub[k]]>>
      BY DEF SvInv, HubEntriesAreServed
    <3> QED
      BY <1>4, <1>5, <3>1, <3>2
  <2> QED
    BY <1>1, <2>1 DEF HubEntriesAreServed
<1>11. ReadersAreReached'
  <2>1. \A d \in Conns : pc'[d] \in {"registered", "serving"} =>
           /\ d # c /\ pc[d] \in {"registered", "serving"}
           /\ at'[d] = at[d] /\ self'[d] = self[d]
    BY <1>4, <1>5
  <2>2. \A d \in Conns : pc[d] = "registered" => pc'[d] = "registered"
    BY <1>4
  <2> QED
    BY <1>1, <2>1, <2>2 DEF SvInv, ReadersAreReached
<1>12. UnseatedAreBeingDeleted'
  <2> SUFFICES ASSUME NEW x \in live', DOMAIN Seats(rooms'[x]) = {}
               PROVE  \E d \in Conns : pc'[d] = "removed" /\ at'[d] = x
    BY DEF UnseatedAreBeingDeleted
  <2>1. x # id /\ x \in live /\ x \in DOMAIN rooms /\ rooms'[x] = rooms[x]
    BY <1>2, ConnsDrawn
  <2>2. PICK d \in Conns : pc[d] = "removed" /\ at[d] = x
    BY <2>1 DEF SvInv, UnseatedAreBeingDeleted
  <2> QED
    BY <1>4, <1>5, <2>2
<1> QED
  BY <1>1, <1>7, <1>9, <1>10, <1>11, <1>12 DEF SvInv

LEMMA RefusedJoinStep ==
    ASSUME SvInv, NEW c \in Conns, NEW id \in RoomIds, NEW q \in Request,
           JoinRoom(c, id, q), ~ JoinAccepted(id, q)
    PROVE  SvInv'
<1>1. /\ RInv'
      /\ at' = at /\ self' = self
      /\ previous' = previous /\ cancelled' = cancelled /\ hub' = hub
  BY JoinInv DEF JoinRoom, SvInv
<1>2. /\ drawn' = drawn \cup {c}
      /\ DOMAIN rooms' = DOMAIN rooms /\ live' = live
      /\ \A x \in DOMAIN rooms : Seats(rooms'[x]) = Seats(rooms[x])
  BY JoinEffect DEF JoinRoom, SvInv
<1>3. /\ pc' \in [ Conns -> Phases ]
      /\ pc[c] = "accepted" /\ pc'[c] = "done"
      /\ \A d \in Conns \ {c} : pc'[d] = pc[d]
  BY GotoFacts DEF JoinRoom, Phases
<1>4. HandlersOK'
  <2>1. /\ self' \in [ Conns -> drawn' \cup {None} ]
        /\ previous' \in [ Conns -> drawn' \cup {None} ]
        /\ cancelled' \subseteq drawn'
        /\ hub' \in [ DOMAIN hub' -> drawn' ]
    BY <1>1, <1>2 DEF SvInv, HandlersOK
  <2> QED
    BY <1>1, <1>2, <1>3, <2>1 DEF SvInv, HandlersOK, InRoomPhases
<1>5. SeatedAreServed'
  <2>1. \A d \in Conns : pc[d] \in InRoomPhases => pc'[d] \in InRoomPhases
    BY <1>3 DEF InRoomPhases
  <2> QED
    BY <1>1, <1>2, <2>1, ConnsDrawn DEF SvInv, SeatedAreServed
<1>6. HubEntriesAreServed'
  <2>1. \A d \in Conns : pc[d] \in {"registered", "serving", "closing"} =>
                            pc'[d] \in {"registered", "serving", "closing"}
    BY <1>3
  <2>2. \A key \in DOMAIN hub : hub[key] \in Conns
    BY ConnsDrawn DEF SvInv, HandlersOK
  <2> QED
    BY <1>1, <2>1, <2>2 DEF SvInv, HubEntriesAreServed
<1>7. ReadersAreReached'
  <2>1. \A d \in Conns : /\ pc'[d] \in {"registered", "serving"} => pc'[d] = pc[d]
                         /\ pc[d] = "registered" => pc'[d] = "registered"
    BY <1>3
  <2> QED
    BY <1>1, <2>1 DEF SvInv, ReadersAreReached
<1>8. UnseatedAreBeingDeleted'
  <2>1. \A d \in Conns : pc[d] = "removed" => pc'[d] = "removed"
    BY <1>3
  <2> QED
    BY <1>1, <1>2, <2>1, ConnsDrawn DEF SvInv, UnseatedAreBeingDeleted
<1> QED
  BY <1>1, <1>4, <1>5, <1>6, <1>7, <1>8 DEF SvInv

\* What LeaveRoom does: the participant is unseated if it sits on c.
LEMMA LeavingSeats ==
    ASSUME SvInv, NEW c \in Conns, LeaveRoom(c)
    PROVE  LET id == at[c]
               i  == self[c]
               mine == i \in DOMAIN Seats(rooms[id]) /\ Seats(rooms[id])[i] = c IN
           /\ id \in DOMAIN rooms
           /\ RInv'
           /\ DOMAIN rooms' = DOMAIN rooms
           /\ live' = live /\ drawn' = drawn
           /\ \A x \in DOMAIN rooms \ {id} : rooms'[x] = rooms[x]
           /\ Seats(rooms'[id]) = IF mine THEN Drop(Seats(rooms[id]), i)
                                  ELSE Seats(rooms[id])
           /\ Goto(c, "unregistered", IF mine THEN "removed" ELSE "done")
<1> DEFINE id == at[c]
           i  == self[c]
           mine == i \in DOMAIN Seats(rooms[id]) /\ Seats(rooms[id])[i] = c
<1>1. id \in DOMAIN rooms
  BY Placed DEF LeaveRoom, InRoomPhases
<1>2. RemoveConnection(id, i, c)
  BY DEF LeaveRoom
<1> HIDE DEF id, i
<1>3. RoomOK(rooms[id], drawn)
  BY <1>1, RoomParts DEF SvInv
<1>4. PICK r \in AfterRemoveConnection(rooms[id], i, c) :
         rooms' = [ rooms EXCEPT ![id] = r ]
  BY <1>2 DEF RemoveConnection
<1>5. /\ DOMAIN rooms' = DOMAIN rooms
      /\ rooms'[id] = r
      /\ \A x \in DOMAIN rooms \ {id} : rooms'[x] = rooms[x]
      /\ live' = live /\ drawn' = drawn
  BY <1>1, <1>2, <1>4 DEF RemoveConnection
<1>6. Removes(rooms[id], i, c) <=> mine
  BY <1>3, <1>4, RemoveConnectionSeats, SeatsFacts
<1>7. Seats(r) = IF mine THEN Drop(Seats(rooms[id]), i) ELSE Seats(rooms[id])
  BY <1>3, <1>4, <1>6, RemoveConnectionSeats
<1>8. RInv'
  BY <1>1, <1>2, RemoveConnectionInv DEF SvInv
<1>9. Goto(c, "unregistered", IF mine THEN "removed" ELSE "done")
  BY <1>6 DEF LeaveRoom, MyRoom, id, i
<1> QED
  BY <1>1, <1>5, <1>7, <1>8, <1>9 DEF id, i

LEMMA LeaveRoomStep ==
    ASSUME SvInv, NEW c \in Conns, LeaveRoom(c)
    PROVE  SvInv'
<1> DEFINE id == at[c]
           i  == self[c]
           mine == i \in DOMAIN Seats(rooms[id]) /\ Seats(rooms[id])[i] = c
<1>1. /\ id \in DOMAIN rooms
      /\ RInv'
      /\ DOMAIN rooms' = DOMAIN rooms
      /\ live' = live /\ drawn' = drawn
      /\ \A x \in DOMAIN rooms \ {id} : rooms'[x] = rooms[x]
      /\ Seats(rooms'[id]) = IF mine THEN Drop(Seats(rooms[id]), i)
                             ELSE Seats(rooms[id])
      /\ Goto(c, "unregistered", IF mine THEN "removed" ELSE "done")
  BY LeavingSeats
<1>2. /\ at' = at /\ self' = self
      /\ previous' = previous /\ cancelled' = cancelled /\ hub' = hub
  BY DEF LeaveRoom
<1>3. /\ pc' \in [ Conns -> Phases ]
      /\ pc[c] = "unregistered"
      /\ pc'[c] = IF mine THEN "removed" ELSE "done"
      /\ \A d \in Conns \ {c} : pc'[d] = pc[d]
  BY <1>1, GotoFacts DEF Phases
<1> HIDE DEF id, i
<1>4. HandlersOK'
  BY <1>1, <1>2, <1>3 DEF SvInv, HandlersOK, InRoomPhases
<1>5. /\ DOMAIN Seats(rooms'[id]) \subseteq DOMAIN Seats(rooms[id])
      /\ \A x \in DOMAIN Seats(rooms'[id]) :
            Seats(rooms'[id])[x] = Seats(rooms[id])[x]
      /\ mine => DOMAIN Seats(rooms'[id]) = DOMAIN Seats(rooms[id]) \ {i}
  BY <1>1 DEF Drop
<1>6. SeatedAreServed'
  <2> SUFFICES ASSUME NEW x \in DOMAIN rooms, NEW k \in DOMAIN Seats(rooms'[x])
               PROVE  LET d == Seats(rooms'[x])[k] IN
                      /\ d \in drawn /\ pc'[d] \in InRoomPhases
                      /\ at[d] = x /\ self[d] = k
    BY <1>1, <1>2 DEF SeatedAreServed
  <2> DEFINE d == Seats(rooms[x])[k]
  <2>1. k \in DOMAIN Seats(rooms[x]) /\ Seats(rooms'[x])[k] = d
    BY <1>1, <1>5
  <2>2. d \in drawn /\ pc[d] \in InRoomPhases /\ at[d] = x /\ self[d] = k
    BY <2>1 DEF SvInv, SeatedAreServed
  <2>3. d # c
    <3>1. ASSUME d = c
          PROVE  FALSE
      <4>1. x = id /\ k = i
        BY <2>2, <3>1 DEF id, i
      <4>2. mine
        BY <2>1, <3>1, <4>1
      <4> QED
        BY <1>5, <4>1, <4>2
    <3> QED
      BY <3>1
  <2>4. pc'[d] = pc[d]
    BY <1>3, <2>2, <2>3, ConnsDrawn
  <2> QED
    BY <2>1, <2>2, <2>4
<1>7. HubEntriesAreServed'
  <2>1. \A d \in Conns : pc[d] \in {"registered", "serving", "closing"} =>
                            pc'[d] \in {"registered", "serving", "closing"}
    BY <1>3
  <2>2. \A key \in DOMAIN hub : hub[key] \in Conns
    BY ConnsDrawn DEF SvInv, HandlersOK
  <2> QED
    BY <1>2, <2>1, <2>2 DEF SvInv, HubEntriesAreServed
<1>8. ReadersAreReached'
  <2>1. \A d \in Conns : /\ pc'[d] \in {"registered", "serving"} => pc'[d] = pc[d]
                         /\ pc[d] = "registered" => pc'[d] = "registered"
    BY <1>3
  <2> QED
    BY <1>2, <2>1 DEF SvInv, ReadersAreReached
<1>9. UnseatedAreBeingDeleted'
  <2> SUFFICES ASSUME NEW x \in live, DOMAIN Seats(rooms'[x]) = {}
               PROVE  \E d \in Conns : pc'[d] = "removed" /\ at[d] = x
    BY <1>1, <1>2 DEF UnseatedAreBeingDeleted
  <2>1. CASE x = id /\ mine
    BY <1>3, <2>1 DEF id
  <2>2. CASE ~ (x = id /\ mine)
    <3>1. DOMAIN Seats(rooms[x]) = {}
      BY <1>1, <2>2, ConnsDrawn
    <3>2. PICK d \in Conns : pc[d] = "removed" /\ at[d] = x
      BY <3>1 DEF SvInv, UnseatedAreBeingDeleted
    <3> QED
      BY <1>3, <3>2
  <2> QED
    BY <2>1, <2>2
<1> QED
  BY <1>1, <1>4, <1>6, <1>7, <1>8, <1>9 DEF SvInv

LEMMA CleanUpStep ==
    ASSUME SvInv, NEW c \in Conns, CleanUp(c)
    PROVE  SvInv'
<1>1. /\ DeleteIfEmpty(at[c])
      /\ at' = at /\ self' = self
      /\ previous' = previous /\ cancelled' = cancelled /\ hub' = hub
  BY DEF CleanUp
<1>2. RInv'
  BY <1>1, DeleteIfEmptyInv DEF SvInv
<1>3. /\ DOMAIN rooms' = DOMAIN rooms
      /\ \A x \in DOMAIN rooms : Seats(rooms'[x]) = Seats(rooms[x])
      /\ drawn' = drawn
  BY <1>1, ReadRooms DEF DeleteIfEmpty, SvInv
<1>4. /\ live' \subseteq live
      /\ at[c] \in live /\ DOMAIN Seats(rooms[at[c]]) = {} => at[c] \notin live'
  <2>1. DOMAIN Seats(rooms[at[c]]) = Connected(rooms[at[c]])
    BY SeatsFacts
  <2> QED
    BY <1>1, <2>1 DEF DeleteIfEmpty, Drops, IsEmpty
<1>5. /\ pc' \in [ Conns -> Phases ]
      /\ pc[c] = "removed" /\ pc'[c] = "done"
      /\ \A d \in Conns \ {c} : pc'[d] = pc[d]
  BY GotoFacts DEF CleanUp, Phases
<1>6. HandlersOK'
  BY <1>1, <1>3, <1>5 DEF SvInv, HandlersOK, InRoomPhases
<1>7. SeatedAreServed'
  <2>1. \A d \in Conns : pc[d] \in InRoomPhases => pc'[d] \in InRoomPhases
    BY <1>5 DEF InRoomPhases
  <2> QED
    BY <1>1, <1>3, <2>1, ConnsDrawn DEF SvInv, SeatedAreServed
<1>8. HubEntriesAreServed'
  <2>1. \A d \in Conns : pc[d] \in {"registered", "serving", "closing"} =>
                            pc'[d] \in {"registered", "serving", "closing"}
    BY <1>5
  <2>2. \A key \in DOMAIN hub : hub[key] \in Conns
    BY ConnsDrawn DEF SvInv, HandlersOK
  <2> QED
    BY <1>1, <2>1, <2>2 DEF SvInv, HubEntriesAreServed
<1>9. ReadersAreReached'
  <2>1. \A d \in Conns : /\ pc'[d] \in {"registered", "serving"} => pc'[d] = pc[d]
                         /\ pc[d] = "registered" => pc'[d] = "registered"
    BY <1>5
  <2> QED
    BY <1>1, <2>1 DEF SvInv, ReadersAreReached
<1>10. UnseatedAreBeingDeleted'
  <2> SUFFICES ASSUME NEW x \in live', DOMAIN Seats(rooms'[x]) = {}
               PROVE  \E d \in Conns : pc'[d] = "removed" /\ at[d] = x
    BY <1>1 DEF UnseatedAreBeingDeleted
  <2>1. x \in live /\ DOMAIN Seats(rooms[x]) = {}
    BY <1>3, <1>4, ConnsDrawn
  <2>2. PICK d \in Conns : pc[d] = "removed" /\ at[d] = x
    BY <2>1 DEF SvInv, UnseatedAreBeingDeleted
  <2>3. d # c
    BY <1>4, <2>1, <2>2
  <2> QED
    BY <1>5, <2>2, <2>3
<1> QED
  BY <1>2, <1>6, <1>7, <1>8, <1>9, <1>10 DEF SvInv

-----------------------------------------------------------------------------
(* The invariant of the specification *)

LEMMA NextSvInv == SvInv /\ [Next]_vars => SvInv'
<1> SUFFICES ASSUME SvInv, [Next]_vars
             PROVE  SvInv'
  OBVIOUS
<1>1. ASSUME NEW id \in RoomIds, CreateRoom(id) \/ GetRoom(id)
      PROVE  SvInv'
  BY <1>1, CreateRoomStep, GetRoomStep
<1>2. ASSUME NEW c \in Conns, Accept(c) \/ Refuse(c) \/ JoinFails(c) \/ ReadFails(c)
      PROVE  SvInv'
  BY <1>2, AcceptStep
<1>3. ASSUME NEW c \in Conns, Serve(c)
      PROVE  SvInv'
  BY <1>3, ServeStep
<1>4. ASSUME NEW c \in Conns, Disconnect(c)
      PROVE  SvInv'
  BY <1>4, DisconnectStep
<1>5. ASSUME NEW c \in Conns, Register(c)
      PROVE  SvInv'
  BY <1>5, RegisterStep
<1>6. ASSUME NEW c \in Conns, ClosePrevious(c)
      PROVE  SvInv'
  BY <1>6, ClosePreviousStep
<1>7. ASSUME NEW c \in Conns, Unregister(c)
      PROVE  SvInv'
  BY <1>7, UnregisterStep
<1>8. ASSUME NEW c \in Conns, LeaveRoom(c)
      PROVE  SvInv'
  BY <1>8, LeaveRoomStep
<1>9. ASSUME NEW c \in Conns, CleanUp(c)
      PROVE  SvInv'
  BY <1>9, CleanUpStep
<1>10. ASSUME NEW c \in Conns, NEW id \in RoomIds, NEW q \in Request, JoinRoom(c, id, q)
       PROVE  SvInv'
  BY <1>10, AcceptedJoinStep, RefusedJoinStep
<1>11. CASE TimePasses
  BY <1>11, TimePassesStep
<1>12. CASE UNCHANGED vars
  <2>1. UNCHANGED registryVars /\ UNCHANGED handlerVars
    BY <1>12 DEF vars
  <2> QED
    BY <2>1, RegistryUnchanged, QuietStep DEF SvInv
<1> QED
  BY <1>1, <1>2, <1>3, <1>4, <1>5, <1>6, <1>7, <1>8, <1>9, <1>10, <1>11, <1>12
  DEF Next, Step

(***************************************************************************)
(* The invariant holds of every state of the service, under every          *)
(* interleaving of any number of handlers.                                 *)
(***************************************************************************)
THEOREM ServiceInvariance == Spec => []SvInv
<1>1. Init => SvInv
  BY InitSvInv
<1>2. SvInv /\ [Next]_vars => SvInv'
  BY NextSvInv
<1> QED
  BY <1>1, <1>2, PTL DEF Spec

-----------------------------------------------------------------------------
(* The theorems *)

(***************************************************************************)
(* The variables of the handlers and of the hub keep their types, and a    *)
(* handler knows its room and its participant as long as it needs them.    *)
(***************************************************************************)
THEOREM ServiceTypeCorrectness == Spec => []ServiceTypeOK
<1>1. SvInv => ServiceTypeOK
  BY ConnsDrawn DEF SvInv, HandlersOK, ServiceTypeOK, RInv
<1> QED
  BY <1>1, ServiceInvariance, PTL

(***************************************************************************)
(* The connection of every connected participant belongs to a handler of   *)
(* that room and participant whose cleanup is still ahead: no interleaving *)
(* of reconnections and cleanups leaves a participant connected for ever.  *)
(***************************************************************************)
THEOREM NobodyIsLeftBehind == Spec => []ConnectedAreServed
<1>1. SvInv => ConnectedAreServed
  BY ServedSeats DEF SvInv
<1> QED
  BY <1>1, ServiceInvariance, PTL

(***************************************************************************)
(* The hub sends to no handler that has ended, and when every handler      *)
(* waits for its client it reaches every connected participant on the      *)
(* connection that the room has for it.                                    *)
(***************************************************************************)
THEOREM HubAgreesWithRooms == Spec => []HubAgrees
<1>1. ASSUME SvInv, Settled
      PROVE  \A id \in DOMAIN rooms : \A i \in Connected(rooms[id]) :
                /\ <<id, i>> \in DOMAIN hub
                /\ hub[<<id, i>>] = rooms[id].participants[i].conn
  <2> SUFFICES ASSUME NEW id \in DOMAIN rooms, NEW i \in Connected(rooms[id])
               PROVE  /\ <<id, i>> \in DOMAIN hub
                      /\ hub[<<id, i>>] = rooms[id].participants[i].conn
    OBVIOUS
  <2> DEFINE c == Seats(rooms[id])[i]
  <2>1. i \in DOMAIN Seats(rooms[id]) /\ c = rooms[id].participants[i].conn
    BY SeatsFacts
  <2>2. c \in drawn /\ pc[c] \in InRoomPhases /\ at[c] = id /\ self[c] = i
    BY <1>1, <2>1 DEF SvInv, SeatedAreServed
  <2> HIDE DEF c
  <2>3. c \in Conns
    BY <1>1, <2>2, ConnsDrawn
  <2>4. pc[c] = "serving" /\ c \notin cancelled
    BY <1>1, <2>2, <2>3 DEF Settled, InRoomPhases
  <2>5. ~ \E d \in Conns : pc[d] = "registered" /\ previous[d] = c
    BY <1>1 DEF Settled
  <2>6. <<at[c], self[c]>> \in DOMAIN hub /\ hub[<<at[c], self[c]>>] = c
    BY <1>1, <2>3, <2>4, <2>5 DEF SvInv, ReadersAreReached
  <2> QED
    BY <2>1, <2>2, <2>6
<1>2. SvInv => HubAgrees
  BY <1>1 DEF SvInv, HubAgrees, EverybodyIsReached
<1> QED
  BY <1>2, ServiceInvariance, PTL

(***************************************************************************)
(* A live room that is empty has a handler with DeleteIfEmpty ahead: no    *)
(* departure, return or failed join leaks a room.                          *)
(***************************************************************************)
THEOREM NoEmptyRoomLeaks == Spec => []EmptyRoomsAreBeingDeleted
<1>1. SvInv => EmptyRoomsAreBeingDeleted
  BY ServedSeats DEF SvInv
<1> QED
  BY <1>1, ServiceInvariance, PTL

\* What a step does to whoever sits in a room.
UnseatsOnlyItsOwn ==
    \A id \in DOMAIN rooms : \A i \in Connected(rooms[id]) \ Connected(rooms'[id]) :
        LET c == rooms[id].participants[i].conn IN
        pc[c] = "unregistered" /\ pc'[c] = "removed"

LEMMA QuietUnseatsNobody ==
    ASSUME QuietRooms
    PROVE  UnseatsOnlyItsOwn
<1>1. \A id \in DOMAIN rooms : Connected(rooms[id]) = Connected(rooms'[id])
  BY SeatsFacts DEF QuietRooms
<1> QED
  BY <1>1 DEF UnseatsOnlyItsOwn

LEMMA UnseatingStep ==
    ASSUME SvInv, [Next]_vars
    PROVE  UnseatsOnlyItsOwn
<1>1. ASSUME NEW id \in RoomIds, CreateRoom(id) \/ GetRoom(id)
      PROVE  UnseatsOnlyItsOwn
  BY <1>1, CreateRoomStep, GetRoomStep, QuietUnseatsNobody
<1>2. ASSUME NEW c \in Conns, Serve(c)
      PROVE  UnseatsOnlyItsOwn
  BY <1>2, ServeStep, QuietUnseatsNobody
<1>3. CASE TimePasses
  BY <1>3, TimePassesStep, QuietUnseatsNobody
<1>4. ASSUME rooms' = rooms
      PROVE  UnseatsOnlyItsOwn
  BY <1>4, QuietUnseatsNobody DEF QuietRooms
<1>5. ASSUME NEW c \in Conns,
             \/ Accept(c) \/ Refuse(c) \/ Disconnect(c) \/ JoinFails(c) \/ Register(c)
             \/ ClosePrevious(c) \/ ReadFails(c) \/ Unregister(c)
      PROVE  UnseatsOnlyItsOwn
  <2>1. rooms' = rooms
    BY <1>5 DEF Accept, Refuse, Disconnect, JoinFails, Register, ClosePrevious,
                ReadFails, Unregister, registryVars
  <2> QED
    BY <1>4, <2>1
<1>6. ASSUME NEW c \in Conns, CleanUp(c)
      PROVE  UnseatsOnlyItsOwn
  <2>1. DeleteIfEmpty(at[c])
    BY <1>6 DEF CleanUp
  <2>2. QuietRooms
    BY <2>1, ReadRooms DEF DeleteIfEmpty, SvInv, QuietRooms
  <2> QED
    BY <2>2, QuietUnseatsNobody
<1>7. ASSUME NEW c \in Conns, NEW id \in RoomIds, NEW q \in Request,
             JoinRoom(c, id, q), JoinAccepted(id, q)
      PROVE  UnseatsOnlyItsOwn
  <2> SUFFICES ASSUME NEW x \in DOMAIN rooms, NEW i \in Connected(rooms[x])
               PROVE  i \in Connected(rooms'[x])
    BY DEF UnseatsOnlyItsOwn
  <2>1. Join(id, c, q)
    BY <1>7 DEF JoinRoom
  <2>2. CASE x # id
    <3>1. rooms' = Put(rooms, id, Admit(JoinTarget(id), c, q))
      BY <1>7, <2>1, JoinEffect DEF SvInv
    <3>2. rooms'[x] = rooms[x]
      BY <2>2, <3>1 DEF Put
    <3> QED
      BY <3>2
  <2>3. CASE x = id
    <3> DEFINE t == JoinTarget(id)
               j == JoinsAs(t, c, q)
    <3>1. Seats(rooms'[id]) = Put(Seats(t), j, c)
      BY <1>7, <2>1, JoinEffect DEF SvInv
    <3>2. id \in live \cup Unexpired
      BY <1>7 DEF JoinAccepted, JoinFound
    <3>3. Seats(t) = Seats(rooms[id])
      BY <2>3, <3>2, TargetOK DEF SvInv
    <3> HIDE DEF t, j
    <3>4. i \in DOMAIN Seats(rooms'[id])
      <4>1. i \in DOMAIN Seats(rooms[id])
        BY <2>3, SeatsFacts
      <4> QED
        BY <3>1, <3>3, <4>1 DEF Put
    <3> QED
      BY <2>3, <3>4, SeatsFacts
  <2> QED
    BY <2>2, <2>3
<1>8. ASSUME NEW c \in Conns, NEW id \in RoomIds, NEW q \in Request,
             JoinRoom(c, id, q), ~ JoinAccepted(id, q)
      PROVE  UnseatsOnlyItsOwn
  <2>1. QuietRooms
    BY <1>8, JoinEffect DEF JoinRoom, SvInv, QuietRooms
  <2> QED
    BY <2>1, QuietUnseatsNobody
<1>9. ASSUME NEW c \in Conns, LeaveRoom(c)
      PROVE  UnseatsOnlyItsOwn
  <2> SUFFICES ASSUME NEW x \in DOMAIN rooms,
                      NEW i \in Connected(rooms[x]) \ Connected(rooms'[x])
               PROVE  LET d == rooms[x].participants[i].conn IN
                      pc[d] = "unregistered" /\ pc'[d] = "removed"
    BY DEF UnseatsOnlyItsOwn
  <2> DEFINE id == at[c]
             k == self[c]
             mine == k \in DOMAIN Seats(rooms[id]) /\ Seats(rooms[id])[k] = c
  <2>1. /\ \A y \in DOMAIN rooms \ {id} : rooms'[y] = rooms[y]
        /\ Seats(rooms'[id]) = IF mine THEN Drop(Seats(rooms[id]), k)
                               ELSE Seats(rooms[id])
        /\ Goto(c, "unregistered", IF mine THEN "removed" ELSE "done")
    BY <1>9, LeavingSeats
  <2>2. /\ i \in DOMAIN Seats(rooms[x]) /\ i \notin DOMAIN Seats(rooms'[x])
        /\ Seats(rooms[x])[i] = rooms[x].participants[i].conn
    BY SeatsFacts
  <2> HIDE DEF id, k
  <2>3. x = id /\ mine
    BY <2>1, <2>2
  <2>4. i = k
    BY <2>1, <2>2, <2>3 DEF Drop
  <2>5. rooms[x].participants[i].conn = c
    BY <2>2, <2>3, <2>4
  <2>6. pc[c] = "unregistered" /\ pc'[c] = "removed"
    BY <2>1, <2>3, GotoFacts DEF Phases
  <2> QED
    BY <2>5, <2>6
<1>10. CASE UNCHANGED vars
  BY <1>4, <1>10 DEF vars, registryVars
<1> QED
  BY <1>1, <1>2, <1>3, <1>5, <1>6, <1>7, <1>8, <1>9, <1>10 DEF Next, Step

(***************************************************************************)
(* Only the handler of the connection that a participant holds disconnects *)
(* it, in its own cleanup: a cleanup of an older connection that comes     *)
(* late finds the room guarded by the connection and changes nothing.      *)
(***************************************************************************)
THEOREM LateCleanupsAreHarmless == Spec => OnlyItsOwnCleanupDisconnects
<1>1. ASSUME SvInv, [Next]_vars
      PROVE  \A id \in DOMAIN rooms :
                \A i \in Connected(rooms[id]) \ Connected(rooms'[id]) :
                    LET c == rooms[id].participants[i].conn IN
                    pc[c] = "unregistered" /\ pc'[c] = "removed"
  BY <1>1, UnseatingStep DEF UnseatsOnlyItsOwn
<1> QED
  BY <1>1, ServiceInvariance, PTL DEF Spec, OnlyItsOwnCleanupDisconnects

-----------------------------------------------------------------------------
(* The rooms of the service: every step takes each of them by one of its   *)
(* calls, so that all that a call keeps is kept in every room at once.     *)

\* Room x is taken through one of its calls, or left alone.
Called(x) == rooms'[x] = rooms[x] \/ RoomCall(rooms'[x], rooms[x], drawn)

\* Room x is made by the first participant that joins it.
Opened(x) ==
    \E owner \in {OwnerToken, None}, c \in Conns \ drawn, q \in Request :
        rooms'[x] = Admit(NewRoom(owner), c, q)

RoomsAreCalled ==
    /\ DOMAIN rooms \subseteq DOMAIN rooms'
    /\ \A x \in DOMAIN rooms : Called(x)
    /\ \A x \in DOMAIN rooms' \ DOMAIN rooms : Opened(x)

\* Whoever changes what room x shows is in it.
IsWithin(c, x) ==
    \/ pc[c] = "accepted" /\ pc'[c] = "joined" /\ at'[c] = x
    \/ pc[c] = "serving" /\ at[c] = x
    \/ pc[c] = "unregistered" /\ pc'[c] = "removed" /\ at[c] = x

ChangedFromWithin ==
    \A x \in DOMAIN rooms :
        State(rooms'[x]) # State(rooms[x]) => \E c \in Conns : IsWithin(c, x)

\* A purge, and the clock, are calls of which nothing is seen.
LEMMA UnseenCalls ==
    ASSUME SvInv, DOMAIN rooms' = DOMAIN rooms,
           \A x \in DOMAIN rooms : \/ rooms'[x] = rooms[x]
                                   \/ rooms'[x] = AfterPurge(rooms[x])
                                   \/ rooms'[x] = AfterTick(rooms[x])
    PROVE  RoomsAreCalled /\ ChangedFromWithin
<1>1. ASSUME NEW x \in DOMAIN rooms
      PROVE  Called(x) /\ State(rooms'[x]) = State(rooms[x])
  <2>1. RoomOK(rooms[x], drawn) /\ HasFields(rooms[x])
    BY RoomParts DEF SvInv
  <2>2. Called(x)
    BY DEF Called, RoomCall
  <2> QED
    BY <2>1, <2>2, PurgeIsUnseen, TickIsUnseen
<1> QED
  BY <1>1 DEF RoomsAreCalled, ChangedFromWithin

\* A handler that is within room x takes it through a call.
LEMMA CallFromWithin ==
    ASSUME SvInv, NEW c \in Conns, NEW x \in DOMAIN rooms, IsWithin(c, x),
           NEW s, rooms' = [ rooms EXCEPT ![x] = s ],
           RoomCall(s, rooms[x], drawn)
    PROVE  RoomsAreCalled /\ ChangedFromWithin
<1>1. /\ DOMAIN rooms' = DOMAIN rooms
      /\ rooms'[x] = s
      /\ \A y \in DOMAIN rooms \ {x} : rooms'[y] = rooms[y]
  OBVIOUS
<1> QED
  BY <1>1 DEF RoomsAreCalled, Called, ChangedFromWithin

LEMMA ServingCalls ==
    ASSUME SvInv, NEW c \in Conns, Serve(c)
    PROVE  RoomsAreCalled /\ ChangedFromWithin
<1>1. pc[c] = "serving" /\ at[c] \in DOMAIN rooms
  BY Placed DEF Serve, InRoomPhases
<1>2. self[c] \in drawn
  BY <1>1 DEF SvInv, HandlersOK, InRoomPhases
<1>3. IsWithin(c, at[c])
  BY <1>1 DEF IsWithin
<1>4. ASSUME NEW s, InRoom(at[c], s), RoomCall(s, MyRoom(c), drawn)
      PROVE  RoomsAreCalled /\ ChangedFromWithin
  BY <1>1, <1>3, <1>4, CallFromWithin DEF InRoom, MyRoom
<1>5. CASE \E v \in Cards \cup {None}, b \in BOOLEAN :
              InRoom(at[c], AfterVote(MyRoom(c), self[c], v, b))
  BY <1>2, <1>4, <1>5 DEF RoomCall
<1>6. CASE InRoom(at[c], AfterSkipVote(MyRoom(c), self[c]))
  BY <1>2, <1>4, <1>6 DEF RoomCall
<1>7. CASE InRoom(at[c], AfterReset(MyRoom(c), self[c]))
  BY <1>2, <1>4, <1>7 DEF RoomCall
<1> QED
  BY <1>5, <1>6, <1>7 DEF Serve

LEMMA LeavingCalls ==
    ASSUME SvInv, NEW c \in Conns, LeaveRoom(c)
    PROVE  RoomsAreCalled /\ ChangedFromWithin
<1>1. /\ pc[c] = "unregistered" /\ at[c] \in DOMAIN rooms
      /\ self[c] \in drawn /\ c \in drawn
  BY Placed DEF LeaveRoom, InRoomPhases, SvInv, HandlersOK
<1>2. PICK s \in AfterRemoveConnection(rooms[at[c]], self[c], c) :
          rooms' = [ rooms EXCEPT ![at[c]] = s ]
  BY DEF LeaveRoom, RemoveConnection
<1>3. RoomCall(s, rooms[at[c]], drawn)
  BY <1>1, <1>2 DEF RoomCall
<1>4. CASE Removes(MyRoom(c), self[c], c)
  <2>1. pc'[c] = "removed"
    BY <1>4 DEF LeaveRoom, Goto, SvInv, HandlersOK
  <2>2. IsWithin(c, at[c])
    BY <1>1, <2>1 DEF IsWithin
  <2> QED
    BY <1>1, <1>2, <1>3, <2>2, CallFromWithin
<1>5. CASE ~ Removes(MyRoom(c), self[c], c)
  <2>1. s = AfterPurge(rooms[at[c]])
    BY <1>2, <1>5 DEF AfterRemoveConnection, MyRoom
  <2> QED
    BY <1>2, <2>1, UnseenCalls
<1> QED
  BY <1>4, <1>5

LEMMA JoiningCalls ==
    ASSUME SvInv, NEW c \in Conns, NEW id \in RoomIds, NEW q \in Request,
           JoinRoom(c, id, q)
    PROVE  RoomsAreCalled /\ ChangedFromWithin
<1>1. Join(id, c, q) /\ c \in Conns \ drawn
  BY DEF JoinRoom, Join
<1>2. live \subseteq DOMAIN rooms
  BY DEF SvInv, RInv, RegistryTypeOK
<1>3. CASE ~ JoinAccepted(id, q)
  <2>1. CASE id \in live
    <3>1. Admit(JoinTarget(id), c, q) = AfterPurge(rooms[id])
      BY <1>3, <2>1 DEF JoinAccepted, JoinFound, Admit, JoinTarget
    <3>2. rooms' = [ rooms EXCEPT ![id] = AfterPurge(rooms[id]) ]
      BY <1>1, <2>1, <3>1 DEF Join, AfterAddConnection, JoinTarget
    <3> QED
      BY <3>2, UnseenCalls
  <2>2. CASE id \notin live
    <3>1. rooms' = rooms
      BY <1>1, <1>3, <2>2 DEF Join
    <3> QED
      BY <3>1, UnseenCalls
  <2> QED
    BY <2>1, <2>2
<1>4. CASE JoinAccepted(id, q)
  <2>1. IsWithin(c, id)
    BY <1>4 DEF JoinRoom, Goto, IsWithin, SvInv, HandlersOK
  <2>2. CASE id \in live
    <3>1. rooms' = [ rooms EXCEPT ![id] = AfterAddConnection(rooms[id], c, q) ]
      BY <1>1, <2>2 DEF Join
    <3>2. RoomCall(AfterAddConnection(rooms[id], c, q), rooms[id], drawn)
      BY <1>1 DEF RoomCall
    <3> QED
      BY <1>2, <2>1, <2>2, <3>1, <3>2, CallFromWithin
  <2>3. CASE id \notin live
    <3>1. id \in Unexpired
      BY <1>4, <2>3 DEF JoinAccepted, JoinFound
    <3>2. id \in DOMAIN pending /\ id \notin DOMAIN rooms
      BY <2>3, <3>1, TargetOK DEF SvInv
    <3>3. pending[id].owner \in {OwnerToken, None}
      BY <3>2 DEF SvInv, RInv, RegistryTypeOK, Reservation
    <3> DEFINE r == Admit(NewRoom(pending[id].owner), c, q)
    <3>4. rooms' = Put(rooms, id, r)
      BY <1>1, <1>4, <2>3 DEF Join, JoinTarget
    <3>5. Opened(id) \/ rooms'[id] # r
      BY <1>1, <3>3 DEF Opened
    <3> HIDE DEF r
    <3>6. /\ DOMAIN rooms' = DOMAIN rooms \cup {id}
          /\ rooms'[id] = r
          /\ \A x \in DOMAIN rooms : rooms'[x] = rooms[x]
      BY <3>2, <3>4 DEF Put
    <3> QED
      BY <3>5, <3>6 DEF RoomsAreCalled, Called, ChangedFromWithin
  <2> QED
    BY <2>2, <2>3
<1> QED
  BY <1>3, <1>4

LEMMA StepsAreCalls ==
    ASSUME SvInv, [Next]_vars
    PROVE  RoomsAreCalled /\ ChangedFromWithin
<1>1. ASSUME rooms' = rooms
      PROVE  RoomsAreCalled /\ ChangedFromWithin
  BY <1>1, UnseenCalls
<1>2. ASSUME NEW id,
             rooms' = IF id \in live THEN [ rooms EXCEPT ![id] = AfterPurge(@) ] ELSE rooms
      PROVE  RoomsAreCalled /\ ChangedFromWithin
  <2>1. /\ DOMAIN rooms' = DOMAIN rooms
        /\ \A x \in DOMAIN rooms : rooms'[x] = rooms[x] \/ rooms'[x] = AfterPurge(rooms[x])
    BY <1>2 DEF SvInv, RInv, RegistryTypeOK
  <2> QED
    BY <2>1, UnseenCalls
<1>3. ASSUME NEW id \in RoomIds, CreateRoom(id)
      PROVE  RoomsAreCalled /\ ChangedFromWithin
  BY <1>1, <1>3 DEF CreateRoom, ReserveWithOwner
<1>4. ASSUME NEW id \in RoomIds, GetRoom(id)
      PROVE  RoomsAreCalled /\ ChangedFromWithin
  BY <1>2, <1>4 DEF GetRoom, Read
<1>5. ASSUME NEW c \in Conns,
             \/ Accept(c) \/ Refuse(c) \/ Disconnect(c) \/ JoinFails(c) \/ Register(c)
             \/ ClosePrevious(c) \/ ReadFails(c) \/ Unregister(c)
      PROVE  RoomsAreCalled /\ ChangedFromWithin
  <2>1. rooms' = rooms
    BY <1>5 DEF Accept, Refuse, Disconnect, JoinFails, Register, ClosePrevious,
                ReadFails, Unregister, registryVars
  <2> QED
    BY <1>1, <2>1
<1>6. ASSUME NEW c \in Conns, CleanUp(c)
      PROVE  RoomsAreCalled /\ ChangedFromWithin
  BY <1>2, <1>6 DEF CleanUp, DeleteIfEmpty
<1>7. CASE TimePasses
  BY <1>7, UnseenCalls DEF TimePasses, Tick
<1>8. CASE UNCHANGED vars
  BY <1>1, <1>8 DEF vars, registryVars
<1> QED
  BY <1>3, <1>4, <1>5, <1>6, <1>7, <1>8, ServingCalls, LeavingCalls, JoiningCalls
  DEF Next, Step

(***************************************************************************)
(* What a room shows changes only through a handler that joins it, serves  *)
(* a message in it or leaves it: the purges that every operation starts    *)
(* with, reads over HTTP, the clock, joins that fail and the other rooms   *)
(* change nothing that anybody sees.                                       *)
(***************************************************************************)
THEOREM OthersChangeNothing == Spec => RoomsChangeFromWithin
<1>1. ASSUME SvInv, [Next]_vars
      PROVE  \A id \in DOMAIN rooms : State(rooms'[id]) # State(rooms[id]) =>
                \E c \in Conns :
                    \/ pc[c] = "accepted" /\ pc'[c] = "joined" /\ at'[c] = id
                    \/ pc[c] = "serving" /\ at[c] = id
                    \/ pc[c] = "unregistered" /\ pc'[c] = "removed" /\ at[c] = id
  BY <1>1, StepsAreCalls DEF ChangedFromWithin, IsWithin
<1> QED
  BY <1>1, ServiceInvariance, PTL DEF Spec, RoomsChangeFromWithin

(***************************************************************************)
(* In every room of the service the result of a reveal is that of the      *)
(* cards turned over, it stands until the round is reset, and nobody takes *)
(* over an identity but the returning owner its own.                       *)
(***************************************************************************)
THEOREM EveryRoomKeepsItsWord == Spec => RoomsKeepTheirWord
<1>1. ASSUME SvInv, [Next]_vars, NEW id \in DOMAIN rooms
      PROVE  LET r == rooms[id]  s == rooms'[id] IN
             /\ ~ r.revealed /\ s.revealed => Honest(s)
             /\ r.revealed /\ s.revealed => Stands(s, r)
             /\ KeepsIdentity(s, r)
  <2>1. RoomOK(rooms[id], drawn) /\ drawn \in SUBSET Conns
    BY <1>1, RoomParts, ConnsDrawn DEF SvInv
  <2>2. rooms'[id] = rooms[id] \/ RoomCall(rooms'[id], rooms[id], drawn)
    BY <1>1, StepsAreCalls DEF RoomsAreCalled, Called
  <2> QED
    BY <2>1, <2>2, CallKeepsItsWord
<1>2. ASSUME SvInv, [Next]_vars
      PROVE  \A id \in DOMAIN rooms :
                LET r == rooms[id]  s == rooms'[id] IN
                /\ ~ r.revealed /\ s.revealed => Honest(s)
                /\ r.revealed /\ s.revealed => Stands(s, r)
                /\ KeepsIdentity(s, r)
  BY <1>1, <1>2
<1> QED
  BY <1>2, ServiceInvariance, PTL DEF Spec, RoomsKeepTheirWord

\* Every room is within its capacity.
RoomsAreSmall == \A id \in DOMAIN rooms : Small(rooms[id])

LEMMA RoomsStaySmall ==
    ASSUME SvInv, RoomsAreSmall, [Next]_vars
    PROVE  RoomsAreSmall'
<1>1. RoomsAreCalled /\ drawn \in SUBSET Conns
  BY StepsAreCalls, ConnsDrawn
<1>2. ASSUME NEW x \in DOMAIN rooms
      PROVE  Small(rooms'[x])
  <2>1. RoomOK(rooms[x], drawn) /\ Small(rooms[x])
    BY RoomParts DEF SvInv, RoomsAreSmall
  <2>2. rooms'[x] = rooms[x] \/ RoomCall(rooms'[x], rooms[x], drawn)
    BY <1>1 DEF RoomsAreCalled, Called
  <2> QED
    BY <1>1, <2>1, <2>2, CallSmall
<1>3. ASSUME NEW x \in DOMAIN rooms' \ DOMAIN rooms
      PROVE  Small(rooms'[x])
  <2>1. PICK owner \in {OwnerToken, None}, c \in Conns \ drawn, q \in Request :
            rooms'[x] = Admit(NewRoom(owner), c, q)
    BY <1>1 DEF RoomsAreCalled, Opened
  <2>2. HasFields(NewRoom(owner))
    BY NewRoomOK DEF RoomOK, RoomTyped
  <2>3. Present(NewRoom(owner)) = {}
    BY DEF Present, NewRoom, EmptyFcn
  <2>4. Small(NewRoom(owner))
    BY <2>3, FS_EmptySet, LimitAssumption DEF Small
  <2> QED
    BY <2>1, <2>2, <2>4, AdmitSmall
<1> QED
  BY <1>2, <1>3 DEF RoomsAreSmall

(***************************************************************************)
(* Every room of the service satisfies all that holds of a room between    *)
(* its calls, its capacity included, at every moment of any interleaving.  *)
(***************************************************************************)
THEOREM EveryRoomIsInOrder == Spec => []RoomsAreInOrder
<1>1. Init => RoomsAreSmall
  BY DEF Init, RegistryInit, EmptyFcn, RoomsAreSmall
<1>2. SvInv /\ RoomsAreSmall /\ [Next]_vars => RoomsAreSmall'
  BY RoomsStaySmall
<1>3. ASSUME SvInv, RoomsAreSmall
      PROVE  RoomsAreInOrder
  <2> SUFFICES ASSUME NEW id \in DOMAIN rooms
               PROVE  /\ LeadAgrees(rooms[id]) /\ IndexAgrees(rooms[id])
                      /\ ConnsAgree(rooms[id]) /\ VotesAgree(rooms[id])
                      /\ CardsAgree(rooms[id])
                      /\ Cardinality(Present(rooms[id])) <= MaxParticipants
    BY DEF RoomsAreInOrder
  <2>1. RoomOK(rooms[id], drawn)
    BY <1>3, RoomParts DEF SvInv
  <2>2. Cardinality(Present(rooms[id])) <= MaxParticipants
    BY <1>3 DEF RoomsAreSmall, Small
  <2> QED
    BY <2>1, <2>2 DEF RoomOK
<1> QED
  BY <1>1, <1>2, <1>3, ServiceInvariance, PTL DEF Spec

-----------------------------------------------------------------------------
(* The rooms of the service: each of them is a round of voting *)

\* A step takes every room, or the place where it will be, through one step of
\* its round at most.
LEMMA StepsAreRounds ==
    ASSUME SvInv, [Next]_vars, NEW id \in RoomIds
    PROVE  RoundStep(Seen(id)', Seen(id))
<1>1. RoomsAreCalled /\ drawn \in SUBSET Conns
  BY StepsAreCalls, ConnsDrawn
<1>2. CASE id \in DOMAIN rooms
  <2>1. Seen(id) = rooms[id] /\ Seen(id)' = rooms'[id]
    BY <1>1, <1>2 DEF Seen, RoomsAreCalled
  <2>2. RoomOK(rooms[id], drawn)
    BY <1>2, RoomParts DEF SvInv
  <2>3. rooms'[id] = rooms[id] \/ RoomCall(rooms'[id], rooms[id], drawn)
    BY <1>1, <1>2 DEF RoomsAreCalled, Called
  <2>4. CASE rooms'[id] = rooms[id]
    BY <2>1, <2>4 DEF RoundStep, SameRound
  <2>5. CASE RoomCall(rooms'[id], rooms[id], drawn)
    BY <1>1, <2>1, <2>2, <2>5, CallIsRound
  <2> QED
    BY <2>3, <2>4, <2>5
<1>3. CASE id \in DOMAIN rooms' \ DOMAIN rooms
  <2>1. Seen(id) = NewRoom(None) /\ Seen(id)' = rooms'[id]
    BY <1>3 DEF Seen
  <2>2. PICK owner \in {OwnerToken, None}, c \in Conns \ drawn, q \in Request :
            rooms'[id] = Admit(NewRoom(owner), c, q)
    BY <1>1, <1>3 DEF RoomsAreCalled, Opened
  <2>3. RoomOK(NewRoom(owner), drawn)
    BY <1>1, NewRoomOK, Monotone
  <2>4. RoundStep(rooms'[id], NewRoom(owner))
    BY <1>1, <2>2, <2>3, AdmitRound
  <2>5. SameRound(NewRoom(owner), NewRoom(None))
    BY NewRoomIsNewRound DEF NewRound, SameRound
  <2> QED
    BY <2>1, <2>4, <2>5, RoundStepThrough
<1>4. CASE id \notin DOMAIN rooms'
  <2>1. id \notin DOMAIN rooms
    BY <1>1, <1>4 DEF RoomsAreCalled
  <2>2. Seen(id) = NewRoom(None) /\ Seen(id)' = NewRoom(None)
    BY <1>4, <2>1 DEF Seen
  <2> QED
    BY <2>2 DEF RoundStep, SameRound
<1> QED
  BY <1>2, <1>3, <1>4

LEMMA SeenIsRevealedOrNot ==
    ASSUME NEW R, NEW U, \A x \in DOMAIN R : RoomOK(R[x], U), NEW id
    PROVE  (IF id \in DOMAIN R THEN R[id] ELSE NewRoom(None)).revealed \in BOOLEAN
<1>1. CASE id \in DOMAIN R
  BY <1>1 DEF RoomOK, RoomTyped
<1>2. CASE id \notin DOMAIN R
  BY <1>2 DEF NewRoom
<1> QED
  BY <1>1, <1>2

\* A step of the round in a room is a step of Round, or none.
LEMMA RoundStepIsRounds ==
    ASSUME SvInv, SvInv', NEW id, RoundStep(Seen(id)', Seen(id))
    PROVE  [Rounds(id)!Next]_(Rounds(id)!vars)
<1>1. Seen(id).revealed \in BOOLEAN /\ Seen(id)'.revealed \in BOOLEAN
  <2>1. RoomsOK /\ RoomsOK'
    BY DEF SvInv, RInv
  <2> QED
    BY <2>1, SeenIsRevealedOrNot DEF RoomsOK, Seen
<1> HIDE DEF Seen
<1>2. CASE SameRound(Seen(id)', Seen(id))
  BY <1>2 DEF SameRound, Rounds!vars
<1>3. CASE NewRound(Seen(id)')
  <2>1. Rounds(id)!Reset
    BY <1>3 DEF NewRound, Rounds!Reset, Rounds!Nothing, EmptyFcn
  <2> QED
    BY <2>1 DEF Rounds!Next
<1>4. ASSUME NEW i \in Conns, NEW T, ~ Seen(id).revealed, NextTable(T, Seen(id), i),
             Laid(Seen(id)', Seen(id), T) \/ TurnedUp(Seen(id)', T)
      PROVE  [Rounds(id)!Next]_(Rounds(id)!vars)
  <2>1. T \in Rounds(id)!Played(i) \/ T = Rounds(id)!Without(i)
    BY <1>4 DEF NextTable, Put, Drop, Ballots, Rounds!Played, Rounds!Ballot,
                Rounds!Without, Rounds!Restrict
  <2>2. CASE Laid(Seen(id)', Seen(id), T)
    <3>1. Rounds(id)!Play(i) \/ Rounds(id)!TakeBack(i)
      BY <1>1, <1>4, <2>1, <2>2 DEF Laid, Rounds!Play, Rounds!TakeBack
    <3> QED
      BY <3>1 DEF Rounds!Next
  <2>3. CASE TurnedUp(Seen(id)', T)
    <3>1. Rounds(id)!Reveal(i)
      BY <1>4, <2>1, <2>3
      DEF TurnedUp, CardsOn, RolesOn, PlayedIn, Restrict, Rounds!Reveal,
          Rounds!CardsOf, Rounds!RolesOf, Rounds!PlayedBy, Rounds!Restrict,
          Rounds!Nothing, EmptyFcn
    <3> QED
      BY <3>1 DEF Rounds!Next
  <2> QED
    BY <1>4, <2>2, <2>3
<1> QED
  BY <1>2, <1>3, <1>4 DEF RoundStep

(***************************************************************************)
(* Every room of the service plays its rounds as Round has them: whatever  *)
(* the handlers do in it and around it, cards are put down and taken back, *)
(* turned over once with the last of them, and the result of that moment   *)
(* stands until the table is cleared.                                      *)
(***************************************************************************)
THEOREM TheServicePlaysRounds == Spec => EveryRoomIsARound
<1> SUFFICES ASSUME NEW id \in RoomIds
             PROVE  Spec => Rounds(id)!Spec
  BY DEF EveryRoomIsARound
<1>1. Init => Rounds(id)!Init
  <2>1. Init => Seen(id) = NewRoom(None)
    BY DEF Init, RegistryInit, EmptyFcn, Seen
  <2>2. NewRound(NewRoom(None))
    BY NewRoomIsNewRound
  <2> QED
    BY <2>1, <2>2 DEF NewRound, Rounds!Init, Rounds!Nothing, EmptyFcn
<1>2. SvInv /\ SvInv' /\ [Next]_vars => [Rounds(id)!Next]_(Rounds(id)!vars)
  BY StepsAreRounds, RoundStepIsRounds
<1> QED
  BY <1>1, <1>2, ServiceInvariance, PTL DEF Spec, Rounds!Spec

-----------------------------------------------------------------------------
(* The hub of the service is a Directory *)

\* Every entry of the hub is of a room and a participant, and there is one
\* entry at most for each handler: its own.
LEMMA HubEntriesFacts ==
    ASSUME SvInv
    PROVE  /\ DOMAIN hub \subseteq HubKeys
           /\ \A k \in DOMAIN hub : /\ hub[k] \in Conns /\ hub[k] # None
                                    /\ k = <<at[hub[k]], self[hub[k]]>>
<1> SUFFICES ASSUME NEW k \in DOMAIN hub
             PROVE  /\ k \in HubKeys
                    /\ hub[k] \in Conns /\ hub[k] # None
                    /\ k = <<at[hub[k]], self[hub[k]]>>
  OBVIOUS
<1> DEFINE c == hub[k]
<1>1. c \in Conns /\ c # None
  BY ConnsDrawn DEF SvInv, HandlersOK
<1>2. pc[c] \in {"registered", "serving", "closing"} /\ k = <<at[c], self[c]>>
  BY DEF SvInv, HubEntriesAreServed
<1>3. at[c] \in RoomIds /\ self[c] \in Conns
  BY <1>1, <1>2, ConnsDrawn DEF SvInv, HandlersOK, InRoomPhases
<1> QED
  BY <1>1, <1>2, <1>3 DEF HubKeys

\* The hub has an entry exactly where Directory has a connection.
LEMMA EntriesFacts ==
    ASSUME SvInv
    PROVE  /\ Entries \in [ HubKeys -> Conns \cup {None} ]
           /\ \A k \in HubKeys : Entries[k] = IF k \in DOMAIN hub THEN hub[k] ELSE None
BY HubEntriesFacts DEF Entries

\* Most steps leave the hub alone, and keep a handler in it or out of it.
LEMMA SameDirectory ==
    ASSUME hub' = hub,
           \A c \in Conns : pc'[c] \in {"registered", "serving", "closing"} <=>
                                pc[c] \in {"registered", "serving", "closing"}
    PROVE  UNCHANGED Dir!vars
BY DEF Dir!vars, Entries, Added

LEMMA RegisterIsAdd ==
    ASSUME SvInv, NEW c \in Conns, Register(c)
    PROVE  Dir!Next
<1> DEFINE key == <<at[c], self[c]>>
<1>1. pc[c] = "joined" /\ pc' = [ pc EXCEPT ![c] = "registered" ]
  BY DEF Register, Goto
<1>2. key \in HubKeys
  <2>1. at[c] \in RoomIds /\ self[c] \in Conns
    BY <1>1, ConnsDrawn DEF SvInv, HandlersOK, InRoomPhases
  <2> QED
    BY <2>1 DEF HubKeys
<1>3. hub' = Put(hub, key, c)
  BY DEF Register
<1> HIDE DEF key
<1>4. Entries' = [ Entries EXCEPT ![key] = c ]
  <2>1. \A k \in HubKeys : (IF k \in DOMAIN hub' THEN hub'[k] ELSE None) =
                            IF k = key THEN c ELSE Entries[k]
    BY <1>3, EntriesFacts DEF Put
  <2>2. Entries' = [ k \in HubKeys |-> IF k = key THEN c ELSE Entries[k] ]
    BY <2>1 DEF Entries, HubKeys
  <2> QED
    BY <2>2, EntriesFacts
<1>5. c \in Conns \ Added /\ Added' = Added \cup {c}
  BY <1>1 DEF Added, SvInv, HandlersOK
<1>6. Dir!Add(key, c)
  BY <1>4, <1>5 DEF Dir!Add
<1> QED
  BY <1>2, <1>5, <1>6 DEF Dir!Next

LEMMA UnregisterIsLeave ==
    ASSUME SvInv, NEW c \in Conns, Unregister(c)
    PROVE  Dir!Next
<1> DEFINE key == <<at[c], self[c]>>
<1>1. pc[c] = "closing" /\ pc' = [ pc EXCEPT ![c] = "unregistered" ]
  BY DEF Unregister, Goto
<1>2. hub' = IF key \in DOMAIN hub /\ hub[key] = c THEN Drop(hub, key) ELSE hub
  BY DEF Unregister, HubWithout
<1>3. \A k \in DOMAIN hub : hub[k] = c => k = key
  BY HubEntriesFacts
<1> HIDE DEF key
<1>4. Entries' = [ k \in HubKeys |-> IF Entries[k] = c THEN None ELSE Entries[k] ]
  <2>1. c # None
    BY NoneAssumption
  <2>2. \A k \in HubKeys : (IF k \in DOMAIN hub' THEN hub'[k] ELSE None) =
                            IF Entries[k] = c THEN None ELSE Entries[k]
    BY <1>2, <1>3, <2>1, EntriesFacts DEF Drop
  <2> QED
    BY <2>2 DEF Entries, HubKeys
<1>5. c \in Added /\ Added' = Added \ {c}
  BY <1>1 DEF Added, SvInv, HandlersOK
<1>6. Dir!Leave(c)
  BY <1>4, <1>5 DEF Dir!Leave
<1> QED
  BY <1>6 DEF Dir!Next

LEMMA StepsAreDirectorys ==
    ASSUME SvInv, [Next]_vars
    PROVE  [Dir!Next]_(Dir!vars)
<1>0. pc \in [ Conns -> Phases ]
  BY DEF SvInv, HandlersOK
<1>1. ASSUME UNCHANGED handlerVars
      PROVE  UNCHANGED Dir!vars
  BY <1>1, SameDirectory DEF handlerVars
<1>2. ASSUME NEW id \in RoomIds, CreateRoom(id) \/ GetRoom(id)
      PROVE  UNCHANGED Dir!vars
  BY <1>1, <1>2 DEF CreateRoom, GetRoom
<1>3. ASSUME NEW c \in Conns,
             \/ Accept(c) \/ Refuse(c) \/ Disconnect(c) \/ JoinFails(c)
             \/ ClosePrevious(c) \/ ReadFails(c) \/ LeaveRoom(c) \/ CleanUp(c)
      PROVE  UNCHANGED Dir!vars
  <2>1. hub' = hub
    BY <1>3 DEF Accept, Refuse, Disconnect, JoinFails, ClosePrevious, ReadFails,
                LeaveRoom, CleanUp
  <2>2. \A d \in Conns : pc'[d] \in {"registered", "serving", "closing"} <=>
                            pc[d] \in {"registered", "serving", "closing"}
    BY <1>0, <1>3 DEF Accept, Refuse, Disconnect, JoinFails, ClosePrevious, ReadFails,
                      LeaveRoom, CleanUp, Goto
  <2> QED
    BY <2>1, <2>2, SameDirectory
<1>4. ASSUME NEW c \in Conns, NEW id \in RoomIds, NEW q \in Request, JoinRoom(c, id, q)
      PROVE  UNCHANGED Dir!vars
  <2>1. hub' = hub
    BY <1>4 DEF JoinRoom
  <2>2. pc[c] = "accepted" /\ \E p \in {"joined", "done"} : pc' = [ pc EXCEPT ![c] = p ]
    BY <1>4 DEF JoinRoom, Goto
  <2>3. \A d \in Conns : pc'[d] \in {"registered", "serving", "closing"} <=>
                            pc[d] \in {"registered", "serving", "closing"}
    BY <1>0, <2>2
  <2> QED
    BY <2>1, <2>3, SameDirectory
<1>5. ASSUME NEW c \in Conns, Serve(c)
      PROVE  UNCHANGED Dir!vars
  BY <1>1, <1>5 DEF Serve
<1>6. CASE TimePasses
  BY <1>1, <1>6 DEF TimePasses
<1>7. CASE UNCHANGED vars
  BY <1>1, <1>7 DEF vars
<1> QED
  BY <1>2, <1>3, <1>4, <1>5, <1>6, <1>7, RegisterIsAdd, UnregisterIsLeave DEF Next, Step

(***************************************************************************)
(* The hub that the handlers work with is the Directory which Hub is shown *)
(* to implement: registering adds a connection in the place of an older    *)
(* one, and a late clean-up takes out nobody but its own connection.       *)
(***************************************************************************)
THEOREM TheHubIsADirectory == Spec => HubIsADirectory
<1>1. Init => Dir!Init
  BY DEF Init, EmptyFcn, Dir!Init, Entries, Added
<1>2. SvInv /\ [Next]_vars => [Dir!Next]_(Dir!vars)
  BY StepsAreDirectorys
<1> QED
  BY <1>1, <1>2, ServiceInvariance, PTL DEF Spec, HubIsADirectory, Dir!Spec

-----------------------------------------------------------------------------
(* The messages: the inductive invariant *)

\* The handler of h will announce the state of its room, and has yet to copy
\* the senders: it will read a state that is as new as any.
Announces(h) ==
    \/ pc[h] \in {"joined", "registered", "removed"}
    \/ stage[h] \in {"greeting", "handing", "announcing"}

\* The handler of h will send c the present state, which it has read.
Brings(h, c) ==
    /\ h \in fresh
    /\ \/ stage[h] = "collecting"
       \/ stage[h] = "sending" /\ c \in to[h]

\* c is cancelled, or the handler that took its place will cancel it.
BeingClosed(c) ==
    c \in cancelled \/ \E d \in Conns : pc[d] = "registered" /\ previous[d] = c

\* Some handler of c's room is going to tell it.
IsOwed(c) == \E h \in Conns : at[h] = at[c] /\ (Announces(h) \/ Brings(h, c))

ToldOrOwed ==
    \A c \in Conns : pc[c] = "serving" => c \in told \/ BeingClosed(c) \/ IsOwed(c)

TalkOK ==
    /\ stage \in [ Conns -> Stages ]
    /\ to \in [ Conns -> SUBSET Conns ]

DInv == SvInv /\ TalkOK /\ ToldOrOwed

-----------------------------------------------------------------------------
(* The messages: the steps are those of Service *)

LEMMA ServiceSteps == [DeliveryNext]_deliveryVars => [Next]_vars
<1> SUFFICES ASSUME [DeliveryNext]_deliveryVars
             PROVE  [Next]_vars
  OBVIOUS
<1>1. ASSUME NEW c \in Conns,
             \/ AcceptConn(c) \/ Enter(c) \/ Depart(c)
             \/ JoinFails(c) \/ Register(c) \/ Refuse(c) \/ ReadFails(c)
             \/ Unregister(c) \/ LeaveRoom(c) \/ Disconnect(c)
      PROVE  Next
  BY <1>1 DEF AcceptConn, Enter, Depart, Next, Step
<1>2. ASSUME NEW c \in Conns, NEW id \in RoomIds, NEW q \in Request,
             q.token \in drawn \cup {None}, JoinRoom(c, id, q)
      PROVE  Next
  BY <1>2 DEF Next
<1>3. ASSUME NEW c \in Conns, NEW v \in Cards \cup {None}, NEW b \in BOOLEAN,
             ServeVote(c, v, b)
      PROVE  Next
  <2>1. Serve(c)
    BY <1>3 DEF ServeVote, Serve
  <2> QED
    BY <2>1 DEF Next
<1>4. ASSUME NEW c \in Conns, ServeSkip(c) \/ ServeReset(c)
      PROVE  Next
  <2>1. Serve(c)
    BY <1>4 DEF ServeSkip, ServeReset, Serve
  <2> QED
    BY <2>1 DEF Next
<1>5. ASSUME NEW c \in Conns, Sending(c)
      PROVE  UNCHANGED vars
  BY <1>5 DEF Sending, Snapshot, Hand, Collect, Send
<1>6. ASSUME NEW id \in RoomIds, CreateRoom(id) \/ GetRoom(id)
      PROVE  Next
  BY <1>6 DEF Next
<1>7. CASE TimePasses
  BY <1>7 DEF Next
<1>8. CASE UNCHANGED deliveryVars
  BY <1>8 DEF deliveryVars
<1> QED
  BY <1>1, <1>2, <1>3, <1>4, <1>5, <1>6, <1>7, <1>8 DEF DeliveryNext, Outside

LEMMA ServiceHolds ==
    ASSUME SvInv, [DeliveryNext]_deliveryVars
    PROVE  SvInv'
BY ServiceSteps, NextSvInv

-----------------------------------------------------------------------------
(* The messages: whoever sees the room change is owed its state *)

\* What a step must see to, so that nobody is forgotten: handlers that send
\* go on sending, those that will announce still will, and a room that looks
\* different afterwards has somebody who announces it.
LEMMA NobodyForgotten ==
    ASSUME DInv, Outdate, to' = to,
           \A h \in Conns : stage[h] # "quiet" => stage'[h] = stage[h],
           \A d \in Conns : at'[d] = at[d] \/ (pc[d] = "accepted" /\ stage[d] = "quiet"),
           cancelled \subseteq cancelled',
           \A h \in Conns : pc[h] \in {"joined", "registered", "removed"} => Announces(h)',
           \A d, x \in Conns : pc[d] = "registered" /\ previous[d] = x => BeingClosed(x)',
           \A d \in Conns : pc'[d] = "serving" => pc[d] = "serving" \/ Announces(d)',
           \A c \in Conns \ Unmoved : pc[c] = "serving" =>
                \E h \in Conns : at'[h] = at[c] /\ Announces(h)'
    PROVE  ToldOrOwed'
<1> SUFFICES ASSUME NEW c \in Conns, pc'[c] = "serving"
             PROVE  c \in told' \/ BeingClosed(c)' \/ IsOwed(c)'
  BY DEF ToldOrOwed
<1>1. CASE pc[c] # "serving"
  BY <1>1 DEF IsOwed
<1>2. CASE pc[c] = "serving"
  <2>1. at'[c] = at[c]
    BY <1>2
  <2>2. CASE c \notin Unmoved
    BY <1>2, <2>1, <2>2 DEF IsOwed
  <2>3. CASE c \in Unmoved /\ c \in told
    BY <2>3 DEF Outdate
  <2>4. CASE BeingClosed(c)
    BY <2>4 DEF BeingClosed
  <2>5. ASSUME c \in Unmoved,
               NEW h \in Conns, at[h] = at[c], Announces(h) \/ Brings(h, c)
        PROVE  IsOwed(c)'
    <3>1. at'[h] = at'[c]
      BY <2>1, <2>5 DEF Announces, Brings
    <3>2. CASE Announces(h)
      <4>1. Announces(h)'
        BY <3>2 DEF Announces
      <4> QED
        BY <3>1, <4>1 DEF IsOwed
    <3>3. CASE Brings(h, c)
      <4>1. h \in Unmoved
        BY <2>5 DEF Unmoved, MyRoom
      <4>2. Brings(h, c)'
        BY <3>3, <4>1 DEF Brings, Outdate
      <4> QED
        BY <3>1, <4>2 DEF IsOwed
    <3> QED
      BY <2>5, <3>2, <3>3
  <2> QED
    BY <1>2, <2>2, <2>3, <2>4, <2>5 DEF DInv, ToldOrOwed, IsOwed
<1> QED
  BY <1>1, <1>2

\* Whoever sees a change sees that of its own room.
LEMMA ChangesAreSeen ==
    ASSUME SvInv
    PROVE  \A c \in Conns \ Unmoved :
              at[c] \in DOMAIN rooms /\ State(rooms'[at[c]]) # State(rooms[at[c]])
BY DEF Unmoved, MyRoom, SvInv, HandlersOK

\* A step of which no room shows anything, and nobody says anything.
LEMMA QuietTold ==
    ASSUME DInv, Outdate, UNCHANGED <<stage, to>>,
           \A x \in DOMAIN rooms : State(rooms'[x]) = State(rooms[x]),
           at' = at,
           cancelled \subseteq cancelled',
           \A d \in Conns :
              /\ pc[d] \in {"joined", "removed"} =>
                    pc'[d] \in {"joined", "registered", "removed"}
              /\ pc[d] = "registered" => pc'[d] = pc[d] /\ previous'[d] = previous[d]
              /\ pc'[d] = "serving" => pc[d] = "serving"
    PROVE  TalkOK' /\ ToldOrOwed'
<1>1. \A c \in Conns \ Unmoved : FALSE
  BY ChangesAreSeen DEF DInv
<1>2. \A h \in Conns : pc[h] \in {"joined", "registered", "removed"} => Announces(h)'
  BY DEF Announces
<1>3. \A d, x \in Conns : pc[d] = "registered" /\ previous[d] = x => BeingClosed(x)'
  BY DEF BeingClosed
<1>4. ToldOrOwed'
  BY <1>1, <1>2, <1>3, NobodyForgotten
<1> QED
  BY <1>4 DEF DInv, TalkOK

\* A step that changes at most the handler's own room, and announces it.
LEMMA LoudTold ==
    ASSUME DInv, NEW k \in Conns, ThenAnnounce(k),
           \A x \in DOMAIN rooms \ {at[k]} : State(rooms'[x]) = State(rooms[x]),
           UNCHANGED <<at, previous, cancelled>>,
           \A d \in Conns \ {k} : pc'[d] = pc[d],
           pc'[k] = pc[k] \/ (pc[k] = "removed" /\ pc'[k] = "done")
    PROVE  TalkOK' /\ ToldOrOwed'
<1>1. /\ stage[k] = "quiet" /\ stage'[k] = "announcing"
      /\ \A h \in Conns \ {k} : stage'[h] = stage[h]
      /\ Outdate /\ to' = to
      /\ TalkOK'
  BY DEF ThenAnnounce, Talk, DInv, TalkOK, Stages
<1>2. Announces(k)'
  BY <1>1 DEF Announces
<1>3. \A c \in Conns \ Unmoved : at[c] = at[k]
  BY ChangesAreSeen DEF DInv
<1>4. \A h \in Conns : pc[h] \in {"joined", "registered", "removed"} => Announces(h)'
  BY <1>2 DEF Announces
<1>5. \A d, x \in Conns : pc[d] = "registered" /\ previous[d] = x => BeingClosed(x)'
  BY DEF BeingClosed
<1>6. ToldOrOwed'
  BY <1>1, <1>2, <1>3, <1>4, <1>5, NobodyForgotten
<1> QED
  BY <1>1, <1>6

-----------------------------------------------------------------------------
(* The messages: the actions of Service *)

LEMMA PhaseTold ==
    ASSUME DInv, NEW c \in Conns, Outdate, UNCHANGED <<stage, to>>,
           \/ Accept(c) \/ JoinFails(c) \/ Register(c) \/ Refuse(c)
           \/ ReadFails(c) \/ Unregister(c) \/ Disconnect(c)
    PROVE  TalkOK' /\ ToldOrOwed'
<1>1. pc \in [ Conns -> Phases ] /\ previous \in [ Conns -> drawn \cup {None} ]
  BY DEF DInv, SvInv, HandlersOK
<1>2. rooms' = rooms /\ at' = at /\ cancelled \subseteq cancelled'
  BY DEF Accept, JoinFails, Register, Refuse, ReadFails, Unregister, Disconnect, registryVars
<1>3. \A d \in Conns :
         /\ pc[d] \in {"joined", "removed"} => pc'[d] \in {"joined", "registered", "removed"}
         /\ pc[d] = "registered" => pc'[d] = pc[d]
         /\ pc'[d] = "serving" => pc[d] = "serving"
  BY <1>1 DEF Accept, JoinFails, Register, Refuse, ReadFails, Unregister, Disconnect, Goto
<1>4. \A d \in Conns : pc[d] = "registered" => previous'[d] = previous[d]
  BY <1>1 DEF Accept, JoinFails, Register, Refuse, ReadFails, Unregister, Disconnect, Goto
<1> QED
  BY <1>2, <1>3, <1>4, QuietTold

LEMMA RequestTold ==
    ASSUME DInv, NEW id \in RoomIds, Outdate, UNCHANGED <<stage, to>>,
           CreateRoom(id) \/ GetRoom(id)
    PROVE  TalkOK' /\ ToldOrOwed'
<1>1. pc' = pc /\ at' = at /\ previous' = previous /\ cancelled' = cancelled
  BY DEF CreateRoom, GetRoom, handlerVars
<1>2. \A x \in DOMAIN rooms : rooms'[x] = rooms[x] \/ rooms'[x] = AfterPurge(rooms[x])
  BY ConnsDrawn DEF CreateRoom, GetRoom, ReserveWithOwner, Read, DInv
<1>3. \A x \in DOMAIN rooms : State(rooms'[x]) = State(rooms[x])
  BY <1>2, RoomParts, PurgeIsUnseen DEF DInv, SvInv
<1> QED
  BY <1>1, <1>3, QuietTold

LEMMA TimePassesTold ==
    ASSUME DInv, Outdate, UNCHANGED <<stage, to>>, TimePasses
    PROVE  TalkOK' /\ ToldOrOwed'
<1>1. pc' = pc /\ at' = at /\ previous' = previous /\ cancelled' = cancelled
  BY DEF TimePasses, handlerVars
<1>2. \A x \in DOMAIN rooms : State(rooms'[x]) = State(rooms[x])
  BY RoomParts, TickIsUnseen DEF DInv, SvInv, TimePasses, Tick
<1> QED
  BY <1>1, <1>2, QuietTold

\* A message that the room refuses shows nothing, and one that it takes is
\* announced.
LEMMA ServedTold ==
    ASSUME DInv, NEW c \in Conns, NEW r, NEW ok \in BOOLEAN,
           pc[c] = "serving", InRoom(at[c], r), UNCHANGED handlerVars,
           IF ok THEN ThenAnnounce(c) ELSE r = AfterPurge(MyRoom(c)) /\ Silently(c)
    PROVE  TalkOK' /\ ToldOrOwed'
<1>1. pc' = pc /\ at' = at /\ previous' = previous /\ cancelled' = cancelled
  BY DEF handlerVars
<1>2. at[c] \in DOMAIN rooms
  BY Placed DEF DInv, InRoomPhases
<1>3. /\ \A x \in DOMAIN rooms \ {at[c]} : rooms'[x] = rooms[x]
      /\ rooms'[at[c]] = r
  BY <1>2 DEF InRoom
<1>4. CASE ok
  <2>1. \A x \in DOMAIN rooms \ {at[c]} : State(rooms'[x]) = State(rooms[x])
    BY <1>3
  <2> QED
    BY <1>1, <1>4, <2>1, LoudTold
<1>5. CASE ~ ok
  <2>1. State(rooms'[at[c]]) = State(rooms[at[c]])
    BY <1>2, <1>3, <1>5, RoomParts, PurgeIsUnseen DEF DInv, SvInv, MyRoom
  <2> QED
    BY <1>1, <1>3, <1>5, <2>1, QuietTold DEF Silently
<1> QED
  BY <1>4, <1>5

LEMMA ServeTold ==
    ASSUME DInv, NEW c \in Conns,
           \/ \E v \in Cards \cup {None}, b \in BOOLEAN : ServeVote(c, v, b)
           \/ ServeSkip(c) \/ ServeReset(c)
    PROVE  TalkOK' /\ ToldOrOwed'
<1> DEFINE s == AfterPurge(MyRoom(c))
<1>1. ASSUME NEW v \in Cards \cup {None}, NEW b \in BOOLEAN, ServeVote(c, v, b)
      PROVE  TalkOK' /\ ToldOrOwed'
  <2> DEFINE r  == AfterVote(MyRoom(c), self[c], v, b)
             ok == MayVote(s, self[c]) /\ v \in Cards
  <2>1. ok \in BOOLEAN /\ (~ ok => r = s)
    BY DEF AfterVote
  <2>2. /\ pc[c] = "serving" /\ InRoom(at[c], r) /\ UNCHANGED handlerVars
        /\ IF ok THEN ThenAnnounce(c) ELSE Silently(c)
    BY <1>1 DEF ServeVote
  <2> HIDE DEF r, ok, s
  <2> QED
    BY <2>1, <2>2, ServedTold DEF s
<1>2. ASSUME ServeSkip(c)
      PROVE  TalkOK' /\ ToldOrOwed'
  <2> DEFINE r  == AfterSkipVote(MyRoom(c), self[c])
             ok == MayVote(s, self[c])
  <2>1. ok \in BOOLEAN /\ (~ ok => r = s)
    BY DEF AfterSkipVote, MayVote
  <2>2. /\ pc[c] = "serving" /\ InRoom(at[c], r) /\ UNCHANGED handlerVars
        /\ IF ok THEN ThenAnnounce(c) ELSE Silently(c)
    BY <1>2 DEF ServeSkip
  <2> HIDE DEF r, ok, s
  <2> QED
    BY <2>1, <2>2, ServedTold DEF s
<1>3. ASSUME ServeReset(c)
      PROVE  TalkOK' /\ ToldOrOwed'
  <2> DEFINE r  == AfterReset(MyRoom(c), self[c])
             ok == MayReset(s, self[c])
  <2>1. ~ ok => r = s
    BY DEF AfterReset
  <2>2. /\ pc[c] = "serving" /\ InRoom(at[c], r) /\ UNCHANGED handlerVars
        /\ IF ok THEN ThenAnnounce(c) ELSE Silently(c)
    BY <1>3 DEF ServeReset
  <2> HIDE DEF r, ok, s
  <2>3. CASE ok
    BY <2>2, <2>3, ServedTold
  <2>4. CASE ~ ok
    BY <2>1, <2>2, <2>4, ServedTold DEF s
  <2> QED
    BY <2>3, <2>4
<1> QED
  BY <1>1, <1>2, <1>3

LEMMA DepartTold ==
    ASSUME DInv, NEW c \in Conns, Depart(c)
    PROVE  TalkOK' /\ ToldOrOwed'
<1>1. /\ DeleteIfEmpty(at[c]) /\ Goto(c, "removed", "done") /\ ThenAnnounce(c)
      /\ UNCHANGED <<at, previous, cancelled>>
  BY DEF Depart, CleanUp
<1>2. \A x \in DOMAIN rooms : rooms'[x] = rooms[x] \/ rooms'[x] = AfterPurge(rooms[x])
  BY <1>1, ConnsDrawn DEF DeleteIfEmpty, DInv
<1>3. \A x \in DOMAIN rooms : State(rooms'[x]) = State(rooms[x])
  BY <1>2, RoomParts, PurgeIsUnseen DEF DInv, SvInv
<1>4. /\ pc[c] = "removed" /\ pc'[c] = "done"
      /\ \A d \in Conns \ {c} : pc'[d] = pc[d]
  BY <1>1, GotoFacts DEF DInv, Phases
<1> QED
  BY <1>1, <1>3, <1>4, LoudTold

\* The newcomer owes its room the first states.
LEMMA EnterTold ==
    ASSUME DInv, NEW c \in Conns, Enter(c)
    PROVE  TalkOK' /\ ToldOrOwed'
<1>1. /\ Goto(c, "registered", "serving")
      /\ cancelled' = cancelled \cup Closes(c)
      /\ previous' = [ previous EXCEPT ![c] = None ]
      /\ rooms' = rooms /\ at' = at
      /\ Talk(c, "quiet", "greeting") /\ Outdate /\ to' = to
  BY DEF Enter, ClosePrevious, registryVars
<1>2. /\ pc[c] = "registered" /\ pc'[c] = "serving"
      /\ \A d \in Conns \ {c} : pc'[d] = pc[d]
  BY <1>1, GotoFacts DEF DInv, Phases
<1>3. /\ stage[c] = "quiet" /\ stage'[c] = "greeting"
      /\ \A h \in Conns \ {c} : stage'[h] = stage[h]
      /\ TalkOK'
  BY <1>1 DEF Talk, DInv, TalkOK, Stages
<1>4. Announces(c)'
  BY <1>3 DEF Announces
<1>5. \A h \in Conns : pc[h] \in {"joined", "registered", "removed"} => Announces(h)'
  BY <1>2, <1>4 DEF Announces
<1>6. ASSUME NEW d \in Conns, NEW x \in Conns, pc[d] = "registered", previous[d] = x
      PROVE  BeingClosed(x)'
  <2>1. CASE d = c
    BY <1>1, <1>6, <2>1, NoneAssumption DEF Closes, BeingClosed
  <2>2. CASE d # c
    BY <1>1, <1>2, <1>6, <2>2 DEF BeingClosed
  <2> QED
    BY <2>1, <2>2
<1>7. \A d \in Conns : pc'[d] = "serving" => pc[d] = "serving" \/ Announces(d)'
  BY <1>2, <1>4
<1>8. \A d \in Conns \ Unmoved : FALSE
  BY <1>1 DEF Unmoved, MyRoom
<1>9. ToldOrOwed'
  BY <1>1, <1>3, <1>5, <1>6, <1>7, <1>8, NobodyForgotten
<1> QED
  BY <1>3, <1>9

\* A departure that the room accepts will be announced by the departed.
LEMMA LeaveTold ==
    ASSUME DInv, NEW c \in Conns, LeaveRoom(c), Silently(c)
    PROVE  TalkOK' /\ ToldOrOwed'
<1> DEFINE x == at[c]
<1>1. /\ pc[c] = "unregistered" /\ RemoveConnection(x, self[c], c)
      /\ UNCHANGED <<at, previous, cancelled>>
      /\ Outdate /\ UNCHANGED <<stage, to>>
  BY DEF LeaveRoom, Silently
<1>2. x \in DOMAIN rooms
  BY <1>1, Placed DEF DInv, InRoomPhases
<1>3. RoomOK(rooms[x], drawn) /\ HasFields(rooms[x])
  BY <1>2, RoomParts DEF DInv, SvInv
<1>4. /\ \A y \in DOMAIN rooms \ {x} : rooms'[y] = rooms[y]
      /\ rooms'[x] \in AfterRemoveConnection(rooms[x], self[c], c)
  BY <1>1, <1>2 DEF RemoveConnection
<1>5. CASE Removes(rooms[x], self[c], c)
  <2>1. Goto(c, "unregistered", "removed")
    BY <1>5 DEF LeaveRoom, MyRoom
  <2>2. pc'[c] = "removed" /\ \A d \in Conns \ {c} : pc'[d] = pc[d]
    BY <2>1, GotoFacts DEF DInv, Phases
  <2>3. Announces(c)' /\ at'[c] = x
    BY <1>1, <2>2 DEF Announces
  <2>4. \A d \in Conns \ Unmoved : at[d] = x
    <3>1. \A y \in DOMAIN rooms \ {x} : State(rooms'[y]) = State(rooms[y])
      BY <1>4
    <3> QED
      BY <3>1, ChangesAreSeen DEF DInv
  <2>5. \A h \in Conns : pc[h] \in {"joined", "registered", "removed"} => Announces(h)'
    BY <1>1, <2>2 DEF Announces
  <2>6. \A d, y \in Conns : pc[d] = "registered" /\ previous[d] = y => BeingClosed(y)'
    BY <1>1, <2>2 DEF BeingClosed
  <2>7. \A d \in Conns : pc'[d] = "serving" => pc[d] = "serving"
    BY <2>2
  <2>8. ToldOrOwed'
    BY <1>1, <2>3, <2>4, <2>5, <2>6, <2>7, NobodyForgotten
  <2> QED
    BY <1>1, <2>8 DEF DInv, TalkOK
<1>6. CASE ~ Removes(rooms[x], self[c], c)
  <2>1. Goto(c, "unregistered", "done")
    BY <1>6 DEF LeaveRoom, MyRoom
  <2>2. pc'[c] = "done" /\ \A d \in Conns \ {c} : pc'[d] = pc[d]
    BY <2>1, GotoFacts DEF DInv, Phases
  <2>3. rooms'[x] = AfterPurge(rooms[x])
    BY <1>4, <1>6 DEF AfterRemoveConnection
  <2>4. State(rooms'[x]) = State(rooms[x])
    BY <1>3, <2>3, PurgeIsUnseen
  <2>5. \A y \in DOMAIN rooms : State(rooms'[y]) = State(rooms[y])
    BY <1>4, <2>4
  <2> QED
    BY <1>1, <2>2, <2>5, QuietTold
<1> QED
  BY <1>5, <1>6

\* A join changes no room but the one it is accepted to.
LEMMA JoinTold ==
    ASSUME DInv, NEW c \in Conns, NEW id \in RoomIds, NEW q \in Request,
           JoinRoom(c, id, q), Silently(c)
    PROVE  TalkOK' /\ ToldOrOwed'
<1>1. /\ pc[c] = "accepted" /\ Join(id, c, q)
      /\ UNCHANGED <<previous, cancelled>>
      /\ Outdate /\ UNCHANGED <<stage, to>> /\ stage[c] = "quiet"
  BY DEF JoinRoom, Silently
<1>2. CASE JoinAccepted(id, q)
  <2>1. /\ Goto(c, "accepted", "joined")
        /\ at' = [ at EXCEPT ![c] = id ]
    BY <1>2 DEF JoinRoom
  <2>2. pc'[c] = "joined" /\ \A d \in Conns \ {c} : pc'[d] = pc[d]
    BY <2>1, GotoFacts DEF DInv, Phases
  <2>3. /\ at'[c] = id /\ \A d \in Conns \ {c} : at'[d] = at[d]
    BY <2>1 DEF DInv, SvInv, HandlersOK
  <2>4. \A y \in DOMAIN rooms \ {id} : rooms'[y] = rooms[y]
    BY <1>1, <1>2, AcceptedJoin DEF DInv
  <2>5. \A d \in Conns \ Unmoved : at[d] = id
    <3>1. \A y \in DOMAIN rooms \ {id} : State(rooms'[y]) = State(rooms[y])
      BY <2>4
    <3> QED
      BY <3>1, ChangesAreSeen DEF DInv
  <2>6. Announces(c)'
    BY <2>2 DEF Announces
  <2>7. \A h \in Conns : pc[h] \in {"joined", "registered", "removed"} => Announces(h)'
    BY <1>1, <2>2 DEF Announces
  <2>8. \A d, y \in Conns : pc[d] = "registered" /\ previous[d] = y => BeingClosed(y)'
    BY <1>1, <2>2 DEF BeingClosed
  <2>9. \A d \in Conns : pc'[d] = "serving" => pc[d] = "serving"
    BY <2>2
  <2>10. ToldOrOwed'
    BY <1>1, <2>3, <2>5, <2>6, <2>7, <2>8, <2>9, NobodyForgotten
  <2> QED
    BY <1>1, <2>10 DEF DInv, TalkOK
<1>3. CASE ~ JoinAccepted(id, q)
  <2>1. Goto(c, "accepted", "done") /\ at' = at
    BY <1>3 DEF JoinRoom
  <2>2. pc'[c] = "done" /\ \A d \in Conns \ {c} : pc'[d] = pc[d]
    BY <2>1, GotoFacts DEF DInv, Phases
  <2>3. \A y \in DOMAIN rooms : rooms'[y] = rooms[y] \/ rooms'[y] = AfterPurge(rooms[y])
    <3>1. CASE id \in live
      <4>1. JoinError(AfterPurge(rooms[id]), q) # "none"
        BY <1>3, <3>1 DEF JoinAccepted, JoinFound, JoinTarget
      <4>2. AfterAddConnection(rooms[id], c, q) = AfterPurge(rooms[id])
        BY <4>1 DEF AfterAddConnection, Admit
      <4> QED
        BY <1>1, <3>1, <4>2 DEF Join
    <3>2. CASE id \notin live
      BY <1>1, <1>3, <3>2 DEF Join
    <3> QED
      BY <3>1, <3>2
  <2>4. \A y \in DOMAIN rooms : State(rooms'[y]) = State(rooms[y])
    BY <2>3, RoomParts, PurgeIsUnseen DEF DInv, SvInv
  <2> QED
    BY <1>1, <2>1, <2>2, <2>4, QuietTold
<1> QED
  BY <1>2, <1>3

-----------------------------------------------------------------------------
(* The messages: a state that is read or sent on the way is the present one *)

\* No handler moves while messages go out.
LEMMA SendingKeeps ==
    ASSUME UNCHANGED vars
    PROVE  /\ pc' = pc /\ at' = at /\ previous' = previous /\ cancelled' = cancelled
           /\ \A c \in Conns : BeingClosed(c) => BeingClosed(c)'
<1>1. pc' = pc /\ at' = at /\ previous' = previous /\ cancelled' = cancelled
  BY DEF vars, handlerVars
<1> QED
  BY <1>1 DEF BeingClosed

\* The others go on as before, and k's own debts are looked at alone.
LEMMA OthersGoOn ==
    ASSUME DInv, NEW k \in Conns, UNCHANGED vars,
           told \subseteq told',
           \A h \in Conns \ {k} : /\ stage'[h] = stage[h] /\ to'[h] = to[h]
                                  /\ h \in fresh => h \in fresh',
           \A c \in Conns :
              pc[c] = "serving" /\ at[k] = at[c] /\ (Announces(k) \/ Brings(k, c)) =>
                 c \in told' \/ BeingClosed(c) \/ Announces(k)' \/ Brings(k, c)'
    PROVE  ToldOrOwed'
<1> SUFFICES ASSUME NEW c \in Conns, pc'[c] = "serving"
             PROVE  c \in told' \/ BeingClosed(c)' \/ IsOwed(c)'
  BY DEF ToldOrOwed
<1>1. /\ pc' = pc /\ at' = at
      /\ BeingClosed(c) => BeingClosed(c)'
  BY SendingKeeps
<1>2. ASSUME NEW h \in Conns, at[h] = at[c], Announces(h) \/ Brings(h, c)
      PROVE  c \in told' \/ BeingClosed(c)' \/ IsOwed(c)'
  <2>1. CASE h = k
    BY <1>1, <1>2, <2>1 DEF IsOwed
  <2>2. CASE h # k
    <3>1. Announces(h)' \/ Brings(h, c)'
      BY <1>1, <1>2, <2>2 DEF Announces, Brings
    <3> QED
      BY <1>1, <1>2, <3>1 DEF IsOwed
  <2> QED
    BY <2>1, <2>2
<1> QED
  BY <1>1, <1>2 DEF DInv, ToldOrOwed, IsOwed

LEMMA SnapshotTold ==
    ASSUME DInv, NEW c \in Conns, Snapshot(c)
    PROVE  TalkOK' /\ ToldOrOwed'
<1>1. /\ UNCHANGED vars /\ to' = to /\ told' = told /\ fresh' = fresh \cup {c}
      /\ stage' \in [ Conns -> Stages ]
      /\ stage'[c] \in {"handing", "collecting"}
      /\ \A h \in Conns \ {c} : stage'[h] = stage[h]
  BY DEF Snapshot, Talk, DInv, TalkOK, Stages
<1>2. \A d \in Conns : Announces(c)' \/ Brings(c, d)'
  BY <1>1 DEF Announces, Brings
<1>3. ToldOrOwed'
  BY <1>1, <1>2, OthersGoOn
<1> QED
  BY <1>1, <1>3 DEF DInv, TalkOK

LEMMA HandTold ==
    ASSUME DInv, NEW c \in Conns, Hand(c)
    PROVE  TalkOK' /\ ToldOrOwed'
<1>1. /\ UNCHANGED vars /\ to' = to /\ told \subseteq told' /\ fresh \ {c} \subseteq fresh'
      /\ stage' \in [ Conns -> Stages ]
      /\ stage'[c] = "announcing"
      /\ \A h \in Conns \ {c} : stage'[h] = stage[h]
  BY DEF Hand, Deliver, Forget, Talk, DInv, TalkOK, Stages
<1>2. Announces(c)'
  BY <1>1 DEF Announces
<1>3. ToldOrOwed'
  BY <1>1, <1>2, OthersGoOn
<1> QED
  BY <1>1, <1>3 DEF DInv, TalkOK

\* Whoever is served is among the senders that the hub yields, or is about to
\* be closed: nobody who is to be told is left out of the audience.
LEMMA AudienceFacts ==
    ASSUME SvInv, NEW k \in Conns
    PROVE  /\ Audience(k) \subseteq Conns
           /\ \A c \in Conns : pc[c] = "serving" /\ at[c] = at[k] =>
                 c \in Audience(k) \/ BeingClosed(c)
<1>1. Audience(k) \subseteq Conns
  BY ConnsDrawn DEF Audience, SvInv, HandlersOK
<1>2. ASSUME NEW c \in Conns, pc[c] = "serving", at[c] = at[k], ~ BeingClosed(c)
      PROVE  c \in Audience(k)
  <2> DEFINE key == <<at[c], self[c]>>
  <2>1. key \in DOMAIN hub /\ hub[key] = c
    BY <1>2 DEF SvInv, ReadersAreReached, BeingClosed
  <2>2. key[1] = at[k]
    BY <1>2
  <2> HIDE DEF key
  <2> QED
    BY <2>1, <2>2 DEF Audience
<1> QED
  BY <1>1, <1>2

LEMMA CollectTold ==
    ASSUME DInv, NEW c \in Conns, Collect(c)
    PROVE  TalkOK' /\ ToldOrOwed'
<1>1. /\ UNCHANGED vars /\ told' = told /\ fresh \ {c} \subseteq fresh'
      /\ stage[c] = "collecting"
      /\ stage'[c] = IF Audience(c) = {} THEN "quiet" ELSE "sending"
      /\ to'[c] = Audience(c)
      /\ \A h \in Conns \ {c} : stage'[h] = stage[h] /\ to'[h] = to[h]
      /\ stage'[c] = "sending" => fresh' = fresh
  BY DEF Collect, Forget, DInv, TalkOK
<1>2. TalkOK'
  BY AudienceFacts DEF Collect, DInv, TalkOK, Stages
<1>3. ASSUME NEW d \in Conns, pc[d] = "serving", at[c] = at[d],
             Announces(c) \/ Brings(c, d)
      PROVE  BeingClosed(d) \/ Announces(c)' \/ Brings(c, d)'
  <2>1. CASE d \in Audience(c)
    <3>1. stage'[c] = "sending" /\ d \in to'[c]
      BY <1>1, <2>1
    <3>2. CASE Announces(c)
      BY <1>1, <3>2, SendingKeeps DEF Announces
    <3>3. CASE Brings(c, d)
      BY <1>1, <3>1, <3>3 DEF Brings
    <3> QED
      BY <1>3, <3>2, <3>3
  <2>2. CASE d \notin Audience(c)
    BY <1>3, <2>2, AudienceFacts DEF DInv
  <2> QED
    BY <2>1, <2>2
<1>4. ToldOrOwed'
  BY <1>1, <1>3, OthersGoOn
<1> QED
  BY <1>2, <1>4

LEMMA SendTold ==
    ASSUME DInv, NEW c \in Conns, NEW d \in Conns, Send(c, d)
    PROVE  TalkOK' /\ ToldOrOwed'
<1>1. /\ UNCHANGED vars
      /\ stage[c] = "sending" /\ d \in to[c]
      /\ to'[c] = to[c] \ {d}
      /\ stage'[c] = IF to'[c] = {} THEN "quiet" ELSE stage[c]
      /\ \A h \in Conns \ {c} : stage'[h] = stage[h] /\ to'[h] = to[h]
      /\ fresh \ {c} \subseteq fresh'
      /\ stage'[c] = "sending" => fresh' = fresh
      /\ told \subseteq told' /\ (c \in fresh => d \in told')
  BY DEF Send, Deliver, Forget, DInv, TalkOK
<1>2. TalkOK'
  BY DEF Send, DInv, TalkOK, Stages
<1>3. ASSUME NEW e \in Conns, pc[e] = "serving", at[c] = at[e],
             Announces(c) \/ Brings(c, e)
      PROVE  e \in told' \/ Announces(c)' \/ Brings(c, e)'
  <2>1. CASE Announces(c)
    BY <1>1, <2>1, SendingKeeps DEF Announces
  <2>2. CASE Brings(c, e)
    <3>1. c \in fresh /\ e \in to[c]
      BY <1>1, <2>2 DEF Brings
    <3>2. CASE e = d
      BY <1>1, <3>1, <3>2
    <3>3. CASE e # d
      BY <1>1, <3>1, <3>3 DEF Brings
    <3> QED
      BY <3>2, <3>3
  <2> QED
    BY <1>3, <2>1, <2>2
<1>4. ToldOrOwed'
  BY <1>1, <1>3, OthersGoOn
<1> QED
  BY <1>2, <1>4

-----------------------------------------------------------------------------
(* The messages: the theorems *)

LEMMA InitDInv == DeliveryInit => DInv
<1> SUFFICES ASSUME DeliveryInit
             PROVE  DInv
  OBVIOUS
<1>1. SvInv
  BY InitSvInv DEF DeliveryInit
<1>2. \A c \in Conns : pc[c] = "idle"
  BY DEF DeliveryInit, Init
<1> QED
  BY <1>1, <1>2 DEF DInv, DeliveryInit, TalkOK, Stages, ToldOrOwed

LEMMA NextDInv == DInv /\ [DeliveryNext]_deliveryVars => DInv'
<1> SUFFICES ASSUME DInv, [DeliveryNext]_deliveryVars
             PROVE  TalkOK' /\ ToldOrOwed'
  BY ServiceHolds DEF DInv
<1>1. ASSUME NEW c \in Conns, AcceptConn(c)
      PROVE  TalkOK' /\ ToldOrOwed'
  BY <1>1, PhaseTold DEF AcceptConn, Silently
<1>2. ASSUME NEW c \in Conns, Enter(c)
      PROVE  TalkOK' /\ ToldOrOwed'
  BY <1>2, EnterTold
<1>3. ASSUME NEW c \in Conns, Depart(c)
      PROVE  TalkOK' /\ ToldOrOwed'
  BY <1>3, DepartTold
<1>4. ASSUME NEW c \in Conns, Sending(c)
      PROVE  TalkOK' /\ ToldOrOwed'
  BY <1>4, SnapshotTold, HandTold, CollectTold, SendTold DEF Sending
<1>5. ASSUME NEW c \in Conns, Silently(c),
             \/ JoinFails(c) \/ Register(c) \/ Refuse(c) \/ ReadFails(c) \/ Unregister(c)
      PROVE  TalkOK' /\ ToldOrOwed'
  BY <1>5, PhaseTold DEF Silently
<1>6. ASSUME NEW c \in Conns, LeaveRoom(c), Silently(c)
      PROVE  TalkOK' /\ ToldOrOwed'
  BY <1>6, LeaveTold
<1>7. ASSUME NEW c \in Conns, NEW id \in RoomIds, NEW q \in Request,
             JoinRoom(c, id, q), Silently(c)
      PROVE  TalkOK' /\ ToldOrOwed'
  BY <1>7, JoinTold
<1>8. ASSUME NEW c \in Conns,
             \/ \E v \in Cards \cup {None}, b \in BOOLEAN : ServeVote(c, v, b)
             \/ ServeSkip(c) \/ ServeReset(c)
      PROVE  TalkOK' /\ ToldOrOwed'
  BY <1>8, ServeTold
<1>9. ASSUME NEW c \in Conns, Outside(Disconnect(c))
      PROVE  TalkOK' /\ ToldOrOwed'
  BY <1>9, PhaseTold DEF Outside
<1>10. ASSUME NEW id \in RoomIds, Outside(CreateRoom(id)) \/ Outside(GetRoom(id))
       PROVE  TalkOK' /\ ToldOrOwed'
  BY <1>10, RequestTold DEF Outside
<1>11. CASE Outside(TimePasses)
  BY <1>11, TimePassesTold DEF Outside
<1>12. CASE UNCHANGED deliveryVars
  <2>1. /\ UNCHANGED vars /\ stage' = stage /\ to' = to /\ fresh' = fresh /\ told' = told
    BY <1>12 DEF deliveryVars, seenVars
  <2>2. pc' = pc /\ at' = at /\ previous' = previous /\ cancelled' = cancelled
    BY <2>1, SendingKeeps
  <2> QED
    BY <2>1, <2>2 DEF DInv, TalkOK, ToldOrOwed, BeingClosed, IsOwed, Announces, Brings
<1> QED
  BY <1>1, <1>2, <1>3, <1>4, <1>5, <1>6, <1>7, <1>8, <1>9, <1>10, <1>11, <1>12
  DEF DeliveryNext

(***************************************************************************)
(* The handlers with the messages they send take the steps of the handlers *)
(* without them: what is proved of Service holds while messages go out.    *)
(***************************************************************************)
THEOREM DeliveryImplementsService == DeliverySpec => Spec
<1>1. DeliveryInit => Init
  BY DEF DeliveryInit
<1> QED
  BY <1>1, ServiceSteps, PTL DEF DeliverySpec, Spec

\* The invariant holds of every state of the handlers and their messages.
THEOREM DeliveryInvariance == DeliverySpec => []DInv
BY InitDInv, NextDInv, PTL DEF DeliverySpec

(***************************************************************************)
(* When nothing is under way, everybody who is served has been sent the    *)
(* state of its room since it last changed: every change has an announcer, *)
(* which reads the state after it and copies the senders after that, and a *)
(* connection that is not among them is about to be closed.                *)
(***************************************************************************)
THEOREM NobodyMissesAChange == DeliverySpec => []EverybodyWasTold
<1>1. DInv => EverybodyWasTold
  <2> SUFFICES ASSUME DInv, AllQuiet, NEW c \in Conns, pc[c] = "serving"
               PROVE  c \in told
    BY DEF EverybodyWasTold
  <2>1. ~ BeingClosed(c)
    BY DEF AllQuiet, Settled, BeingClosed
  <2>2. ~ IsOwed(c)
    BY DEF AllQuiet, Settled, IsOwed, Announces, Brings
  <2> QED
    BY <2>1, <2>2 DEF DInv, ToldOrOwed
<1> QED
  BY <1>1, DeliveryInvariance, PTL

=============================================================================
