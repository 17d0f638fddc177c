------------------------------ MODULE Service ------------------------------
(***************************************************************************)
(* The WebSocket service: the handler that serves each connection (ws in   *)
(* backend/pkg/httpapi/server.go), the hub that knows the connection of    *)
(* each participant (backend/app/realtime/hub.go), and the registry and    *)
(* its rooms.  A handler is a goroutine; each of its calls into the hub,   *)
(* the registry or a room is atomic under that component's mutex, and the  *)
(* calls of different handlers interleave.                                 *)
(*                                                                         *)
(* A handler passes through these program counters:                        *)
(*                                                                         *)
(*   idle         the client has not connected                             *)
(*   accepted     it holds a slot and waits for the join message           *)
(*   joined       the room has taken it in                                 *)
(*   registered   the hub has too, and told it whose place it took         *)
(*   serving      it reads messages                                        *)
(*   closing      the deferred cleanup has begun                           *)
(*   unregistered the hub has forgotten the connection                     *)
(*   removed      the room has disconnected the participant                *)
(*   done         the slot is free again                                   *)
(***************************************************************************)
EXTENDS Registry

CONSTANT MaxConnections     \* cap(connectionSlots)

ASSUME ServiceAssumption ==
    /\ MaxConnections \in Nat \ {0}
    /\ None \notin RoomIds

VARIABLES
    pc,         \* where the handler of a connection is
    at,         \* the room it joined
    self,       \* the participant it serves
    previous,   \* the connection it replaced in the hub and has to close
    cancelled,  \* the connections whose context is cancelled or whose peer left
    hub         \* from a room and a participant to the connection to send to

handlerVars == <<pc, at, self, previous, cancelled, hub>>
vars == <<registryVars, handlerVars>>

Phases == { "idle", "accepted", "joined", "registered", "serving",
            "closing", "unregistered", "removed", "done" }

Init ==
    /\ RegistryInit
    /\ pc = [ c \in Conns |-> "idle" ]
    /\ at = [ c \in Conns |-> None ]
    /\ self = [ c \in Conns |-> None ]
    /\ previous = [ c \in Conns |-> None ]
    /\ cancelled = {}
    /\ hub = EmptyFcn

Goto(c, from, to) ==
    /\ pc[c] = from
    /\ pc' = [ pc EXCEPT ![c] = to ]

\* The connections that hold a slot.
InFlight == { c \in Conns : pc[c] \notin {"idle", "done"} }

MyRoom(c) == rooms[at[c]]

-----------------------------------------------------------------------------
(* Requests over HTTP *)

\* POST /api/rooms: the owner token is always minted.
CreateRoom(id) ==
    /\ ReserveWithOwner(id, OwnerToken)
    /\ UNCHANGED handlerVars

\* GET /api/rooms/{id}
GetRoom(id) ==
    /\ Read(id)
    /\ UNCHANGED handlerVars

-----------------------------------------------------------------------------
(* The handler of a connection *)

\* The upgrade, when there is a slot. Without one the client is told so.
Accept(c) ==
    /\ Goto(c, "idle", "accepted")
    /\ Cardinality(InFlight) < MaxConnections
    /\ UNCHANGED <<registryVars, at, self, previous, cancelled, hub>>

\* The join message is late, is malformed or never comes.
JoinFails(c) ==
    /\ Goto(c, "accepted", "done")
    /\ UNCHANGED <<registryVars, at, self, previous, cancelled, hub>>

JoinRoom(c, id, q) ==
    /\ pc[c] = "accepted"
    /\ Join(id, c, q)
    /\ IF JoinAccepted(id, q)
       THEN /\ Goto(c, "accepted", "joined")
            /\ at' = [ at EXCEPT ![c] = id ]
            /\ self' = [ self EXCEPT ![c] = JoinsAs(JoinTarget(id), c, q) ]
       ELSE /\ Goto(c, "accepted", "done")
            /\ UNCHANGED <<at, self>>
    /\ UNCHANGED <<previous, cancelled, hub>>

\* Hub.AddConnection: the newest connection of a participant takes its place.
Register(c) ==
    LET key == <<at[c], self[c]>> IN
    /\ Goto(c, "joined", "registered")
    /\ hub' = Put(hub, key, c)
    /\ previous' = [ previous EXCEPT ![c] = IF key \in DOMAIN hub THEN hub[key] ELSE None ]
    /\ UNCHANGED <<registryVars, at, self, cancelled>>

\* Mutant: previousClose is called when there is none.
ClosesAlways(c) == {previous[c]}

\* The connection to close, if the hub had one.
Closes(c) == {previous[c]} \ {None}

\* previousClose, then the first messages to the client.
ClosePrevious(c) ==
    /\ Goto(c, "registered", "serving")
    /\ cancelled' = cancelled \cup Closes(c)
    /\ previous' = [ previous EXCEPT ![c] = None ]
    /\ UNCHANGED <<registryVars, at, self, hub>>

\* A message that the handler acts on. One that was read before the context
\* was cancelled is served all the same.
Serve(c) ==
    /\ pc[c] = "serving"
    /\ LET r == MyRoom(c)  i == self[c] IN
       \/ \E value \in Cards \cup {None}, submit \in BOOLEAN :
             InRoom(at[c], AfterVote(r, i, value, submit))
       \/ InRoom(at[c], AfterSkipVote(r, i))
       \/ InRoom(at[c], AfterReset(r, i))
    /\ UNCHANGED handlerVars

\* A message the handler refuses: invalid, or one too many for its limiter.
Refuse(c) ==
    /\ Goto(c, "serving", "closing")
    /\ UNCHANGED <<registryVars, at, self, previous, cancelled, hub>>

\* Reading fails on a cancelled context or a closed connection.
ReadFails(c) ==
    /\ c \in cancelled
    /\ Goto(c, "serving", "closing")
    /\ UNCHANGED <<registryVars, at, self, previous, cancelled, hub>>

\* Mutant: the hub forgets nobody.
HubKeeping(key, c) == hub

\* Mutant: the participant's entry goes, whichever connection it holds.
HubWithoutParticipant(key, c) == Drop(hub, key)

\* Hub.RemoveConnection, which only removes the connection's own entry.
HubWithout(key, c) ==
    IF key \in DOMAIN hub /\ hub[key] = c THEN Drop(hub, key) ELSE hub

\* Mutant: a connection that the hub no longer knows leaves it at that.
UnregisterAndEnd(c) ==
    LET key == <<at[c], self[c]>> IN
    /\ IF key \in DOMAIN hub /\ hub[key] = c
       THEN Goto(c, "closing", "unregistered")
       ELSE Goto(c, "closing", "done")
    /\ hub' = HubWithout(key, c)
    /\ UNCHANGED <<registryVars, at, self, previous, cancelled>>

Unregister(c) ==
    /\ Goto(c, "closing", "unregistered")
    /\ hub' = HubWithout(<<at[c], self[c]>>, c)
    /\ UNCHANGED <<registryVars, at, self, previous, cancelled>>

\* Room.RemoveConnection. If it is not for this connection the handler ends.
LeaveRoom(c) ==
    /\ pc[c] = "unregistered"
    /\ RemoveConnection(at[c], self[c], c)
    /\ IF Removes(MyRoom(c), self[c], c)
       THEN Goto(c, "unregistered", "removed")
       ELSE Goto(c, "unregistered", "done")
    /\ UNCHANGED <<at, self, previous, cancelled, hub>>

\* Registry.DeleteIfEmpty, then participant_left to whoever is still there.
CleanUp(c) ==
    /\ Goto(c, "removed", "done")
    /\ DeleteIfEmpty(at[c])
    /\ UNCHANGED <<at, self, previous, cancelled, hub>>

-----------------------------------------------------------------------------
(* The network and the clock *)

\* The peer leaves, a ping fails, or a broadcast finds the queue full.
Disconnect(c) ==
    /\ pc[c] \in {"joined", "registered", "serving"}
    /\ c \notin cancelled
    /\ cancelled' = cancelled \cup {c}
    /\ UNCHANGED <<registryVars, pc, at, self, previous, hub>>

TimePasses ==
    /\ Tick
    /\ UNCHANGED handlerVars

-----------------------------------------------------------------------------

Step(c) ==
    \/ JoinFails(c)
    \/ Register(c)
    \/ ClosePrevious(c)
    \/ ReadFails(c)
    \/ Unregister(c)
    \/ LeaveRoom(c)
    \/ CleanUp(c)

Next ==
    \/ \E id \in RoomIds : CreateRoom(id) \/ GetRoom(id)
    \/ \E c \in Conns : Accept(c) \/ Serve(c) \/ Refuse(c) \/ Disconnect(c) \/ Step(c)
    \/ \E c \in Conns, id \in RoomIds, q \in Request :
          q.token \in drawn \cup {None} /\ JoinRoom(c, id, q)
    \/ TimePasses

Spec == Init /\ [][Next]_vars

\* A handler does not stop between two of its calls: nothing it waits for is
\* without a timeout but the next message of its client.
Fairness == \A c \in Conns : WF_vars(Step(c))

FairSpec == Spec /\ Fairness

-----------------------------------------------------------------------------
(* Safety *)

\* A handler between its join and the end of its cleanup in the room.
InRoomPhases == {"joined", "registered", "serving", "closing", "unregistered"}

\* Every handler waits for a client, or has ended.
Settled ==
    \A c \in Conns : /\ pc[c] \in {"idle", "accepted", "serving", "done"}
                     /\ pc[c] = "serving" => c \notin cancelled

(***************************************************************************)
(* The handlers' variables have their types, and a handler has a room and  *)
(* a participant from its join on.                                         *)
(***************************************************************************)
ServiceTypeOK ==
    /\ RegistryTypeOK
    /\ pc \in [ Conns -> Phases ]
    /\ at \in [ Conns -> DOMAIN rooms \cup {None} ]
    /\ self \in [ Conns -> drawn \cup {None} ]
    /\ previous \in [ Conns -> Conns \cup {None} ]
    /\ cancelled \subseteq drawn
    /\ hub \in [ DOMAIN hub -> Conns ]
    /\ \A c \in Conns : pc[c] \in InRoomPhases \cup {"removed"} =>
                            at[c] # None /\ self[c] # None

(***************************************************************************)
(* A connected participant is served: the connection it holds in the room  *)
(* belongs to a handler of that room and that participant which has not    *)
(* yet cleaned up. Nobody is left behind by reconnections and cleanups     *)
(* that overlap, in whatever order they reach the room.                    *)
(***************************************************************************)
ConnectedAreServed ==
    \A id \in DOMAIN rooms : \A i \in Connected(rooms[id]) :
        LET c == rooms[id].participants[i].conn IN
        pc[c] \in InRoomPhases /\ at[c] = id /\ self[c] = i

\* The hub sends to handlers that run.
HubEntriesAreServed ==
    \A key \in DOMAIN hub :
        LET c == hub[key] IN
        pc[c] \in {"registered", "serving", "closing"} /\ key = <<at[c], self[c]>>

\* The hub reaches every connected participant on the very connection the
\* room has for it.
EverybodyIsReached ==
    Settled => \A id \in DOMAIN rooms : \A i \in Connected(rooms[id]) :
        /\ <<id, i>> \in DOMAIN hub
        /\ hub[<<id, i>>] = rooms[id].participants[i].conn

(***************************************************************************)
(* Although entries of one participant replace each other while their      *)
(* handlers clean up, an entry never outlives its handler, and when        *)
(* nothing is under way none is missing.                                   *)
(***************************************************************************)
HubAgrees == HubEntriesAreServed /\ EverybodyIsReached

(***************************************************************************)
(* A room that is live and empty is about to be deleted: some handler of   *)
(* it has left the room and has its DeleteIfEmpty ahead. No departure,     *)
(* return or failed join leaks an empty room.                              *)
(***************************************************************************)
EmptyRoomsAreBeingDeleted ==
    \A id \in live : IsEmpty(rooms[id]) =>
        \E c \in Conns : pc[c] = "removed" /\ at[c] = id

(***************************************************************************)
(* A participant is disconnected by the cleanup of the connection it       *)
(* holds, and by no older connection of it whose cleanup comes late.       *)
(***************************************************************************)
OnlyItsOwnCleanupDisconnects ==
    [][ \A id \in DOMAIN rooms : \A i \in Connected(rooms[id]) \ Connected(rooms'[id]) :
          LET c == rooms[id].participants[i].conn IN
          pc[c] = "unregistered" /\ pc'[c] = "removed" ]_vars

(***************************************************************************)
(* "Rooms disappear automatically when their final participant             *)
(* disconnects" (README.md): an empty room goes, unless somebody comes     *)
(* back before.                                                            *)
(***************************************************************************)
EmptyRoomsDisappear ==
    \A id \in RoomIds :
        (id \in live /\ IsEmpty(rooms[id])) ~> (id \notin live \/ ~ IsEmpty(rooms[id]))

(***************************************************************************)
(* A connection whose peer left, or which was replaced, ends: its handler  *)
(* frees its slot, and neither the hub nor a room holds the connection.    *)
(***************************************************************************)
CancelledConnectionsEnd ==
    \A c \in Conns :
        (c \in cancelled) ~>
            /\ pc[c] = "done"
            /\ \A key \in DOMAIN hub : hub[key] # c
            /\ \A id \in DOMAIN rooms : \A i \in Connected(rooms[id]) :
                    rooms[id].participants[i].conn # c

-----------------------------------------------------------------------------
(* The rooms of the service, each as Room and Round have it *)

\* The room as the next client to join it finds it.
Seen(id) == IF id \in DOMAIN rooms THEN rooms[id] ELSE NewRoom(None)

Rounds(id) == INSTANCE Round WITH
    Players      <- Conns,
    table        <- TableOf(Seen(id)),
    revealed     <- Seen(id).revealed,
    average      <- Seen(id).average,
    roleAverages <- Seen(id).roleAverages

(***************************************************************************)
(* Every room plays its rounds as Round has them, whatever the handlers of *)
(* this room and of the others do, and however the registry comes to make  *)
(* it, purge it and drop it.                                               *)
(***************************************************************************)
EveryRoomIsARound == \A id \in RoomIds : Rounds(id)!Spec

(***************************************************************************)
(* However many handlers and rooms there are, every room has one lead at   *)
(* most, tokens and connections that open one identity each, votes that    *)
(* agree with its participants, no card shown that was not submitted, and  *)
(* no more participants than its capacity.                                 *)
(***************************************************************************)
RoomsAreInOrder ==
    \A id \in DOMAIN rooms :
        LET r == rooms[id] IN
        /\ LeadAgrees(r) /\ IndexAgrees(r) /\ ConnsAgree(r)
        /\ VotesAgree(r) /\ CardsAgree(r)
        /\ Cardinality(Present(r)) <= MaxParticipants

(***************************************************************************)
(* In every room a result is that of the cards turned over, it stands      *)
(* until the lead resets the round, and identities are kept.               *)
(***************************************************************************)
RoomsKeepTheirWord ==
    [][ \A id \in DOMAIN rooms :
          LET r == rooms[id]  s == rooms'[id] IN
          /\ ~ r.revealed /\ s.revealed => Honest(s)
          /\ r.revealed /\ s.revealed => Stands(s, r)
          /\ KeepsIdentity(s, r) ]_vars

(***************************************************************************)
(* What a room shows changes through those who are in it: a handler that   *)
(* joins it, serves a message in it or leaves it.  Purges and reads, the   *)
(* clock, joins that fail and all that happens in other rooms are unseen.  *)
(***************************************************************************)
RoomsChangeFromWithin ==
    [][ \A id \in DOMAIN rooms : State(rooms'[id]) # State(rooms[id]) =>
          \E c \in Conns :
              \/ pc[c] = "accepted" /\ pc'[c] = "joined" /\ at'[c] = id
              \/ pc[c] = "serving" /\ at[c] = id
              \/ pc[c] = "unregistered" /\ pc'[c] = "removed" /\ at[c] = id ]_vars

\* The hub as Directory has it: its entries, and the connections it was given.
HubKeys == RoomIds \X Conns
Entries == [ k \in HubKeys |-> IF k \in DOMAIN hub THEN hub[k] ELSE None ]
Added   == { c \in Conns : pc[c] \in {"registered", "serving", "closing"} }

Dir == INSTANCE Directory WITH Keys <- HubKeys, hub <- Entries, live <- Added

(***************************************************************************)
(* The hub that the handlers see is the Directory that Hub implements: the *)
(* newest connection of a participant, until that very connection leaves.  *)
(***************************************************************************)
HubIsADirectory == Dir!Spec

-----------------------------------------------------------------------------
(* What the repository says and the code does not do *)

(***************************************************************************)
(* "remaining participant should become lead" (room_test.go) and           *)
(* "lead-controlled reset" (README.md): once everything has settled, a     *)
(* room with somebody in it has a lead, who can reset it.                  *)
(***************************************************************************)
OccupiedRoomsHaveALead ==
    Settled => \A id \in live : Connected(rooms[id]) # {} => Leads(rooms[id]) # {}

(***************************************************************************)
(* A connection is closed when it is "replaced by a newer connection"      *)
(* (server.go): once everything has settled, whoever is still served is    *)
(* the participant's connection in the room.                               *)
(***************************************************************************)
ServedAreConnected ==
    Settled => \A c \in Conns : pc[c] = "serving" =>
        /\ self[c] \in Connected(MyRoom(c))
        /\ MyRoom(c).participants[self[c]].conn = c

=============================================================================
