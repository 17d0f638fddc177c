-------------------------------- MODULE Hub --------------------------------
(***************************************************************************)
(* The hub (backend/app/realtime/hub.go): the connection of each           *)
(* participant of each room, kept in a map of maps under a read-write      *)
(* mutex.  Every connection that is added gets a token, and only the holder *)
(* of the token of an entry removes it.  Broadcast copies the senders of a *)
(* room under the read lock and calls them after it.                       *)
(*                                                                         *)
(* Everything between Lock and Unlock is one step.  A caller that waits for *)
(* Lock keeps new readers out, as Go's RWMutex does.                       *)
(***************************************************************************)
EXTENDS Integers, FiniteSets

CONSTANTS
    RoomIds, Participants,
    Conns,      \* each is added once: the Sender and the close of one caller
    Broadcasts, \* the calls of Broadcast
    None

ASSUME NoneAssumption == None \notin Conns

VARIABLES
    rooms,      \* h.rooms
    nextToken,
    stage,      \* of a connection: "new", "adding", "in", "removing", "out"
    place,      \* the room and the participant it is added for
    closable,   \* it was added with a close function
    token,      \* what AddConnection returned, 0 before
    owes,       \* the connection it replaced and still has to close, or None
    closed,     \* the connections whose close was called
    removed,    \* those whose entry Remove took out
    casts       \* of a broadcast: where it is, the senders left, the one that runs

callers == <<stage, place, closable, token, owes>>
vars == <<rooms, nextToken, callers, closed, removed, casts>>

Keys == RoomIds \X Participants

NoRooms == [ r \in {} |-> {} ]

Init ==
    /\ rooms = NoRooms
    /\ nextToken = 0
    /\ stage = [ c \in Conns |-> "new" ]
    /\ place \in [ Conns -> Keys ]
    /\ closable \in [ Conns -> BOOLEAN ]
    /\ token = [ c \in Conns |-> 0 ]
    /\ owes = [ c \in Conns |-> None ]
    /\ closed = {}
    /\ removed = {}
    /\ casts = [ b \in Broadcasts |-> [ at |-> "new", senders |-> {}, calling |-> None ] ]

(***************************************************************************)
(* The map of maps                                                         *)
(***************************************************************************)
Has(k) == k[1] \in DOMAIN rooms /\ k[2] \in DOMAIN rooms[k[1]]
Entry(k) == rooms[k[1]][k[2]]

Put(k, e) ==
    LET inner == IF k[1] \in DOMAIN rooms THEN rooms[k[1]] ELSE [ p \in {} |-> e ]
    IN  [ r \in DOMAIN rooms \cup {k[1]} |->
            IF r # k[1] THEN rooms[r]
            ELSE [ p \in DOMAIN inner \cup {k[2]} |-> IF p = k[2] THEN e ELSE inner[p] ] ]

\* Mutant: a room stays in the map when its last connection is gone.
DropKeepingRoom(k) ==
    [ r \in DOMAIN rooms |-> [ p \in DOMAIN rooms[r] \ (IF r = k[1] THEN {k[2]} ELSE {}) |-> rooms[r][p] ] ]

\* delete, and the room with its last participant.
Drop(k) ==
    LET left == IF k[1] \in DOMAIN rooms THEN DOMAIN rooms[k[1]] \ {k[2]} ELSE {}
    IN  [ r \in (IF left = {} THEN DOMAIN rooms \ {k[1]} ELSE DOMAIN rooms) |->
            [ p \in (IF r = k[1] THEN left ELSE DOMAIN rooms[r]) |-> rooms[r][p] ] ]

(***************************************************************************)
(* The mutex                                                               *)
(***************************************************************************)
\* Mutant: the read lock is given back when Broadcast returns.
HoldsUntilDone(b) == casts[b].at \in {"copied", "sending"}

Holds(b) == casts[b].at = "copied"

NoReader == \A b \in Broadcasts : ~Holds(b)
NoWriterWaits == \A c \in Conns : stage[c] \notin {"adding", "removing"}

(***************************************************************************)
(* Add and AddConnection                                                   *)
(***************************************************************************)
CallAdd(c) ==
    /\ stage[c] = "new"
    /\ stage' = [ stage EXCEPT ![c] = "adding" ]
    /\ UNCHANGED <<rooms, nextToken, place, closable, token, owes, closed, removed, casts>>

\* Mutant: the map is read after it was written.
PreviousOfNew(c) == c

Previous(c) == IF Has(place[c]) THEN Entry(place[c]).conn ELSE None

\* Add gives no close function.
AddConnection(c) ==
    /\ stage[c] = "adding" /\ NoReader
    /\ nextToken' = nextToken + 1
    /\ rooms' = Put(place[c], [ conn |-> c, token |-> nextToken' ])
    /\ token' = [ token EXCEPT ![c] = nextToken' ]
    /\ LET previous == Previous(c)
       IN  owes' = [ owes EXCEPT ![c] =
                        IF previous # None /\ closable[previous] THEN previous ELSE None ]
    /\ stage' = [ stage EXCEPT ![c] = "in" ]
    /\ UNCHANGED <<place, closable, closed, removed, casts>>

\* Add calls the close function itself, ws does when AddConnection returns it.
ClosePrevious(c) ==
    /\ owes[c] # None
    /\ closed' = closed \cup {owes[c]}
    /\ owes' = [ owes EXCEPT ![c] = None ]
    /\ UNCHANGED <<rooms, nextToken, stage, place, closable, token, removed, casts>>

(***************************************************************************)
(* RemoveConnection and Remove                                             *)
(***************************************************************************)
CallRemove(c) ==
    /\ stage[c] = "in" /\ owes[c] = None
    /\ stage' = [ stage EXCEPT ![c] = "removing" ]
    /\ UNCHANGED <<rooms, nextToken, place, closable, token, owes, closed, removed, casts>>

\* Mutant: whoever is there is removed.
IsCurrentAny(c) == Has(place[c])

IsCurrent(c) == Has(place[c]) /\ Entry(place[c]).token = token[c]

RemoveConnection(c) ==
    /\ stage[c] = "removing" /\ NoReader
    /\ rooms' = IF IsCurrent(c) THEN Drop(place[c]) ELSE rooms
    /\ stage' = [ stage EXCEPT ![c] = "out" ]
    /\ UNCHANGED <<nextToken, place, closable, token, owes, closed, removed, casts>>

\* No handler calls Remove: the connection it takes out is not closed.
Remove(k) ==
    /\ NoReader /\ Has(k)
    /\ removed' = removed \cup {Entry(k).conn}
    /\ rooms' = Drop(k)
    /\ UNCHANGED <<nextToken, callers, closed, casts>>

(***************************************************************************)
(* Broadcast                                                               *)
(***************************************************************************)
Copy(b, r) ==
    /\ casts[b].at = "new" /\ NoWriterWaits
    /\ LET senders == { c \in Conns : /\ place[c][1] = r /\ Has(place[c])
                                      /\ Entry(place[c]).conn = c }
       IN  casts' = [ casts EXCEPT ![b] =
                        [ at |-> "copied", senders |-> senders, calling |-> None ] ]
    /\ UNCHANGED <<rooms, nextToken, callers, closed, removed>>

RUnlock(b) ==
    /\ casts[b].at = "copied"
    /\ casts' = [ casts EXCEPT ![b].at = "sending" ]
    /\ UNCHANGED <<rooms, nextToken, callers, closed, removed>>

Send(b, c) ==
    /\ casts[b].at = "sending" /\ casts[b].calling = None /\ c \in casts[b].senders
    /\ casts' = [ casts EXCEPT ![b].calling = c, ![b].senders = @ \ {c} ]
    /\ UNCHANGED <<rooms, nextToken, callers, closed, removed>>

\* A sender whose client is slow closes the connection, which takes a while.
SenderReturns(b) ==
    /\ casts[b].calling # None
    /\ casts' = [ casts EXCEPT ![b].calling = None ]
    /\ UNCHANGED <<rooms, nextToken, callers, closed, removed>>

BroadcastReturns(b) ==
    /\ casts[b].at = "sending" /\ casts[b].calling = None /\ casts[b].senders = {}
    /\ casts' = [ casts EXCEPT ![b].at = "done" ]
    /\ UNCHANGED <<rooms, nextToken, callers, closed, removed>>

Next ==
    \/ \E c \in Conns :
         \/ CallAdd(c) \/ AddConnection(c) \/ ClosePrevious(c)
         \/ CallRemove(c) \/ RemoveConnection(c)
    \/ \E k \in Keys : Remove(k)
    \/ \E b \in Broadcasts, r \in RoomIds : Copy(b, r)
    \/ \E b \in Broadcasts, c \in Conns : Send(b, c)
    \/ \E b \in Broadcasts : RUnlock(b) \/ SenderReturns(b) \/ BroadcastReturns(b)

Spec == Init /\ [][Next]_vars

\* Who has asked for the lock gets it once it is free, and the few lines under
\* it end.  Nothing is said of a sender: it may never return.
Fairness ==
    /\ \A c \in Conns : WF_vars(AddConnection(c)) /\ WF_vars(RemoveConnection(c))
    /\ \A b \in Broadcasts : WF_vars(RUnlock(b))

FairSpec == Spec /\ Fairness

(***************************************************************************)
(* Properties                                                              *)
(***************************************************************************)
\* The maps have the types of the source, tokens are dealt out in order, and
\* no room is kept without a connection: rooms come and go and the map would
\* grow for ever (hub.go, Remove and RemoveConnection).
HubTypeOK ==
    /\ DOMAIN rooms \subseteq RoomIds
    /\ \A r \in DOMAIN rooms :
         /\ DOMAIN rooms[r] # {} /\ DOMAIN rooms[r] \subseteq Participants
         /\ \A p \in DOMAIN rooms[r] : rooms[r][p] \in [ conn : Conns, token : 1..nextToken ]
    /\ nextToken \in Nat
    /\ token \in [ Conns -> 0..nextToken ]
    /\ stage \in [ Conns -> {"new", "adding", "in", "removing", "out"} ]
    /\ place \in [ Conns -> Keys ]
    /\ closable \in [ Conns -> BOOLEAN ]
    /\ owes \in [ Conns -> Conns \cup {None} ]
    /\ closed \subseteq Conns /\ removed \subseteq Conns
    /\ casts \in [ Broadcasts -> [ at : {"new", "copied", "sending", "done"},
                                   senders : SUBSET Conns, calling : Conns \cup {None} ] ]

\* The hub as Service has it: a flat map that compares connections.
Flat == [ k \in Keys |-> IF Has(k) THEN Entry(k).conn ELSE None ]
Live == { c \in Conns : stage[c] \in {"in", "removing"} }

Dir == INSTANCE Directory WITH hub <- Flat, live <- Live

\* The map of maps with its tokens does what Directory says: a connection that
\* was replaced and cleans up late never takes out the one that replaced it,
\* and the departure of one participant or room leaves the others alone
\* (hub.go, RemoveConnection).
IsDirectory == Dir!Spec

\* A connection that is served and no longer in the hub was closed, or the one
\* that replaced it is about to close it: it does not linger, deaf, for a
\* client that believes it is in the room.  And no other is closed (hub.go,
\* AddConnection; server.go, ws after AddConnection).
Doomed(c) == c \in closed \/ \E d \in Conns : owes[d] = c

ReplacedAreClosed ==
    \A c \in Conns :
        /\ Doomed(c) => Flat[place[c]] # c
        /\ c \in Live /\ closable[c] /\ Flat[place[c]] # c => Doomed(c) \/ c \in removed

\* A sender that never returns keeps nobody from joining or leaving
\* (hub.go, Broadcast: the read lock is given back before the senders run).
SlowSendersBlockNobody ==
    \A c \in Conns :
        /\ stage[c] = "adding" ~> stage[c] = "in"
        /\ stage[c] = "removing" ~> stage[c] = "out"
=============================================================================
