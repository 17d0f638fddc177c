------------------------------ MODULE Delivery ------------------------------
(***************************************************************************)
(* What the participants of a room get to see: the handlers of Service     *)
(* with the messages they send (ws in backend/pkg/httpapi/server.go and    *)
(* Hub.Broadcast in backend/app/realtime/hub.go).                          *)
(*                                                                         *)
(* A handler that has changed its room reads the state of the room, copies *)
(* the senders of the hub and calls them one after the other.  These are   *)
(* separate steps, between which other handlers run; the handler itself    *)
(* reads no further message before it is through:                          *)
(*                                                                         *)
(*   quiet        it sends nothing                                         *)
(*   greeting     it owes its own client the first state                   *)
(*   handing      it has read the state for its own client                 *)
(*   announcing   it owes the room the new state                           *)
(*   collecting   it has read the state for the room                       *)
(*   sending      it has copied the senders of the hub                     *)
(*                                                                         *)
(* Every message carries the whole state of the room, and all that matters *)
(* here is whether that is still the present state.  A message counts as   *)
(* seen once it is in the queue of its connection: Session says how it     *)
(* goes on from there.  A queue that refuses it is a Disconnect of its     *)
(* connection.                                                             *)
(***************************************************************************)
EXTENDS Service

VARIABLES
    stage,      \* how far the handler of a connection is with its messages
    to,         \* the connections that it has still to call
    fresh,      \* the handlers that hold the present state of their room
    told,       \* the connections that were sent the present state
    current     \* those that were sent nothing else after it

seenVars == <<fresh, told, current>>
deliveryVars == <<vars, stage, to, seenVars>>

Stages == {"quiet", "greeting", "handing", "announcing", "collecting", "sending"}

DeliveryInit ==
    /\ Init
    /\ stage = [ c \in Conns |-> "quiet" ]
    /\ to = [ c \in Conns |-> {} ]
    /\ fresh = {}
    /\ told = {}
    /\ current = {}

\* The connections whose room looks the same after the step.
Unmoved == { c \in Conns : at[c] # None => State(rooms'[at[c]]) = State(MyRoom(c)) }

\* A state that has been read or sent is out of date when the room changes.
Outdate ==
    /\ fresh' = fresh \cap Unmoved
    /\ told' = told \cap Unmoved
    /\ current' = current \cap Unmoved

Talk(c, from, next) ==
    /\ stage[c] = from
    /\ stage' = [ stage EXCEPT ![c] = next ]

\* A step of the service that sends nothing, by a handler that is quiet.
Silently(c) ==
    /\ stage[c] = "quiet"
    /\ Outdate
    /\ UNCHANGED <<stage, to>>

\* One after which the handler of c owes the room the new state.
ThenAnnounce(c) ==
    /\ Talk(c, "quiet", "announcing")
    /\ Outdate
    /\ UNCHANGED to

-----------------------------------------------------------------------------
(* The steps of Service *)

\* The slot of a handler that still sends is not free.
Busy == InFlight \cup { c \in Conns : stage[c] # "quiet" }

AcceptConn(c) == Cardinality(Busy) < MaxConnections /\ Accept(c) /\ Silently(c)

\* The joiner replaces its predecessor, then its own client comes first.
Enter(c) ==
    /\ ClosePrevious(c)
    /\ Talk(c, "quiet", "greeting")
    /\ Outdate
    /\ UNCHANGED to

\* A message is served: a refused one is not announced.
ServeVote(c, value, submit) ==
    LET s == AfterPurge(MyRoom(c))
        ok == MayVote(s, self[c]) /\ value \in Cards IN
    /\ pc[c] = "serving"
    /\ InRoom(at[c], AfterVote(MyRoom(c), self[c], value, submit))
    /\ IF ok THEN ThenAnnounce(c) ELSE Silently(c)
    /\ UNCHANGED handlerVars

ServeSkip(c) ==
    /\ pc[c] = "serving"
    /\ InRoom(at[c], AfterSkipVote(MyRoom(c), self[c]))
    /\ IF MayVote(AfterPurge(MyRoom(c)), self[c]) THEN ThenAnnounce(c) ELSE Silently(c)
    /\ UNCHANGED handlerVars

\* Mutant: a reset is only announced when there is a result to hide.
ServeResetOfResult(c) ==
    LET s == AfterPurge(MyRoom(c)) IN
    /\ pc[c] = "serving"
    /\ InRoom(at[c], AfterReset(MyRoom(c), self[c]))
    /\ IF MayReset(s, self[c]) /\ s.revealed THEN ThenAnnounce(c) ELSE Silently(c)
    /\ UNCHANGED handlerVars

ServeReset(c) ==
    /\ pc[c] = "serving"
    /\ InRoom(at[c], AfterReset(MyRoom(c), self[c]))
    /\ IF MayReset(AfterPurge(MyRoom(c)), self[c]) THEN ThenAnnounce(c) ELSE Silently(c)
    /\ UNCHANGED handlerVars

\* The room is deleted if it is empty, and participant_left is sent.
Depart(c) == CleanUp(c) /\ ThenAnnounce(c)

-----------------------------------------------------------------------------
(* Sending *)

\* Room.State: the snapshot that the message will carry.
Snapshot(c) ==
    /\ \/ Talk(c, "greeting", "handing")
       \/ Talk(c, "announcing", "collecting")
    /\ fresh' = fresh \cup {c}
    /\ UNCHANGED <<vars, to, told, current>>

\* The sender of d puts the message of c into the queue of d.
Deliver(c, d) ==
    IF c \in fresh
    THEN told' = told \cup {d} /\ current' = current \cup {d}
    ELSE current' = current \ {d} /\ UNCHANGED told

\* A snapshot that has been sent to all is forgotten.
Forget(c) == fresh' = IF stage'[c] = "sending" THEN fresh ELSE fresh \ {c}

\* write: the first room_state goes to the own client alone.
Hand(c) ==
    /\ Talk(c, "handing", "announcing")
    /\ Deliver(c, c)
    /\ Forget(c)
    /\ UNCHANGED <<vars, to>>

Audience(c) == { hub[key] : key \in { k \in DOMAIN hub : k[1] = at[c] } }

\* Hub.Broadcast: the senders of the room are copied under the lock.
Collect(c) ==
    /\ stage[c] = "collecting"
    /\ stage' = [ stage EXCEPT ![c] = IF Audience(c) = {} THEN "quiet" ELSE "sending" ]
    /\ to' = [ to EXCEPT ![c] = Audience(c) ]
    /\ Forget(c)
    /\ UNCHANGED <<vars, told, current>>

\* They are called without it, in the order in which the map yielded them.
Send(c, d) ==
    /\ stage[c] = "sending" /\ d \in to[c]
    /\ to' = [ to EXCEPT ![c] = @ \ {d} ]
    /\ stage' = [ stage EXCEPT ![c] = IF to'[c] = {} THEN "quiet" ELSE @ ]
    /\ Deliver(c, d)
    /\ Forget(c)
    /\ UNCHANGED vars

-----------------------------------------------------------------------------

Sending(c) == Snapshot(c) \/ Hand(c) \/ Collect(c) \/ \E d \in Conns : Send(c, d)

\* What happens outside the handlers.
Outside(A) == A /\ Outdate /\ UNCHANGED <<stage, to>>

DeliveryNext ==
    \/ \E c \in Conns :
          \/ AcceptConn(c) \/ Enter(c) \/ Depart(c) \/ Sending(c)
          \/ (JoinFails(c) \/ Register(c) \/ Refuse(c) \/ ReadFails(c)
              \/ Unregister(c) \/ LeaveRoom(c)) /\ Silently(c)
          \/ \E id \in RoomIds, q \in Request :
                q.token \in drawn \cup {None} /\ JoinRoom(c, id, q) /\ Silently(c)
          \/ \E value \in Cards \cup {None}, submit \in BOOLEAN : ServeVote(c, value, submit)
          \/ ServeSkip(c) \/ ServeReset(c)
          \/ Outside(Disconnect(c))
    \/ \E id \in RoomIds : Outside(CreateRoom(id)) \/ Outside(GetRoom(id))
    \/ Outside(TimePasses)

DeliverySpec == DeliveryInit /\ [][DeliveryNext]_deliveryVars

-----------------------------------------------------------------------------

\* Nothing is under way, and nothing is being sent.
AllQuiet == Settled /\ \A c \in Conns : stage[c] = "quiet"

(***************************************************************************)
(* Nobody misses a change: when nothing is under way, every client that is *)
(* served has been sent the present state of its room since it last        *)
(* changed, whoever changed it and however the broadcasts, the joins and   *)
(* the departures overlapped.                                              *)
(***************************************************************************)
EverybodyWasTold == AllQuiet => \A c \in Conns : pc[c] = "serving" => c \in told

(***************************************************************************)
(* "Real-time WebSocket presence, voting, automatic result reveal"         *)
(* (README.md): when nothing is under way, the last that a client was sent *)
(* is the present state of its room.                                       *)
(***************************************************************************)
LastWordIsCurrent == AllQuiet => \A c \in Conns : pc[c] = "serving" => c \in current

=============================================================================
