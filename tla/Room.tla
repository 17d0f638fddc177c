-------------------------------- MODULE Room --------------------------------
(***************************************************************************)
(* One room under every sequence of joins as Registry.Join makes them and  *)
(* of calls to its other exported methods, in any order.  The methods      *)
(* exclude each other by the mutex of the room, so an interleaving of      *)
(* concurrent callers is a sequence of these steps.                        *)
(*                                                                         *)
(* A join draws a new participant ID and a new connection ID each time     *)
(* (ws in backend/pkg/httpapi/server.go), and everything below is about    *)
(* rooms that are joined in this way.  Add, which gives every participant  *)
(* the empty connection ID and which only tests call, is not modelled.     *)
(* Remove, which the server does not call either, is.                      *)
(***************************************************************************)
EXTENDS RoomOps

VARIABLES
    room,   \* the state of the room
    used    \* the connections whose fresh names have been drawn

vars == <<room, used>>

Init ==
    /\ room \in { NewRoom(owner) : owner \in {OwnerToken, None} }
    /\ used = {}

\* AddConnectionWithToken, as Registry.Join calls it: on a new connection and
\* with a token that was issued or none.
Join(c, q) ==
    /\ c \notin used
    /\ q.token \in used \cup {None}
    /\ room' = AfterAddConnection(room, c, q)
    /\ used' = used \cup {c}

RemoveConnection(i, c) ==
    /\ room' \in AfterRemoveConnection(room, i, c)
    /\ UNCHANGED used

Remove(i) ==
    /\ room' \in AfterRemove(room, i)
    /\ UNCHANGED used

\* None stands for a number that is on no card.
Vote(i, value, submit) ==
    /\ room' = AfterVote(room, i, value, submit)
    /\ UNCHANGED used

SkipVote(i) ==
    /\ room' = AfterSkipVote(room, i)
    /\ UNCHANGED used

Reset(i) ==
    /\ room' = AfterReset(room, i)
    /\ UNCHANGED used

PurgeDisconnected ==
    /\ room' = AfterPurge(room)
    /\ UNCHANGED used

\* A part of the retention passes.
Tick ==
    /\ room' = AfterTick(room)
    /\ UNCHANGED used

Next ==
    \/ \E c \in Conns, q \in Request : Join(c, q)
    \/ \E i \in used, c \in used : RemoveConnection(i, c)
    \/ \E i \in used : Remove(i)
    \/ \E i \in used, value \in Cards \cup {None}, submit \in BOOLEAN :
            Vote(i, value, submit)
    \/ \E i \in used : SkipVote(i)
    \/ \E i \in used : Reset(i)
    \/ PurgeDisconnected
    \/ Tick

Spec == Init /\ [][Next]_vars

-----------------------------------------------------------------------------
(* Type correctness *)

(***************************************************************************)
(* Every field of the room and of its participants has its type, and the   *)
(* identities, tokens and connections in it were drawn by a join.          *)
(***************************************************************************)
TypeOK ==
    /\ used \subseteq Conns
    /\ RoomTyped(room, used)

-----------------------------------------------------------------------------
(* Safety *)

(***************************************************************************)
(* There is never a second lead, and the lead is connected: whoever may    *)
(* reset the round (Reset) is one person, however joins, owners that come  *)
(* back and departures of the lead follow each other.                      *)
(***************************************************************************)
OneConnectedLead == LeadAgrees(room)

(***************************************************************************)
(* reconnectIndex holds exactly the current token of each participant that *)
(* is retained, and no two of them share one: a token that was replaced,   *)
(* expired or removed opens nobody's identity.                             *)
(***************************************************************************)
TokensIdentify == IndexAgrees(room)

(***************************************************************************)
(* Where every join comes with a connection ID of its own, a connected     *)
(* participant goes on owning its connection through takeovers, departures *)
(* and returns: no two hold the same one, and the disconnected hold none,  *)
(* so that RemoveConnection disconnects only whom it is meant for. (It is  *)
(* not so for participants that came by Add, who share the empty ID.)      *)
(***************************************************************************)
ConnectionsAreOwned == ConnsAgree(room)

(***************************************************************************)
(* Votes and the flags shown next to the names agree: a retained           *)
(* participant has a counted vote exactly when it submitted and did not    *)
(* skip, and the vote is its selected card. Before the reveal only a       *)
(* connected participant has a vote or a card.                             *)
(***************************************************************************)
VotesMatchParticipants == VotesAgree(room)

(***************************************************************************)
(* A card that State shows was submitted and counted: selecting a card     *)
(* without submitting it never makes it public, through no sequence of     *)
(* reveals, departures and returns.                                        *)
(***************************************************************************)
OnlySubmittedCardsAreShown ==
    \A i \in Connected(room) :
        ShownVote(room, i) # None =>
            i \in DOMAIN room.votes /\ room.participants[i].submitted

(***************************************************************************)
(* A room never retains more than MaxParticipants identities, connected    *)
(* or waiting for their reconnection.                                      *)
(***************************************************************************)
WithinCapacity == Cardinality(Present(room)) <= MaxParticipants

-----------------------------------------------------------------------------
(* Action properties *)

(***************************************************************************)
(* The averages computed by revealIfComplete are the averages of the cards *)
(* that everybody sees at that moment, in the room and in each role, and   *)
(* hasVotes, which has been kept beside the votes, says whether there is a *)
(* card: no vote of somebody who left is counted and none is missed.       *)
(***************************************************************************)
RevealIsHonest ==
    [][ ~ room.revealed /\ room'.revealed => Honest(room') ]_vars

(***************************************************************************)
(* A revealed result stands until the lead resets the round: nobody's      *)
(* leaving, return, expiry or change of role alters it, and no card that   *)
(* is shown changes.                                                       *)
(***************************************************************************)
ResultStands ==
    [][ room.revealed /\ room'.revealed => Stands(room', room) ]_vars

(***************************************************************************)
(* An identity changes hands only when the owner returns: a retained       *)
(* participant that gets another clientID is the owner and leads.          *)
(***************************************************************************)
IdentityIsKept == [][ KeepsIdentity(room', room) ]_vars

-----------------------------------------------------------------------------
(* What the repository says and the code does not do *)

(***************************************************************************)
(* "reveal a shared estimate when every voter is ready" (README.md): the   *)
(* cards are not face down while every connected voter has submitted.      *)
(***************************************************************************)
RevealedWhenReady == Complete(room) => room.revealed

-----------------------------------------------------------------------------
(* The room implements a round of voting *)

Rounds == INSTANCE Round WITH
    Players      <- Conns,
    table        <- TableOf(room),
    revealed     <- room.revealed,
    average      <- room.average,
    roleAverages <- room.roleAverages

(***************************************************************************)
(* Whatever calls the room gets, the voters see a round as Round has it.   *)
(***************************************************************************)
ImplementsRound == Rounds!Spec

=============================================================================
