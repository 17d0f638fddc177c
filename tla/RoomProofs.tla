----------------------------- MODULE RoomProofs -----------------------------
(***************************************************************************)
(* The safety of a room under every sequence of calls: its inductive       *)
(* invariant, the properties that follow from it, what no step may do, and *)
(* that the room is a round of voting.                                     *)
(***************************************************************************)
EXTENDS Room, RoomOpsProofs

-----------------------------------------------------------------------------
(* The invariant of the specification *)

IInv ==
    /\ used \subseteq Conns
    /\ RoomOK(room, used)

LEMMA InitIInv == Init => IInv
BY NewRoomOK DEF Init, IInv

LEMMA NextIInv == IInv /\ [Next]_vars => IInv'
<1> SUFFICES ASSUME IInv, [Next]_vars
             PROVE  IInv'
  OBVIOUS
<1> USE DEF IInv
<1>1. ASSUME NEW c \in Conns, NEW q \in Request, Join(c, q)
      PROVE  IInv'
  BY <1>1, AddConnectionOK DEF Join
<1>2. ASSUME NEW i \in used, NEW c \in used, RemoveConnection(i, c)
      PROVE  IInv'
  BY <1>2, RemoveConnectionOK DEF RemoveConnection
<1>3. ASSUME NEW i \in used, Remove(i)
      PROVE  IInv'
  BY <1>3, RemoveOK DEF Remove
<1>4. ASSUME NEW i \in used, NEW v \in Cards \cup {None}, NEW b \in BOOLEAN, Vote(i, v, b)
      PROVE  IInv'
  BY <1>4, VoteOK DEF Vote
<1>5. ASSUME NEW i \in used, SkipVote(i)
      PROVE  IInv'
  BY <1>5, SkipVoteOK DEF SkipVote
<1>6. ASSUME NEW i \in used, Reset(i)
      PROVE  IInv'
  BY <1>6, ResetOK DEF Reset
<1>7. CASE PurgeDisconnected
  BY <1>7, PurgeOK DEF PurgeDisconnected
<1>8. CASE Tick
  BY <1>8, TickOK DEF Tick
<1>9. CASE UNCHANGED vars
  BY <1>9 DEF vars
<1> QED
  BY <1>1, <1>2, <1>3, <1>4, <1>5, <1>6, <1>7, <1>8, <1>9 DEF Next

(***************************************************************************)
(* The invariant holds of every reachable room, whatever calls its methods *)
(* get and in whatever order.                                              *)
(***************************************************************************)
THEOREM Invariance == Spec => []IInv
<1>1. Init => IInv
  BY InitIInv
<1>2. IInv /\ [Next]_vars => IInv'
  BY NextIInv
<1> QED
  BY <1>1, <1>2, PTL DEF Spec

(***************************************************************************)
(* Every field of room.Room keeps its type, and the identities, tokens and *)
(* connections in it are those that some join drew.                        *)
(***************************************************************************)
THEOREM TypeCorrectness == Spec => []TypeOK
<1>1. IInv => TypeOK
  BY DEF IInv, TypeOK, RoomOK
<1> QED
  BY <1>1, Invariance, PTL

(***************************************************************************)
(* The room never has a second lead and never a disconnected one.          *)
(***************************************************************************)
THEOREM LeadIsUnique == Spec => []OneConnectedLead
<1>1. IInv => OneConnectedLead
  BY DEF IInv, OneConnectedLead, RoomOK
<1> QED
  BY <1>1, Invariance, PTL

(***************************************************************************)
(* reconnectIndex maps the current token of every retained participant to  *)
(* it, and nothing else to anybody.                                        *)
(***************************************************************************)
THEOREM TokensAreIdentities == Spec => []TokensIdentify
<1>1. IInv => TokensIdentify
  BY DEF IInv, TokensIdentify, RoomOK
<1> QED
  BY <1>1, Invariance, PTL

(***************************************************************************)
(* No two connected participants share a connection, and the disconnected  *)
(* have none: the cleanup of a connection disconnects at most one.         *)
(***************************************************************************)
THEOREM ConnectionsHaveOneOwner == Spec => []ConnectionsAreOwned
<1>1. IInv => ConnectionsAreOwned
  BY DEF IInv, ConnectionsAreOwned, RoomOK
<1> QED
  BY <1>1, Invariance, PTL

(***************************************************************************)
(* The counted votes are exactly the submitted, unskipped cards of the     *)
(* retained participants, and face down only the connected have any.       *)
(***************************************************************************)
THEOREM VotesAreSubmitted == Spec => []VotesMatchParticipants
<1>1. IInv => VotesMatchParticipants
  BY DEF IInv, VotesMatchParticipants, RoomOK
<1> QED
  BY <1>1, Invariance, PTL

(***************************************************************************)
(* A card that State shows belongs to a vote that was submitted and        *)
(* counted: no sequence of calls makes a card public that its owner only   *)
(* selected.                                                               *)
(***************************************************************************)
THEOREM NoCardLeaks == Spec => []OnlySubmittedCardsAreShown
<1>1. IInv => OnlySubmittedCardsAreShown
  <2> SUFFICES ASSUME IInv, NEW i \in Connected(room), ShownVote(room, i) # None
               PROVE  i \in DOMAIN room.votes /\ room.participants[i].submitted
    BY DEF OnlySubmittedCardsAreShown
  <2>1. i \in Present(room) /\ room.revealed /\ room.participants[i].selected # None
    BY DEF Connected, ShownVote
  <2>2. room.participants[i].submitted
    BY <2>1 DEF IInv, RoomOK, CardsAgree
  <2>3. VoteAgrees(room.votes, i, room.participants[i])
    BY <2>1 DEF IInv, RoomOK, VotesAgree
  <2> QED
    BY <2>1, <2>2, <2>3 DEF VoteAgrees
<1> QED
  BY <1>1, Invariance, PTL

-----------------------------------------------------------------------------
(* Capacity *)

\* Every step is a call of the room.
LEMMA NextIsCall ==
    ASSUME [Next]_vars
    PROVE  room' = room \/ RoomCall(room', room, used)
<1>1. ASSUME NEW c \in Conns, NEW q \in Request, Join(c, q)
      PROVE  RoomCall(room', room, used)
  BY <1>1 DEF Join, RoomCall
<1>2. ASSUME NEW i \in used, NEW c \in used, RemoveConnection(i, c)
      PROVE  RoomCall(room', room, used)
  BY <1>2 DEF RemoveConnection, RoomCall
<1>3. ASSUME NEW i \in used, Remove(i)
      PROVE  RoomCall(room', room, used)
  BY <1>3 DEF Remove, RoomCall
<1>4. ASSUME NEW i \in used, NEW v \in Cards \cup {None}, NEW b \in BOOLEAN, Vote(i, v, b)
      PROVE  RoomCall(room', room, used)
  BY <1>4 DEF Vote, RoomCall
<1>5. ASSUME NEW i \in used, SkipVote(i) \/ Reset(i)
      PROVE  RoomCall(room', room, used)
  BY <1>5 DEF SkipVote, Reset, RoomCall
<1>6. CASE PurgeDisconnected \/ Tick
  BY <1>6 DEF PurgeDisconnected, Tick, RoomCall
<1>7. CASE UNCHANGED vars
  BY <1>7 DEF vars
<1> QED
  BY <1>1, <1>2, <1>3, <1>4, <1>5, <1>6, <1>7 DEF Next

SInv == IInv /\ Small(room)

LEMMA NextSInv == SInv /\ [Next]_vars => SInv'
<1> SUFFICES ASSUME SInv, [Next]_vars
             PROVE  Small(room')
  BY NextIInv DEF SInv
<1>1. RoomOK(room, used) /\ used \in SUBSET Conns /\ Small(room)
  BY DEF SInv, IInv
<1> QED
  BY <1>1, NextIsCall, CallSmall

(***************************************************************************)
(* A room never retains more than MaxParticipants identities: only a join  *)
(* that opens no identity adds one, and it looks at Full after the purge.  *)
(***************************************************************************)
THEOREM CapacityHolds == Spec => []WithinCapacity
<1>1. Init => SInv
  <2>1. ASSUME NEW o
        PROVE  Present(NewRoom(o)) = {}
    BY DEF Present, NewRoom, EmptyFcn
  <2>2. Init => Small(room)
    BY <2>1, FS_EmptySet, LimitAssumption DEF Init, Small
  <2> QED
    BY <2>2, InitIInv DEF SInv
<1>2. SInv /\ [Next]_vars => SInv'
  BY NextSInv
<1>3. SInv => WithinCapacity
  BY DEF SInv, Small, WithinCapacity
<1> QED
  BY <1>1, <1>2, <1>3, PTL DEF Spec

-----------------------------------------------------------------------------
(* What a step may not do *)

(***************************************************************************)
(* Once the cards are face up the result and the cards stay as they are    *)
(* until the round is reset, whoever comes back, leaves or expires.        *)
(***************************************************************************)
THEOREM ResultsStand == Spec => ResultStands
<1>1. ASSUME IInv, [Next]_vars, room.revealed /\ room'.revealed
      PROVE  Stands(room', room)
  <2>1. RoomOK(room, used) /\ used \in SUBSET Conns
    BY <1>1 DEF IInv
  <2>2. room' = room => Stands(room', room)
    BY DEF Stands
  <2> QED
    BY <1>1, <2>1, <2>2, NextIsCall, CallKeeps
<1> QED
  BY <1>1, Invariance, PTL DEF Spec, ResultStands

(***************************************************************************)
(* Nobody takes over an identity but the returning owner its own: a token  *)
(* presented by another client opens nothing.                              *)
(***************************************************************************)
THEOREM IdentitiesAreKept == Spec => IdentityIsKept
<1>1. ASSUME IInv, [Next]_vars
      PROVE  KeepsIdentity(room', room)
  <2>1. RoomOK(room, used) /\ used \in SUBSET Conns
    BY <1>1 DEF IInv
  <2>2. room' = room => KeepsIdentity(room', room)
    BY DEF KeepsIdentity
  <2> QED
    BY <1>1, <2>1, <2>2, NextIsCall, CallKeeps
<1> QED
  BY <1>1, Invariance, PTL DEF Spec, IdentityIsKept

(***************************************************************************)
(* The averages that revealIfComplete computes are those of the cards that *)
(* everybody sees from then on, and hasVotes says whether there is one.    *)
(***************************************************************************)
THEOREM RevealsAreHonest == Spec => RevealIsHonest
<1>1. ASSUME IInv, [Next]_vars, ~ room.revealed /\ room'.revealed
      PROVE  Honest(room')
  <2>1. RoomOK(room, used) /\ used \in SUBSET Conns
    BY <1>1 DEF IInv
  <2>2. RoomCall(room', room, used)
    BY <1>1, NextIsCall
  <2>3. JustRevealed(room', used)
    BY <1>1, <2>1, <2>2, CallReveals
  <2> QED
    BY <2>3, RevealedHonestly
<1> QED
  BY <1>1, Invariance, PTL DEF Spec, RevealIsHonest

-----------------------------------------------------------------------------
(* The refinement *)

\* A step of the round in the room is a step of Round, or none.
LEMMA RoundStepIsStep ==
    ASSUME IInv, IInv', RoundStep(room', room)
    PROVE  [Rounds!Next]_(Rounds!vars)
<1>2. room.revealed \in BOOLEAN /\ room'.revealed \in BOOLEAN
  BY DEF IInv, RoomOK, RoomTyped
<1>3. CASE SameRound(room', room)
  BY <1>3 DEF SameRound, Rounds!vars
<1>4. CASE NewRound(room')
  <2>1. Rounds!Reset
    BY <1>4 DEF NewRound, Rounds!Reset, Rounds!Nothing, EmptyFcn
  <2> QED
    BY <2>1 DEF Rounds!Next
<1>5. ASSUME NEW i \in Conns, NEW T, ~ room.revealed, NextTable(T, room, i),
             Laid(room', room, T) \/ TurnedUp(room', T)
      PROVE  [Rounds!Next]_(Rounds!vars)
  <2>1. T \in Rounds!Played(i) \/ T = Rounds!Without(i)
    BY <1>5 DEF NextTable, Put, Drop, Ballots, Rounds!Played, Rounds!Ballot,
                      Rounds!Without, Rounds!Restrict
  <2>2. CASE Laid(room', room, T)
    <3>1. Rounds!Play(i) \/ Rounds!TakeBack(i)
      BY <1>2, <1>5, <2>1, <2>2 DEF Laid, Rounds!Play, Rounds!TakeBack
    <3> QED
      BY <3>1 DEF Rounds!Next
  <2>3. CASE TurnedUp(room', T)
    <3>1. Rounds!Reveal(i)
      BY <1>5, <2>1, <2>3 DEF TurnedUp, CardsOn, RolesOn, PlayedIn, Restrict, Rounds!Reveal,
                Rounds!CardsOf, Rounds!RolesOf, Rounds!PlayedBy, Rounds!Restrict,
                Rounds!Nothing, EmptyFcn
    <3> QED
      BY <3>1 DEF Rounds!Next
  <2> QED
    BY <1>5, <2>2, <2>3
<1> QED
  BY <1>3, <1>4, <1>5 DEF RoundStep

(***************************************************************************)
(* A room implements a round of voting: seen through the cards on the      *)
(* table and the result, every call, with the purge it starts with, the    *)
(* succession of the lead and the reveal it may end with, is one step of   *)
(* Round or none.                                                          *)
(***************************************************************************)
THEOREM RoomImplementsRound == Spec => ImplementsRound
<1>1. Init => Rounds!Init
  <2>1. ASSUME NEW owner, room = NewRoom(owner)
        PROVE  Rounds!Init
    <3>1. NewRound(room)
      BY <2>1, NewRoomIsNewRound
    <3> QED
      BY <3>1 DEF NewRound, Rounds!Init, Rounds!Nothing, EmptyFcn
  <2> QED
    BY <2>1 DEF Init
<1>2. IInv /\ IInv' /\ [Next]_vars => [Rounds!Next]_(Rounds!vars)
  <2>1. ASSUME IInv, IInv', [Next]_vars
        PROVE  RoundStep(room', room)
    <3>1. RoomOK(room, used) /\ used \in SUBSET Conns
      BY <2>1 DEF IInv
    <3>2. room' = room => RoundStep(room', room)
      BY DEF RoundStep, SameRound
    <3> QED
      BY <2>1, <3>1, <3>2, NextIsCall, CallIsRound
  <2> QED
    BY <2>1, RoundStepIsStep
<1> QED
  BY <1>1, <1>2, Invariance, PTL DEF Spec, ImplementsRound, Rounds!Spec

=============================================================================
