------------------------------ MODULE RoomOps ------------------------------
(***************************************************************************)
(* The operations of one planning poker room (backend/app/room/room.go),   *)
(* as operators from the state of a room to its state after the call: the  *)
(* methods hold the mutex of the room from their first line to their last, *)
(* so each of them is one step.  Room, Registry and Service are built from *)
(* these operators.                                                        *)
(*                                                                         *)
(* A connection c names the three fresh random values that a connection    *)
(* draws: its connectionID, the participant ID it proposes and the         *)
(* reconnect token minted for it.  Each of them is drawn at most once per  *)
(* connection and is never drawn again, and the hash of a token stands for *)
(* the token.  None is Go's zero value of a string or of a pointer: the    *)
(* role of an observer, no token, no vote, no owner.                       *)
(***************************************************************************)
EXTENDS Voting

CONSTANTS
    Conns,              \* connections, and the fresh names they draw
    Clients,            \* the clientID a browser keeps in its storage
    Roles,              \* the roles of the room
    Cards,              \* the story points of the room, in tenths
    OwnerToken,         \* the secret handed to the creator of the room
    MaxParticipants,    \* participants a room retains at most
    Retention,          \* reconnectRetention, in ticks of the clock
    None

ASSUME NoneAssumption ==
    /\ None \notin Conns
    /\ None \notin Clients
    /\ None \notin Roles
    /\ None \notin Cards
    /\ None # OwnerToken

ASSUME LimitAssumption ==
    /\ Cards \subseteq Nat
    /\ MaxParticipants \in Nat \ {0}
    /\ Retention \in Nat \ {0}

-----------------------------------------------------------------------------
(* State *)

\* age is the time since disconnectedAt, counted up to the retention.
Participant == [ role      : Roles \cup {None},
                 lead      : BOOLEAN,
                 submitted : BOOLEAN,
                 skipped   : BOOLEAN,
                 selected  : Cards \cup {None},
                 client    : Clients,
                 conn      : Conns \cup {None},
                 token     : Conns,
                 connected : BOOLEAN,
                 age       : 0 .. Retention ]

\* What a participant asks for when it joins. It is valid when its name is
\* well formed and its role is one of the room's, or none.
Request == [ client : Clients,
             token  : Conns \cup {None},
             owner  : {OwnerToken, None},
             role   : Roles \cup {None},
             valid  : BOOLEAN ]

EmptyFcn == [ x \in {} |-> x ]

\* A room as newRoom builds it: owner is the token that makes its bearer owner.
NewRoom(owner) == [ participants |-> EmptyFcn,
                    votes        |-> EmptyFcn,
                    revealed     |-> FALSE,
                    average      |-> 0,
                    roleAverages |-> EmptyFcn,
                    hasVotes     |-> FALSE,
                    ownerToken   |-> owner,
                    owner        |-> None,
                    index        |-> EmptyFcn ]

\* f with k mapped to v, as a Go map after m[k] = v.
Put(f, k, v) == [ x \in DOMAIN f \cup {k} |-> IF x = k THEN v ELSE f[x] ]

\* f without k, as a Go map after delete(m, k).
Drop(f, k) == [ x \in DOMAIN f \ {k} |-> f[x] ]

Present(r)   == DOMAIN r.participants
Connected(r) == { i \in Present(r) : r.participants[i].connected }
Voters(r)    == { i \in Connected(r) : r.participants[i].role # None }
Leads(r)     == { i \in Present(r) : r.participants[i].lead }
Expired(r)   == { i \in Present(r) : ~ r.participants[i].connected
                                     /\ r.participants[i].age = Retention }
TokensOf(r, S) == { r.participants[i].token : i \in S }

IsEmpty(r) == Connected(r) = {}

-----------------------------------------------------------------------------
(* Time, and the purge every operation starts with *)

\* Disconnected participants age; the retention is as far as anybody looks.
Older(p) == IF p.connected \/ p.age = Retention THEN p ELSE [ p EXCEPT !.age = @ + 1 ]

AfterTick(r) ==
    [ r EXCEPT !.participants = [ i \in Present(r) |-> Older(r.participants[i]) ] ]

\* Mutant: the tokens of the expired stay in the index.
AfterPurgeKeepingTokens(r) ==
    [ r EXCEPT !.participants = Restrict(@, Present(r) \ Expired(r)),
               !.owner        = IF @ \in Expired(r) THEN None ELSE @ ]

AfterPurge(r) ==
    [ r EXCEPT !.participants = Restrict(@, Present(r) \ Expired(r)),
               !.index        = Restrict(@, DOMAIN @ \ TokensOf(r, Expired(r))),
               !.owner        = IF @ \in Expired(r) THEN None ELSE @ ]

-----------------------------------------------------------------------------
(* The lead *)

\* Participant p, with identity j, when i leads.
Led(p, j, i) == [ p EXCEPT !.lead = (j = i) ]

\* promoteLeadLocked: i leads and nobody else does.
MakeLead(r, i) ==
    [ r EXCEPT !.participants =
        [ j \in Present(r) |-> Led(r.participants[j], j, i) ] ]

\* promoteFirstConnectedLocked: whom a Go map yields first is anybody's guess.
PromoteAny(r) ==
    IF IsEmpty(r) THEN {r} ELSE { MakeLead(r, i) : i \in Connected(r) }

\* isOwner: the participant becomes the owner and takes the lead.
\* Mutant: nobody else loses the lead to the owner.
AsSecondLead(r, i) == [ r EXCEPT !.participants[i].lead = TRUE, !.owner = i ]

AsOwner(r, i) == [ MakeLead(r, i) EXCEPT !.owner = i ]

-----------------------------------------------------------------------------
(* Joining *)

IsOwner(r, q) == q.owner # None /\ q.owner = r.ownerToken

\* Mutant: the token is enough, whichever client presents it.
OpensForAnybody(r, q) ==
    q.token \in DOMAIN r.index /\ r.index[q.token] \in Present(r)

\* A token opens the identity it was issued for, to the client it was issued to.
Opens(r, q) ==
    /\ q.token \in DOMAIN r.index
    /\ r.index[q.token] \in Present(r)
    /\ r.participants[r.index[q.token]].client = q.client

OwnerReturns(r, q) == IsOwner(r, q) /\ r.owner \in Present(r)

\* Mutant: those who wait for their reconnection are not counted.
FullOfConnected(r) == Cardinality(Connected(r)) >= MaxParticipants

\* The retained participants count, whether they are connected or not.
Full(r) == Cardinality(Present(r)) >= MaxParticipants

\* Why the room refuses the join, in the order in which the code looks.
JoinError(r, q) ==
    IF ~ q.valid THEN "invalid"
    ELSE IF q.token # None
         THEN IF Opens(r, q) THEN "none" ELSE "reconnect"
         ELSE IF OwnerReturns(r, q) \/ ~ Full(r) THEN "none" ELSE "capacity"

\* Mutant: the old token goes on opening the identity.
ReindexKeepingOld(index, old, token, i) == Put(index, token, i)

\* The index once the token of participant i changes from old to token.
Reindex(index, old, token, i) == Put(Drop(index, old), token, i)

\* Mutant: hasVotes follows the votes whatever has been revealed.
HasVotesAlways(r, votes) == DOMAIN votes # {}

\* hasVotes once the votes are these: a revealed result is left alone.
HasVotesGiven(r, votes) == IF r.revealed THEN r.hasVotes ELSE DOMAIN votes # {}

\* The old participant p on connection c. Its vote stays with it unless it
\* comes back in another role.
Returned(p, c, q, token) ==
    [ role      |-> q.role,
      lead      |-> p.lead,
      submitted |-> p.role = q.role /\ p.submitted,
      skipped   |-> p.role = q.role /\ p.skipped,
      selected  |-> IF p.role = q.role THEN p.selected ELSE None,
      client    |-> q.client,
      conn      |-> c,
      token     |-> token,
      connected |-> TRUE,
      age       |-> 0 ]

KeptVotes(r, i, q) ==
    IF r.participants[i].role = q.role THEN r.votes ELSE Drop(r.votes, i)

Readmitted(r, i, c, q, token) ==
    [ r EXCEPT !.participants = Put(@, i, Returned(@[i], c, q, token)),
               !.votes        = KeptVotes(r, i, q),
               !.hasVotes     = IF r.participants[i].role = q.role THEN @
                                ELSE HasVotesGiven(r, KeptVotes(r, i, q)),
               !.index        = Reindex(@, r.participants[i].token, token, i) ]

\* replaceParticipantLocked: the same identity on a new connection.
Replace(r, i, c, q, token) ==
    IF IsOwner(r, q) THEN AsOwner(Readmitted(r, i, c, q, token), i)
    ELSE Readmitted(r, i, c, q, token)

\* A new participant leads when nobody is connected.
Newcomer(r, c, q) ==
    [ role      |-> q.role,
      lead      |-> IsEmpty(r),
      submitted |-> FALSE,
      skipped   |-> FALSE,
      selected  |-> None,
      client    |-> q.client,
      conn      |-> c,
      token     |-> c,
      connected |-> TRUE,
      age       |-> 0 ]

Enrolled(r, c, q) ==
    [ r EXCEPT !.participants = Put(@, c, Newcomer(r, c, q)),
               !.index        = Put(@, c, c) ]

\* The end of addConnection: a new identity.
Enrol(r, c, q) ==
    IF IsOwner(r, q) THEN AsOwner(Enrolled(r, c, q), c) ELSE Enrolled(r, c, q)

\* The participant that a join which is not refused puts on connection c.
JoinsAs(r, c, q) ==
    IF q.token # None THEN r.index[q.token]
    ELSE IF OwnerReturns(r, q) THEN r.owner ELSE c

\* The reconnect token that the join hands to the client.
Issues(c, q) == IF q.token # None THEN q.token ELSE c

\* addConnection, after its purge.
Admit(r, c, q) ==
    IF JoinError(r, q) # "none" THEN r
    ELSE IF q.token # None \/ OwnerReturns(r, q)
         THEN Replace(r, JoinsAs(r, c, q), c, q, Issues(c, q))
         ELSE Enrol(r, c, q)

AfterAddConnection(r, c, q) == Admit(AfterPurge(r), c, q)

-----------------------------------------------------------------------------
(* Leaving *)

\* Mutant: the vote of whoever leaves goes on counting.
WithVote(r, i) == r

\* Both ways of leaving take the vote back unless the round is revealed.
WithoutVote(r, i) ==
    IF r.revealed THEN r
    ELSE [ r EXCEPT !.votes = Drop(@, i),
                    !.hasVotes = HasVotesGiven(r, Drop(r.votes, i)) ]

\* Mutant: any connection's cleanup removes the participant.
RemovesAny(r, i, c) == i \in Connected(AfterPurge(r))

\* RemoveConnection, guarded by the connection so that it cannot remove a
\* newer connection of the same participant. Whether it removed anything.
Removes(r, i, c) ==
    /\ i \in Connected(AfterPurge(r))
    /\ r.participants[i].conn = c

\* Mutant: the connection is not forgotten.
DisconnectedKeepingConn(p, revealed) ==
    [ p EXCEPT !.submitted = revealed /\ @,
               !.skipped   = revealed /\ @,
               !.selected  = IF revealed THEN @ ELSE None,
               !.connected = FALSE,
               !.age       = 0,
               !.lead      = FALSE ]

\* Mutant: the card stays with the participant.
DisconnectedKeepingCard(p, revealed) ==
    [ p EXCEPT !.submitted = revealed /\ @,
               !.skipped   = revealed /\ @,
               !.connected = FALSE,
               !.conn      = None,
               !.age       = 0,
               !.lead      = FALSE ]

\* A participant that has lost its connection.
Disconnected(p, revealed) ==
    [ p EXCEPT !.submitted = revealed /\ @,
               !.skipped   = revealed /\ @,
               !.selected  = IF revealed THEN @ ELSE None,
               !.connected = FALSE,
               !.conn      = None,
               !.age       = 0,
               !.lead      = FALSE ]

\* The room when participant i has lost its connection, and who leads next.
Left(r, i) ==
    [ WithoutVote(r, i) EXCEPT
        !.participants = Put(@, i, Disconnected(@[i], r.revealed)) ]

Succeeded(r, wasLead) == IF wasLead THEN PromoteAny(r) ELSE {r}

AfterRemoveConnection(r, i, c) ==
    LET s == AfterPurge(r) IN
    IF Removes(r, i, c) THEN Succeeded(Left(s, i), s.participants[i].lead) ELSE {s}

\* Remove forgets the participant; the owner field keeps its ID.
Forgotten(r, i) ==
    [ WithoutVote(r, i) EXCEPT !.participants = Drop(@, i),
                               !.index        = Drop(@, r.participants[i].token) ]

AfterRemove(r, i) ==
    LET s == AfterPurge(r) IN
    IF i \in Present(s) THEN Succeeded(Forgotten(s, i), s.participants[i].lead) ELSE {s}

-----------------------------------------------------------------------------
(* The round *)

Complete(r) ==
    /\ Voters(r) # {}
    /\ \A i \in Voters(r) : r.participants[i].submitted

Counted(r) == DOMAIN r.votes \cap Present(r)

\* The roles that have a counted vote, and the average of each.
VotedRoles(r) == { r.participants[i].role : i \in Counted(r) }

RoleAverages(r) ==
    [ x \in VotedRoles(r) |->
        Average(Restrict(r.votes, { i \in Counted(r) : r.participants[i].role = x })) ]

Revealed(r) ==
    [ r EXCEPT !.revealed     = TRUE,
               !.average      = Average(Restrict(r.votes, Counted(r))),
               !.roleAverages = RoleAverages(r),
               !.hasVotes     = Counted(r) # {} ]

RevealIfComplete(r) == IF Complete(r) THEN Revealed(r) ELSE r

\* Mutant: a vote after the reveal is taken.
MayVoteLate(r, i) == i \in Voters(r)

\* The guard shared by Vote and SkipVote.
MayVote(r, i) == i \in Voters(r) /\ ~ r.revealed

\* A participant that has chosen a card, and played it if it submitted.
Chosen(p, value, submit) ==
    [ p EXCEPT !.selected = value, !.skipped = FALSE, !.submitted = submit ]

Cast(r, i, value, submit) ==
    [ r EXCEPT !.participants = Put(@, i, Chosen(@[i], value, submit)),
               !.votes        = IF submit THEN Put(@, i, value) ELSE Drop(@, i),
               !.hasVotes     = submit \/ @ ]

AfterVote(r, i, value, submit) ==
    LET s == AfterPurge(r) IN
    IF ~ MayVote(s, i) \/ value \notin Cards THEN s
    ELSE RevealIfComplete(Cast(s, i, value, submit))

\* A participant that has skipped the vote.
Skipped(p) == [ p EXCEPT !.selected = None, !.skipped = TRUE, !.submitted = TRUE ]

\* Mutant: the vote cast before goes on counting.
PassKeepingVote(r, i) ==
    [ r EXCEPT !.participants = Put(@, i, Skipped(@[i])) ]

Pass(r, i) ==
    [ r EXCEPT !.participants = Put(@, i, Skipped(@[i])),
               !.votes        = Drop(@, i) ]

AfterSkipVote(r, i) ==
    LET s == AfterPurge(r) IN
    IF ~ MayVote(s, i) THEN s ELSE RevealIfComplete(Pass(s, i))

\* A participant at the start of a round.
Cleared(p) == [ p EXCEPT !.selected = None, !.skipped = FALSE, !.submitted = FALSE ]

MayReset(r, i) == i \in Connected(r) /\ r.participants[i].lead

FreshRound(r) ==
    [ r EXCEPT !.revealed     = FALSE,
               !.average      = 0,
               !.votes        = EmptyFcn,
               !.roleAverages = EmptyFcn,
               !.hasVotes     = FALSE,
               !.participants = [ j \in Present(r) |-> Cleared(r.participants[j]) ] ]

AfterReset(r, i) ==
    LET s == AfterPurge(r) IN
    IF MayReset(s, i) THEN FreshRound(s) ELSE s

-----------------------------------------------------------------------------
(* What everybody in the room is shown (State) *)

\* The card shown for a participant: none before the reveal.
ShownVote(r, i) == IF r.revealed THEN r.participants[i].selected ELSE None

State(r) ==
    [ participants |-> [ i \in Connected(r) |->
                           [ role      |-> r.participants[i].role,
                             lead      |-> r.participants[i].lead,
                             submitted |-> r.participants[i].submitted,
                             skipped   |-> r.participants[i].skipped,
                             vote      |-> ShownVote(r, i) ] ],
      revealed     |-> r.revealed,
      average      |-> r.average,
      hasVotes     |-> r.hasVotes,
      roleAverages |-> r.roleAverages ]

-----------------------------------------------------------------------------
(* What holds of a room between calls *)

\* f is a function.
IsFcn(f) == f = [ x \in DOMAIN f |-> f[x] ]

\* r has the fields of a room and no others.
HasFields(r) ==
    r \in [ participants : {r.participants},
            votes        : {r.votes},
            revealed     : {r.revealed},
            average      : {r.average},
            roleAverages : {r.roleAverages},
            hasVotes     : {r.hasVotes},
            ownerToken   : {r.ownerToken},
            owner        : {r.owner},
            index        : {r.index} ]

\* r is a room whose fresh names were drawn by the connections in U.
RoomTyped(r, U) ==
    /\ HasFields(r)
    /\ r.participants \in [ Present(r) -> Participant ]
    /\ Present(r) \subseteq U
    /\ \A i \in Present(r) : r.participants[i].token \in U
    /\ \A i \in Present(r) : r.participants[i].conn \in U \cup {None}
    /\ r.votes \in [ DOMAIN r.votes -> Cards ]
    /\ DOMAIN r.votes \subseteq U
    /\ r.index \in [ DOMAIN r.index -> Present(r) ]
    /\ r.revealed \in BOOLEAN
    /\ r.hasVotes \in BOOLEAN
    /\ IsFcn(r.roleAverages)
    /\ DOMAIN r.roleAverages \subseteq Roles
    /\ r.ownerToken \in {OwnerToken, None}
    /\ r.owner \in U \cup {None}

LeadAgrees(r) ==
    /\ Leads(r) \subseteq Connected(r)
    /\ \A i, j \in Leads(r) : i = j

IndexAgrees(r) ==
    /\ DOMAIN r.index = TokensOf(r, Present(r))
    /\ \A i \in Present(r) : r.index[r.participants[i].token] = i

ConnsAgree(r) ==
    /\ \A i \in Present(r) :
          r.participants[i].conn = None <=> ~ r.participants[i].connected
    /\ \A i, j \in Connected(r) :
          r.participants[i].conn = r.participants[j].conn => i = j

\* Participant p, with identity i, and the votes of its room agree.
VoteAgrees(votes, i, p) ==
    /\ i \in DOMAIN votes <=> p.submitted /\ ~ p.skipped
    /\ i \in DOMAIN votes => votes[i] = p.selected
    /\ p.skipped => p.selected = None
    /\ p.submitted \/ p.selected # None => p.role # None

VotesAgree(r) ==
    /\ \A i \in Present(r) : VoteAgrees(r.votes, i, r.participants[i])
    /\ ~ r.revealed =>
          /\ DOMAIN r.votes \subseteq Connected(r)
          /\ \A i \in Present(r) \ Connected(r) :
                r.participants[i].selected = None /\ ~ r.participants[i].submitted

\* A card that nobody submitted is face up in front of nobody.
CardsAgree(r) ==
    r.revealed => \A i \in Present(r) :
        r.participants[i].selected # None => r.participants[i].submitted

-----------------------------------------------------------------------------
(* What holds of a call that takes room r to room s *)

\* The cards that State shows, and those of role x among them.
FaceUp(r) == [ i \in { j \in Connected(r) : ShownVote(r, j) # None } |-> ShownVote(r, i) ]

FaceUpIn(r, x) ==
    Restrict(FaceUp(r), { i \in DOMAIN FaceUp(r) : r.participants[i].role = x })

\* The result of room r is that of the cards face up.
Honest(r) ==
    /\ r.average = Average(FaceUp(r))
    /\ r.hasVotes = (DOMAIN FaceUp(r) # {})
    /\ \A x \in DOMAIN r.roleAverages : r.roleAverages[x] = Average(FaceUpIn(r, x))

\* The result stands, and so does the card of whoever keeps its role.
Stands(s, r) ==
    /\ s.average = r.average
    /\ s.roleAverages = r.roleAverages
    /\ s.hasVotes = r.hasVotes
    /\ \A i \in Present(r) \cap Present(s) :
          \/ s.participants[i].selected = r.participants[i].selected
          \/ s.participants[i].role # r.participants[i].role

\* The participants that are in both rooms keep their clients, but the owner.
KeepsIdentity(s, r) ==
    \A i \in Present(r) \cap Present(s) :
        s.participants[i].client # r.participants[i].client =>
            r.owner = i /\ s.owner = i /\ i \in Leads(s)

\* The cards face down, each with the role that counts it.
TableOf(r) ==
    [ i \in IF r.revealed THEN {} ELSE DOMAIN r.votes |->
        [ role |-> r.participants[i].role, card |-> r.votes[i] ] ]

=============================================================================
