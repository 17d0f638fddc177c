--------------------------- MODULE RoomOpsProofs ---------------------------
(***************************************************************************)
(* What the operations of a room preserve, for every set of connections,   *)
(* clients, roles and cards and for all limits.  The operators on a room   *)
(* are taken one at a time: a lemma on the fields each of them writes, a   *)
(* lemma that it preserves the conjunction RoomOK of the invariants, and   *)
(* then the calls, which are compositions of these operators; last, what   *)
(* the calls do to the set of participants and to their connections.       *)
(***************************************************************************)
EXTENDS RoomOps, FiniteSetTheorems, TLAPS

-----------------------------------------------------------------------------
(* Functions *)

LEMMA PutFacts ==
    ASSUME NEW f, NEW k, NEW v
    PROVE  /\ DOMAIN Put(f, k, v) = DOMAIN f \cup {k}
           /\ Put(f, k, v)[k] = v
           /\ \A x \in DOMAIN f \ {k} : Put(f, k, v)[x] = f[x]
BY DEF Put

LEMMA PutType ==
    ASSUME NEW f, NEW T, f \in [ DOMAIN f -> T ], NEW k, NEW v \in T
    PROVE  Put(f, k, v) \in [ DOMAIN Put(f, k, v) -> T ]
BY DEF Put

LEMMA DropFacts ==
    ASSUME NEW f, NEW k
    PROVE  /\ DOMAIN Drop(f, k) = DOMAIN f \ {k}
           /\ \A x \in DOMAIN f \ {k} : Drop(f, k)[x] = f[x]
BY DEF Drop

LEMMA DropType ==
    ASSUME NEW f, NEW T, f \in [ DOMAIN f -> T ], NEW k
    PROVE  Drop(f, k) \in [ DOMAIN Drop(f, k) -> T ]
BY DEF Drop

LEMMA RestrictFacts ==
    ASSUME NEW f, NEW S
    PROVE  /\ DOMAIN Restrict(f, S) = S
           /\ \A x \in S : Restrict(f, S)[x] = f[x]
BY DEF Restrict

LEMMA RestrictType ==
    ASSUME NEW f, NEW T, f \in [ DOMAIN f -> T ], NEW S \in SUBSET DOMAIN f
    PROVE  Restrict(f, S) \in [ S -> T ]
BY DEF Restrict

-----------------------------------------------------------------------------
(* The fields each operator writes *)

LEMMA PurgeFields ==
    ASSUME NEW r, HasFields(r)
    PROVE  /\ HasFields(AfterPurge(r))
           /\ AfterPurge(r).participants = Restrict(r.participants, Present(r) \ Expired(r))
           /\ AfterPurge(r).index =
                Restrict(r.index, DOMAIN r.index \ TokensOf(r, Expired(r)))
           /\ AfterPurge(r).owner = IF r.owner \in Expired(r) THEN None ELSE r.owner
           /\ AfterPurge(r).votes = r.votes
           /\ AfterPurge(r).revealed = r.revealed
           /\ AfterPurge(r).hasVotes = r.hasVotes
           /\ AfterPurge(r).average = r.average
           /\ AfterPurge(r).roleAverages = r.roleAverages
           /\ AfterPurge(r).ownerToken = r.ownerToken
BY DEF HasFields, AfterPurge

LEMMA TickFields ==
    ASSUME NEW r, HasFields(r)
    PROVE  /\ HasFields(AfterTick(r))
           /\ AfterTick(r).participants = [ i \in Present(r) |-> Older(r.participants[i]) ]
           /\ AfterTick(r).index = r.index
           /\ AfterTick(r).owner = r.owner
           /\ AfterTick(r).votes = r.votes
           /\ AfterTick(r).revealed = r.revealed
           /\ AfterTick(r).hasVotes = r.hasVotes
           /\ AfterTick(r).average = r.average
           /\ AfterTick(r).roleAverages = r.roleAverages
           /\ AfterTick(r).ownerToken = r.ownerToken
BY DEF HasFields, AfterTick

LEMMA MakeLeadFields ==
    ASSUME NEW r, HasFields(r), NEW i
    PROVE  /\ HasFields(MakeLead(r, i))
           /\ MakeLead(r, i).participants =
                [ j \in Present(r) |-> Led(r.participants[j], j, i) ]
           /\ MakeLead(r, i).index = r.index
           /\ MakeLead(r, i).owner = r.owner
           /\ MakeLead(r, i).votes = r.votes
           /\ MakeLead(r, i).revealed = r.revealed
           /\ MakeLead(r, i).hasVotes = r.hasVotes
           /\ MakeLead(r, i).average = r.average
           /\ MakeLead(r, i).roleAverages = r.roleAverages
           /\ MakeLead(r, i).ownerToken = r.ownerToken
BY DEF HasFields, MakeLead

LEMMA AsOwnerFields ==
    ASSUME NEW r, HasFields(r), NEW i
    PROVE  /\ HasFields(AsOwner(r, i))
           /\ AsOwner(r, i).participants = MakeLead(r, i).participants
           /\ AsOwner(r, i).index = r.index
           /\ AsOwner(r, i).owner = i
           /\ AsOwner(r, i).votes = r.votes
           /\ AsOwner(r, i).revealed = r.revealed
           /\ AsOwner(r, i).hasVotes = r.hasVotes
           /\ AsOwner(r, i).average = r.average
           /\ AsOwner(r, i).roleAverages = r.roleAverages
           /\ AsOwner(r, i).ownerToken = r.ownerToken
<1>1. ASSUME NEW s, HasFields(s)
      PROVE  LET t == [ s EXCEPT !.owner = i ] IN
             /\ HasFields(t)
             /\ t.participants = s.participants
             /\ t.index = s.index
             /\ t.owner = i
             /\ t.votes = s.votes
             /\ t.revealed = s.revealed
             /\ t.hasVotes = s.hasVotes
             /\ t.average = s.average
             /\ t.roleAverages = s.roleAverages
             /\ t.ownerToken = s.ownerToken
  BY <1>1 DEF HasFields
<1>2. HasFields(MakeLead(r, i))
  BY MakeLeadFields
<1>3. /\ HasFields(AsOwner(r, i))
      /\ AsOwner(r, i).participants = MakeLead(r, i).participants
      /\ AsOwner(r, i).index = MakeLead(r, i).index
      /\ AsOwner(r, i).owner = i
      /\ AsOwner(r, i).votes = MakeLead(r, i).votes
      /\ AsOwner(r, i).revealed = MakeLead(r, i).revealed
      /\ AsOwner(r, i).hasVotes = MakeLead(r, i).hasVotes
      /\ AsOwner(r, i).average = MakeLead(r, i).average
      /\ AsOwner(r, i).roleAverages = MakeLead(r, i).roleAverages
      /\ AsOwner(r, i).ownerToken = MakeLead(r, i).ownerToken
  BY <1>1, <1>2 DEF AsOwner
<1>4. /\ MakeLead(r, i).index = r.index
      /\ MakeLead(r, i).votes = r.votes
      /\ MakeLead(r, i).revealed = r.revealed
      /\ MakeLead(r, i).hasVotes = r.hasVotes
      /\ MakeLead(r, i).average = r.average
      /\ MakeLead(r, i).roleAverages = r.roleAverages
      /\ MakeLead(r, i).ownerToken = r.ownerToken
  BY MakeLeadFields, Zenon
<1> QED
  BY <1>3, <1>4

LEMMA ReadmittedFields ==
    ASSUME NEW r, HasFields(r), NEW i, NEW c, NEW q, NEW t
    PROVE  LET s == Readmitted(r, i, c, q, t)
               old == r.participants[i] IN
           /\ HasFields(s)
           /\ s.participants = Put(r.participants, i, Returned(old, c, q, t))
           /\ s.index = Reindex(r.index, old.token, t, i)
           /\ s.owner = r.owner
           /\ s.votes = KeptVotes(r, i, q)
           /\ s.revealed = r.revealed
           /\ s.hasVotes = IF old.role = q.role THEN r.hasVotes
                           ELSE HasVotesGiven(r, KeptVotes(r, i, q))
           /\ s.average = r.average
           /\ s.roleAverages = r.roleAverages
           /\ s.ownerToken = r.ownerToken
BY DEF HasFields, Readmitted

LEMMA EnrolledFields ==
    ASSUME NEW r, HasFields(r), NEW c, NEW q
    PROVE  LET s == Enrolled(r, c, q) IN
           /\ HasFields(s)
           /\ s.participants = Put(r.participants, c, Newcomer(r, c, q))
           /\ s.index = Put(r.index, c, c)
           /\ s.owner = r.owner
           /\ s.votes = r.votes
           /\ s.revealed = r.revealed
           /\ s.hasVotes = r.hasVotes
           /\ s.average = r.average
           /\ s.roleAverages = r.roleAverages
           /\ s.ownerToken = r.ownerToken
BY DEF HasFields, Enrolled

LEMMA WithoutVoteFields ==
    ASSUME NEW r, HasFields(r), NEW i
    PROVE  LET s == WithoutVote(r, i) IN
           /\ HasFields(s)
           /\ s.participants = r.participants
           /\ s.index = r.index
           /\ s.owner = r.owner
           /\ s.votes = IF r.revealed THEN r.votes ELSE Drop(r.votes, i)
           /\ s.revealed = r.revealed
           /\ s.hasVotes = IF r.revealed THEN r.hasVotes
                           ELSE HasVotesGiven(r, Drop(r.votes, i))
           /\ s.average = r.average
           /\ s.roleAverages = r.roleAverages
           /\ s.ownerToken = r.ownerToken
BY DEF HasFields, WithoutVote

LEMMA LeftFields ==
    ASSUME NEW r, HasFields(r), NEW i
    PROVE  LET s == Left(r, i)
               w == WithoutVote(r, i) IN
           /\ HasFields(s)
           /\ s.participants = Put(r.participants, i, Disconnected(r.participants[i], r.revealed))
           /\ s.index = r.index
           /\ s.owner = r.owner
           /\ s.votes = w.votes
           /\ s.revealed = r.revealed
           /\ s.hasVotes = w.hasVotes
           /\ s.average = r.average
           /\ s.roleAverages = r.roleAverages
           /\ s.ownerToken = r.ownerToken
<1>1. ASSUME NEW w, HasFields(w), NEW f
      PROVE  LET t == [ w EXCEPT !.participants = f ] IN
             /\ HasFields(t)
             /\ t.participants = f
             /\ t.index = w.index
             /\ t.owner = w.owner
             /\ t.votes = w.votes
             /\ t.revealed = w.revealed
             /\ t.hasVotes = w.hasVotes
             /\ t.average = w.average
             /\ t.roleAverages = w.roleAverages
             /\ t.ownerToken = w.ownerToken
  BY <1>1 DEF HasFields
<1> QED
  BY <1>1, WithoutVoteFields DEF Left

LEMMA ForgottenFields ==
    ASSUME NEW r, HasFields(r), NEW i
    PROVE  LET s == Forgotten(r, i)
               w == WithoutVote(r, i) IN
           /\ HasFields(s)
           /\ s.participants = Drop(r.participants, i)
           /\ s.index = Drop(r.index, r.participants[i].token)
           /\ s.owner = r.owner
           /\ s.votes = w.votes
           /\ s.revealed = r.revealed
           /\ s.hasVotes = w.hasVotes
           /\ s.average = r.average
           /\ s.roleAverages = r.roleAverages
           /\ s.ownerToken = r.ownerToken
<1>1. ASSUME NEW w, HasFields(w), NEW k
      PROVE  LET t == [ w EXCEPT !.participants = Drop(@, i), !.index = Drop(@, k) ] IN
             /\ HasFields(t)
             /\ t.participants = Drop(w.participants, i)
             /\ t.index = Drop(w.index, k)
             /\ t.owner = w.owner
             /\ t.votes = w.votes
             /\ t.revealed = w.revealed
             /\ t.hasVotes = w.hasVotes
             /\ t.average = w.average
             /\ t.roleAverages = w.roleAverages
             /\ t.ownerToken = w.ownerToken
  BY <1>1 DEF HasFields
<1>2. HasFields(WithoutVote(r, i))
  BY WithoutVoteFields
<1>3. LET s == Forgotten(r, i)
          w == WithoutVote(r, i) IN
      /\ HasFields(s)
      /\ s.participants = Drop(w.participants, i)
      /\ s.index = Drop(w.index, r.participants[i].token)
      /\ s.owner = w.owner
      /\ s.votes = w.votes
      /\ s.revealed = w.revealed
      /\ s.hasVotes = w.hasVotes
      /\ s.average = w.average
      /\ s.roleAverages = w.roleAverages
      /\ s.ownerToken = w.ownerToken
  BY <1>1, <1>2 DEF Forgotten
<1>4. LET w == WithoutVote(r, i) IN
      /\ w.participants = r.participants
      /\ w.index = r.index
      /\ w.owner = r.owner
      /\ w.revealed = r.revealed
      /\ w.average = r.average
      /\ w.roleAverages = r.roleAverages
      /\ w.ownerToken = r.ownerToken
  BY WithoutVoteFields, Zenon
<1> QED
  BY <1>3, <1>4, Zenon

LEMMA CastFields ==
    ASSUME NEW r, HasFields(r), NEW i, NEW v, NEW b
    PROVE  LET s == Cast(r, i, v, b) IN
           /\ HasFields(s)
           /\ s.participants = Put(r.participants, i, Chosen(r.participants[i], v, b))
           /\ s.index = r.index
           /\ s.owner = r.owner
           /\ s.votes = IF b THEN Put(r.votes, i, v) ELSE Drop(r.votes, i)
           /\ s.revealed = r.revealed
           /\ s.hasVotes = (b \/ r.hasVotes)
           /\ s.average = r.average
           /\ s.roleAverages = r.roleAverages
           /\ s.ownerToken = r.ownerToken
BY DEF HasFields, Cast

LEMMA PassFields ==
    ASSUME NEW r, HasFields(r), NEW i
    PROVE  LET s == Pass(r, i) IN
           /\ HasFields(s)
           /\ s.participants = Put(r.participants, i, Skipped(r.participants[i]))
           /\ s.index = r.index
           /\ s.owner = r.owner
           /\ s.votes = Drop(r.votes, i)
           /\ s.revealed = r.revealed
           /\ s.hasVotes = r.hasVotes
           /\ s.average = r.average
           /\ s.roleAverages = r.roleAverages
           /\ s.ownerToken = r.ownerToken
BY DEF HasFields, Pass

-----------------------------------------------------------------------------
(* The invariant of a room *)

RoomOK(r, U) ==
    /\ RoomTyped(r, U)
    /\ LeadAgrees(r)
    /\ IndexAgrees(r)
    /\ ConnsAgree(r)
    /\ VotesAgree(r)
    /\ CardsAgree(r)

\* What an operator that writes other fields leaves alone.

LEMMA TypedKept ==
    ASSUME NEW r, NEW U, RoomTyped(r, U),
           NEW s, HasFields(s),
           Present(s) = Present(r),
           s.participants \in [ Present(s) -> Participant ],
           \A i \in Present(r) : s.participants[i].token = r.participants[i].token,
           \A i \in Present(r) : s.participants[i].conn \in U \cup {None},
           s.index = r.index,
           s.votes \in [ DOMAIN s.votes -> Cards ],
           DOMAIN s.votes \subseteq U,
           s.revealed \in BOOLEAN,
           s.hasVotes \in BOOLEAN,
           IsFcn(s.roleAverages),
           DOMAIN s.roleAverages \subseteq Roles,
           s.ownerToken = r.ownerToken,
           s.owner \in U \cup {None}
    PROVE  RoomTyped(s, U)
BY DEF RoomTyped

LEMMA LeadKept ==
    ASSUME NEW r, LeadAgrees(r), NEW s,
           Present(s) = Present(r),
           \A i \in Present(r) :
              /\ s.participants[i].lead = r.participants[i].lead
              /\ s.participants[i].connected = r.participants[i].connected
    PROVE  LeadAgrees(s)
BY DEF LeadAgrees, Leads, Connected

LEMMA IndexKept ==
    ASSUME NEW r, IndexAgrees(r), NEW s,
           Present(s) = Present(r),
           \A i \in Present(r) : s.participants[i].token = r.participants[i].token,
           s.index = r.index
    PROVE  IndexAgrees(s)
BY DEF IndexAgrees, TokensOf

LEMMA ConnsKept ==
    ASSUME NEW r, ConnsAgree(r), NEW s,
           Present(s) = Present(r),
           \A i \in Present(r) :
              /\ s.participants[i].conn = r.participants[i].conn
              /\ s.participants[i].connected = r.participants[i].connected
    PROVE  ConnsAgree(s)
BY DEF ConnsAgree, Connected

LEMMA VotesKept ==
    ASSUME NEW r, VotesAgree(r), NEW s,
           Present(s) = Present(r),
           s.votes = r.votes,
           s.revealed = r.revealed,
           \A i \in Present(r) :
              /\ s.participants[i].role = r.participants[i].role
              /\ s.participants[i].connected = r.participants[i].connected
              /\ s.participants[i].submitted = r.participants[i].submitted
              /\ s.participants[i].skipped = r.participants[i].skipped
              /\ s.participants[i].selected = r.participants[i].selected
    PROVE  VotesAgree(s)
BY DEF VotesAgree, VoteAgrees, Connected

LEMMA CardsKept ==
    ASSUME NEW r, CardsAgree(r), NEW s,
           Present(s) = Present(r),
           s.revealed = r.revealed,
           \A i \in Present(r) :
              /\ s.participants[i].submitted = r.participants[i].submitted
              /\ s.participants[i].selected = r.participants[i].selected
    PROVE  CardsAgree(s)
BY DEF CardsAgree

LEMMA PurgeOK ==
    ASSUME NEW r, NEW U, RoomOK(r, U)
    PROVE  RoomOK(AfterPurge(r), U)
<1> DEFINE s == AfterPurge(r)
           X == Expired(r)
<1>0. HasFields(r)
  BY DEF RoomOK, RoomTyped
<1>1. /\ HasFields(s)
      /\ s.participants = Restrict(r.participants, Present(r) \ X)
      /\ s.index = Restrict(r.index, DOMAIN r.index \ TokensOf(r, X))
      /\ s.owner = IF r.owner \in X THEN None ELSE r.owner
      /\ s.votes = r.votes
      /\ s.revealed = r.revealed
      /\ s.hasVotes = r.hasVotes
      /\ s.roleAverages = r.roleAverages
      /\ s.ownerToken = r.ownerToken
  BY <1>0, PurgeFields, Zenon
<1> HIDE DEF s
<1>2. /\ Present(s) = Present(r) \ X
      /\ \A i \in Present(s) : s.participants[i] = r.participants[i]
  BY <1>1, RestrictFacts DEF Present
<1>3. /\ DOMAIN s.index = DOMAIN r.index \ TokensOf(r, X)
      /\ \A t \in DOMAIN s.index : s.index[t] = r.index[t]
  BY <1>1, RestrictFacts
<1>4. X \subseteq Present(r) /\ X \cap Connected(r) = {}
  BY DEF Expired, Connected
<1>5. Connected(s) = Connected(r)
  BY <1>2, <1>4 DEF Connected
<1>6. IndexAgrees(s)
  <2>1. ASSUME NEW i \in Present(r), NEW j \in Present(r),
               r.participants[i].token = r.participants[j].token
        PROVE  i = j
    BY <2>1 DEF RoomOK, IndexAgrees
  <2>2. TokensOf(s, Present(s)) = TokensOf(r, Present(r)) \ TokensOf(r, X)
    BY <1>2, <1>4, <2>1 DEF TokensOf
  <2>3. DOMAIN s.index = TokensOf(s, Present(s))
    BY <1>3, <2>2 DEF RoomOK, IndexAgrees
  <2>4. \A i \in Present(s) : s.index[s.participants[i].token] = i
    BY <1>2, <1>3, <2>3 DEF TokensOf, RoomOK, IndexAgrees
  <2> QED
    BY <2>3, <2>4 DEF IndexAgrees
<1>7. RoomTyped(s, U)
  <2>1. s.participants \in [ Present(s) -> Participant ]
    <3>1. r.participants \in [ DOMAIN r.participants -> Participant ]
      BY DEF RoomOK, RoomTyped, Present
    <3>2. Present(r) \ X \in SUBSET DOMAIN r.participants
      BY DEF Present
    <3>3. Restrict(r.participants, Present(r) \ X) \in [ Present(r) \ X -> Participant ]
      BY <3>1, <3>2, RestrictType
    <3> QED
      BY <3>3, <1>1, <1>2
  <2>2. s.index \in [ DOMAIN s.index -> Present(s) ]
    <3>1. \A t \in DOMAIN s.index : s.index[t] \in Present(s)
      BY <1>6 DEF IndexAgrees, TokensOf
    <3>2. s.index = [ t \in DOMAIN s.index |-> s.index[t] ]
      BY <1>1 DEF Restrict
    <3> QED
      BY <3>1, <3>2
  <2> QED
    BY <1>1, <1>2, <2>1, <2>2 DEF RoomOK, RoomTyped
<1>8. LeadAgrees(s)
  BY <1>2, <1>5 DEF RoomOK, LeadAgrees, Leads
<1>9. ConnsAgree(s)
  BY <1>2, <1>5 DEF RoomOK, ConnsAgree, Connected
<1>10. VotesAgree(s)
  BY <1>1, <1>2, <1>5 DEF RoomOK, VotesAgree, VoteAgrees
<1>11. CardsAgree(s)
  BY <1>1, <1>2 DEF RoomOK, CardsAgree
<1> QED
  BY <1>6, <1>7, <1>8, <1>9, <1>10, <1>11 DEF RoomOK, s

LEMMA TickOK ==
    ASSUME NEW r, NEW U, RoomOK(r, U)
    PROVE  RoomOK(AfterTick(r), U)
<1> DEFINE s == AfterTick(r)
<1>0. HasFields(r)
  BY DEF RoomOK, RoomTyped
<1>1. /\ HasFields(s)
      /\ s.participants = [ i \in Present(r) |-> Older(r.participants[i]) ]
      /\ s.index = r.index
      /\ s.owner = r.owner
      /\ s.votes = r.votes
      /\ s.revealed = r.revealed
      /\ s.hasVotes = r.hasVotes
      /\ s.roleAverages = r.roleAverages
      /\ s.ownerToken = r.ownerToken
  BY <1>0, TickFields, Zenon
<1> HIDE DEF s
<1>2. /\ Present(s) = Present(r)
      /\ \A i \in Present(r) : s.participants[i] = Older(r.participants[i])
  BY <1>1 DEF Present
<1>3. ASSUME NEW p \in Participant
      PROVE  /\ Older(p) \in Participant
             /\ Older(p).lead = p.lead
             /\ Older(p).connected = p.connected
             /\ Older(p).token = p.token
             /\ Older(p).conn = p.conn
             /\ Older(p).role = p.role
             /\ Older(p).selected = p.selected
             /\ Older(p).submitted = p.submitted
             /\ Older(p).skipped = p.skipped
  BY LimitAssumption DEF Older, Participant
<1>4. \A i \in Present(r) : r.participants[i] \in Participant
  BY DEF RoomOK, RoomTyped
<1>5. RoomTyped(s, U)
  <2>1. s.participants \in [ Present(s) -> Participant ]
    BY <1>1, <1>2, <1>3, <1>4
  <2>2. \A i \in Present(r) : /\ s.participants[i].token = r.participants[i].token
                              /\ s.participants[i].conn = r.participants[i].conn
    BY <1>2, <1>3, <1>4
  <2> QED
    BY <1>1, <1>2, <2>1, <2>2 DEF RoomOK, RoomTyped
<1>6. LeadAgrees(s)
  BY <1>2, <1>3, <1>4, LeadKept DEF RoomOK
<1>7. IndexAgrees(s)
  BY <1>1, <1>2, <1>3, <1>4, IndexKept DEF RoomOK
<1>8. ConnsAgree(s)
  BY <1>2, <1>3, <1>4, ConnsKept DEF RoomOK
<1>9. VotesAgree(s)
  BY <1>1, <1>2, <1>3, <1>4, VotesKept DEF RoomOK
<1>10. CardsAgree(s)
  BY <1>1, <1>2, <1>3, <1>4, CardsKept DEF RoomOK
<1> QED
  BY <1>5, <1>6, <1>7, <1>8, <1>9, <1>10 DEF RoomOK, s

LEMMA MakeLeadOK ==
    ASSUME NEW r, NEW U, RoomOK(r, U), NEW k \in Connected(r)
    PROVE  RoomOK(MakeLead(r, k), U)
<1> DEFINE s == MakeLead(r, k)
<1>0. HasFields(r)
  BY DEF RoomOK, RoomTyped
<1>1. /\ HasFields(s)
      /\ s.participants = [ j \in Present(r) |-> Led(r.participants[j], j, k) ]
      /\ s.index = r.index
      /\ s.owner = r.owner
      /\ s.votes = r.votes
      /\ s.revealed = r.revealed
      /\ s.hasVotes = r.hasVotes
      /\ s.roleAverages = r.roleAverages
      /\ s.ownerToken = r.ownerToken
  BY <1>0, MakeLeadFields
<1> HIDE DEF s
<1>3. ASSUME NEW p \in Participant, NEW j
      PROVE  /\ Led(p, j, k) \in Participant
             /\ Led(p, j, k).connected = p.connected
             /\ Led(p, j, k).token = p.token
             /\ Led(p, j, k).conn = p.conn
             /\ Led(p, j, k).role = p.role
             /\ Led(p, j, k).selected = p.selected
             /\ Led(p, j, k).submitted = p.submitted
             /\ Led(p, j, k).skipped = p.skipped
  BY DEF Participant, Led
<1>2. /\ Present(s) = Present(r)
      /\ \A i \in Present(r) : s.participants[i] = Led(r.participants[i], i, k)
  BY <1>1 DEF Present
<1>4. \A i \in Present(r) : r.participants[i] \in Participant
  BY DEF RoomOK, RoomTyped
<1>5. RoomTyped(s, U)
  <2>1. s.participants \in [ Present(s) -> Participant ]
    BY <1>1, <1>2, <1>3, <1>4
  <2>2. \A i \in Present(r) : /\ s.participants[i].token = r.participants[i].token
                              /\ s.participants[i].conn = r.participants[i].conn
    BY <1>2, <1>3, <1>4
  <2> QED
    BY <1>1, <1>2, <2>1, <2>2 DEF RoomOK, RoomTyped
<1>6. LeadAgrees(s)
  <2>1. k \in Present(r) /\ r.participants[k].connected
    BY DEF Connected
  <2>2. ASSUME NEW i \in Present(r), s.participants[i].lead
        PROVE  i = k
    <3>1. Led(r.participants[i], i, k).lead = (i = k)
      BY <1>4 DEF Led, Participant
    <3> QED
      BY <1>2, <2>2, <3>1
  <2>3. s.participants[k].connected
    BY <1>2, <1>3, <1>4, <2>1
  <2> QED
    BY <1>2, <2>1, <2>2, <2>3 DEF LeadAgrees, Leads, Connected
<1>7. IndexAgrees(s)
  BY <1>1, <1>2, <1>3, <1>4, IndexKept DEF RoomOK
<1>8. ConnsAgree(s)
  BY <1>2, <1>3, <1>4, ConnsKept DEF RoomOK
<1>9. VotesAgree(s)
  BY <1>1, <1>2, <1>3, <1>4, VotesKept DEF RoomOK
<1>10. CardsAgree(s)
  BY <1>1, <1>2, <1>3, <1>4, CardsKept DEF RoomOK
<1> QED
  BY <1>5, <1>6, <1>7, <1>8, <1>9, <1>10 DEF RoomOK, s

\* The owner field is free to name any participant.
LEMMA OwnerKept ==
    ASSUME NEW r, NEW U, RoomOK(r, U),
           NEW s, HasFields(s),
           s.participants = r.participants,
           s.index = r.index,
           s.votes = r.votes,
           s.revealed = r.revealed,
           s.hasVotes = r.hasVotes,
           s.roleAverages = r.roleAverages,
           s.ownerToken = r.ownerToken,
           s.owner \in U \cup {None}
    PROVE  RoomOK(s, U)
<1>1. Present(s) = Present(r)
  BY DEF Present
<1>2. RoomTyped(s, U)
  BY <1>1 DEF RoomOK, RoomTyped
<1>3. LeadAgrees(s)
  BY <1>1, LeadKept DEF RoomOK
<1>4. IndexAgrees(s)
  BY <1>1, IndexKept DEF RoomOK
<1>5. ConnsAgree(s)
  BY <1>1, ConnsKept DEF RoomOK
<1>6. VotesAgree(s)
  BY <1>1, VotesKept DEF RoomOK
<1>7. CardsAgree(s)
  BY <1>1, CardsKept DEF RoomOK
<1> QED
  BY <1>2, <1>3, <1>4, <1>5, <1>6, <1>7 DEF RoomOK

LEMMA AsOwnerOK ==
    ASSUME NEW r, NEW U, RoomOK(r, U), NEW k \in Connected(r)
    PROVE  RoomOK(AsOwner(r, k), U)
<1> DEFINE s == AsOwner(r, k)
           m == MakeLead(r, k)
<1>0. HasFields(r)
  BY DEF RoomOK, RoomTyped
<1>1. RoomOK(m, U)
  BY MakeLeadOK
<1>2. /\ HasFields(s)
      /\ s.participants = m.participants
      /\ s.index = r.index
      /\ s.owner = k
      /\ s.votes = r.votes
      /\ s.revealed = r.revealed
      /\ s.hasVotes = r.hasVotes
      /\ s.roleAverages = r.roleAverages
      /\ s.ownerToken = r.ownerToken
  BY <1>0, AsOwnerFields
<1>3. /\ m.index = r.index
      /\ m.votes = r.votes
      /\ m.revealed = r.revealed
      /\ m.hasVotes = r.hasVotes
      /\ m.roleAverages = r.roleAverages
      /\ m.ownerToken = r.ownerToken
  BY <1>0, MakeLeadFields, Zenon
<1>4. k \in U
  BY DEF RoomOK, RoomTyped, Connected
<1> HIDE DEF s, m
<1>5. RoomOK(s, U)
  BY <1>1, <1>2, <1>3, <1>4, OwnerKept
<1> QED
  BY <1>5 DEF s

LEMMA SucceededOK ==
    ASSUME NEW r, NEW U, RoomOK(r, U), NEW b, NEW s \in Succeeded(r, b)
    PROVE  RoomOK(s, U)
BY MakeLeadOK DEF Succeeded, PromoteAny

LEMMA Monotone ==
    ASSUME NEW r, NEW U, NEW V, U \subseteq V, RoomOK(r, U)
    PROVE  RoomOK(r, V)
<1>1. RoomTyped(r, V)
  BY DEF RoomOK, RoomTyped
<1> QED
  BY <1>1 DEF RoomOK

LEMMA NewRoomOK ==
    ASSUME NEW o \in {OwnerToken, None}
    PROVE  RoomOK(NewRoom(o), {})
<1> DEFINE s == NewRoom(o)
<1>1. /\ HasFields(s)
      /\ s.participants = EmptyFcn
      /\ s.index = EmptyFcn
      /\ s.owner = None
      /\ s.votes = EmptyFcn
      /\ s.revealed = FALSE
      /\ s.hasVotes = FALSE
      /\ s.roleAverages = EmptyFcn
      /\ s.ownerToken = o
  BY DEF NewRoom, HasFields
<1>2. DOMAIN EmptyFcn = {} /\ \A T : EmptyFcn \in [ {} -> T ] /\ IsFcn(EmptyFcn)
  BY DEF EmptyFcn, IsFcn
<1> HIDE DEF s
<1>3. Present(s) = {} /\ DOMAIN s.votes = {} /\ DOMAIN s.index = {}
  BY <1>1, <1>2 DEF Present
<1>4. RoomTyped(s, {})
  BY <1>1, <1>2, <1>3 DEF RoomTyped
<1>5. LeadAgrees(s)
  BY <1>3 DEF LeadAgrees, Leads
<1>6. IndexAgrees(s)
  BY <1>3 DEF IndexAgrees, TokensOf
<1>7. ConnsAgree(s)
  BY <1>3 DEF ConnsAgree, Connected
<1>8. VotesAgree(s)
  BY <1>3 DEF VotesAgree
<1>9. CardsAgree(s)
  BY <1>1 DEF CardsAgree
<1> QED
  BY <1>4, <1>5, <1>6, <1>7, <1>8, <1>9 DEF RoomOK, s

-----------------------------------------------------------------------------
(* Joining preserves the invariant *)

LEMMA ReadmittedOK ==
    ASSUME NEW r, NEW U, RoomOK(r, U),
           NEW i \in Present(r), NEW c \in Conns, c \notin U, NEW q \in Request,
           NEW t, t = c \/ t = r.participants[i].token
    PROVE  /\ RoomOK(Readmitted(r, i, c, q, t), U \cup {c})
           /\ i \in Connected(Readmitted(r, i, c, q, t))
<1> DEFINE s == Readmitted(r, i, c, q, t)
           old == r.participants[i]
           V == U \cup {c}
<1>0. HasFields(r)
  BY DEF RoomOK, RoomTyped
<1>1. /\ HasFields(s)
      /\ s.participants = Put(r.participants, i, Returned(old, c, q, t))
      /\ s.index = Reindex(r.index, old.token, t, i)
      /\ s.owner = r.owner
      /\ s.votes = KeptVotes(r, i, q)
      /\ s.revealed = r.revealed
      /\ s.hasVotes = IF old.role = q.role THEN r.hasVotes
                      ELSE HasVotesGiven(r, KeptVotes(r, i, q))
      /\ s.roleAverages = r.roleAverages
      /\ s.ownerToken = r.ownerToken
  BY <1>0, ReadmittedFields
<1> HIDE DEF s
<1>2. /\ old \in Participant
      /\ i \in U
      /\ old.token \in U
      /\ c # None
      /\ t \in V
      /\ t \in Conns
  BY NoneAssumption DEF RoomOK, RoomTyped, Participant
<1> DEFINE p == Returned(old, c, q, t)
<1>3. /\ p \in Participant
      /\ p.lead = old.lead
      /\ p.token = t
      /\ p.conn = c
      /\ p.connected = TRUE
      /\ p.role = q.role
      /\ p.selected = IF old.role = q.role THEN old.selected ELSE None
      /\ p.submitted = (old.role = q.role /\ old.submitted)
      /\ p.skipped = (old.role = q.role /\ old.skipped)
  BY <1>2, LimitAssumption DEF Returned, Participant, Request
<1> HIDE DEF p
<1>4. /\ Present(s) = Present(r)
      /\ s.participants[i] = p
      /\ \A j \in Present(r) \ {i} : s.participants[j] = r.participants[j]
  BY <1>1 DEF Present, p, Put
<1>5. Connected(s) = Connected(r) \cup {i}
  BY <1>3, <1>4 DEF Connected
<1>6. /\ DOMAIN s.index = (DOMAIN r.index \ {old.token}) \cup {t}
      /\ s.index[t] = i
      /\ \A x \in DOMAIN r.index \ {old.token, t} : s.index[x] = r.index[x]
  BY <1>1 DEF Reindex, Put, Drop
<1>7. IndexAgrees(s)
  <2>1. \A j \in Present(r) \ {i} : /\ r.participants[j].token # old.token
                                    /\ r.participants[j].token # t
                                    /\ r.participants[j].token \in DOMAIN r.index
    BY DEF RoomOK, IndexAgrees, TokensOf, RoomTyped
  <2>2. DOMAIN s.index = TokensOf(s, Present(s))
    BY <1>3, <1>4, <1>6, <2>1 DEF TokensOf, RoomOK, IndexAgrees
  <2>3. \A j \in Present(s) : s.index[s.participants[j].token] = j
    BY <1>3, <1>4, <1>6, <2>1 DEF RoomOK, IndexAgrees
  <2> QED
    BY <2>2, <2>3 DEF IndexAgrees
<1>8. VotesAgree(s)
  <2>1. CASE old.role = q.role
    <3>1. s.votes = r.votes
      BY <1>1, <2>1 DEF KeptVotes
    <3>2. VoteAgrees(s.votes, i, s.participants[i])
      <4>1. VoteAgrees(r.votes, i, old)
        BY DEF RoomOK, VotesAgree
      <4>2. /\ p.submitted <=> old.submitted
            /\ p.skipped <=> old.skipped
            /\ p.selected = old.selected
            /\ p.role = old.role
        BY <1>3, <2>1
      <4> QED
        BY <1>4, <3>1, <4>1, <4>2 DEF VoteAgrees
    <3>3. \A j \in Present(r) \ {i} : VoteAgrees(s.votes, j, s.participants[j])
      BY <1>4, <3>1 DEF RoomOK, VotesAgree
    <3> QED
      BY <1>1, <1>4, <1>5, <3>1, <3>2, <3>3 DEF RoomOK, VotesAgree
  <2>2. CASE old.role # q.role
    <3>1. /\ DOMAIN s.votes = DOMAIN r.votes \ {i}
          /\ \A j \in DOMAIN s.votes : s.votes[j] = r.votes[j]
      BY <1>1, <2>2 DEF KeptVotes, Drop
    <3>2. VoteAgrees(s.votes, i, s.participants[i])
      BY <1>3, <1>4, <2>2, <3>1 DEF VoteAgrees
    <3>3. \A j \in Present(r) \ {i} : VoteAgrees(s.votes, j, s.participants[j])
      BY <1>4, <3>1 DEF RoomOK, VotesAgree, VoteAgrees
    <3> QED
      BY <1>1, <1>4, <1>5, <3>1, <3>2, <3>3 DEF RoomOK, VotesAgree
  <2> QED
    BY <2>1, <2>2
<1>9. RoomTyped(s, V)
  <2>1. s.participants \in [ Present(s) -> Participant ]
    <3>1. r.participants \in [ DOMAIN r.participants -> Participant ]
      BY DEF RoomOK, RoomTyped, Present
    <3>2. Put(r.participants, i, p) \in [ DOMAIN Put(r.participants, i, p) -> Participant ]
      BY <1>3, <3>1, PutType
    <3> QED
      BY <1>1, <3>2 DEF Present, p
  <2>2. s.index \in [ DOMAIN s.index -> Present(s) ]
    <3>1. \A x \in DOMAIN s.index : s.index[x] \in Present(s)
      BY <1>7 DEF IndexAgrees, TokensOf
    <3>2. s.index = [ x \in DOMAIN s.index |-> s.index[x] ]
      BY <1>1 DEF Reindex, Put
    <3> QED
      BY <3>1, <3>2
  <2>3. /\ s.votes \in [ DOMAIN s.votes -> Cards ]
        /\ DOMAIN s.votes \subseteq U
    <3>1. r.votes \in [ DOMAIN r.votes -> Cards ] /\ DOMAIN r.votes \subseteq U
      BY DEF RoomOK, RoomTyped
    <3>2. Drop(r.votes, i) \in [ DOMAIN Drop(r.votes, i) -> Cards ]
      BY <3>1, DropType
    <3>3. DOMAIN Drop(r.votes, i) \subseteq U
      BY <3>1 DEF Drop
    <3> QED
      BY <1>1, <3>1, <3>2, <3>3 DEF KeptVotes
  <2>4. s.hasVotes \in BOOLEAN
    BY <1>1 DEF HasVotesGiven, RoomOK, RoomTyped
  <2>5. \A j \in Present(s) : /\ s.participants[j].token \in V
                              /\ s.participants[j].conn \in V \cup {None}
    BY <1>2, <1>3, <1>4 DEF RoomOK, RoomTyped
  <2> QED
    BY <1>1, <1>4, <2>1, <2>2, <2>3, <2>4, <2>5 DEF RoomOK, RoomTyped
<1>10. LeadAgrees(s)
  BY <1>3, <1>4, <1>5 DEF RoomOK, LeadAgrees, Leads
<1>11. ConnsAgree(s)
  <2>1. \A j \in Present(r) : r.participants[j].conn # c
    BY <1>2 DEF RoomOK, RoomTyped
  <2>2. \A j \in Present(s) : s.participants[j].conn = None <=> ~ s.participants[j].connected
    BY <1>2, <1>3, <1>4 DEF RoomOK, ConnsAgree
  <2>3. Connected(r) \subseteq Present(r)
    BY DEF Connected
  <2>4. ASSUME NEW j \in Connected(s), NEW k \in Connected(s),
               s.participants[j].conn = s.participants[k].conn
        PROVE  j = k
    <3>1. CASE j = i
      BY <1>3, <1>4, <1>5, <2>1, <2>3, <2>4, <3>1
    <3>2. CASE k = i
      BY <1>3, <1>4, <1>5, <2>1, <2>3, <2>4, <3>2
    <3>3. CASE j # i /\ k # i
      BY <1>4, <1>5, <2>3, <2>4, <3>3 DEF RoomOK, ConnsAgree
    <3> QED
      BY <3>1, <3>2, <3>3
  <2> QED
    BY <2>2, <2>4 DEF ConnsAgree
<1>12. CardsAgree(s)
  BY <1>1, <1>3, <1>4 DEF RoomOK, CardsAgree
<1> QED
  BY <1>5, <1>7, <1>8, <1>9, <1>10, <1>11, <1>12 DEF RoomOK, s

LEMMA EnrolledOK ==
    ASSUME NEW r, NEW U, RoomOK(r, U),
           NEW c \in Conns, c \notin U, NEW q \in Request
    PROVE  /\ RoomOK(Enrolled(r, c, q), U \cup {c})
           /\ c \in Connected(Enrolled(r, c, q))
<1> DEFINE s == Enrolled(r, c, q)
           V == U \cup {c}
<1>0. HasFields(r)
  BY DEF RoomOK, RoomTyped
<1>1. /\ HasFields(s)
      /\ s.participants = Put(r.participants, c, Newcomer(r, c, q))
      /\ s.index = Put(r.index, c, c)
      /\ s.owner = r.owner
      /\ s.votes = r.votes
      /\ s.revealed = r.revealed
      /\ s.hasVotes = r.hasVotes
      /\ s.roleAverages = r.roleAverages
      /\ s.ownerToken = r.ownerToken
  BY <1>0, EnrolledFields
<1> HIDE DEF s
<1> DEFINE p == Newcomer(r, c, q)
<1>2. /\ c # None
      /\ c \notin Present(r)
      /\ c \notin DOMAIN r.votes
      /\ \A j \in Present(r) : r.participants[j].conn # c /\ r.participants[j].token # c
  BY NoneAssumption DEF RoomOK, RoomTyped
<1>3. /\ p \in Participant
      /\ p.token = c
      /\ p.conn = c
      /\ p.connected = TRUE
      /\ p.submitted = FALSE
      /\ p.skipped = FALSE
      /\ p.selected = None
  BY LimitAssumption DEF Newcomer, Participant, Request, IsEmpty
<1>4. p.lead = IsEmpty(r)
  BY DEF Newcomer
<1> HIDE DEF p
<1>5. /\ Present(s) = Present(r) \cup {c}
      /\ s.participants[c] = p
      /\ \A j \in Present(r) : s.participants[j] = r.participants[j]
  BY <1>1, <1>2 DEF Present, p, Put
<1>6. Connected(s) = Connected(r) \cup {c}
  BY <1>2, <1>3, <1>5 DEF Connected
<1>7. /\ DOMAIN s.index = DOMAIN r.index \cup {c}
      /\ s.index[c] = c
      /\ \A x \in DOMAIN r.index \ {c} : s.index[x] = r.index[x]
  BY <1>1 DEF Put
<1>8. IndexAgrees(s)
  <2>1. DOMAIN s.index = TokensOf(s, Present(s))
    BY <1>2, <1>3, <1>5, <1>7 DEF TokensOf, RoomOK, IndexAgrees
  <2>2. \A j \in Present(r) : r.participants[j].token \in DOMAIN r.index
    BY DEF TokensOf, RoomOK, IndexAgrees
  <2>3. \A j \in Present(s) : s.index[s.participants[j].token] = j
    BY <1>2, <1>3, <1>5, <1>7, <2>2 DEF RoomOK, IndexAgrees
  <2> QED
    BY <2>1, <2>3 DEF IndexAgrees
<1>9. VotesAgree(s)
  <2>1. VoteAgrees(s.votes, c, s.participants[c])
    BY <1>1, <1>2, <1>3, <1>5 DEF VoteAgrees
  <2>2. \A j \in Present(r) : VoteAgrees(s.votes, j, s.participants[j])
    BY <1>1, <1>5 DEF RoomOK, VotesAgree
  <2> QED
    BY <1>1, <1>5, <1>6, <2>1, <2>2 DEF RoomOK, VotesAgree
<1>10. RoomTyped(s, V)
  <2>1. s.participants \in [ Present(s) -> Participant ]
    <3>1. r.participants \in [ DOMAIN r.participants -> Participant ]
      BY DEF RoomOK, RoomTyped, Present
    <3>2. Put(r.participants, c, p) \in [ DOMAIN Put(r.participants, c, p) -> Participant ]
      BY <1>3, <3>1, PutType
    <3> QED
      BY <1>1, <3>2 DEF Present, p
  <2>2. s.index \in [ DOMAIN s.index -> Present(s) ]
    <3>1. \A x \in DOMAIN s.index : s.index[x] \in Present(s)
      BY <1>8 DEF IndexAgrees, TokensOf
    <3>2. s.index = [ x \in DOMAIN s.index |-> s.index[x] ]
      BY <1>1 DEF Put
    <3> QED
      BY <3>1, <3>2
  <2>3. \A j \in Present(s) : /\ s.participants[j].token \in V
                              /\ s.participants[j].conn \in V \cup {None}
    BY <1>3, <1>5 DEF RoomOK, RoomTyped
  <2> QED
    BY <1>1, <1>5, <2>1, <2>2, <2>3 DEF RoomOK, RoomTyped
<1>11. LeadAgrees(s)
  <2>1. CASE IsEmpty(r)
    <3>1. Leads(r) = {}
      BY <2>1 DEF RoomOK, LeadAgrees, IsEmpty
    <3>2. Leads(s) \subseteq {c}
      BY <1>5, <3>1 DEF Leads
    <3> QED
      BY <1>6, <3>2 DEF LeadAgrees
  <2>2. CASE ~ IsEmpty(r)
    <3>1. Leads(s) = Leads(r)
      BY <1>2, <1>4, <1>5, <2>2 DEF Leads
    <3> QED
      BY <1>6, <3>1 DEF RoomOK, LeadAgrees
  <2> QED
    BY <2>1, <2>2
<1>12. ConnsAgree(s)
  <2>1. \A j \in Present(s) : s.participants[j].conn = None <=> ~ s.participants[j].connected
    BY <1>2, <1>3, <1>5 DEF RoomOK, ConnsAgree
  <2>2. Connected(r) \subseteq Present(r)
    BY DEF Connected
  <2>3. ASSUME NEW j \in Connected(s), NEW k \in Connected(s),
               s.participants[j].conn = s.participants[k].conn
        PROVE  j = k
    <3>1. CASE j = c
      BY <1>2, <1>3, <1>5, <1>6, <2>2, <2>3, <3>1
    <3>2. CASE k = c
      BY <1>2, <1>3, <1>5, <1>6, <2>2, <2>3, <3>2
    <3>3. CASE j # c /\ k # c
      BY <1>5, <1>6, <2>2, <2>3, <3>3 DEF RoomOK, ConnsAgree
    <3> QED
      BY <3>1, <3>2, <3>3
  <2> QED
    BY <2>1, <2>3 DEF ConnsAgree
<1>13. CardsAgree(s)
  BY <1>1, <1>3, <1>5 DEF RoomOK, CardsAgree
<1> QED
  BY <1>6, <1>8, <1>9, <1>10, <1>11, <1>12, <1>13 DEF RoomOK, s

LEMMA AdmitOK ==
    ASSUME NEW r, NEW U, RoomOK(r, U),
           NEW c \in Conns, c \notin U, NEW q \in Request
    PROVE  RoomOK(Admit(r, c, q), U \cup {c})
<1>1. CASE JoinError(r, q) # "none"
  BY <1>1, Monotone DEF Admit
<1>2. CASE JoinError(r, q) = "none" /\ q.token # None
  <2> DEFINE i == r.index[q.token]
  <2>1. Opens(r, q)
    BY <1>2 DEF JoinError
  <2>2. i \in Present(r) /\ q.token = r.participants[i].token
    BY <2>1 DEF Opens, RoomOK, IndexAgrees, TokensOf
  <2>3. Admit(r, c, q) = Replace(r, i, c, q, q.token)
    BY <1>2 DEF Admit, JoinsAs, Issues
  <2> HIDE DEF i
  <2>4. /\ RoomOK(Readmitted(r, i, c, q, q.token), U \cup {c})
        /\ i \in Connected(Readmitted(r, i, c, q, q.token))
    BY <2>2, ReadmittedOK
  <2>5. RoomOK(AsOwner(Readmitted(r, i, c, q, q.token), i), U \cup {c})
    BY <2>4, AsOwnerOK
  <2> QED
    BY <2>3, <2>4, <2>5 DEF Replace
<1>3. CASE JoinError(r, q) = "none" /\ q.token = None /\ OwnerReturns(r, q)
  <2> DEFINE i == r.owner
  <2>1. i \in Present(r)
    BY <1>3 DEF OwnerReturns
  <2>2. Admit(r, c, q) = Replace(r, i, c, q, c)
    BY <1>3 DEF Admit, JoinsAs, Issues
  <2> HIDE DEF i
  <2>3. /\ RoomOK(Readmitted(r, i, c, q, c), U \cup {c})
        /\ i \in Connected(Readmitted(r, i, c, q, c))
    BY <2>1, ReadmittedOK
  <2>4. RoomOK(AsOwner(Readmitted(r, i, c, q, c), i), U \cup {c})
    BY <2>3, AsOwnerOK
  <2> QED
    BY <2>2, <2>3, <2>4 DEF Replace
<1>4. CASE JoinError(r, q) = "none" /\ q.token = None /\ ~ OwnerReturns(r, q)
  <2>1. Admit(r, c, q) = Enrol(r, c, q)
    BY <1>4 DEF Admit
  <2>2. /\ RoomOK(Enrolled(r, c, q), U \cup {c})
        /\ c \in Connected(Enrolled(r, c, q))
    BY EnrolledOK
  <2>3. RoomOK(AsOwner(Enrolled(r, c, q), c), U \cup {c})
    BY <2>2, AsOwnerOK
  <2> QED
    BY <2>1, <2>2, <2>3 DEF Enrol
<1> QED
  BY <1>1, <1>2, <1>3, <1>4

LEMMA AddConnectionOK ==
    ASSUME NEW r, NEW U, RoomOK(r, U),
           NEW c \in Conns, c \notin U, NEW q \in Request
    PROVE  RoomOK(AfterAddConnection(r, c, q), U \cup {c})
BY PurgeOK, AdmitOK DEF AfterAddConnection

-----------------------------------------------------------------------------
(* Changes to one participant *)

\* Participant i becomes p and the votes change with it, as when it leaves
\* (Left), casts a vote (Cast) or skips one (Pass).
LEMMA OneChangedOK ==
    ASSUME NEW r, NEW U, RoomOK(r, U), NEW i \in Present(r),
           NEW p \in Participant,
           p.token = r.participants[i].token,
           p.lead => r.participants[i].lead /\ p.connected,
           p.conn = None <=> ~ p.connected,
           p.connected => /\ r.participants[i].connected
                          /\ p.conn = r.participants[i].conn,
           NEW s, HasFields(s),
           s.participants = Put(r.participants, i, p),
           s.index = r.index,
           s.owner = r.owner,
           s.revealed = r.revealed,
           s.roleAverages = r.roleAverages,
           s.ownerToken = r.ownerToken,
           s.votes \in [ DOMAIN s.votes -> Cards ],
           DOMAIN s.votes \subseteq DOMAIN r.votes \cup {i},
           s.hasVotes \in BOOLEAN,
           VoteAgrees(s.votes, i, p),
           \A j \in Present(r) \ {i} : VoteAgrees(s.votes, j, r.participants[j]),
           ~ r.revealed => /\ i \in DOMAIN s.votes => p.connected
                           /\ ~ p.connected => p.selected = None /\ ~ p.submitted,
           r.revealed /\ p.selected # None => p.submitted
    PROVE  RoomOK(s, U)
<1> DEFINE old == r.participants[i]
<1>1. /\ Present(s) = Present(r)
      /\ s.participants[i] = p
      /\ \A j \in Present(r) \ {i} : s.participants[j] = r.participants[j]
  BY DEF Present, Put
<1>2. /\ Connected(s) \subseteq Connected(r)
      /\ Connected(r) \ {i} \subseteq Connected(s)
      /\ i \in Connected(s) <=> p.connected
  BY <1>1 DEF Connected
<1>3. i \in U /\ \A j \in Present(r) : r.participants[j].conn \in U \cup {None}
  BY DEF RoomOK, RoomTyped
<1>4. RoomTyped(s, U)
  <2>1. s.participants \in [ Present(s) -> Participant ]
    <3>1. r.participants \in [ DOMAIN r.participants -> Participant ]
      BY DEF RoomOK, RoomTyped, Present
    <3>2. Put(r.participants, i, p) \in [ DOMAIN Put(r.participants, i, p) -> Participant ]
      BY <3>1, PutType
    <3> QED
      BY <3>2 DEF Present
  <2>2. DOMAIN s.votes \subseteq U
    BY <1>3 DEF RoomOK, RoomTyped
  <2>3. \A j \in Present(r) : s.participants[j].token = r.participants[j].token
    BY <1>1
  <2>4. \A j \in Present(r) : s.participants[j].conn \in U \cup {None}
    BY <1>1, <1>3
  <2> QED
    BY <1>1, <2>1, <2>2, <2>3, <2>4 DEF RoomOK, RoomTyped
<1>5. LeadAgrees(s)
  <2>1. Leads(s) \subseteq Leads(r) /\ (i \in Leads(s) => i \in Connected(s))
    BY <1>1, <1>2 DEF Leads
  <2> QED
    BY <1>2, <2>1 DEF RoomOK, LeadAgrees
<1>6. IndexAgrees(s)
  <2>1. \A j \in Present(r) : s.participants[j].token = r.participants[j].token
    BY <1>1
  <2> QED
    BY <1>1, <2>1, IndexKept DEF RoomOK
<1>7. ConnsAgree(s)
  <2>1. \A j \in Present(s) : s.participants[j].conn = None <=> ~ s.participants[j].connected
    BY <1>1 DEF RoomOK, ConnsAgree
  <2>2. \A j \in Connected(s) : s.participants[j].conn = r.participants[j].conn
    BY <1>1, <1>2 DEF Connected
  <2> QED
    BY <1>2, <2>1, <2>2 DEF RoomOK, ConnsAgree
<1>8. VotesAgree(s)
  <2>1. \A j \in Present(s) : VoteAgrees(s.votes, j, s.participants[j])
    BY <1>1
  <2>2. ASSUME ~ s.revealed
        PROVE  DOMAIN s.votes \subseteq Connected(s)
    BY <1>2, <2>2 DEF RoomOK, VotesAgree
  <2>3. ASSUME ~ s.revealed, NEW j \in Present(s) \ Connected(s)
        PROVE  s.participants[j].selected = None /\ ~ s.participants[j].submitted
    BY <1>1, <1>2, <2>3 DEF RoomOK, VotesAgree
  <2> QED
    BY <2>1, <2>2, <2>3 DEF VotesAgree
<1>9. CardsAgree(s)
  BY <1>1 DEF RoomOK, CardsAgree
<1> QED
  BY <1>4, <1>5, <1>6, <1>7, <1>8, <1>9 DEF RoomOK

LEMMA VotesWithout ==
    ASSUME NEW r, NEW U, RoomOK(r, U), NEW i
    PROVE  /\ Drop(r.votes, i) \in [ DOMAIN Drop(r.votes, i) -> Cards ]
           /\ DOMAIN Drop(r.votes, i) \subseteq DOMAIN r.votes
           /\ i \notin DOMAIN Drop(r.votes, i)
           /\ \A j \in Present(r) \ {i} :
                 VoteAgrees(Drop(r.votes, i), j, r.participants[j])
<1>1. r.votes \in [ DOMAIN r.votes -> Cards ]
  BY DEF RoomOK, RoomTyped
<1>2. Drop(r.votes, i) \in [ DOMAIN Drop(r.votes, i) -> Cards ]
  BY <1>1, DropType
<1>3. DOMAIN Drop(r.votes, i) = DOMAIN r.votes \ {i}
  BY DEF Drop
<1>4. \A j \in DOMAIN r.votes \ {i} : Drop(r.votes, i)[j] = r.votes[j]
  BY DEF Drop
<1>5. \A j \in Present(r) \ {i} : VoteAgrees(Drop(r.votes, i), j, r.participants[j])
  BY <1>3, <1>4 DEF RoomOK, VotesAgree, VoteAgrees
<1> QED
  BY <1>2, <1>3, <1>5

LEMMA DisconnectedType ==
    ASSUME NEW p \in Participant, NEW b \in BOOLEAN
    PROVE Disconnected(p, b) \in Participant
<1> DEFINE d == Disconnected(p, b)
<1>1. /\ d.role \in Roles \cup {None}
      /\ d.lead \in BOOLEAN
      /\ d.submitted \in BOOLEAN
      /\ d.skipped \in BOOLEAN
      /\ d.client \in Clients
      /\ d.conn \in Conns \cup {None}
      /\ d.token \in Conns
      /\ d.connected \in BOOLEAN
      /\ d.age \in 0 .. Retention
  BY LimitAssumption DEF Disconnected, Participant
<1>2. d.selected \in Cards \cup {None}
  BY DEF Disconnected, Participant
<1>3. d \in [ role : {d.role}, lead : {d.lead}, submitted : {d.submitted},
              skipped : {d.skipped}, selected : {d.selected}, client : {d.client},
              conn : {d.conn}, token : {d.token}, connected : {d.connected}, age : {d.age} ]
  BY DEF Disconnected, Participant
<1> HIDE DEF d
<1>4. d \in Participant
  BY <1>1, <1>2, <1>3, LimitAssumption DEF Participant
<1> QED
  BY <1>4 DEF d

LEMMA LeftOK ==
    ASSUME NEW r, NEW U, RoomOK(r, U), NEW i \in Present(r)
    PROVE  RoomOK(Left(r, i), U)
<1> DEFINE s == Left(r, i)
           old == r.participants[i]
<1>0. HasFields(r) /\ old \in Participant /\ r.revealed \in BOOLEAN
  BY DEF RoomOK, RoomTyped
<1>1. /\ HasFields(s)
      /\ s.participants = Put(r.participants, i, Disconnected(old, r.revealed))
      /\ s.index = r.index
      /\ s.owner = r.owner
      /\ s.votes = WithoutVote(r, i).votes
      /\ s.revealed = r.revealed
      /\ s.hasVotes = WithoutVote(r, i).hasVotes
      /\ s.roleAverages = r.roleAverages
      /\ s.ownerToken = r.ownerToken
  BY <1>0, LeftFields
<1>2. /\ WithoutVote(r, i).votes = IF r.revealed THEN r.votes ELSE Drop(r.votes, i)
      /\ WithoutVote(r, i).hasVotes = IF r.revealed THEN r.hasVotes
                                      ELSE HasVotesGiven(r, Drop(r.votes, i))
  BY <1>0, WithoutVoteFields
<1> HIDE DEF s
<1> DEFINE p == Disconnected(old, r.revealed)
<1>3. p \in Participant
  BY <1>0, DisconnectedType
<1>4. /\ p.token = old.token
      /\ p.lead = FALSE
      /\ p.conn = None
      /\ p.connected = FALSE
      /\ p.role = old.role
      /\ p.submitted <=> r.revealed /\ old.submitted
      /\ p.skipped <=> r.revealed /\ old.skipped
      /\ p.selected = IF r.revealed THEN old.selected ELSE None
  BY <1>0 DEF Disconnected, Participant
<1>5. s.participants = Put(r.participants, i, p)
  BY <1>1
<1> HIDE DEF p
<1>6. CASE r.revealed
  <2>1. s.votes = r.votes
    BY <1>1, <1>2, <1>6
  <2>2. s.hasVotes \in BOOLEAN
    BY <1>1, <1>2, <1>6 DEF RoomOK, RoomTyped
  <2>3. VoteAgrees(s.votes, i, p)
    <3>1. VoteAgrees(r.votes, i, old)
      BY DEF RoomOK, VotesAgree
    <3>2. /\ p.submitted <=> old.submitted
          /\ p.skipped <=> old.skipped
          /\ p.selected = old.selected
      BY <1>4, <1>6
    <3> QED
      BY <1>4, <2>1, <3>1, <3>2 DEF VoteAgrees
  <2>4. \A j \in Present(r) \ {i} : VoteAgrees(s.votes, j, r.participants[j])
    BY <2>1 DEF RoomOK, VotesAgree
  <2>5. s.votes \in [ DOMAIN s.votes -> Cards ]
    BY <2>1 DEF RoomOK, RoomTyped
  <2>6. p.selected # None => p.submitted
    BY <1>4, <1>6 DEF RoomOK, CardsAgree
  <2> QED
    BY <1>1, <1>3, <1>4, <1>5, <1>6, <2>1, <2>2, <2>3, <2>4, <2>5, <2>6, OneChangedOK DEF s
<1>7. CASE ~ r.revealed
  <2>1. s.votes = Drop(r.votes, i)
    BY <1>1, <1>2, <1>7
  <2>2. s.hasVotes \in BOOLEAN
    BY <1>1, <1>2, <1>7 DEF HasVotesGiven
  <2>3. p.submitted = FALSE /\ p.skipped = FALSE /\ p.selected = None
    BY <1>3, <1>4, <1>7 DEF Participant
  <2>4. i \notin DOMAIN s.votes
    BY <2>1 DEF Drop
  <2>5. VoteAgrees(s.votes, i, p)
    BY <2>3, <2>4 DEF VoteAgrees
  <2>6. /\ s.votes \in [ DOMAIN s.votes -> Cards ]
        /\ DOMAIN s.votes \subseteq DOMAIN r.votes
        /\ \A j \in Present(r) \ {i} : VoteAgrees(s.votes, j, r.participants[j])
    BY <2>1, VotesWithout
  <2> QED
    BY <1>1, <1>3, <1>4, <1>5, <1>7, <2>2, <2>3, <2>4, <2>5, <2>6, OneChangedOK DEF s
<1> QED
  BY <1>6, <1>7

LEMMA CastOK ==
    ASSUME NEW r, NEW U, RoomOK(r, U), NEW i \in Present(r), MayVote(r, i),
           NEW v \in Cards, NEW b \in BOOLEAN
    PROVE  RoomOK(Cast(r, i, v, b), U)
<1> DEFINE s == Cast(r, i, v, b)
           old == r.participants[i]
<1>0. HasFields(r) /\ old \in Participant /\ r.hasVotes \in BOOLEAN
  BY DEF RoomOK, RoomTyped
<1>1. /\ HasFields(s)
      /\ s.participants = Put(r.participants, i, Chosen(old, v, b))
      /\ s.index = r.index
      /\ s.owner = r.owner
      /\ s.votes = IF b THEN Put(r.votes, i, v) ELSE Drop(r.votes, i)
      /\ s.revealed = r.revealed
      /\ s.hasVotes = (b \/ r.hasVotes)
      /\ s.roleAverages = r.roleAverages
      /\ s.ownerToken = r.ownerToken
  BY <1>0, CastFields
<1> HIDE DEF s
<1> DEFINE p == Chosen(old, v, b)
<1>2. /\ p \in Participant
      /\ p.token = old.token
      /\ p.lead = old.lead
      /\ p.conn = old.conn
      /\ p.connected = old.connected
      /\ p.role = old.role
      /\ p.submitted = b
      /\ p.skipped = FALSE
      /\ p.selected = v
  BY <1>0 DEF Chosen, Participant
<1>3. s.participants = Put(r.participants, i, p)
  BY <1>1
<1> HIDE DEF p
<1>4. old.connected /\ old.role # None /\ ~ r.revealed
  BY DEF MayVote, Voters, Connected
<1>5. old.conn # None
  BY <1>4 DEF RoomOK, ConnsAgree
<1>6. s.hasVotes \in BOOLEAN
  BY <1>0, <1>1
<1>7. CASE b
  <2>1. /\ DOMAIN s.votes = DOMAIN r.votes \cup {i}
        /\ s.votes[i] = v
        /\ \A j \in DOMAIN r.votes \ {i} : s.votes[j] = r.votes[j]
    BY <1>1, <1>7 DEF Put
  <2>2. s.votes \in [ DOMAIN s.votes -> Cards ]
    <3>1. r.votes \in [ DOMAIN r.votes -> Cards ]
      BY DEF RoomOK, RoomTyped
    <3>2. Put(r.votes, i, v) \in [ DOMAIN Put(r.votes, i, v) -> Cards ]
      BY <3>1, PutType
    <3> QED
      BY <1>1, <1>7, <3>2
  <2>3. VoteAgrees(s.votes, i, p)
    BY <1>2, <1>4, <1>7, <2>1 DEF VoteAgrees
  <2>4. \A j \in Present(r) \ {i} : VoteAgrees(s.votes, j, r.participants[j])
    BY <2>1 DEF RoomOK, VotesAgree, VoteAgrees
  <2> QED
    BY <1>1, <1>2, <1>3, <1>4, <1>5, <1>6, <2>1, <2>2, <2>3, <2>4, OneChangedOK DEF s
<1>8. CASE ~ b
  <2>1. s.votes = Drop(r.votes, i)
    BY <1>1, <1>8
  <2>2. i \notin DOMAIN s.votes
    BY <2>1 DEF Drop
  <2>3. VoteAgrees(s.votes, i, p)
    BY <1>2, <1>4, <1>8, <2>2 DEF VoteAgrees
  <2>4. /\ s.votes \in [ DOMAIN s.votes -> Cards ]
        /\ DOMAIN s.votes \subseteq DOMAIN r.votes
        /\ \A j \in Present(r) \ {i} : VoteAgrees(s.votes, j, r.participants[j])
    BY <2>1, VotesWithout
  <2> QED
    BY <1>1, <1>2, <1>3, <1>4, <1>5, <1>6, <2>2, <2>3, <2>4, OneChangedOK DEF s
<1> QED
  BY <1>7, <1>8

LEMMA PassOK ==
    ASSUME NEW r, NEW U, RoomOK(r, U), NEW i \in Present(r), MayVote(r, i)
    PROVE  RoomOK(Pass(r, i), U)
<1> DEFINE s == Pass(r, i)
           old == r.participants[i]
<1>0. HasFields(r) /\ old \in Participant /\ r.hasVotes \in BOOLEAN
  BY DEF RoomOK, RoomTyped
<1>1. /\ HasFields(s)
      /\ s.participants = Put(r.participants, i, Skipped(old))
      /\ s.index = r.index
      /\ s.owner = r.owner
      /\ s.votes = Drop(r.votes, i)
      /\ s.revealed = r.revealed
      /\ s.hasVotes = r.hasVotes
      /\ s.roleAverages = r.roleAverages
      /\ s.ownerToken = r.ownerToken
  BY <1>0, PassFields
<1> HIDE DEF s
<1> DEFINE p == Skipped(old)
<1>2. /\ p \in Participant
      /\ p.token = old.token
      /\ p.lead = old.lead
      /\ p.conn = old.conn
      /\ p.connected = old.connected
      /\ p.role = old.role
      /\ p.submitted = TRUE
      /\ p.skipped = TRUE
      /\ p.selected = None
  BY <1>0 DEF Skipped, Participant
<1>3. s.participants = Put(r.participants, i, p)
  BY <1>1
<1> HIDE DEF p
<1>4. old.connected /\ old.role # None /\ ~ r.revealed
  BY DEF MayVote, Voters, Connected
<1>5. old.conn # None
  BY <1>4 DEF RoomOK, ConnsAgree
<1>6. i \notin DOMAIN s.votes
  BY <1>1 DEF Drop
<1>7. VoteAgrees(s.votes, i, p)
  BY <1>2, <1>4, <1>6 DEF VoteAgrees
<1>8. /\ s.votes \in [ DOMAIN s.votes -> Cards ]
      /\ DOMAIN s.votes \subseteq DOMAIN r.votes
      /\ \A j \in Present(r) \ {i} : VoteAgrees(s.votes, j, r.participants[j])
  BY <1>1, VotesWithout
<1> QED
  BY <1>0, <1>1, <1>2, <1>3, <1>4, <1>5, <1>6, <1>7, <1>8, OneChangedOK DEF s

LEMMA ForgottenOK ==
    ASSUME NEW r, NEW U, RoomOK(r, U), NEW i \in Present(r)
    PROVE  RoomOK(Forgotten(r, i), U)
<1> DEFINE s == Forgotten(r, i)
           t == r.participants[i].token
<1>0. HasFields(r)
  BY DEF RoomOK, RoomTyped
<1>1. /\ HasFields(s)
      /\ s.participants = Drop(r.participants, i)
      /\ s.index = Drop(r.index, t)
      /\ s.owner = r.owner
      /\ s.votes = WithoutVote(r, i).votes
      /\ s.revealed = r.revealed
      /\ s.hasVotes = WithoutVote(r, i).hasVotes
      /\ s.roleAverages = r.roleAverages
      /\ s.ownerToken = r.ownerToken
  BY <1>0, ForgottenFields
<1>2. /\ WithoutVote(r, i).votes = IF r.revealed THEN r.votes ELSE Drop(r.votes, i)
      /\ WithoutVote(r, i).hasVotes = IF r.revealed THEN r.hasVotes
                                      ELSE HasVotesGiven(r, Drop(r.votes, i))
  BY <1>0, WithoutVoteFields
<1> HIDE DEF s
<1>3. /\ Present(s) = Present(r) \ {i}
      /\ \A j \in Present(s) : s.participants[j] = r.participants[j]
  BY <1>1 DEF Present, Drop
<1>4. Connected(s) = Connected(r) \ {i}
  BY <1>3 DEF Connected
<1>5. /\ DOMAIN s.index = DOMAIN r.index \ {t}
      /\ \A x \in DOMAIN s.index : s.index[x] = r.index[x]
  BY <1>1 DEF Drop
<1>6. IndexAgrees(s)
  <2>1. \A j \in Present(r) \ {i} : r.participants[j].token # t
    BY DEF RoomOK, IndexAgrees
  <2>2. DOMAIN s.index = TokensOf(s, Present(s))
    BY <1>3, <1>5, <2>1 DEF TokensOf, RoomOK, IndexAgrees
  <2>3. \A j \in Present(s) : s.index[s.participants[j].token] = j
    BY <1>3, <1>5, <2>2 DEF TokensOf, RoomOK, IndexAgrees
  <2> QED
    BY <2>2, <2>3 DEF IndexAgrees
<1>7. /\ s.votes \in [ DOMAIN s.votes -> Cards ]
      /\ DOMAIN s.votes \subseteq DOMAIN r.votes
      /\ \A j \in Present(s) : VoteAgrees(s.votes, j, r.participants[j])
  <2>1. CASE r.revealed
    <3>1. s.votes = r.votes
      BY <1>1, <1>2, <2>1
    <3> QED
      BY <1>3, <3>1 DEF RoomOK, RoomTyped, VotesAgree
  <2>2. CASE ~ r.revealed
    <3>1. s.votes = Drop(r.votes, i)
      BY <1>1, <1>2, <2>2
    <3> QED
      BY <1>3, <3>1, VotesWithout
  <2> QED
    BY <2>1, <2>2
<1>8. ~ r.revealed => i \notin DOMAIN s.votes
  BY <1>1, <1>2 DEF Drop
<1>9. s.hasVotes \in BOOLEAN
  BY <1>1, <1>2 DEF HasVotesGiven, RoomOK, RoomTyped
<1>10. RoomTyped(s, U)
  <2>1. s.participants \in [ Present(s) -> Participant ]
    <3>1. r.participants \in [ DOMAIN r.participants -> Participant ]
      BY DEF RoomOK, RoomTyped, Present
    <3>2. Drop(r.participants, i) \in [ DOMAIN Drop(r.participants, i) -> Participant ]
      BY <3>1, DropType
    <3> QED
      BY <1>1, <3>2 DEF Present
  <2>2. s.index \in [ DOMAIN s.index -> Present(s) ]
    <3>1. \A x \in DOMAIN s.index : s.index[x] \in Present(s)
      BY <1>6 DEF IndexAgrees, TokensOf
    <3>2. s.index = [ x \in DOMAIN s.index |-> s.index[x] ]
      BY <1>1 DEF Drop
    <3> QED
      BY <3>1, <3>2
  <2>3. \A j \in Present(s) : /\ s.participants[j].token \in U
                              /\ s.participants[j].conn \in U \cup {None}
    BY <1>3 DEF RoomOK, RoomTyped
  <2> QED
    BY <1>1, <1>3, <1>7, <1>9, <2>1, <2>2, <2>3 DEF RoomOK, RoomTyped
<1>11. LeadAgrees(s)
  BY <1>3, <1>4 DEF RoomOK, LeadAgrees, Leads
<1>12. ConnsAgree(s)
  BY <1>3, <1>4 DEF RoomOK, ConnsAgree, Connected
<1>13. VotesAgree(s)
  <2>1. \A j \in Present(s) : VoteAgrees(s.votes, j, s.participants[j])
    BY <1>3, <1>7
  <2>2. ASSUME ~ s.revealed
        PROVE  DOMAIN s.votes \subseteq Connected(s)
    BY <1>1, <1>4, <1>7, <1>8, <2>2 DEF RoomOK, VotesAgree
  <2>3. ASSUME ~ s.revealed, NEW j \in Present(s) \ Connected(s)
        PROVE  s.participants[j].selected = None /\ ~ s.participants[j].submitted
    BY <1>1, <1>3, <1>4, <2>3 DEF RoomOK, VotesAgree
  <2> QED
    BY <2>1, <2>2, <2>3 DEF VotesAgree
<1>14. CardsAgree(s)
  BY <1>1, <1>3 DEF RoomOK, CardsAgree
<1> QED
  BY <1>6, <1>10, <1>11, <1>12, <1>13, <1>14 DEF RoomOK, s

-----------------------------------------------------------------------------
(* Changes to the whole table *)

LEMMA RevealedFields ==
    ASSUME NEW r, HasFields(r)
    PROVE  LET s == Revealed(r) IN
           /\ HasFields(s)
           /\ s.participants = r.participants
           /\ s.index = r.index
           /\ s.owner = r.owner
           /\ s.votes = r.votes
           /\ s.revealed = TRUE
           /\ s.hasVotes = (Counted(r) # {})
           /\ s.average = Average(Restrict(r.votes, Counted(r)))
           /\ s.roleAverages = RoleAverages(r)
           /\ s.ownerToken = r.ownerToken
BY DEF HasFields, Revealed

LEMMA RevealedOK ==
    ASSUME NEW r, NEW U, RoomOK(r, U)
    PROVE  RoomOK(RevealIfComplete(r), U)
<1> DEFINE s == Revealed(r)
<1>0. HasFields(r)
  BY DEF RoomOK, RoomTyped
<1>1. /\ HasFields(s)
      /\ s.participants = r.participants
      /\ s.index = r.index
      /\ s.owner = r.owner
      /\ s.votes = r.votes
      /\ s.revealed = TRUE
      /\ s.hasVotes \in BOOLEAN
      /\ s.roleAverages = RoleAverages(r)
      /\ s.ownerToken = r.ownerToken
  BY <1>0, RevealedFields
<1> HIDE DEF s
<1>2. Present(s) = Present(r) /\ Connected(s) = Connected(r)
  BY <1>1 DEF Present, Connected
<1>3. IsFcn(s.roleAverages) /\ DOMAIN s.roleAverages \subseteq Roles
  <2>1. \A i \in Counted(r) : r.participants[i].role \in Roles
    BY DEF Counted, RoomOK, RoomTyped, Participant, VotesAgree, VoteAgrees
  <2> QED
    BY <1>1, <2>1 DEF RoleAverages, VotedRoles, IsFcn
<1>4. RoomTyped(s, U)
  BY <1>1, <1>2, <1>3 DEF RoomOK, RoomTyped
<1>5. LeadAgrees(s)
  BY <1>1, <1>2, LeadKept DEF RoomOK
<1>6. IndexAgrees(s)
  BY <1>1, <1>2, IndexKept DEF RoomOK
<1>7. ConnsAgree(s)
  BY <1>1, <1>2, ConnsKept DEF RoomOK
<1>8. VotesAgree(s)
  BY <1>1, <1>2 DEF RoomOK, VotesAgree
<1>9. ASSUME Complete(r)
      PROVE  CardsAgree(s)
  <2>1. ASSUME NEW i \in Present(r), r.participants[i].selected # None
        PROVE  r.participants[i].submitted
    <3>1. CASE r.revealed
      BY <2>1, <3>1 DEF RoomOK, CardsAgree
    <3>2. CASE ~ r.revealed
      <4>1. i \in Connected(r) /\ r.participants[i].role # None
        BY <2>1, <3>2 DEF RoomOK, VotesAgree, VoteAgrees
      <4> QED
        BY <1>9, <4>1 DEF Complete, Voters
    <3> QED
      BY <3>1, <3>2
  <2> QED
    BY <1>1, <1>2, <2>1 DEF CardsAgree
<1>10. Complete(r) => RoomOK(s, U)
  BY <1>4, <1>5, <1>6, <1>7, <1>8, <1>9 DEF RoomOK
<1> QED
  BY <1>10 DEF RevealIfComplete, s

LEMMA FreshRoundFields ==
    ASSUME NEW r, HasFields(r)
    PROVE  LET s == FreshRound(r) IN
           /\ HasFields(s)
           /\ s.participants = [ j \in Present(r) |-> Cleared(r.participants[j]) ]
           /\ s.index = r.index
           /\ s.owner = r.owner
           /\ s.votes = EmptyFcn
           /\ s.revealed = FALSE
           /\ s.hasVotes = FALSE
           /\ s.average = 0
           /\ s.roleAverages = EmptyFcn
           /\ s.ownerToken = r.ownerToken
BY DEF HasFields, FreshRound

LEMMA FreshRoundOK ==
    ASSUME NEW r, NEW U, RoomOK(r, U)
    PROVE  RoomOK(FreshRound(r), U)
<1> DEFINE s == FreshRound(r)
<1>0. HasFields(r)
  BY DEF RoomOK, RoomTyped
<1>1. /\ HasFields(s)
      /\ s.participants = [ j \in Present(r) |-> Cleared(r.participants[j]) ]
      /\ s.index = r.index
      /\ s.owner = r.owner
      /\ s.votes = EmptyFcn
      /\ s.revealed = FALSE
      /\ s.hasVotes = FALSE
      /\ s.roleAverages = EmptyFcn
      /\ s.ownerToken = r.ownerToken
  BY <1>0, FreshRoundFields
<1> HIDE DEF s
<1>2. /\ Present(s) = Present(r)
      /\ \A i \in Present(r) : s.participants[i] = Cleared(r.participants[i])
  BY <1>1 DEF Present
<1>3. ASSUME NEW p \in Participant
      PROVE  /\ Cleared(p) \in Participant
             /\ Cleared(p).lead = p.lead
             /\ Cleared(p).connected = p.connected
             /\ Cleared(p).token = p.token
             /\ Cleared(p).conn = p.conn
             /\ Cleared(p).selected = None
             /\ Cleared(p).submitted = FALSE
             /\ Cleared(p).skipped = FALSE
  BY DEF Cleared, Participant
<1>4. \A i \in Present(r) : r.participants[i] \in Participant
  BY DEF RoomOK, RoomTyped
<1>5. \A i \in Present(r) :
         /\ s.participants[i] \in Participant
         /\ s.participants[i].lead = r.participants[i].lead
         /\ s.participants[i].connected = r.participants[i].connected
         /\ s.participants[i].token = r.participants[i].token
         /\ s.participants[i].conn = r.participants[i].conn
         /\ s.participants[i].selected = None
         /\ ~ s.participants[i].submitted
         /\ ~ s.participants[i].skipped
  <2>1. TAKE i \in Present(r)
  <2> DEFINE old == r.participants[i]
  <2>2. old \in Participant
    BY <1>4
  <2> HIDE DEF old
  <2>3. /\ Cleared(old) \in Participant
        /\ Cleared(old).lead = old.lead
        /\ Cleared(old).connected = old.connected
        /\ Cleared(old).token = old.token
        /\ Cleared(old).conn = old.conn
        /\ Cleared(old).selected = None
        /\ ~ Cleared(old).submitted
        /\ ~ Cleared(old).skipped
    BY <1>3, <2>2
  <2> QED
    BY <1>2, <2>3 DEF old
<1>6. /\ DOMAIN s.votes = {}
      /\ s.votes \in [ DOMAIN s.votes -> Cards ]
      /\ DOMAIN s.roleAverages = {}
      /\ IsFcn(s.roleAverages)
  BY <1>1 DEF EmptyFcn, IsFcn
<1>7. RoomTyped(s, U)
  <2>1. s.participants \in [ Present(s) -> Participant ]
    BY <1>1, <1>2, <1>5
  <2> QED
    BY <1>1, <1>2, <1>5, <1>6, <2>1 DEF RoomOK, RoomTyped
<1>8. LeadAgrees(s)
  BY <1>2, <1>5, LeadKept DEF RoomOK
<1>9. IndexAgrees(s)
  BY <1>1, <1>2, <1>5, IndexKept DEF RoomOK
<1>10. ConnsAgree(s)
  BY <1>2, <1>5, ConnsKept DEF RoomOK
<1>11. VotesAgree(s)
  BY <1>2, <1>5, <1>6 DEF VotesAgree, VoteAgrees
<1>12. CardsAgree(s)
  BY <1>1 DEF CardsAgree
<1> QED
  BY <1>7, <1>8, <1>9, <1>10, <1>11, <1>12 DEF RoomOK, s

-----------------------------------------------------------------------------
(* The calls preserve the invariant *)

LEMMA RemoveConnectionOK ==
    ASSUME NEW r, NEW U, RoomOK(r, U), NEW i, NEW c,
           NEW s \in AfterRemoveConnection(r, i, c)
    PROVE  RoomOK(s, U)
<1> DEFINE t == AfterPurge(r)
<1>1. RoomOK(t, U)
  BY PurgeOK
<1>2. Removes(r, i, c) => i \in Present(t)
  BY DEF Removes, Connected
<1>3. s \in IF Removes(r, i, c) THEN Succeeded(Left(t, i), t.participants[i].lead) ELSE {t}
  BY DEF AfterRemoveConnection
<1> HIDE DEF t
<1> QED
  BY <1>1, <1>2, <1>3, LeftOK, SucceededOK

LEMMA RemoveOK ==
    ASSUME NEW r, NEW U, RoomOK(r, U), NEW i, NEW s \in AfterRemove(r, i)
    PROVE  RoomOK(s, U)
<1> DEFINE t == AfterPurge(r)
<1>1. RoomOK(t, U)
  BY PurgeOK
<1>2. s \in IF i \in Present(t) THEN Succeeded(Forgotten(t, i), t.participants[i].lead)
            ELSE {t}
  BY DEF AfterRemove
<1> HIDE DEF t
<1> QED
  BY <1>1, <1>2, ForgottenOK, SucceededOK

LEMMA VoteOK ==
    ASSUME NEW r, NEW U, RoomOK(r, U), NEW i, NEW v, NEW b \in BOOLEAN
    PROVE  RoomOK(AfterVote(r, i, v, b), U)
<1> DEFINE t == AfterPurge(r)
<1>1. RoomOK(t, U)
  BY PurgeOK
<1>2. AfterVote(r, i, v, b) = IF ~ MayVote(t, i) \/ v \notin Cards THEN t
                              ELSE RevealIfComplete(Cast(t, i, v, b))
  BY DEF AfterVote
<1>3. MayVote(t, i) => i \in Present(t)
  BY DEF MayVote, Voters, Connected
<1> HIDE DEF t
<1> QED
  BY <1>1, <1>2, <1>3, CastOK, RevealedOK

LEMMA SkipVoteOK ==
    ASSUME NEW r, NEW U, RoomOK(r, U), NEW i
    PROVE  RoomOK(AfterSkipVote(r, i), U)
<1> DEFINE t == AfterPurge(r)
<1>1. RoomOK(t, U)
  BY PurgeOK
<1>2. AfterSkipVote(r, i) = IF ~ MayVote(t, i) THEN t ELSE RevealIfComplete(Pass(t, i))
  BY DEF AfterSkipVote
<1>3. MayVote(t, i) => i \in Present(t)
  BY DEF MayVote, Voters, Connected
<1> HIDE DEF t
<1> QED
  BY <1>1, <1>2, <1>3, PassOK, RevealedOK

LEMMA ResetOK ==
    ASSUME NEW r, NEW U, RoomOK(r, U), NEW i
    PROVE  RoomOK(AfterReset(r, i), U)
BY PurgeOK, FreshRoundOK DEF AfterReset

-----------------------------------------------------------------------------
(* Who is there, and on which connection *)

\* The participants of s are those of r, on the same connections.
StayPut(s, r) ==
    /\ Present(s) = Present(r)
    /\ \A i \in Present(r) :
          /\ s.participants[i].connected = r.participants[i].connected
          /\ s.participants[i].conn = r.participants[i].conn
          /\ s.participants[i].client = r.participants[i].client
          /\ s.participants[i].role = r.participants[i].role

\* Whoever is in s and in r has the same card in front of them.
SameHands(s, r) ==
    \A i \in Present(s) \cap Present(r) :
        s.participants[i].selected = r.participants[i].selected

\* The connection of each connected participant.
Seats(r) == [ i \in Connected(r) |-> r.participants[i].conn ]

LEMMA SeatsFacts ==
    ASSUME NEW r
    PROVE  /\ DOMAIN Seats(r) = Connected(r)
           /\ \A i \in Connected(r) : Seats(r)[i] = r.participants[i].conn
BY DEF Seats

LEMMA StayPutSeats ==
    ASSUME NEW r, NEW s, StayPut(s, r)
    PROVE  Seats(s) = Seats(r)
<1>1. Connected(s) = Connected(r)
  BY DEF StayPut, Connected
<1>2. \A i \in Connected(r) : s.participants[i].conn = r.participants[i].conn
  BY DEF StayPut, Connected
<1> QED
  BY <1>1, <1>2 DEF Seats

LEMMA PurgeSeats ==
    ASSUME NEW r, HasFields(r)
    PROVE  LET t == AfterPurge(r) IN
           /\ Present(t) = Present(r) \ Expired(r)
           /\ \A i \in Present(t) : t.participants[i] = r.participants[i]
           /\ Connected(t) = Connected(r)
           /\ Seats(t) = Seats(r)
<1> DEFINE t == AfterPurge(r)
<1>1. t.participants = Restrict(r.participants, Present(r) \ Expired(r))
  BY PurgeFields
<1> HIDE DEF t
<1>2. /\ Present(t) = Present(r) \ Expired(r)
      /\ \A i \in Present(t) : t.participants[i] = r.participants[i]
  BY <1>1 DEF Present, Restrict
<1>3. Connected(t) = Connected(r)
  BY <1>2 DEF Connected, Expired
<1>4. \A i \in Connected(r) : t.participants[i].conn = r.participants[i].conn
  BY <1>2, <1>3 DEF Connected
<1>5. Seats(t) = Seats(r)
  BY <1>3, <1>4 DEF Seats
<1> QED
  BY <1>2, <1>3, <1>5 DEF t

LEMMA TickStayPut ==
    ASSUME NEW r, NEW U, RoomOK(r, U)
    PROVE  StayPut(AfterTick(r), r) /\ SameHands(AfterTick(r), r)
<1> DEFINE s == AfterTick(r)
<1>1. s.participants = [ j \in Present(r) |-> Older(r.participants[j]) ]
  BY TickFields DEF RoomOK, RoomTyped
<1> HIDE DEF s
<1>2. ASSUME NEW p \in Participant
      PROVE  /\ Older(p).connected = p.connected
             /\ Older(p).conn = p.conn
             /\ Older(p).client = p.client
             /\ Older(p).role = p.role
             /\ Older(p).selected = p.selected
  BY DEF Older, Participant
<1>3. \A j \in Present(r) : r.participants[j] \in Participant
  BY DEF RoomOK, RoomTyped
<1>4. /\ Present(s) = Present(r)
      /\ \A j \in Present(r) : s.participants[j] = Older(r.participants[j])
  BY <1>1 DEF Present
<1> QED
  BY <1>2, <1>3, <1>4 DEF StayPut, SameHands, s

LEMMA LeadStayPut ==
    ASSUME NEW r, NEW U, RoomOK(r, U), NEW k
    PROVE  /\ StayPut(MakeLead(r, k), r) /\ SameHands(MakeLead(r, k), r)
           /\ StayPut(AsOwner(r, k), r) /\ SameHands(AsOwner(r, k), r)
<1> DEFINE s == MakeLead(r, k)
           o == AsOwner(r, k)
<1>0. HasFields(r)
  BY DEF RoomOK, RoomTyped
<1>1. s.participants = [ j \in Present(r) |-> Led(r.participants[j], j, k) ]
  BY <1>0, MakeLeadFields
<1>2. o.participants = s.participants
  BY <1>0, AsOwnerFields
<1> HIDE DEF s, o
<1>3. ASSUME NEW p \in Participant, NEW j
      PROVE  /\ Led(p, j, k).connected = p.connected
             /\ Led(p, j, k).conn = p.conn
             /\ Led(p, j, k).client = p.client
             /\ Led(p, j, k).role = p.role
             /\ Led(p, j, k).selected = p.selected
  BY DEF Led, Participant
<1>4. \A j \in Present(r) : r.participants[j] \in Participant
  BY DEF RoomOK, RoomTyped
<1>5. /\ Present(s) = Present(r)
      /\ \A j \in Present(r) : s.participants[j] = Led(r.participants[j], j, k)
  BY <1>1 DEF Present
<1>6. StayPut(s, r) /\ SameHands(s, r)
  BY <1>3, <1>4, <1>5 DEF StayPut, SameHands
<1>7. StayPut(o, r) /\ SameHands(o, r)
  BY <1>2, <1>6 DEF StayPut, SameHands, Present
<1> QED
  BY <1>6, <1>7 DEF s, o

LEMMA SucceededStayPut ==
    ASSUME NEW r, NEW U, RoomOK(r, U), NEW b, NEW s \in Succeeded(r, b)
    PROVE  StayPut(s, r) /\ SameHands(s, r)
<1>1. s = r \/ \E k : s = MakeLead(r, k)
  BY DEF Succeeded, PromoteAny
<1>2. StayPut(r, r) /\ SameHands(r, r)
  BY DEF StayPut, SameHands
<1> QED
  BY <1>1, <1>2, LeadStayPut

LEMMA CastStayPut ==
    ASSUME NEW r, NEW U, RoomOK(r, U), NEW i \in Present(r), NEW v, NEW b
    PROVE  StayPut(Cast(r, i, v, b), r) /\ StayPut(Pass(r, i), r)
<1>1. /\ Cast(r, i, v, b).participants =
           Put(r.participants, i, Chosen(r.participants[i], v, b))
      /\ Pass(r, i).participants = Put(r.participants, i, Skipped(r.participants[i]))
  BY CastFields, PassFields DEF RoomOK, RoomTyped
<1>2. ASSUME NEW p \in Participant
      PROVE  /\ Chosen(p, v, b).connected = p.connected
             /\ Chosen(p, v, b).conn = p.conn
             /\ Chosen(p, v, b).client = p.client
             /\ Chosen(p, v, b).role = p.role
             /\ Skipped(p).connected = p.connected
             /\ Skipped(p).conn = p.conn
             /\ Skipped(p).client = p.client
             /\ Skipped(p).role = p.role
  BY DEF Chosen, Skipped, Participant
<1>3. r.participants[i] \in Participant
  BY DEF RoomOK, RoomTyped
<1>4. ASSUME NEW s, NEW p, s.participants = Put(r.participants, i, p),
             p.connected = r.participants[i].connected,
             p.conn = r.participants[i].conn,
             p.client = r.participants[i].client,
             p.role = r.participants[i].role
      PROVE  StayPut(s, r)
  <2>1. /\ Present(s) = Present(r)
        /\ s.participants[i] = p
        /\ \A j \in Present(r) \ {i} : s.participants[j] = r.participants[j]
    BY <1>4 DEF Present, Put
  <2> QED
    BY <1>4, <2>1 DEF StayPut
<1> QED
  BY <1>1, <1>2, <1>3, <1>4

LEMMA TableStayPut ==
    ASSUME NEW r, NEW U, RoomOK(r, U)
    PROVE  StayPut(RevealIfComplete(r), r) /\ StayPut(FreshRound(r), r)
<1>1. Revealed(r).participants = r.participants
  BY RevealedFields DEF RoomOK, RoomTyped
<1>2. FreshRound(r).participants = [ j \in Present(r) |-> Cleared(r.participants[j]) ]
  BY FreshRoundFields DEF RoomOK, RoomTyped
<1>3. ASSUME NEW p \in Participant
      PROVE  /\ Cleared(p).connected = p.connected
             /\ Cleared(p).conn = p.conn
             /\ Cleared(p).client = p.client
             /\ Cleared(p).role = p.role
  BY DEF Cleared, Participant
<1>4. \A j \in Present(r) : r.participants[j] \in Participant
  BY DEF RoomOK, RoomTyped
<1>5. StayPut(RevealIfComplete(r), r)
  BY <1>1 DEF RevealIfComplete, StayPut, Present
<1>6. StayPut(FreshRound(r), r)
  BY <1>2, <1>3, <1>4 DEF StayPut, Present
<1> QED
  BY <1>5, <1>6

\* Nobody moves when the clock ticks, when the room is purged or in a vote.
LEMMA CallsKeepSeats ==
    ASSUME NEW r, NEW U, RoomOK(r, U), NEW i, NEW v, NEW b \in BOOLEAN
    PROVE  /\ Seats(AfterTick(r)) = Seats(r)
           /\ Seats(AfterVote(r, i, v, b)) = Seats(r)
           /\ Seats(AfterSkipVote(r, i)) = Seats(r)
           /\ Seats(AfterReset(r, i)) = Seats(r)
<1> DEFINE t == AfterPurge(r)
<1>1. RoomOK(t, U) /\ Seats(t) = Seats(r)
  BY PurgeOK, PurgeSeats DEF RoomOK, RoomTyped
<1>2. Seats(AfterTick(r)) = Seats(r)
  BY TickStayPut, StayPutSeats
<1>3. AfterVote(r, i, v, b) = IF ~ MayVote(t, i) \/ v \notin Cards THEN t
                              ELSE RevealIfComplete(Cast(t, i, v, b))
  BY DEF AfterVote
<1>4. AfterSkipVote(r, i) = IF ~ MayVote(t, i) THEN t ELSE RevealIfComplete(Pass(t, i))
  BY DEF AfterSkipVote
<1>5. AfterReset(r, i) = IF MayReset(t, i) THEN FreshRound(t) ELSE t
  BY DEF AfterReset
<1>6. MayVote(t, i) => i \in Voters(t) /\ i \in Present(t)
  BY DEF MayVote, Voters, Connected
<1> HIDE DEF t
<1>7. Seats(AfterVote(r, i, v, b)) = Seats(r)
  <2>1. CASE MayVote(t, i) /\ v \in Cards
    <3>1. RoomOK(Cast(t, i, v, b), U)
      BY <1>1, <1>6, <2>1, CastOK
    <3>2. Seats(Cast(t, i, v, b)) = Seats(t)
      BY <1>1, <1>6, <2>1, CastStayPut, StayPutSeats
    <3>3. Seats(RevealIfComplete(Cast(t, i, v, b))) = Seats(Cast(t, i, v, b))
      BY <3>1, TableStayPut, StayPutSeats
    <3> QED
      BY <1>1, <1>3, <2>1, <3>2, <3>3
  <2> QED
    BY <1>1, <1>3, <2>1
<1>8. Seats(AfterSkipVote(r, i)) = Seats(r)
  <2>1. CASE MayVote(t, i)
    <3>1. RoomOK(Pass(t, i), U)
      BY <1>1, <1>6, <2>1, PassOK
    <3>2. Seats(Pass(t, i)) = Seats(t)
      BY <1>1, <1>6, <2>1, CastStayPut, StayPutSeats
    <3>3. Seats(RevealIfComplete(Pass(t, i))) = Seats(Pass(t, i))
      BY <3>1, TableStayPut, StayPutSeats
    <3> QED
      BY <1>1, <1>4, <2>1, <3>2, <3>3
  <2> QED
    BY <1>1, <1>4, <2>1
<1>9. Seats(AfterReset(r, i)) = Seats(r)
  BY <1>1, <1>5, TableStayPut, StayPutSeats
<1> QED
  BY <1>2, <1>7, <1>8, <1>9

\* A join that is not refused seats one participant on the new connection.
LEMMA AdmitSeats ==
    ASSUME NEW r, NEW U, RoomOK(r, U),
           NEW c \in Conns, c \notin U, NEW q \in Request,
           JoinError(r, q) = "none"
    PROVE  /\ JoinsAs(r, c, q) \in Present(r) \cup {c}
           /\ Seats(Admit(r, c, q)) = Put(Seats(r), JoinsAs(r, c, q), c)
<1> DEFINE i == JoinsAs(r, c, q)
           t == Issues(c, q)
<1>0. HasFields(r) /\ c \notin Present(r)
  BY DEF RoomOK, RoomTyped
<1>1. ASSUME NEW k, NEW p, p.connected = TRUE, p.conn = c,
             NEW s, s.participants = Put(r.participants, k, p)
      PROVE  Seats(s) = Put(Seats(r), k, c)
  <2>1. /\ Present(s) = Present(r) \cup {k}
        /\ s.participants[k] = p
        /\ \A j \in Present(r) \ {k} : s.participants[j] = r.participants[j]
    BY <1>1 DEF Present, Put
  <2>2. Connected(s) = Connected(r) \cup {k}
    BY <1>1, <2>1 DEF Connected
  <2>3. Connected(r) \subseteq Present(r)
    BY DEF Connected
  <2>4. Seats(s) = [ j \in Connected(r) \cup {k} |-> IF j = k THEN c ELSE Seats(r)[j] ]
    BY <1>1, <2>1, <2>2, <2>3 DEF Seats
  <2> QED
    BY <2>4, SeatsFacts DEF Put
<1>2. CASE q.token # None \/ OwnerReturns(r, q)
  <2> DEFINE m == Readmitted(r, i, c, q, t)
  <2>1. /\ i \in Present(r)
        /\ t = c \/ t = r.participants[i].token
    BY <1>2 DEF JoinError, JoinsAs, Issues, Opens, OwnerReturns,
                RoomOK, IndexAgrees, TokensOf
  <2>2. Admit(r, c, q) = IF IsOwner(r, q) THEN AsOwner(m, i) ELSE m
    BY <1>2 DEF Admit, Replace
  <2> HIDE DEF i, t
  <2>3. m.participants = Put(r.participants, i, Returned(r.participants[i], c, q, t))
    BY <1>0, ReadmittedFields
  <2>4. Seats(m) = Put(Seats(r), i, c)
    BY <1>1, <2>3 DEF Returned
  <2>5. RoomOK(m, U \cup {c})
    BY <2>1, ReadmittedOK
  <2>6. Seats(AsOwner(m, i)) = Seats(m)
    BY <2>5, LeadStayPut, StayPutSeats
  <2> HIDE DEF m
  <2>7. Seats(Admit(r, c, q)) = Put(Seats(r), i, c)
    BY <2>2, <2>4, <2>6
  <2> QED
    BY <2>1, <2>7 DEF i
<1>3. CASE ~ (q.token # None \/ OwnerReturns(r, q))
  <2> DEFINE m == Enrolled(r, c, q)
  <2>1. i = c
    BY <1>3 DEF JoinsAs
  <2>2. Admit(r, c, q) = IF IsOwner(r, q) THEN AsOwner(m, c) ELSE m
    BY <1>3 DEF Admit, Enrol
  <2>3. m.participants = Put(r.participants, c, Newcomer(r, c, q))
    BY <1>0, EnrolledFields
  <2>4. Seats(m) = Put(Seats(r), c, c)
    BY <1>1, <2>3 DEF Newcomer
  <2>5. RoomOK(m, U \cup {c})
    BY EnrolledOK
  <2>6. Seats(AsOwner(m, c)) = Seats(m)
    BY <2>5, LeadStayPut, StayPutSeats
  <2> HIDE DEF m
  <2> QED
    BY <2>1, <2>2, <2>4, <2>6
<1> QED
  BY <1>2, <1>3

\* RemoveConnection unseats the participant that holds the connection, if any.
LEMMA RemoveConnectionSeats ==
    ASSUME NEW r, NEW U, RoomOK(r, U), NEW i, NEW c,
           NEW s \in AfterRemoveConnection(r, i, c)
    PROVE  /\ Removes(r, i, c) <=> i \in Connected(r) /\ r.participants[i].conn = c
           /\ Removes(r, i, c) => Seats(s) = Drop(Seats(r), i)
           /\ ~ Removes(r, i, c) => Seats(s) = Seats(r)
<1> DEFINE t == AfterPurge(r)
<1>1. RoomOK(t, U) /\ Connected(t) = Connected(r) /\ Seats(t) = Seats(r)
  BY PurgeOK, PurgeSeats DEF RoomOK, RoomTyped
<1>2. Removes(r, i, c) <=> i \in Connected(r) /\ r.participants[i].conn = c
  BY <1>1 DEF Removes
<1>3. s \in IF Removes(r, i, c) THEN Succeeded(Left(t, i), t.participants[i].lead) ELSE {t}
  BY DEF AfterRemoveConnection
<1> HIDE DEF t
<1>4. ASSUME Removes(r, i, c)
      PROVE  Seats(s) = Drop(Seats(r), i)
  <2> DEFINE l == Left(t, i)
  <2>1. i \in Connected(t) /\ i \in Present(t)
    BY <1>1, <1>2, <1>4 DEF Connected
  <2>2. RoomOK(l, U)
    BY <1>1, <2>1, LeftOK
  <2>3. l.participants = Put(t.participants, i, Disconnected(t.participants[i], t.revealed))
    BY <1>1, LeftFields DEF RoomOK, RoomTyped
  <2>4. Seats(s) = Seats(l)
    BY <1>3, <1>4, <2>2, SucceededStayPut, StayPutSeats
  <2> HIDE DEF l
  <2>5. /\ Present(l) = Present(t)
        /\ l.participants[i] = Disconnected(t.participants[i], t.revealed)
        /\ \A j \in Present(t) \ {i} : l.participants[j] = t.participants[j]
    BY <2>1, <2>3 DEF Present, Put
  <2>6. t.participants[i] \in Participant
    BY <1>1, <2>1 DEF RoomOK, RoomTyped
  <2>7. l.participants[i].connected = FALSE
    BY <2>5, <2>6 DEF Disconnected, Participant
  <2>8. Connected(l) = Connected(t) \ {i}
    BY <2>5, <2>7 DEF Connected
  <2>9. Seats(l) = [ j \in Connected(t) \ {i} |-> Seats(t)[j] ]
    BY <2>5, <2>8 DEF Seats, Connected
  <2> QED
    BY <1>1, <2>4, <2>9, SeatsFacts DEF Drop
<1> QED
  BY <1>1, <1>2, <1>3, <1>4

-----------------------------------------------------------------------------
(* Capacity *)

Small(r) == IsFiniteSet(Present(r)) /\ Cardinality(Present(r)) <= MaxParticipants

\* Every operator but Enrolled keeps the set of participants or makes it smaller.
LEMMA Shrinks ==
    ASSUME NEW r, Small(r), NEW s, Present(s) \subseteq Present(r)
    PROVE  Small(s)
<1>1. /\ IsFiniteSet(Present(s))
      /\ Cardinality(Present(s)) <= Cardinality(Present(r))
  BY FS_Subset DEF Small
<1>2. Cardinality(Present(s)) \in Nat /\ Cardinality(Present(r)) \in Nat
  BY <1>1, FS_CardinalityType DEF Small
<1> QED
  BY <1>1, <1>2, LimitAssumption DEF Small

LEMMA PurgePresent ==
    ASSUME NEW r, HasFields(r)
    PROVE  Present(AfterPurge(r)) \subseteq Present(r)
<1>1. AfterPurge(r).participants = Restrict(r.participants, Present(r) \ Expired(r))
  BY PurgeFields
<1> QED
  BY <1>1 DEF Present, Restrict

LEMMA LeadPresent ==
    ASSUME NEW r, HasFields(r), NEW i
    PROVE  /\ Present(MakeLead(r, i)) = Present(r)
           /\ Present(AsOwner(r, i)) = Present(r)
<1>1. Present(MakeLead(r, i)) = Present(r)
  <2>1. MakeLead(r, i).participants = [ j \in Present(r) |-> Led(r.participants[j], j, i) ]
    BY MakeLeadFields
  <2> QED
    BY <2>1 DEF Present
<1>2. AsOwner(r, i).participants = MakeLead(r, i).participants
  BY AsOwnerFields
<1> QED
  BY <1>1, <1>2 DEF Present

LEMMA SucceededPresent ==
    ASSUME NEW r, HasFields(r), NEW b, NEW s \in Succeeded(r, b)
    PROVE  Present(s) = Present(r)
BY LeadPresent DEF Succeeded, PromoteAny

LEMMA ReadmittedPresent ==
    ASSUME NEW r, HasFields(r), NEW i \in Present(r), NEW c, NEW q, NEW t
    PROVE  Present(Readmitted(r, i, c, q, t)) = Present(r)
<1>1. Readmitted(r, i, c, q, t).participants =
        Put(r.participants, i, Returned(r.participants[i], c, q, t))
  BY ReadmittedFields
<1> QED
  BY <1>1 DEF Present, Put

LEMMA EnrolledPresent ==
    ASSUME NEW r, HasFields(r), NEW c, NEW q
    PROVE  Present(Enrolled(r, c, q)) = Present(r) \cup {c}
<1>1. Enrolled(r, c, q).participants = Put(r.participants, c, Newcomer(r, c, q))
  BY EnrolledFields
<1> QED
  BY <1>1 DEF Present, Put

LEMMA LeavingPresent ==
    ASSUME NEW r, HasFields(r), NEW i \in Present(r)
    PROVE  /\ Present(Left(r, i)) = Present(r)
           /\ Present(Forgotten(r, i)) \subseteq Present(r)
<1>1. Left(r, i).participants =
        Put(r.participants, i, Disconnected(r.participants[i], r.revealed))
  BY LeftFields
<1>2. Forgotten(r, i).participants = Drop(r.participants, i)
  BY ForgottenFields
<1> QED
  BY <1>1, <1>2 DEF Present, Put, Drop

LEMMA VotingPresent ==
    ASSUME NEW r, HasFields(r), NEW i \in Present(r), NEW v, NEW b
    PROVE  /\ Present(Cast(r, i, v, b)) = Present(r)
           /\ Present(Pass(r, i)) = Present(r)
<1>1. Cast(r, i, v, b).participants = Put(r.participants, i, Chosen(r.participants[i], v, b))
  BY CastFields
<1>2. Pass(r, i).participants = Put(r.participants, i, Skipped(r.participants[i]))
  BY PassFields
<1> QED
  BY <1>1, <1>2 DEF Present, Put

LEMMA TablePresent ==
    ASSUME NEW r, HasFields(r)
    PROVE  /\ Present(RevealIfComplete(r)) = Present(r)
           /\ Present(FreshRound(r)) = Present(r)
           /\ Present(AfterTick(r)) = Present(r)
<1>1. Revealed(r).participants = r.participants
  BY RevealedFields
<1>2. FreshRound(r).participants = [ j \in Present(r) |-> Cleared(r.participants[j]) ]
  BY FreshRoundFields
<1>3. AfterTick(r).participants = [ j \in Present(r) |-> Older(r.participants[j]) ]
  BY TickFields
<1> QED
  BY <1>1, <1>2, <1>3 DEF Present, RevealIfComplete

\* The one place where a room grows is guarded by Full.
LEMMA AdmitSmall ==
    ASSUME NEW r, HasFields(r), Small(r), NEW c, NEW q
    PROVE  Small(Admit(r, c, q))
<1>1. CASE JoinError(r, q) # "none"
  BY <1>1 DEF Admit
<1>2. CASE JoinError(r, q) = "none" /\ (q.token # None \/ OwnerReturns(r, q))
  <2> DEFINE i == JoinsAs(r, c, q)
             m == Readmitted(r, i, c, q, Issues(c, q))
  <2>1. i \in Present(r)
    BY <1>2 DEF JoinError, JoinsAs, Opens, OwnerReturns
  <2>2. Admit(r, c, q) = Replace(r, i, c, q, Issues(c, q))
    BY <1>2 DEF Admit
  <2> HIDE DEF i
  <2>3. Present(m) = Present(r) /\ HasFields(m)
    BY <2>1, ReadmittedPresent, ReadmittedFields
  <2>4. Present(AsOwner(m, i)) = Present(r)
    BY <2>3, LeadPresent
  <2>5. Present(Admit(r, c, q)) = Present(r)
    BY <2>2, <2>3, <2>4 DEF Replace
  <2> QED
    BY <2>5, Shrinks
<1>3. CASE JoinError(r, q) = "none" /\ q.token = None /\ ~ OwnerReturns(r, q)
  <2> DEFINE m == Enrolled(r, c, q)
  <2>1. ~ Full(r)
    BY <1>3 DEF JoinError
  <2>2. Admit(r, c, q) = Enrol(r, c, q)
    BY <1>3 DEF Admit
  <2>3. Present(m) = Present(r) \cup {c} /\ HasFields(m)
    BY EnrolledPresent, EnrolledFields
  <2>4. Present(AsOwner(m, c)) = Present(r) \cup {c}
    BY <2>3, LeadPresent
  <2>5. Present(Admit(r, c, q)) = Present(r) \cup {c}
    BY <2>2, <2>3, <2>4 DEF Enrol
  <2>6. /\ IsFiniteSet(Present(r) \cup {c})
        /\ Cardinality(Present(r) \cup {c}) \in
             {Cardinality(Present(r)), Cardinality(Present(r)) + 1}
    BY FS_AddElement DEF Small
  <2>7. Cardinality(Present(r)) \in Nat
    BY FS_CardinalityType DEF Small
  <2> QED
    BY <2>1, <2>5, <2>6, <2>7, LimitAssumption DEF Small, Full
<1> QED
  BY <1>1, <1>2, <1>3

-----------------------------------------------------------------------------
(* What everybody sees *)

\* What everybody sees of participant p once the round is revealed, or not.
Sight(p, revealed) ==
    [ role      |-> p.role,
      lead      |-> p.lead,
      submitted |-> p.submitted,
      skipped   |-> p.skipped,
      vote      |-> IF revealed THEN p.selected ELSE None ]

\* Two rooms that look the same to everybody.
LEMMA SameState ==
    ASSUME NEW r, NEW s,
           Connected(s) = Connected(r),
           s.revealed = r.revealed,
           s.average = r.average,
           s.hasVotes = r.hasVotes,
           s.roleAverages = r.roleAverages,
           \A i \in Connected(r) :
              Sight(s.participants[i], r.revealed) = Sight(r.participants[i], r.revealed)
    PROVE  State(s) = State(r)
<1>1. \A x : State(x) =
        [ participants |-> [ i \in Connected(x) |-> Sight(x.participants[i], x.revealed) ],
          revealed     |-> x.revealed,
          average      |-> x.average,
          hasVotes     |-> x.hasVotes,
          roleAverages |-> x.roleAverages ]
  BY DEF State, Sight, ShownVote
<1>2. [ i \in Connected(s) |-> Sight(s.participants[i], s.revealed) ] =
      [ i \in Connected(r) |-> Sight(r.participants[i], r.revealed) ]
  OBVIOUS
<1> QED
  BY <1>1, <1>2

\* Nobody sees the purge: the expired are not connected.
LEMMA PurgeIsUnseen ==
    ASSUME NEW r, HasFields(r)
    PROVE  State(AfterPurge(r)) = State(r)
<1> DEFINE s == AfterPurge(r)
<1>1. /\ s.participants = Restrict(r.participants, Present(r) \ Expired(r))
      /\ s.revealed = r.revealed
      /\ s.average = r.average
      /\ s.hasVotes = r.hasVotes
      /\ s.roleAverages = r.roleAverages
  BY PurgeFields
<1> HIDE DEF s
<1>2. Present(s) = Present(r) \ Expired(r)
  BY <1>1 DEF Restrict, Present
<1>3. \A i \in Present(s) : s.participants[i] = r.participants[i]
  BY <1>1, <1>2 DEF Restrict
<1>4. Connected(s) = Connected(r)
  BY <1>2, <1>3 DEF Connected, Expired
<1>5. \A i \in Connected(r) : s.participants[i] = r.participants[i]
  BY <1>3, <1>4 DEF Connected
<1> QED
  BY <1>1, <1>4, <1>5, SameState DEF s

\* Nobody sees the clock of those who are waiting for their reconnection.
LEMMA TickIsUnseen ==
    ASSUME NEW r, HasFields(r)
    PROVE  State(AfterTick(r)) = State(r)
<1> DEFINE s == AfterTick(r)
<1>1. /\ s.participants = [ i \in Present(r) |-> Older(r.participants[i]) ]
      /\ s.revealed = r.revealed
      /\ s.average = r.average
      /\ s.hasVotes = r.hasVotes
      /\ s.roleAverages = r.roleAverages
  BY TickFields
<1> HIDE DEF s
<1>2. Present(s) = Present(r)
  BY <1>1 DEF Present
<1>3. Connected(s) = Connected(r) /\ \A i \in Connected(r) : s.participants[i] = r.participants[i]
  BY <1>1, <1>2 DEF Connected, Older
<1> QED
  BY <1>1, <1>3, SameState DEF s

-----------------------------------------------------------------------------
(* The calls of a room, and what each of them comes to *)

\* A call of the room, or a tick of its clock, takes room r to room s. The
\* fresh names in U have been drawn before.
RoomCall(s, r, U) ==
    \/ s = AfterPurge(r)
    \/ s = AfterTick(r)
    \/ \E c \in Conns \ U, q \in Request : s = AfterAddConnection(r, c, q)
    \/ \E i \in U, c \in U : s \in AfterRemoveConnection(r, i, c)
    \/ \E i \in U : s \in AfterRemove(r, i)
    \/ \E i \in U, v \in Cards \cup {None}, b \in BOOLEAN : s = AfterVote(r, i, v, b)
    \/ \E i \in U : s = AfterSkipVote(r, i)
    \/ \E i \in U : s = AfterReset(r, i)

\* What a call does once it has purged the room.
Admitted(s, t, U) == \E c \in Conns \ U, q \in Request : s = Admit(t, c, q)

Departed(s, t) ==
    \E i \in Present(t) : \E l \in {Left(t, i), Forgotten(t, i)} :
        s \in Succeeded(l, t.participants[i].lead)

Moves(t, i) == {Pass(t, i)} \cup { Cast(t, i, v, b) : v \in Cards, b \in BOOLEAN }

Moved(s, t) ==
    /\ ~ t.revealed
    /\ \E i \in Voters(t) : \E m \in Moves(t, i) : s = RevealIfComplete(m)

LEMMA CallCases ==
    ASSUME NEW r, NEW U, NEW s, RoomCall(s, r, U)
    PROVE  LET t == AfterPurge(r) IN
           \/ s = t
           \/ s = AfterTick(r)
           \/ Admitted(s, t, U)
           \/ Departed(s, t)
           \/ Moved(s, t)
           \/ s = FreshRound(t)
<1> DEFINE t == AfterPurge(r)
<1>1. ASSUME NEW c \in Conns \ U, NEW q \in Request, s = AfterAddConnection(r, c, q)
      PROVE  Admitted(s, t, U)
  BY <1>1 DEF AfterAddConnection, Admitted
<1>2. ASSUME NEW i \in U, NEW c \in U, s \in AfterRemoveConnection(r, i, c)
      PROVE  s = t \/ Departed(s, t)
  <2>1. CASE Removes(r, i, c)
    <3>1. i \in Present(t)
      BY <2>1 DEF Removes, Connected
    <3>2. s \in Succeeded(Left(t, i), t.participants[i].lead)
      BY <1>2, <2>1 DEF AfterRemoveConnection
    <3> QED
      BY <3>1, <3>2 DEF Departed
  <2>2. CASE ~ Removes(r, i, c)
    BY <1>2, <2>2 DEF AfterRemoveConnection
  <2> QED
    BY <2>1, <2>2
<1>3. ASSUME NEW i \in U, s \in AfterRemove(r, i)
      PROVE  s = t \/ Departed(s, t)
  <2>1. CASE i \in Present(t)
    <3>1. s \in Succeeded(Forgotten(t, i), t.participants[i].lead)
      BY <1>3, <2>1 DEF AfterRemove
    <3> QED
      BY <2>1, <3>1 DEF Departed
  <2>2. CASE i \notin Present(t)
    BY <1>3, <2>2 DEF AfterRemove
  <2> QED
    BY <2>1, <2>2
<1>4. ASSUME NEW i \in U, NEW v \in Cards \cup {None}, NEW b \in BOOLEAN,
             s = AfterVote(r, i, v, b)
      PROVE  s = t \/ Moved(s, t)
  <2>1. CASE MayVote(t, i) /\ v \in Cards
    <3>1. Cast(t, i, v, b) \in Moves(t, i) /\ s = RevealIfComplete(Cast(t, i, v, b))
      BY <1>4, <2>1 DEF AfterVote, Moves
    <3> QED
      BY <2>1, <3>1 DEF MayVote, Moved
  <2>2. CASE ~ (MayVote(t, i) /\ v \in Cards)
    BY <1>4, <2>2 DEF AfterVote
  <2> QED
    BY <2>1, <2>2
<1>5. ASSUME NEW i \in U, s = AfterSkipVote(r, i)
      PROVE  s = t \/ Moved(s, t)
  <2>1. CASE MayVote(t, i)
    <3>1. Pass(t, i) \in Moves(t, i) /\ s = RevealIfComplete(Pass(t, i))
      BY <1>5, <2>1 DEF AfterSkipVote, Moves
    <3> QED
      BY <2>1, <3>1 DEF MayVote, Moved
  <2>2. CASE ~ MayVote(t, i)
    BY <1>5, <2>2 DEF AfterSkipVote
  <2> QED
    BY <2>1, <2>2
<1>6. ASSUME NEW i \in U, s = AfterReset(r, i)
      PROVE  s = t \/ s = FreshRound(t)
  BY <1>6 DEF AfterReset
<1> HIDE DEF t
<1> QED
  BY <1>1, <1>2, <1>3, <1>4, <1>5, <1>6 DEF RoomCall, t

\* A move is a room like the one before it, with the round still open.
LEMMA MoveFacts ==
    ASSUME NEW t, NEW U, RoomOK(t, U), ~ t.revealed, NEW i \in Voters(t),
           NEW m \in Moves(t, i)
    PROVE  /\ RoomOK(m, U)
           /\ ~ m.revealed
           /\ StayPut(m, t)
<1>1. i \in Present(t) /\ MayVote(t, i) /\ HasFields(t)
  BY DEF MayVote, Voters, Connected, RoomOK, RoomTyped
<1>2. CASE m = Pass(t, i)
  BY <1>1, <1>2, PassOK, PassFields, CastStayPut
<1>3. ASSUME NEW v \in Cards, NEW b \in BOOLEAN, m = Cast(t, i, v, b)
      PROVE  /\ RoomOK(m, U)
             /\ ~ m.revealed
             /\ StayPut(m, t)
  BY <1>1, <1>3, CastOK, CastFields, CastStayPut
<1> QED
  BY <1>2, <1>3 DEF Moves

-----------------------------------------------------------------------------
(* What a call keeps *)

LEMMA PurgeKeeps ==
    ASSUME NEW r, NEW U \in SUBSET Conns, RoomOK(r, U)
    PROVE  LET t == AfterPurge(r) IN
           /\ HasFields(t) /\ RoomOK(t, U)
           /\ t.revealed = r.revealed
           /\ Stands(t, r)
           /\ Present(t) \subseteq Present(r)
           /\ \A i \in Present(t) : t.participants[i] = r.participants[i]
           /\ t.owner \in Present(t) => t.owner = r.owner
<1> DEFINE t == AfterPurge(r)
<1>0. HasFields(r) /\ Present(r) \subseteq U
  BY DEF RoomOK, RoomTyped
<1>1. /\ HasFields(t)
      /\ t.revealed = r.revealed
      /\ t.average = r.average
      /\ t.roleAverages = r.roleAverages
      /\ t.hasVotes = r.hasVotes
      /\ t.owner = IF r.owner \in Expired(r) THEN None ELSE r.owner
  BY <1>0, PurgeFields
<1>2. RoomOK(t, U)
  BY PurgeOK
<1>3. /\ Present(t) = Present(r) \ Expired(r)
      /\ \A i \in Present(t) : t.participants[i] = r.participants[i]
  BY <1>0, PurgeSeats
<1> HIDE DEF t
<1>4. ASSUME t.owner \in Present(t)
      PROVE  t.owner = r.owner
  <2>1. None \notin Present(t)
    BY <1>0, <1>3, NoneAssumption
  <2> QED
    BY <1>1, <1>4, <2>1
<1>5. Stands(t, r)
  BY <1>1, <1>3 DEF Stands
<1> QED
  BY <1>1, <1>2, <1>3, <1>4, <1>5 DEF t

\* The room after a new connection, given the room after the purge.
LEMMA AdmitKeeps ==
    ASSUME NEW r, NEW U, RoomOK(r, U),
           NEW c \in Conns, c \notin U, NEW q \in Request
    PROVE  LET s == Admit(r, c, q) IN
           /\ s.revealed = r.revealed
           /\ r.revealed => Stands(s, r)
           /\ KeepsIdentity(s, r)
           /\ Present(s) \subseteq Present(r) \cup {c}
<1> DEFINE s == Admit(r, c, q)
           i == JoinsAs(r, c, q)
           t == Issues(c, q)
<1>0. HasFields(r) /\ c \notin Present(r)
  BY DEF RoomOK, RoomTyped
<1>1. CASE JoinError(r, q) # "none"
  <2>1. s = r
    BY <1>1 DEF Admit
  <2> QED
    BY <2>1 DEF Stands, KeepsIdentity
<1>2. CASE JoinError(r, q) = "none" /\ (q.token # None \/ OwnerReturns(r, q))
  <2> DEFINE m == Readmitted(r, i, c, q, t)
             o == AsOwner(m, i)
             old == r.participants[i]
  <2>1. /\ i \in Present(r)
        /\ t = c \/ t = old.token
        /\ old.client = q.client \/ (IsOwner(r, q) /\ i = r.owner)
    BY <1>2 DEF JoinError, JoinsAs, Issues, Opens, OwnerReturns,
                RoomOK, IndexAgrees, TokensOf
  <2>2. s = IF IsOwner(r, q) THEN o ELSE m
    BY <1>2 DEF Admit, Replace
  <2> HIDE DEF i, t
  <2>3. /\ HasFields(m)
        /\ m.participants = Put(r.participants, i, Returned(old, c, q, t))
        /\ m.revealed = r.revealed
        /\ m.average = r.average
        /\ m.roleAverages = r.roleAverages
        /\ m.hasVotes = IF old.role = q.role THEN r.hasVotes
                        ELSE HasVotesGiven(r, KeptVotes(r, i, q))
        /\ m.owner = r.owner
    BY <1>0, ReadmittedFields
  <2>4. RoomOK(m, U \cup {c})
    BY <2>1, ReadmittedOK
  <2>5. /\ o.participants = MakeLead(m, i).participants
        /\ o.revealed = m.revealed
        /\ o.average = m.average
        /\ o.roleAverages = m.roleAverages
        /\ o.hasVotes = m.hasVotes
        /\ o.owner = i
    BY <2>3, AsOwnerFields
  <2>6. StayPut(o, m) /\ SameHands(o, m)
    BY <2>4, LeadStayPut
  <2>7. MakeLead(m, i).participants = [ j \in Present(m) |-> Led(m.participants[j], j, i) ]
    BY <2>3, MakeLeadFields
  <2> HIDE DEF m, o
  <2>8. /\ Present(m) = Present(r)
        /\ m.participants[i] = Returned(old, c, q, t)
        /\ \A j \in Present(r) \ {i} : m.participants[j] = r.participants[j]
    BY <2>1, <2>3 DEF Present, Put
  <2>9. /\ m.participants[i].client = q.client
        /\ m.participants[i].role = q.role
        /\ old.role = q.role => m.participants[i].selected = old.selected
    BY <2>8 DEF Returned
  <2>10. r.revealed => Stands(m, r)
    BY <2>3, <2>8, <2>9 DEF Stands, HasVotesGiven
  <2>11. r.revealed => Stands(o, r)
    BY <2>5, <2>6, <2>8, <2>10 DEF Stands, StayPut, SameHands
  <2>12. IsOwner(r, q) => KeepsIdentity(o, r)
    <3>1. m.participants[i] \in Participant
      BY <2>1, <2>4, <2>8 DEF RoomOK, RoomTyped
    <3>2. i \in Leads(o)
      <4>1. o.participants[i] = Led(m.participants[i], i, i)
        BY <2>1, <2>5, <2>7, <2>8
      <4>2. Led(m.participants[i], i, i).lead = TRUE
        BY <3>1 DEF Led, Participant
      <4> QED
        BY <2>1, <2>6, <2>8, <4>1, <4>2 DEF Leads, StayPut
    <3>3. \A j \in Present(r) \ {i} : o.participants[j].client = r.participants[j].client
      BY <2>6, <2>8 DEF StayPut
    <3>4. o.participants[i].client = q.client
      BY <2>1, <2>6, <2>8, <2>9 DEF StayPut
    <3> QED
      BY <2>1, <2>5, <3>2, <3>3, <3>4 DEF KeepsIdentity
  <2>13. ~ IsOwner(r, q) => KeepsIdentity(m, r)
    BY <2>1, <2>8, <2>9 DEF KeepsIdentity
  <2>14. Present(o) = Present(r)
    BY <2>6, <2>8 DEF StayPut
  <2> QED
    BY <2>2, <2>3, <2>5, <2>8, <2>10, <2>11, <2>12, <2>13, <2>14
<1>3. CASE JoinError(r, q) = "none" /\ ~ (q.token # None \/ OwnerReturns(r, q))
  <2> DEFINE m == Enrolled(r, c, q)
             o == AsOwner(m, c)
  <2>1. s = IF IsOwner(r, q) THEN o ELSE m
    BY <1>3 DEF Admit, Enrol
  <2>2. /\ HasFields(m)
        /\ m.participants = Put(r.participants, c, Newcomer(r, c, q))
        /\ m.revealed = r.revealed
        /\ m.average = r.average
        /\ m.roleAverages = r.roleAverages
        /\ m.hasVotes = r.hasVotes
    BY <1>0, EnrolledFields
  <2>3. RoomOK(m, U \cup {c})
    BY EnrolledOK
  <2>4. /\ o.revealed = m.revealed
        /\ o.average = m.average
        /\ o.roleAverages = m.roleAverages
        /\ o.hasVotes = m.hasVotes
    BY <2>2, AsOwnerFields
  <2>5. StayPut(o, m) /\ SameHands(o, m)
    BY <2>3, LeadStayPut
  <2> HIDE DEF m, o
  <2>6. /\ Present(m) = Present(r) \cup {c}
        /\ \A j \in Present(r) : m.participants[j] = r.participants[j]
    BY <1>0, <2>2 DEF Present, Put
  <2>7. Stands(m, r) /\ KeepsIdentity(m, r)
    BY <2>2, <2>6 DEF Stands, KeepsIdentity
  <2>8. Stands(o, r) /\ KeepsIdentity(o, r) /\ Present(o) = Present(m)
    BY <2>4, <2>5, <2>6, <2>7 DEF Stands, KeepsIdentity, StayPut, SameHands
  <2> QED
    BY <2>1, <2>2, <2>4, <2>6, <2>7, <2>8
<1> HIDE DEF s
<1> QED
  BY <1>1, <1>2, <1>3 DEF s

\* What holds from the purge on holds from the call on.
LEMMA ThroughPurge ==
    ASSUME NEW r, NEW U \in SUBSET Conns, RoomOK(r, U), NEW s,
           Present(s) \cap Present(r) \subseteq Present(AfterPurge(r))
    PROVE  /\ Stands(s, AfterPurge(r)) => Stands(s, r)
           /\ KeepsIdentity(s, AfterPurge(r)) => KeepsIdentity(s, r)
<1> DEFINE t == AfterPurge(r)
<1>1. /\ Stands(t, r)
      /\ Present(t) \subseteq Present(r)
      /\ \A i \in Present(t) : t.participants[i] = r.participants[i]
      /\ t.owner \in Present(t) => t.owner = r.owner
  BY PurgeKeeps
<1> HIDE DEF t
<1>2. Present(s) \cap Present(r) \subseteq Present(t)
  BY DEF t
<1>3. Stands(s, t) => Stands(s, r)
  BY <1>1, <1>2 DEF Stands
<1>4. KeepsIdentity(s, t) => KeepsIdentity(s, r)
  BY <1>1, <1>2 DEF KeepsIdentity
<1> QED
  BY <1>3, <1>4 DEF t

LEMMA SucceededFields ==
    ASSUME NEW r, HasFields(r), NEW b, NEW s \in Succeeded(r, b)
    PROVE  /\ HasFields(s)
           /\ s.votes = r.votes
           /\ s.revealed = r.revealed
           /\ s.average = r.average
           /\ s.roleAverages = r.roleAverages
           /\ s.hasVotes = r.hasVotes
<1>1. s = r \/ \E k : s = MakeLead(r, k)
  BY DEF Succeeded, PromoteAny
<1>2. CASE s = r
  BY <1>2
<1>3. CASE \E k : s = MakeLead(r, k)
  <2>1. PICK k : s = MakeLead(r, k)
    BY <1>3
  <2> QED
    BY <2>1, MakeLeadFields
<1> QED
  BY <1>1, <1>2, <1>3

\* Leaving keeps a result, and everybody's client.
LEMMA LeavingKeeps ==
    ASSUME NEW r, NEW U, RoomOK(r, U), NEW i \in Present(r), NEW b,
           NEW l \in {Left(r, i), Forgotten(r, i)}, NEW s \in Succeeded(l, b)
    PROVE  /\ s.revealed = r.revealed
           /\ r.revealed => Stands(s, r)
           /\ KeepsIdentity(s, r)
           /\ Present(s) \subseteq Present(r)
<1>0. HasFields(r) /\ r.participants[i] \in Participant
  BY DEF RoomOK, RoomTyped
<1>1. HasFields(l) /\ RoomOK(l, U)
  BY <1>0, LeftFields, ForgottenFields, LeftOK, ForgottenOK
<1>2. /\ WithoutVote(r, i).revealed = r.revealed
      /\ WithoutVote(r, i).average = r.average
      /\ WithoutVote(r, i).roleAverages = r.roleAverages
      /\ r.revealed => WithoutVote(r, i).hasVotes = r.hasVotes
  BY <1>0, WithoutVoteFields
<1>3. /\ l.revealed = r.revealed
      /\ l.average = r.average
      /\ l.roleAverages = r.roleAverages
      /\ r.revealed => l.hasVotes = r.hasVotes
  BY <1>0, <1>2, LeftFields, ForgottenFields
<1>4. /\ Present(l) \subseteq Present(r)
      /\ \A j \in Present(l) : l.participants[j].client = r.participants[j].client
      /\ r.revealed => \A j \in Present(l) :
                          l.participants[j].selected = r.participants[j].selected
  <2>1. CASE l = Left(r, i)
    <3> DEFINE p == Disconnected(r.participants[i], r.revealed)
    <3>1. l.participants = Put(r.participants, i, p)
      BY <1>0, <2>1, LeftFields
    <3>2. /\ p.client = r.participants[i].client
          /\ r.revealed => p.selected = r.participants[i].selected
      BY <1>0 DEF Disconnected, Participant
    <3> HIDE DEF p
    <3>3. /\ Present(l) = Present(r)
          /\ l.participants[i] = p
          /\ \A j \in Present(r) \ {i} : l.participants[j] = r.participants[j]
      BY <3>1 DEF Present, Put
    <3> QED
      BY <3>2, <3>3
  <2>2. CASE l = Forgotten(r, i)
    <3>1. l.participants = Drop(r.participants, i)
      BY <1>0, <2>2, ForgottenFields
    <3> QED
      BY <3>1 DEF Present, Drop
  <2> QED
    BY <2>1, <2>2
<1>5. StayPut(s, l) /\ SameHands(s, l)
  BY <1>1, SucceededStayPut
<1>6. /\ s.revealed = l.revealed
      /\ s.average = l.average
      /\ s.roleAverages = l.roleAverages
      /\ s.hasVotes = l.hasVotes
  BY <1>1, SucceededFields
<1>7. /\ Present(s) = Present(l)
      /\ \A j \in Present(l) : s.participants[j].client = r.participants[j].client
      /\ r.revealed => \A j \in Present(l) :
                          s.participants[j].selected = r.participants[j].selected
  BY <1>4, <1>5 DEF StayPut, SameHands
<1>8. KeepsIdentity(s, r)
  BY <1>4, <1>7 DEF KeepsIdentity
<1>9. r.revealed => Stands(s, r)
  BY <1>3, <1>4, <1>6, <1>7 DEF Stands
<1> QED
  BY <1>3, <1>4, <1>6, <1>7, <1>8, <1>9

\* A result that stays face up stands, and everybody keeps their identities.
LEMMA CallKeeps ==
    ASSUME NEW r, NEW U \in SUBSET Conns, RoomOK(r, U), NEW s, RoomCall(s, r, U)
    PROVE  /\ r.revealed /\ s.revealed => Stands(s, r)
           /\ KeepsIdentity(s, r)
<1> DEFINE t == AfterPurge(r)
<1>0. HasFields(r) /\ Present(r) \subseteq U
  BY DEF RoomOK, RoomTyped
<1>1. /\ RoomOK(t, U)
      /\ t.revealed = r.revealed
      /\ Present(t) \subseteq Present(r)
  BY PurgeKeeps
<1>2. ASSUME Present(s) \cap Present(r) \subseteq Present(t)
      PROVE  /\ Stands(s, t) => Stands(s, r)
             /\ KeepsIdentity(s, t) => KeepsIdentity(s, r)
  BY <1>2, ThroughPurge
<1>3. \/ s = t
      \/ s = AfterTick(r)
      \/ Admitted(s, t, U)
      \/ Departed(s, t)
      \/ Moved(s, t)
      \/ s = FreshRound(t)
  BY CallCases
<1> HIDE DEF t
<1>4. CASE s = t
  BY <1>2, <1>4 DEF Stands, KeepsIdentity
<1>5. CASE s = AfterTick(r)
  <2>1. StayPut(s, r) /\ SameHands(s, r)
    BY <1>5, TickStayPut
  <2>2. /\ s.average = r.average
        /\ s.roleAverages = r.roleAverages
        /\ s.hasVotes = r.hasVotes
    BY <1>0, <1>5, TickFields
  <2> QED
    BY <2>1, <2>2 DEF StayPut, SameHands, Stands, KeepsIdentity
<1>6. ASSUME NEW c \in Conns \ U, NEW q \in Request, s = Admit(t, c, q)
      PROVE  /\ r.revealed /\ s.revealed => Stands(s, r)
             /\ KeepsIdentity(s, r)
  <2>1. c \notin Present(r)
    BY <1>0, <1>6
  <2>2. /\ t.revealed => Stands(s, t)
        /\ KeepsIdentity(s, t)
        /\ Present(s) \subseteq Present(t) \cup {c}
    BY <1>1, <1>6, AdmitKeeps
  <2> QED
    BY <1>1, <1>2, <2>1, <2>2
<1>7. ASSUME NEW i \in Present(t), NEW l \in {Left(t, i), Forgotten(t, i)},
             s \in Succeeded(l, t.participants[i].lead)
      PROVE  /\ r.revealed /\ s.revealed => Stands(s, r)
             /\ KeepsIdentity(s, r)
  <2>1. /\ t.revealed => Stands(s, t)
        /\ KeepsIdentity(s, t)
        /\ Present(s) \subseteq Present(t)
    BY <1>1, <1>7, LeavingKeeps
  <2> QED
    BY <1>1, <1>2, <2>1
<1>8. StayPut(s, t) => KeepsIdentity(s, r)
  <2>1. StayPut(s, t) => KeepsIdentity(s, t) /\ Present(s) = Present(t)
    BY DEF StayPut, KeepsIdentity
  <2> QED
    BY <1>2, <2>1
<1>9. ASSUME ~ t.revealed, NEW i \in Voters(t), NEW m \in Moves(t, i),
             s = RevealIfComplete(m)
      PROVE  /\ r.revealed /\ s.revealed => Stands(s, r)
             /\ KeepsIdentity(s, r)
  <2>1. RoomOK(m, U) /\ StayPut(m, t)
    BY <1>1, <1>9, MoveFacts
  <2>2. StayPut(s, m)
    BY <1>9, <2>1, TableStayPut
  <2>3. StayPut(s, t)
    BY <2>1, <2>2 DEF StayPut
  <2> QED
    BY <1>1, <1>8, <1>9, <2>3
<1>10. CASE s = FreshRound(t)
  <2>1. HasFields(t)
    BY <1>1 DEF RoomOK, RoomTyped
  <2>2. StayPut(s, t) /\ s.revealed = FALSE
    BY <1>1, <1>10, <2>1, TableStayPut, FreshRoundFields
  <2> QED
    BY <1>8, <2>2
<1> QED
  BY <1>3, <1>4, <1>5, <1>6, <1>7, <1>9, <1>10 DEF Admitted, Departed, Moved

\* No call takes a room beyond its capacity.
LEMMA CallSmall ==
    ASSUME NEW r, NEW U \in SUBSET Conns, RoomOK(r, U), Small(r),
           NEW s, RoomCall(s, r, U)
    PROVE  Small(s)
<1> DEFINE t == AfterPurge(r)
<1>1. HasFields(r) /\ RoomOK(t, U)
  BY PurgeOK DEF RoomOK, RoomTyped
<1>2. HasFields(t) /\ Small(t)
  BY <1>1, PurgeFields, PurgePresent, Shrinks
<1>3. \/ s = t
      \/ s = AfterTick(r)
      \/ Admitted(s, t, U)
      \/ Departed(s, t)
      \/ Moved(s, t)
      \/ s = FreshRound(t)
  BY CallCases
<1> HIDE DEF t
<1>4. ASSUME Present(s) \subseteq Present(t)
      PROVE  Small(s)
  BY <1>2, <1>4, Shrinks
<1>5. CASE s = AfterTick(r)
  <2>1. Present(s) = Present(r)
    BY <1>1, <1>5, TablePresent
  <2> QED
    BY <2>1, Shrinks
<1>6. CASE Admitted(s, t, U)
  BY <1>2, <1>6, AdmitSmall DEF Admitted
<1>7. ASSUME NEW i \in Present(t), NEW l \in {Left(t, i), Forgotten(t, i)},
             s \in Succeeded(l, t.participants[i].lead)
      PROVE  Small(s)
  <2>1. HasFields(l) /\ Present(l) \subseteq Present(t)
    BY <1>2, <1>7, LeavingPresent, LeftFields, ForgottenFields
  <2>2. Present(s) = Present(l)
    BY <1>7, <2>1, SucceededPresent
  <2> QED
    BY <1>4, <2>1, <2>2
<1>8. ASSUME ~ t.revealed, NEW i \in Voters(t), NEW m \in Moves(t, i),
             s = RevealIfComplete(m)
      PROVE  Small(s)
  <2>1. RoomOK(m, U) /\ StayPut(m, t)
    BY <1>1, <1>8, MoveFacts
  <2>2. HasFields(m) /\ Present(m) = Present(t)
    BY <2>1 DEF StayPut, RoomOK, RoomTyped
  <2>3. Present(s) = Present(m)
    BY <1>8, <2>2, TablePresent
  <2> QED
    BY <1>4, <2>2, <2>3
<1>9. CASE s = FreshRound(t)
  BY <1>2, <1>4, <1>9, TablePresent
<1> QED
  BY <1>2, <1>3, <1>5, <1>6, <1>7, <1>8, <1>9 DEF Departed, Moved

-----------------------------------------------------------------------------
(* The reveal *)

\* Room r is room s, whose voters were ready, with its cards turned over.
TurnedOver(r, s, U) == RoomOK(s, U) /\ ~ s.revealed /\ Complete(s) /\ r = Revealed(s)

JustRevealed(r, U) == \E s : TurnedOver(r, s, U)

\* The cards turned over are exactly the counted votes.
LEMMA FaceUpAreCounted ==
    ASSUME NEW r, NEW U, RoomOK(r, U), ~ r.revealed, Complete(r)
    PROVE  /\ FaceUp(Revealed(r)) = Restrict(r.votes, Counted(r))
           /\ Counted(r) = DOMAIN r.votes
<1> DEFINE s == Revealed(r)
<1>1. s.participants = r.participants /\ s.revealed = TRUE
  BY RevealedFields DEF RoomOK, RoomTyped
<1> HIDE DEF s
<1>2. Connected(s) = Connected(r)
  BY <1>1 DEF Connected, Present
<1>3. \A j \in Connected(r) : ShownVote(s, j) = r.participants[j].selected
  BY <1>1 DEF ShownVote
<1>4. /\ DOMAIN r.votes \subseteq Connected(r)
      /\ \A j \in Connected(r) : j \in Present(r)
      /\ \A j \in DOMAIN r.votes : r.votes[j] # None
  BY NoneAssumption DEF RoomOK, RoomTyped, VotesAgree, Connected
<1>5. ASSUME NEW j \in Connected(r)
      PROVE  /\ j \in DOMAIN r.votes <=> r.participants[j].selected # None
             /\ j \in DOMAIN r.votes => r.votes[j] = r.participants[j].selected
  <2>1. VoteAgrees(r.votes, j, r.participants[j])
    BY <1>4 DEF RoomOK, VotesAgree
  <2>2. r.participants[j].selected # None => j \in Voters(r)
    BY <2>1 DEF VoteAgrees, Voters
  <2>3. r.participants[j].selected # None => r.participants[j].submitted
    BY <2>2 DEF Complete
  <2> QED
    BY <1>4, <2>1, <2>3 DEF VoteAgrees
<1>6. { j \in Connected(s) : ShownVote(s, j) # None } = DOMAIN r.votes
  BY <1>2, <1>3, <1>4, <1>5
<1>7. Counted(r) = DOMAIN r.votes
  BY <1>4 DEF Counted
<1>8. FaceUp(s) = [ j \in DOMAIN r.votes |-> r.votes[j] ]
  BY <1>3, <1>4, <1>5, <1>6 DEF FaceUp
<1> QED
  BY <1>7, <1>8 DEF Restrict, s

\* A round is revealed by the vote, or the pass, that completes it.
LEMMA CallReveals ==
    ASSUME NEW r, NEW U \in SUBSET Conns, RoomOK(r, U), NEW s, RoomCall(s, r, U),
           ~ r.revealed, s.revealed
    PROVE  JustRevealed(s, U)
<1> DEFINE t == AfterPurge(r)
<1>1. RoomOK(t, U) /\ ~ t.revealed
  BY PurgeKeeps
<1>2. \/ s = t
      \/ s = AfterTick(r)
      \/ Admitted(s, t, U)
      \/ Departed(s, t)
      \/ Moved(s, t)
      \/ s = FreshRound(t)
  BY CallCases
<1> HIDE DEF t
<1>3. HasFields(r) /\ HasFields(t)
  BY <1>1 DEF RoomOK, RoomTyped
<1>4. s # t /\ s # AfterTick(r) /\ s # FreshRound(t)
  BY <1>1, <1>3, TickFields, FreshRoundFields
<1>5. ~ Admitted(s, t, U)
  BY <1>1, AdmitKeeps DEF Admitted
<1>6. ~ Departed(s, t)
  BY <1>1, LeavingKeeps DEF Departed
<1>7. PICK i \in Voters(t) : \E m \in Moves(t, i) : s = RevealIfComplete(m)
  BY <1>2, <1>4, <1>5, <1>6 DEF Moved
<1>8. PICK m \in Moves(t, i) : s = RevealIfComplete(m)
  BY <1>7
<1>9. RoomOK(m, U) /\ ~ m.revealed
  BY <1>1, <1>8, MoveFacts
<1>10. Complete(m) /\ s = Revealed(m)
  BY <1>8, <1>9 DEF RevealIfComplete
<1>11. TurnedOver(s, m, U)
  BY <1>9, <1>10 DEF TurnedOver
<1> QED
  BY <1>11 DEF JustRevealed

\* The result of a reveal is that of the cards turned over.
LEMMA RevealedHonestly ==
    ASSUME NEW s, NEW U, JustRevealed(s, U)
    PROVE  Honest(s)
<1>1. PICK r : RoomOK(r, U) /\ ~ r.revealed /\ Complete(r) /\ s = Revealed(r)
  BY DEF JustRevealed, TurnedOver
<1>2. /\ FaceUp(s) = Restrict(r.votes, Counted(r))
      /\ Counted(r) = DOMAIN r.votes
  BY <1>1, FaceUpAreCounted
<1>3. /\ s.participants = r.participants
      /\ s.average = Average(Restrict(r.votes, Counted(r)))
      /\ s.roleAverages = RoleAverages(r)
      /\ s.hasVotes = (Counted(r) # {})
  <2>1. HasFields(r)
    BY <1>1 DEF RoomOK, RoomTyped
  <2> QED
    BY <1>1, <2>1, RevealedFields
<1>4. DOMAIN FaceUp(s) = Counted(r)
  BY <1>2 DEF Restrict
<1>5. ASSUME NEW x \in DOMAIN s.roleAverages
      PROVE  s.roleAverages[x] = Average(FaceUpIn(s, x))
  <2> DEFINE S == { i \in Counted(r) : r.participants[i].role = x }
  <2>1. s.roleAverages[x] = Average(Restrict(r.votes, S))
    BY <1>3, <1>5 DEF RoleAverages
  <2>2. FaceUpIn(s, x) = Restrict(FaceUp(s), S)
    BY <1>3, <1>4 DEF FaceUpIn
  <2>3. Restrict(FaceUp(s), S) = Restrict(r.votes, S)
    BY <1>2 DEF Restrict
  <2> QED
    BY <2>1, <2>2, <2>3
<1> QED
  BY <1>2, <1>3, <1>4, <1>5 DEF Honest

\* What a call, or none, keeps of a room that somebody looks at.
LEMMA CallKeepsItsWord ==
    ASSUME NEW r, NEW U \in SUBSET Conns, RoomOK(r, U),
           NEW s, s = r \/ RoomCall(s, r, U)
    PROVE  /\ ~ r.revealed /\ s.revealed => Honest(s)
           /\ r.revealed /\ s.revealed => Stands(s, r)
           /\ KeepsIdentity(s, r)
<1>1. CASE s = r
  BY <1>1 DEF Stands, KeepsIdentity
<1>2. CASE RoomCall(s, r, U)
  <2>1. ~ r.revealed /\ s.revealed => Honest(s)
    BY <1>2, CallReveals, RevealedHonestly
  <2>2. /\ r.revealed /\ s.revealed => Stands(s, r)
        /\ KeepsIdentity(s, r)
    BY <1>2, CallKeeps
  <2> QED
    BY <2>1, <2>2
<1> QED
  BY <1>1, <1>2

-----------------------------------------------------------------------------
(* The round in a room: each of the operators that a call is composed of   *)
(* leaves it alone, takes one card back, puts one card down, turns the     *)
(* cards over or clears the table.                                         *)

\* Nobody sees a difference between the rounds of rooms s and r.
SameRound(s, r) ==
    /\ TableOf(s) = TableOf(r)
    /\ s.revealed = r.revealed
    /\ s.average = r.average
    /\ s.roleAverages = r.roleAverages

\* A ballot, and what is read off a table T, as Round has them.
Ballots == [ role : Roles, card : Cards ]

CardsOn(T) == [ i \in DOMAIN T |-> T[i].card ]

RolesOn(T) == { T[i].role : i \in DOMAIN T }

PlayedIn(T, x) == Restrict(T, { i \in DOMAIN T : T[i].role = x })

\* T is the table of r after i has taken a card back or put one down.
NextTable(T, r, i) ==
    \/ T = Drop(TableOf(r), i)
    \/ \E b \in Ballots : T = Put(TableOf(r), i, b)

\* The round goes on with table T.
Laid(s, r, T) ==
    /\ ~ r.revealed /\ ~ s.revealed
    /\ TableOf(s) = T
    /\ s.average = r.average
    /\ s.roleAverages = r.roleAverages

\* The cards of table T have been turned over.
TurnedUp(s, T) ==
    /\ s.revealed = TRUE
    /\ TableOf(s) = EmptyFcn
    /\ s.average = Average(CardsOn(T))
    /\ s.roleAverages =
          [ x \in RolesOn(T) |-> Average(CardsOn(PlayedIn(T, x))) ]

NewRound(s) ==
    /\ s.revealed = FALSE
    /\ TableOf(s) = EmptyFcn
    /\ s.average = 0
    /\ s.roleAverages = EmptyFcn

\* One step of a round, or none, takes room r to room s.
RoundStep(s, r) ==
    \/ SameRound(s, r)
    \/ \E i \in Conns : \E T :
          /\ ~ r.revealed
          /\ NextTable(T, r, i)
          /\ Laid(s, r, T) \/ TurnedUp(s, T)
    \/ NewRound(s)

-----------------------------------------------------------------------------
(* The table, from the votes and the roles *)

LEMMA TableFacts ==
    ASSUME NEW r
    PROVE  /\ r.revealed => TableOf(r) = EmptyFcn
           /\ ~ r.revealed =>
                TableOf(r) = [ i \in DOMAIN r.votes |->
                    [ role |-> r.participants[i].role, card |-> r.votes[i] ] ]
<1>1. CASE r.revealed
  BY <1>1 DEF TableOf, EmptyFcn
<1>2. CASE ~ r.revealed
  BY <1>2 DEF TableOf
<1> QED
  BY <1>1, <1>2

LEMMA SameTable ==
    ASSUME NEW r, NEW s, ~ r.revealed, ~ s.revealed,
           s.votes = r.votes,
           \A i \in DOMAIN r.votes : s.participants[i].role = r.participants[i].role
    PROVE  TableOf(s) = TableOf(r)
BY TableFacts

LEMMA TableWithout ==
    ASSUME NEW r, NEW s, NEW i, ~ r.revealed, ~ s.revealed,
           s.votes = Drop(r.votes, i),
           \A j \in DOMAIN r.votes \ {i} : s.participants[j].role = r.participants[j].role
    PROVE  TableOf(s) = Drop(TableOf(r), i)
<1> DEFINE Ballot(x, j) == [ role |-> x.participants[j].role, card |-> x.votes[j] ]
<1>1. /\ TableOf(r) = [ j \in DOMAIN r.votes |-> Ballot(r, j) ]
      /\ TableOf(s) = [ j \in DOMAIN s.votes |-> Ballot(s, j) ]
  BY TableFacts
<1>2. DOMAIN s.votes = DOMAIN r.votes \ {i}
  BY DEF Drop
<1>3. \A j \in DOMAIN r.votes \ {i} : s.votes[j] = r.votes[j]
  BY DEF Drop
<1>4. \A j \in DOMAIN r.votes \ {i} : Ballot(s, j) = Ballot(r, j)
  BY <1>3
<1> HIDE DEF Ballot
<1>5. TableOf(s) = [ j \in DOMAIN r.votes \ {i} |-> Ballot(r, j) ]
  BY <1>1, <1>2, <1>4
<1>6. Drop(TableOf(r), i) = [ j \in DOMAIN r.votes \ {i} |-> Ballot(r, j) ]
  BY <1>1 DEF Drop
<1> QED
  BY <1>5, <1>6

LEMMA TableWith ==
    ASSUME NEW r, NEW s, NEW i, NEW v, ~ r.revealed, ~ s.revealed,
           s.votes = Put(r.votes, i, v),
           \A j \in DOMAIN r.votes \ {i} : s.participants[j].role = r.participants[j].role
    PROVE  TableOf(s) = Put(TableOf(r), i, [ role |-> s.participants[i].role, card |-> v ])
<1> DEFINE Ballot(x, j) == [ role |-> x.participants[j].role, card |-> x.votes[j] ]
           b == [ role |-> s.participants[i].role, card |-> v ]
           f == [ j \in DOMAIN r.votes \cup {i} |-> IF j = i THEN b ELSE Ballot(r, j) ]
<1>1. /\ TableOf(r) = [ j \in DOMAIN r.votes |-> Ballot(r, j) ]
      /\ TableOf(s) = [ j \in DOMAIN s.votes |-> Ballot(s, j) ]
  BY TableFacts
<1>2. DOMAIN s.votes = DOMAIN r.votes \cup {i}
  BY DEF Put
<1>3. s.votes[i] = v /\ \A j \in DOMAIN r.votes \ {i} : s.votes[j] = r.votes[j]
  BY DEF Put
<1>4. \A j \in DOMAIN r.votes \ {i} : Ballot(s, j) = Ballot(r, j)
  BY <1>3
<1>5. Ballot(s, i) = b
  BY <1>3
<1> HIDE DEF Ballot, b
<1>6. TableOf(s) = f
  BY <1>1, <1>2, <1>4, <1>5
<1>7. Put(TableOf(r), i, b) = f
  BY <1>1 DEF Put
<1> HIDE DEF f
<1> QED
  BY <1>6, <1>7 DEF b

\* Before the reveal whoever has a vote is there.
LEMMA VotersAreThere ==
    ASSUME NEW r, NEW U, RoomOK(r, U), ~ r.revealed
    PROVE  /\ DOMAIN r.votes \subseteq Connected(r)
           /\ DOMAIN r.votes \subseteq Present(r)
BY DEF RoomOK, VotesAgree, Connected

-----------------------------------------------------------------------------
(* The calls, one operator at a time *)

LEMMA PurgeSameRound ==
    ASSUME NEW r, NEW U, RoomOK(r, U)
    PROVE  SameRound(AfterPurge(r), r)
<1> DEFINE t == AfterPurge(r)
<1>0. HasFields(r)
  BY DEF RoomOK, RoomTyped
<1>1. /\ t.votes = r.votes
      /\ t.revealed = r.revealed
      /\ t.average = r.average
      /\ t.roleAverages = r.roleAverages
  BY <1>0, PurgeFields
<1>2. /\ Present(t) = Present(r) \ Expired(r)
      /\ \A i \in Present(t) : t.participants[i] = r.participants[i]
  BY <1>0, PurgeSeats
<1> HIDE DEF t
<1> SUFFICES SameRound(t, r)
  BY DEF t
<1>3. CASE r.revealed
  BY <1>1, <1>3, TableFacts DEF SameRound
<1>4. CASE ~ r.revealed
  <2>1. DOMAIN r.votes \subseteq Present(t)
    BY <1>2, <1>4, VotersAreThere DEF Connected, Expired
  <2>2. TableOf(t) = TableOf(r)
    BY <1>1, <1>2, <1>4, <2>1, SameTable
  <2> QED
    BY <1>1, <2>2 DEF SameRound
<1> QED
  BY <1>3, <1>4

\* The lead and the clock have no part in the round.
LEMMA StayPutSameRound ==
    ASSUME NEW r, NEW U, RoomOK(r, U), NEW s, StayPut(s, r),
           s.votes = r.votes, s.revealed = r.revealed,
           s.average = r.average, s.roleAverages = r.roleAverages
    PROVE  SameRound(s, r)
<1>1. CASE r.revealed
  BY <1>1, TableFacts DEF SameRound
<1>2. CASE ~ r.revealed
  <2>1. DOMAIN r.votes \subseteq Present(r)
    BY <1>2, VotersAreThere
  <2>2. TableOf(s) = TableOf(r)
    BY <1>2, <2>1, SameTable DEF StayPut
  <2> QED
    BY <2>2 DEF SameRound
<1> QED
  BY <1>1, <1>2

LEMMA SucceededSameRound ==
    ASSUME NEW r, NEW U, RoomOK(r, U), NEW b, NEW s \in Succeeded(r, b)
    PROVE  SameRound(s, r)
<1>1. StayPut(s, r)
  BY SucceededStayPut
<1>2. /\ s.votes = r.votes
      /\ s.revealed = r.revealed
      /\ s.average = r.average
      /\ s.roleAverages = r.roleAverages
  BY SucceededFields DEF RoomOK, RoomTyped
<1> QED
  BY <1>1, <1>2, StayPutSameRound

LEMMA OwnerSameRound ==
    ASSUME NEW r, NEW U, RoomOK(r, U), NEW i
    PROVE  SameRound(AsOwner(r, i), r)
<1> DEFINE s == AsOwner(r, i)
<1>1. StayPut(s, r)
  BY LeadStayPut
<1>2. /\ s.votes = r.votes
      /\ s.revealed = r.revealed
      /\ s.average = r.average
      /\ s.roleAverages = r.roleAverages
  BY AsOwnerFields DEF RoomOK, RoomTyped
<1> HIDE DEF s
<1>3. SameRound(s, r)
  BY <1>1, <1>2, StayPutSameRound
<1> QED
  BY <1>3 DEF s

\* Steps and stutters compose: what is the same on either side of a step.
LEMMA RoundStepThrough ==
    ASSUME NEW r, NEW s, NEW t, SameRound(t, r), RoundStep(s, t)
    PROVE  RoundStep(s, r)
<1>1. CASE SameRound(s, t)
  BY <1>1 DEF SameRound, RoundStep
<1>2. CASE NewRound(s)
  BY <1>2 DEF RoundStep
<1>3. ASSUME NEW i \in Conns, NEW T, ~ t.revealed, NextTable(T, t, i),
             Laid(s, t, T) \/ TurnedUp(s, T)
      PROVE  RoundStep(s, r)
  <2>1. ~ r.revealed /\ NextTable(T, r, i)
    BY <1>3 DEF SameRound, NextTable
  <2>2. Laid(s, t, T) => Laid(s, r, T)
    BY <2>1 DEF SameRound, Laid
  <2> QED
    BY <1>3, <2>1, <2>2 DEF RoundStep
<1> QED
  BY <1>1, <1>2, <1>3 DEF RoundStep

LEMMA RoundStepThen ==
    ASSUME NEW r, NEW m, NEW s, RoundStep(m, r), SameRound(s, m)
    PROVE  RoundStep(s, r)
<1>1. CASE SameRound(m, r)
  BY <1>1 DEF SameRound, RoundStep
<1>2. CASE NewRound(m)
  BY <1>2 DEF SameRound, NewRound, RoundStep
<1>3. ASSUME NEW i \in Conns, NEW T, ~ r.revealed, NextTable(T, r, i),
             Laid(m, r, T) \/ TurnedUp(m, T)
      PROVE  RoundStep(s, r)
  <2>1. Laid(m, r, T) => Laid(s, r, T)
    BY DEF SameRound, Laid
  <2>2. TurnedUp(m, T) => TurnedUp(s, T)
    BY DEF SameRound, TurnedUp
  <2> QED
    BY <1>3, <2>1, <2>2 DEF RoundStep
<1> QED
  BY <1>1, <1>2, <1>3 DEF RoundStep

\* A vote taken back, or a result that nobody can take back.
LEMMA VoteTakenBack ==
    ASSUME NEW r, NEW U \in SUBSET Conns, RoomOK(r, U), NEW i \in U, NEW s,
           s.votes = IF r.revealed THEN r.votes ELSE Drop(r.votes, i),
           s.revealed = r.revealed,
           s.average = r.average, s.roleAverages = r.roleAverages,
           \A j \in Present(r) \ {i} : s.participants[j].role = r.participants[j].role
    PROVE  RoundStep(s, r)
<1>1. CASE r.revealed
  <2>1. TableOf(s) = TableOf(r)
    BY <1>1, TableFacts
  <2> QED
    BY <2>1 DEF SameRound, RoundStep
<1>2. CASE ~ r.revealed
  <2>1. DOMAIN r.votes \subseteq Present(r)
    BY <1>2, VotersAreThere
  <2>2. TableOf(s) = Drop(TableOf(r), i)
    BY <1>2, <2>1, TableWithout
  <2>3. NextTable(TableOf(s), r, i) /\ Laid(s, r, TableOf(s))
    BY <1>2, <2>2 DEF NextTable, Laid
  <2> QED
    BY <1>2, <2>3 DEF RoundStep
<1> QED
  BY <1>1, <1>2

LEMMA AdmitRound ==
    ASSUME NEW r, NEW U \in SUBSET Conns, RoomOK(r, U),
           NEW c \in Conns, c \notin U, NEW q \in Request
    PROVE  RoundStep(Admit(r, c, q), r)
<1> DEFINE s == Admit(r, c, q)
           i == JoinsAs(r, c, q)
           t == Issues(c, q)
<1>0. HasFields(r) /\ Present(r) \subseteq U /\ DOMAIN r.votes \subseteq U
  BY DEF RoomOK, RoomTyped
<1>1. CASE JoinError(r, q) # "none"
  BY <1>1 DEF Admit, RoundStep, SameRound
<1>2. CASE JoinError(r, q) = "none" /\ (q.token # None \/ OwnerReturns(r, q))
  <2> DEFINE m == Readmitted(r, i, c, q, t)
             old == r.participants[i]
  <2>1. /\ i \in Present(r)
        /\ t = c \/ t = old.token
        /\ old.client = q.client \/ (IsOwner(r, q) /\ i = r.owner)
    BY <1>2 DEF JoinError, JoinsAs, Issues, Opens, OwnerReturns,
                RoomOK, IndexAgrees, TokensOf
  <2>2. s = IF IsOwner(r, q) THEN AsOwner(m, i) ELSE m
    BY <1>2 DEF Admit, Replace
  <2> HIDE DEF i, t
  <2>3. /\ m.participants = Put(r.participants, i, Returned(old, c, q, t))
        /\ m.votes = KeptVotes(r, i, q)
        /\ m.revealed = r.revealed
        /\ m.average = r.average
        /\ m.roleAverages = r.roleAverages
    BY <1>0, ReadmittedFields
  <2>4. RoomOK(m, U \cup {c})
    BY <2>1, ReadmittedOK
  <2> HIDE DEF m
  <2>5. /\ m.participants[i] = Returned(old, c, q, t)
        /\ \A j \in Present(r) \ {i} : m.participants[j] = r.participants[j]
    BY <2>1, <2>3 DEF Present, Put
  <2>6. m.participants[i].role = q.role
    BY <2>5 DEF Returned
  <2>7. RoundStep(m, r)
    <3>1. CASE old.role = q.role
      <4>1. m.votes = r.votes
        BY <2>3, <3>1 DEF KeptVotes
      <4>2. \A j \in Present(r) : m.participants[j].role = r.participants[j].role
        BY <2>5, <2>6, <3>1
      <4>3. TableOf(m) = TableOf(r)
        <5>1. CASE r.revealed
          BY <2>3, <5>1, TableFacts
        <5>2. CASE ~ r.revealed
          BY <2>3, <4>1, <4>2, <5>2, SameTable, VotersAreThere
        <5> QED
          BY <5>1, <5>2
      <4> QED
        BY <2>3, <4>3 DEF SameRound, RoundStep
    <3>2. CASE old.role # q.role
      <4>1. m.votes = Drop(r.votes, i)
        BY <2>3, <3>2 DEF KeptVotes
      <4>2. CASE r.revealed
        BY <2>3, <4>2, TableFacts DEF SameRound, RoundStep
      <4>3. CASE ~ r.revealed
        BY <1>0, <2>1, <2>3, <2>5, <4>1, <4>3, VoteTakenBack
      <4> QED
        BY <4>2, <4>3
    <3> QED
      BY <3>1, <3>2
  <2>8. SameRound(AsOwner(m, i), m)
    BY <2>4, OwnerSameRound
  <2> HIDE DEF s
  <2>9. RoundStep(s, r)
    BY <2>2, <2>7, <2>8, RoundStepThen
  <2> QED
    BY <2>9 DEF s
<1>3. CASE JoinError(r, q) = "none" /\ ~ (q.token # None \/ OwnerReturns(r, q))
  <2> DEFINE m == Enrolled(r, c, q)
  <2>1. s = IF IsOwner(r, q) THEN AsOwner(m, c) ELSE m
    BY <1>3 DEF Admit, Enrol
  <2>2. /\ m.participants = Put(r.participants, c, Newcomer(r, c, q))
        /\ m.votes = r.votes
        /\ m.revealed = r.revealed
        /\ m.average = r.average
        /\ m.roleAverages = r.roleAverages
    BY <1>0, EnrolledFields
  <2>3. RoomOK(m, U \cup {c})
    BY EnrolledOK
  <2> HIDE DEF m
  <2>4. \A j \in Present(r) : m.participants[j] = r.participants[j]
    BY <1>0, <2>2 DEF Present, Put
  <2>5. TableOf(m) = TableOf(r)
    <3>1. CASE r.revealed
      BY <2>2, <3>1, TableFacts
    <3>2. CASE ~ r.revealed
      BY <2>2, <2>4, <3>2, SameTable, VotersAreThere
    <3> QED
      BY <3>1, <3>2
  <2>6. RoundStep(m, r)
    BY <2>2, <2>5 DEF SameRound, RoundStep
  <2>7. SameRound(AsOwner(m, c), m)
    BY <2>3, OwnerSameRound
  <2> HIDE DEF s
  <2>8. RoundStep(s, r)
    BY <2>1, <2>6, <2>7, RoundStepThen
  <2> QED
    BY <2>8 DEF s
<1> QED
  BY <1>1, <1>2, <1>3

LEMMA LeavingRound ==
    ASSUME NEW r, NEW U \in SUBSET Conns, RoomOK(r, U), NEW i \in Present(r), NEW b,
           NEW l \in {Left(r, i), Forgotten(r, i)}, NEW s \in Succeeded(l, b)
    PROVE  RoundStep(s, r)
<1>0. HasFields(r) /\ i \in U /\ r.participants[i] \in Participant
  BY DEF RoomOK, RoomTyped
<1>1. RoomOK(l, U)
  BY <1>0, LeftOK, ForgottenOK
<1>2. WithoutVote(r, i).votes = IF r.revealed THEN r.votes ELSE Drop(r.votes, i)
  BY <1>0, WithoutVoteFields
<1>3. /\ l.votes = IF r.revealed THEN r.votes ELSE Drop(r.votes, i)
      /\ l.revealed = r.revealed
      /\ l.average = r.average
      /\ l.roleAverages = r.roleAverages
  BY <1>0, <1>2, LeftFields, ForgottenFields
<1>4. \A j \in Present(r) \ {i} : l.participants[j].role = r.participants[j].role
  <2>1. CASE l = Left(r, i)
    <3>1. l.participants =
            Put(r.participants, i, Disconnected(r.participants[i], r.revealed))
      BY <1>0, <2>1, LeftFields
    <3> QED
      BY <3>1 DEF Present, Put
  <2>2. CASE l = Forgotten(r, i)
    <3>1. l.participants = Drop(r.participants, i)
      BY <1>0, <2>2, ForgottenFields
    <3> QED
      BY <3>1 DEF Present, Drop
  <2> QED
    BY <2>1, <2>2
<1>5. RoundStep(l, r)
  BY <1>0, <1>3, <1>4, VoteTakenBack
<1>6. SameRound(s, l)
  BY <1>1, SucceededSameRound
<1> QED
  BY <1>5, <1>6, RoundStepThen

-----------------------------------------------------------------------------
(* Voting, and the reveal *)

\* The averages of a complete round are those of its table.
LEMMA TurningUp ==
    ASSUME NEW r, NEW U, RoomOK(r, U), ~ r.revealed
    PROVE  TurnedUp(Revealed(r), TableOf(r))
<1> DEFINE s == Revealed(r)
           T == TableOf(r)
<1>1. /\ s.revealed = TRUE
      /\ s.average = Average(Restrict(r.votes, Counted(r)))
      /\ s.roleAverages = RoleAverages(r)
  BY RevealedFields DEF RoomOK, RoomTyped
<1>2. TableOf(s) = EmptyFcn
  BY <1>1, TableFacts
<1> HIDE DEF s
<1>3. Counted(r) = DOMAIN r.votes
  BY VotersAreThere DEF Counted
<1>4. /\ DOMAIN T = DOMAIN r.votes
      /\ \A i \in DOMAIN r.votes :
            T[i].role = r.participants[i].role /\ T[i].card = r.votes[i]
  BY TableFacts
<1> HIDE DEF T
<1>5. CardsOn(T) = Restrict(r.votes, Counted(r))
  BY <1>3, <1>4 DEF CardsOn, Restrict
<1>6. RolesOn(T) = VotedRoles(r)
  BY <1>3, <1>4 DEF RolesOn, VotedRoles
<1>7. ASSUME NEW x
      PROVE  CardsOn(PlayedIn(T, x)) =
                Restrict(r.votes, { i \in Counted(r) : r.participants[i].role = x })
  <2> DEFINE S == { i \in Counted(r) : r.participants[i].role = x }
             P == PlayedIn(T, x)
  <2>1. { i \in DOMAIN T : T[i].role = x } = S
    BY <1>3, <1>4
  <2>2. S \subseteq DOMAIN r.votes
    BY <1>3
  <2> HIDE DEF S
  <2>3. P = [ i \in S |-> T[i] ]
    BY <2>1 DEF PlayedIn, Restrict
  <2> HIDE DEF P
  <2>4. CardsOn(P) = [ i \in S |-> r.votes[i] ]
    BY <1>4, <2>2, <2>3 DEF CardsOn
  <2> QED
    BY <2>4 DEF P, S, Restrict
<1>8. s.roleAverages =
        [ x \in RolesOn(T) |-> Average(CardsOn(PlayedIn(T, x))) ]
  BY <1>1, <1>6, <1>7 DEF RoleAverages
<1>9. TurnedUp(s, T)
  BY <1>1, <1>2, <1>5, <1>8 DEF TurnedUp
<1> QED
  BY <1>9 DEF s, T

\* A card or a pass, and the reveal that it may complete.
LEMMA VotingRound ==
    ASSUME NEW r, NEW U \in SUBSET Conns, RoomOK(r, U), ~ r.revealed,
           NEW i \in Voters(r), NEW m,
           \/ m = Pass(r, i)
           \/ \E v \in Cards, b \in BOOLEAN : m = Cast(r, i, v, b)
    PROVE  RoundStep(RevealIfComplete(m), r)
<1>0. HasFields(r) /\ i \in Present(r) /\ i \in Conns
  BY DEF RoomOK, RoomTyped, Voters, Connected
<1>1. RoomOK(m, U)
  <2>1. MayVote(r, i)
    BY DEF MayVote
  <2> QED
    BY <1>0, <2>1, CastOK, PassOK
<1>2. /\ ~ m.revealed
      /\ m.average = r.average
      /\ m.roleAverages = r.roleAverages
      /\ m.votes = Drop(r.votes, i) \/ \E v \in Cards : m.votes = Put(r.votes, i, v)
  BY <1>0, CastFields, PassFields
<1>3. StayPut(m, r)
  BY <1>0, CastStayPut
<1>4. \A j \in DOMAIN r.votes \cup {i} : m.participants[j].role = r.participants[j].role
  BY <1>0, <1>3, VotersAreThere DEF StayPut
<1>5. r.participants[i].role \in Roles
  <2>1. r.participants[i].role # None
    BY DEF Voters
  <2>2. r.participants[i] \in Participant
    BY <1>0 DEF RoomOK, RoomTyped
  <2> QED
    BY <2>1, <2>2 DEF Participant
<1>6. NextTable(TableOf(m), r, i)
  <2>1. ASSUME NEW v \in Cards, m.votes = Put(r.votes, i, v)
        PROVE  NextTable(TableOf(m), r, i)
    <3>1. TableOf(m) =
            Put(TableOf(r), i, [ role |-> m.participants[i].role, card |-> v ])
      BY <1>2, <1>4, <2>1, TableWith
    <3>2. [ role |-> m.participants[i].role, card |-> v ] \in Ballots
      BY <1>4, <1>5 DEF Ballots
    <3> QED
      BY <3>1, <3>2 DEF NextTable
  <2>2. CASE m.votes = Drop(r.votes, i)
    <3>1. TableOf(m) = Drop(TableOf(r), i)
      BY <1>2, <1>4, <2>2, TableWithout
    <3> QED
      BY <3>1 DEF NextTable
  <2> QED
    BY <1>2, <2>1, <2>2
<1>7. Laid(m, r, TableOf(m))
  BY <1>2 DEF Laid
<1>8. TurnedUp(Revealed(m), TableOf(m))
  BY <1>1, <1>2, TurningUp
<1> QED
  BY <1>0, <1>6, <1>7, <1>8 DEF RevealIfComplete, RoundStep

LEMMA FreshRoundIsNew ==
    ASSUME NEW r, NEW U, RoomOK(r, U)
    PROVE  NewRound(FreshRound(r))
<1>1. LET s == FreshRound(r) IN
      /\ s.votes = EmptyFcn
      /\ s.revealed = FALSE
      /\ s.average = 0
      /\ s.roleAverages = EmptyFcn
  BY FreshRoundFields DEF RoomOK, RoomTyped
<1>2. TableOf(FreshRound(r)) = EmptyFcn
  BY <1>1, TableFacts DEF EmptyFcn
<1> QED
  BY <1>1, <1>2 DEF NewRound

-----------------------------------------------------------------------------
(* A call is at most one step of the round *)

LEMMA CallIsRound ==
    ASSUME NEW r, NEW U \in SUBSET Conns, RoomOK(r, U), NEW s, RoomCall(s, r, U)
    PROVE  RoundStep(s, r)
<1> DEFINE t == AfterPurge(r)
<1>1. RoomOK(t, U) /\ SameRound(t, r)
  BY PurgeOK, PurgeSameRound
<1>2. \/ s = t
      \/ s = AfterTick(r)
      \/ Admitted(s, t, U)
      \/ Departed(s, t)
      \/ Moved(s, t)
      \/ s = FreshRound(t)
  BY CallCases
<1> HIDE DEF t
<1>3. RoundStep(s, t) => RoundStep(s, r)
  BY <1>1, RoundStepThrough
<1>4. CASE s = t
  BY <1>1, <1>4 DEF RoundStep
<1>5. CASE s = AfterTick(r)
  <2>1. StayPut(s, r)
    BY <1>5, TickStayPut
  <2>2. /\ s.votes = r.votes
        /\ s.revealed = r.revealed
        /\ s.average = r.average
        /\ s.roleAverages = r.roleAverages
    BY <1>5, TickFields DEF RoomOK, RoomTyped
  <2>3. SameRound(s, r)
    BY <2>1, <2>2, StayPutSameRound
  <2> QED
    BY <2>3 DEF RoundStep
<1>6. ASSUME NEW c \in Conns \ U, NEW q \in Request, s = Admit(t, c, q)
      PROVE  RoundStep(s, t)
  BY <1>1, <1>6, AdmitRound
<1>7. ASSUME NEW i \in Present(t), NEW l \in {Left(t, i), Forgotten(t, i)},
             s \in Succeeded(l, t.participants[i].lead)
      PROVE  RoundStep(s, t)
  BY <1>1, <1>7, LeavingRound
<1>8. ASSUME ~ t.revealed, NEW i \in Voters(t), NEW m \in Moves(t, i),
             s = RevealIfComplete(m)
      PROVE  RoundStep(s, t)
  <2>1. \/ m = Pass(t, i)
        \/ \E v \in Cards, b \in BOOLEAN : m = Cast(t, i, v, b)
    BY <1>8 DEF Moves
  <2> QED
    BY <1>1, <1>8, <2>1, VotingRound
<1>9. CASE s = FreshRound(t)
  BY <1>1, <1>9, FreshRoundIsNew DEF RoundStep
<1> QED
  BY <1>2, <1>3, <1>4, <1>5, <1>6, <1>7, <1>8, <1>9 DEF Admitted, Departed, Moved

\* The round of a room that nobody has joined.
LEMMA NewRoomIsNewRound ==
    ASSUME NEW owner
    PROVE  NewRound(NewRoom(owner))
<1> DEFINE r == NewRoom(owner)
<1>1. /\ r.revealed = FALSE
      /\ r.votes = EmptyFcn
      /\ r.average = 0
      /\ r.roleAverages = EmptyFcn
  BY DEF NewRoom
<1> HIDE DEF r
<1>2. TableOf(r) = EmptyFcn
  BY <1>1, TableFacts DEF EmptyFcn
<1>3. NewRound(r)
  BY <1>1, <1>2 DEF NewRound
<1> QED
  BY <1>3 DEF r

=============================================================================
