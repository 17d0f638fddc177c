---------------------------- MODULE ClientProofs ----------------------------
(***************************************************************************)
(* The page of Client, for every number of sockets, whatever the host does *)
(* and however long the messages stay on their way: a page that is in the  *)
(* room knows its seat and holds the token of that seat; and no vote is    *)
(* being sent on a page without a socket.                                  *)
(***************************************************************************)
EXTENDS Client, RoomOpsProofs, SequenceTheorems

-----------------------------------------------------------------------------
(* The inductive invariant *)

Wires == {"unused", "connecting", "open", "failed", "broken", "closed"}

Phases == {"waiting", "joined", "registered", "greeting", "handing", "announcing",
           "resetting", "collecting", "serving", "closing", "unregistered",
           "removed", "ended", "done"}

\* q is a sequence.
Pile(q) == q \in Seq(Range(q))

PageTyped ==
    /\ socket \in Sockets \cup {None}
    /\ stored \in Conns \cup {None}
    /\ key \in {OwnerToken, None}

NetTyped ==
    /\ wire \in [ Sockets -> Wires ]
    /\ presented \in [ Sockets -> Conns \cup {None} ]
    /\ up = [ s \in Sockets |-> up[s] ]
    /\ down = [ s \in Sockets |-> down[s] ]
    /\ \A s \in Sockets : Pile(down[s])

HandlersTyped ==
    /\ phase \in [ Conns -> Phases ]
    /\ served \in [ Conns -> Conns \cup {None} ]
    /\ draft = [ c \in Conns |-> draft[c] ]

\* Nothing has passed through a wire that was never open.
NotOpened(s) == wire[s] \in {"unused", "connecting", "failed"}

\* Nothing in the room has a name that s drew.
Fresh(s) == phase[s] = "waiting"

Drawn == Conns \ { s \in Sockets : Fresh(s) }

\* The handlers of these serve nobody.
Idle == {"waiting", "removed", "ended", "done"}

WiresOK ==
    \A s \in Sockets :
        /\ NotOpened(s) => up[s] = <<>> /\ Fresh(s)
        /\ Fresh(s) => down[s] = <<>>
        /\ phase[s] \in Idle => served[s] = None
        /\ socket = s => wire[s] \notin {"unused", "closed"}

\* The hub sends to nobody who has not joined.
HubOK ==
    /\ hub = [ i \in DOMAIN hub |-> hub[i] ]
    /\ \A i \in DOMAIN hub : hub[i] \in Sockets => ~ Fresh(hub[i])

\* Token t opens the identity i.
Unlocks(r, t, i) == t \in DOMAIN r.index /\ r.index[t] = i

\* What a join handed out opens the seat for as long as its connection holds it.
TokensOpen == \A s \in Sockets : Holds(s) => Unlocks(room, Issued(s), served[s])

\* m says nothing of who its reader is, or it tells the page of s its seat.
Plain(m) == m.self = None /\ m.token = None
Greets(m, s) == m.type # "error" /\ m.self = served[s] /\ m.token = Issued(s)

Letter(m, s) ==
    \/ Plain(m)
    \/ m.token \in Conns /\ (served[s] = None \/ Greets(m, s))

LettersOK ==
    /\ \A s \in Sockets : \A k \in 1 .. Len(down[s]) : Letter(down[s][k], s)
    /\ \A s \in Sockets : phase[s] = "handing" => Greets(draft[s], s)
    /\ \A c \in Conns : phase[c] = "collecting" => Plain(draft[c])

\* The handlers of these have greeted their clients.
Greeted == {"announcing", "resetting", "collecting", "serving"}

\* The page has been told who it is, or a message on its way tells it.
Introduced(s) ==
    \/ mode = "game" /\ selfId = served[s] /\ stored = Issued(s)
    \/ \E k \in 1 .. Len(down[s]) : Greets(down[s][k], s)

PageTold ==
    \A s \in Sockets :
        (socket = s /\ wire[s] = "open" /\ served[s] # None /\ phase[s] \in Greeted)
            => Introduced(s)

CInv ==
    /\ PageTyped
    /\ NetTyped
    /\ HandlersTyped
    /\ WiresOK
    /\ HubOK
    /\ RoomOK(room, Drawn)
    /\ TokensOpen
    /\ LettersOK
    /\ PageTold

-----------------------------------------------------------------------------
(* What the calls do to the tokens *)

\* The token of a connected participant outlives the purge.
LEMMA PurgeUnlocks ==
    ASSUME NEW r, NEW U, RoomOK(r, U), NEW t, NEW i \in Connected(r), Unlocks(r, t, i)
    PROVE  Unlocks(AfterPurge(r), t, i)
<1>1. AfterPurge(r).index = Restrict(r.index, DOMAIN r.index \ TokensOf(r, Expired(r)))
  BY PurgeFields DEF RoomOK, RoomTyped
<1>2. t \notin TokensOf(r, Expired(r))
  BY DEF TokensOf, Expired, Connected, Unlocks, RoomOK, IndexAgrees
<1> QED
  BY <1>1, <1>2 DEF Unlocks, Restrict

\* No call but a join and Remove writes the index.
LEMMA CallsKeepIndex ==
    ASSUME NEW r, NEW U, RoomOK(r, U), NEW i, NEW v, NEW b \in BOOLEAN
    PROVE  /\ AfterTick(r).index = r.index
           /\ AfterVote(r, i, v, b).index = AfterPurge(r).index
           /\ AfterSkipVote(r, i).index = AfterPurge(r).index
           /\ AfterReset(r, i).index = AfterPurge(r).index
<1> DEFINE t == AfterPurge(r)
<1>1. HasFields(r) /\ HasFields(t)
  BY PurgeOK DEF RoomOK, RoomTyped
<1>2. AfterVote(r, i, v, b) = IF ~ MayVote(t, i) \/ v \notin Cards THEN t
                              ELSE RevealIfComplete(Cast(t, i, v, b))
  BY DEF AfterVote
<1>3. AfterSkipVote(r, i) = IF ~ MayVote(t, i) THEN t ELSE RevealIfComplete(Pass(t, i))
  BY DEF AfterSkipVote
<1>4. AfterReset(r, i) = IF MayReset(t, i) THEN FreshRound(t) ELSE t
  BY DEF AfterReset
<1> HIDE DEF t
<1>5. ASSUME NEW s, HasFields(s)
      PROVE  RevealIfComplete(s).index = s.index
  BY <1>5, RevealedFields DEF RevealIfComplete
<1>6. HasFields(Cast(t, i, v, b)) /\ Cast(t, i, v, b).index = t.index
  BY <1>1, CastFields
<1>7. HasFields(Pass(t, i)) /\ Pass(t, i).index = t.index
  BY <1>1, PassFields
<1>8. FreshRound(t).index = t.index
  BY <1>1, FreshRoundFields
<1>9. AfterTick(r).index = r.index
  BY <1>1, TickFields
<1>10. AfterVote(r, i, v, b).index = t.index
  BY <1>2, <1>5, <1>6
<1>11. AfterSkipVote(r, i).index = t.index
  BY <1>3, <1>5, <1>7
<1>12. AfterReset(r, i).index = t.index
  BY <1>4, <1>8
<1> QED
  BY <1>9, <1>10, <1>11, <1>12 DEF t

LEMMA RemoveConnectionIndex ==
    ASSUME NEW r, NEW U, RoomOK(r, U), NEW i, NEW c,
           NEW s \in AfterRemoveConnection(r, i, c)
    PROVE  s.index = AfterPurge(r).index
<1> DEFINE t == AfterPurge(r)
<1>1. HasFields(t)
  BY PurgeOK DEF RoomOK, RoomTyped
<1>2. s \in IF Removes(r, i, c) THEN Succeeded(Left(t, i), t.participants[i].lead) ELSE {t}
  BY DEF AfterRemoveConnection
<1> HIDE DEF t
<1>3. HasFields(Left(t, i)) /\ Left(t, i).index = t.index
  BY <1>1, LeftFields
<1>4. ASSUME NEW l, HasFields(l), NEW k
      PROVE  MakeLead(l, k).index = l.index
  BY <1>4, MakeLeadFields
<1> QED
  BY <1>2, <1>3, <1>4 DEF Succeeded, PromoteAny, t

\* The participant k comes back with the token t, which is its own or new.
LEMMA ReadmittedUnlocks ==
    ASSUME NEW r, NEW U, RoomOK(r, U), NEW k \in Present(r), NEW c, NEW q, NEW t,
           t \in DOMAIN r.index => r.index[t] = k
    PROVE  LET a == Readmitted(r, k, c, q, t) IN
           /\ HasFields(a) /\ Unlocks(a, t, k)
           /\ \A u, i : i # k /\ Unlocks(r, u, i) => Unlocks(a, u, i)
<1> DEFINE a == Readmitted(r, k, c, q, t)
           old == r.participants[k].token
<1>1. HasFields(r) /\ r.index[old] = k
  BY DEF RoomOK, RoomTyped, IndexAgrees
<1>2. HasFields(a) /\ a.index = Put(Drop(r.index, old), t, k)
  BY <1>1, ReadmittedFields DEF Reindex
<1> HIDE DEF a, old
<1>3. Unlocks(a, t, k)
  BY <1>2 DEF Unlocks, Put
<1>4. ASSUME NEW u, NEW i, i # k, Unlocks(r, u, i)
      PROVE  Unlocks(a, u, i)
  <2>1. u # old /\ u # t
    BY <1>1, <1>4 DEF Unlocks
  <2> QED
    BY <1>2, <1>4, <2>1 DEF Unlocks, Put, Drop
<1> QED
  BY <1>2, <1>3, <1>4 DEF a

\* A join leaves the tokens of the other participants alone, and the token it
\* hands out opens the participant it joins as.
LEMMA AdmitUnlocks ==
    ASSUME NEW r, NEW U, RoomOK(r, U),
           NEW c \in Conns, c \notin U, NEW q \in Request,
           JoinError(r, q) = "none"
    PROVE  /\ Unlocks(Admit(r, c, q), Issues(c, q), JoinsAs(r, c, q))
           /\ \A t, i : i # JoinsAs(r, c, q) /\ Unlocks(r, t, i)
                          => Unlocks(Admit(r, c, q), t, i)
<1> DEFINE k == JoinsAs(r, c, q)
           t == Issues(c, q)
           a == Admit(r, c, q)
<1>1. HasFields(r) /\ c \notin DOMAIN r.index
  BY DEF RoomOK, RoomTyped, IndexAgrees, TokensOf
<1>2. ASSUME NEW s, HasFields(s), NEW i
      PROVE  AsOwner(s, i).index = s.index
  BY <1>2, AsOwnerFields
<1>3. CASE q.token # None \/ OwnerReturns(r, q)
  <2>1. k \in Present(r) /\ (t \in DOMAIN r.index => r.index[t] = k)
    <3>1. CASE q.token # None
      BY <3>1 DEF JoinError, Opens, JoinsAs, Issues
    <3>2. CASE q.token = None
      BY <1>1, <1>3, <3>2 DEF OwnerReturns, JoinsAs, Issues
    <3> QED
      BY <3>1, <3>2
  <2> DEFINE b == Readmitted(r, k, c, q, t)
  <2>2. /\ HasFields(b) /\ Unlocks(b, t, k)
        /\ \A u, i : i # k /\ Unlocks(r, u, i) => Unlocks(b, u, i)
    BY <2>1, ReadmittedUnlocks
  <2>3. a = IF IsOwner(r, q) THEN AsOwner(b, k) ELSE b
    BY <1>3 DEF Admit, Replace
  <2> HIDE DEF a, b, k, t
  <2>4. a.index = b.index
    BY <1>2, <2>2, <2>3
  <2> QED
    BY <2>2, <2>4 DEF Unlocks, a, k, t
<1>4. CASE ~ (q.token # None \/ OwnerReturns(r, q))
  <2> DEFINE b == Enrolled(r, c, q)
  <2>1. k = c /\ t = c /\ a = IF IsOwner(r, q) THEN AsOwner(b, c) ELSE b
    BY <1>4 DEF JoinsAs, Issues, Admit, Enrol
  <2>2. HasFields(b) /\ b.index = Put(r.index, c, c)
    BY <1>1, EnrolledFields
  <2> HIDE DEF a, b, k, t
  <2>3. a.index = Put(r.index, c, c)
    BY <1>2, <2>1, <2>2
  <2>4. Unlocks(a, c, c)
    BY <2>3 DEF Unlocks, Put
  <2>5. ASSUME NEW u, NEW i, Unlocks(r, u, i)
        PROVE  Unlocks(a, u, i)
    BY <1>1, <2>3, <2>5 DEF Unlocks, Put
  <2> QED
    BY <2>1, <2>4, <2>5 DEF a, k, t
<1> QED
  BY <1>3, <1>4

-----------------------------------------------------------------------------
(* Sequences of any messages *)

LEMMA EmptyPile == Pile(<<>>) /\ Len(<<>>) = 0
BY EmptySeq DEF Pile

LEMMA PileAppend ==
    ASSUME NEW q, Pile(q), NEW m
    PROVE  /\ Pile(Append(q, m)) /\ Append(q, m) # <<>>
           /\ Len(q) \in Nat /\ Len(Append(q, m)) = Len(q) + 1
           /\ \A k \in 1 .. Len(q) : Append(q, m)[k] = q[k]
           /\ Append(q, m)[Len(q) + 1] = m
           /\ q = <<>> <=> Len(q) = 0
<1> DEFINE S == Range(q) \cup {m}
<1>1. q \in Seq(S) /\ m \in S
  BY SeqMonotonic DEF Pile
<1> HIDE DEF S
<1>2. /\ Append(q, m) \in Seq(S) /\ Append(q, m) # <<>>
      /\ Len(Append(q, m)) = Len(q) + 1
      /\ \A k \in 1 .. Len(q) : Append(q, m)[k] = q[k]
      /\ Append(q, m)[Len(q) + 1] = m
  BY <1>1, AppendProperties
<1>3. Pile(Append(q, m))
  BY <1>2, SeqOfRange DEF Pile
<1>4. Len(q) \in Nat /\ (q = <<>> <=> Len(q) = 0)
  BY <1>1, LenProperties, EmptySeq
<1> QED
  BY <1>2, <1>3, <1>4

LEMMA PileTail ==
    ASSUME NEW q, Pile(q), q # <<>>
    PROVE  /\ Pile(Tail(q)) /\ Head(q) = q[1]
           /\ Len(q) \in Nat \ {0} /\ Len(Tail(q)) = Len(q) - 1
           /\ \A k \in 1 .. Len(Tail(q)) : Tail(q)[k] = q[k + 1]
           /\ Tail(q) = <<>> <=> Len(q) = 1
<1> DEFINE S == Range(q)
<1>1. q \in Seq(S)
  BY DEF Pile
<1> HIDE DEF S
<1>2. /\ Tail(q) \in Seq(S) /\ Len(Tail(q)) = Len(q) - 1
      /\ \A k \in 1 .. Len(Tail(q)) : Tail(q)[k] = q[k + 1]
  BY <1>1, HeadTailProperties
<1>3. Len(q) \in Nat \ {0}
  BY <1>1, EmptySeq
<1>4. Tail(q) = <<>> <=> Len(Tail(q)) = 0
  BY <1>2, EmptySeq
<1>5. Head(q) = q[1]
  OBVIOUS
<1>6. Pile(Tail(q))
  BY <1>2, SeqOfRange DEF Pile
<1> QED
  BY <1>2, <1>3, <1>4, <1>5, <1>6

-----------------------------------------------------------------------------
(* What the steps have in common *)

LEMMA SocketFacts == Sockets \subseteq Conns /\ None \notin Sockets /\ None \notin Conns
BY NoneAssumption DEF Sockets

LEMMA GotoFacts ==
    ASSUME CInv, NEW c \in Conns, NEW from, NEW to \in Phases, Goto(c, from, to)
    PROVE  /\ phase' \in [ Conns -> Phases ]
           /\ phase[c] = from /\ phase'[c] = to
           /\ \A d \in Conns \ {c} : phase'[d] = phase[d]
BY DEF CInv, HandlersTyped, Goto

\* Who serves nobody holds no seat.
LEMMA HoldersServe ==
    ASSUME CInv, NEW s \in Sockets, served[s] = None
    PROVE  ~ Holds(s)
BY SocketFacts DEF CInv, RoomOK, RoomTyped, Holds, Connected, Drawn

\* What a message says of the seat stays true for as long as the handler serves.
LEMMA SameLetter ==
    ASSUME NEW s, UNCHANGED <<presented, key>>, served'[s] \in {served[s], None},
           NEW m, Letter(m, s)
    PROVE  Letter(m, s)'
<1>1. Issued(s)' = Issued(s)
  BY DEF Issued
<1> QED
  BY <1>1 DEF Letter, Greets

\* What a step of the handlers or of the network may do to a socket.
Wears(s) == \/ wire'[s] = wire[s]
            \/ wire[s] = "connecting" /\ wire'[s] = "failed"
            \/ wire[s] = "open" /\ wire'[s] = "broken"

TakesUp(s) == up'[s] = up[s] \/ up[s] # <<>>

Advances(s) ==
    /\ Fresh(s)' => Fresh(s)
    /\ Fresh(s) => Fresh(s)' \/ up[s] # <<>>
    /\ phase'[s] \in Idle => served'[s] = None
    /\ served'[s] \in {served[s], None} \/ (Fresh(s) /\ phase'[s] = "joined")

Hears(s) ==
    \/ down'[s] = down[s]
    \/ ~ Fresh(s)' /\ \E m : Letter(m, s)' /\ down'[s] = Append(down[s], m)

\* The handler of s has greeted its client before, or does so now.
Welcomes(s) ==
    (phase'[s] \in Greeted /\ served'[s] # None /\ wire'[s] = "open")
        => \/ phase[s] \in Greeted
           \/ \E m : Greets(m, s)' /\ down'[s] = Append(down[s], m)

LEMMA LettersStep ==
    ASSUME CInv, UNCHANGED <<presented, key>>, NEW s \in Sockets, Advances(s), Hears(s)
    PROVE  /\ Pile(down'[s])
           /\ Fresh(s)' => down'[s] = <<>>
           /\ \A k \in 1 .. Len(down[s]) : k \in 1 .. Len(down'[s]) /\ down'[s][k] = down[s][k]
           /\ \A k \in 1 .. Len(down'[s]) : Letter(down[s][k], s)'
<1>1. Pile(down[s]) /\ (Fresh(s) => down[s] = <<>>)
  BY DEF CInv, NetTyped, WiresOK
<1>2. \A m : \A k \in 1 .. Len(down[s]) : m = down[s][k] => Letter(m, s)'
  <2>1. CASE served'[s] \in {served[s], None}
    <3>1. \A m : \A k \in 1 .. Len(down[s]) : m = down[s][k] => Letter(m, s)
      BY DEF CInv, LettersOK
    <3> QED
      BY <2>1, <3>1, SameLetter
  <2>2. CASE Fresh(s)
    <3>1. 1 .. Len(down[s]) = {}
      BY <1>1, <2>2, EmptyPile
    <3> QED
      BY <3>1
  <2> QED
    BY <2>1, <2>2 DEF Advances
<1>3. CASE down'[s] = down[s]
  <2>1. Fresh(s)' => down[s] = <<>>
    BY <1>1 DEF Advances
  <2>2. \A k \in 1 .. Len(down'[s]) : Letter(down[s][k], s)'
    BY <1>2, <1>3 DEF Letter, Greets
  <2> QED
    BY <1>1, <1>3, <2>1, <2>2
<1>4. CASE down'[s] # down[s]
  <2>1. PICK m : ~ Fresh(s)' /\ Letter(m, s)' /\ down'[s] = Append(down[s], m)
    BY <1>4 DEF Hears
  <2> DEFINE q == down[s]
             a == Append(q, m)
  <2>2. /\ Pile(a) /\ Len(q) \in Nat /\ Len(a) = Len(q) + 1
        /\ \A k \in 1 .. Len(q) : a[k] = q[k]
        /\ a[Len(q) + 1] = m
    BY <1>1, PileAppend
  <2>3. down'[s] = a /\ \A n : \A k \in 1 .. Len(q) : n = q[k] => Letter(n, s)'
    BY <1>2, <2>1
  <2> HIDE DEF a, q
  <2>4. ASSUME NEW k \in 1 .. Len(a), NEW n, n = a[k]
        PROVE  Letter(n, s)'
    <3>1. CASE k \in 1 .. Len(q)
      BY <2>2, <2>3, <2>4, <3>1
    <3>2. CASE k = Len(q) + 1
      BY <2>1, <2>2, <2>4, <3>2
    <3> QED
      BY <2>2, <3>1, <3>2
  <2>5. \A k \in 1 .. Len(down'[s]) : Letter(down[s][k], s)'
    BY <2>3, <2>4 DEF Letter, Greets
  <2>6. \A k \in 1 .. Len(q) : k \in 1 .. Len(a) /\ a[k] = q[k]
    BY <2>2
  <2> QED
    BY <2>1, <2>2, <2>3, <2>5, <2>6 DEF q
<1> QED
  BY <1>3, <1>4

\* A step of a handler, of the network or of the host.
LEMMA HandlerStep ==
    ASSUME CInv, UNCHANGED <<pageVars, presented>>,
           HandlersTyped', HubOK', RoomOK(room, Drawn)', TokensOpen',
           wire' = [ s \in Sockets |-> wire'[s] ],
           up' = [ s \in Sockets |-> up'[s] ],
           down' = [ s \in Sockets |-> down'[s] ],
           \A s \in Sockets : /\ Wears(s) /\ TakesUp(s) /\ Advances(s) /\ Hears(s) /\ Welcomes(s)
                              /\ phase'[s] = "handing" => Greets(draft[s], s)',
           \A c \in Conns : phase'[c] = "collecting" => Plain(draft[c])'
    PROVE  CInv'
<1>1. UNCHANGED <<socket, stored, key, mode, selfId>>
  BY DEF pageVars, storyVars
<1>2. PageTyped'
  BY <1>1 DEF CInv, PageTyped
<1>3. \A s \in Sockets :
        /\ Pile(down'[s])
        /\ Fresh(s)' => down'[s] = <<>>
        /\ \A k \in 1 .. Len(down[s]) : k \in 1 .. Len(down'[s]) /\ down'[s][k] = down[s][k]
        /\ \A k \in 1 .. Len(down'[s]) : Letter(down[s][k], s)'
  BY <1>1, LettersStep
<1>4. wire' \in [ Sockets -> Wires ]
  <2>1. \A s \in Sockets : wire'[s] \in Wires
    BY DEF CInv, NetTyped, Wires, Wears
  <2> QED
    BY <2>1
<1>5. NetTyped'
  BY <1>3, <1>4 DEF CInv, NetTyped
<1>6. WiresOK'
  <2>1. ASSUME NEW s \in Sockets
        PROVE  /\ NotOpened(s)' => up'[s] = <<>> /\ Fresh(s)'
               /\ Fresh(s)' => down'[s] = <<>>
               /\ phase'[s] \in Idle => served'[s] = None
               /\ socket' = s => wire'[s] \notin {"unused", "closed"}
    <3>1. NotOpened(s)' => NotOpened(s)
      BY DEF Wears, NotOpened
    <3>2. NotOpened(s)' => up'[s] = <<>> /\ Fresh(s)'
      BY <3>1 DEF CInv, WiresOK, TakesUp, Advances
    <3>3. socket' = s => wire'[s] \notin {"unused", "closed"}
      BY <1>1 DEF CInv, WiresOK, Wears
    <3> QED
      BY <1>3, <3>2, <3>3 DEF Advances
  <2> QED
    BY <2>1 DEF WiresOK
<1>7. LettersOK'
  BY <1>3 DEF LettersOK
<1>8. PageTold'
  <2>1. ASSUME NEW s \in Sockets, socket = s, wire'[s] = "open", served'[s] # None,
               phase'[s] \in Greeted
        PROVE  Introduced(s)'
    <3>1. Issued(s)' = Issued(s)
      BY <1>1 DEF Issued
    <3>2. wire[s] = "open" /\ served'[s] = served[s]
      BY <2>1 DEF Wears, Advances, Greeted
    <3>3. CASE phase[s] \in Greeted
      <4>1. Introduced(s)
        BY <2>1, <3>2, <3>3 DEF CInv, PageTold
      <4>2. CASE mode = "game" /\ selfId = served[s] /\ stored = Issued(s)
        BY <1>1, <3>1, <3>2, <4>2 DEF Introduced
      <4>3. CASE \E k \in 1 .. Len(down[s]) : Greets(down[s][k], s)
        <5>1. PICK k \in 1 .. Len(down[s]) : Greets(down[s][k], s)
          BY <4>3
        <5>2. k \in 1 .. Len(down'[s]) /\ Greets(down[s][k], s)'
          BY <1>3, <3>1, <3>2, <5>1 DEF Greets
        <5> QED
          BY <5>2 DEF Introduced
      <4> QED
        BY <4>1, <4>2, <4>3 DEF Introduced
    <3>4. CASE phase[s] \notin Greeted
      <4>1. PICK m : Greets(m, s)' /\ down'[s] = Append(down[s], m)
        BY <2>1, <3>4 DEF Welcomes
      <4>2. \E n \in 1 .. Len(down'[s]) : down'[s][n] = m
        <5>1. Pile(down[s])
          BY DEF CInv, NetTyped
        <5>2. /\ Len(down[s]) \in Nat /\ Len(down'[s]) = Len(down[s]) + 1
              /\ down'[s][Len(down[s]) + 1] = m
          BY <4>1, <5>1, PileAppend
        <5> QED
          BY <5>2
      <4>3. \E n \in 1 .. Len(down'[s]) : Greets(down[s][n], s)'
        BY <4>1, <4>2 DEF Greets
      <4> QED
        BY <4>3 DEF Introduced
    <3> QED
      BY <3>3, <3>4
  <2> QED
    BY <1>1, <2>1 DEF PageTold
<1> QED
  BY <1>2, <1>5, <1>6, <1>7, <1>8 DEF CInv

\* What a call does for the connections: nobody gets a seat, and the tokens
\* of those who keep theirs go on opening it.
Spares(r) ==
    /\ RoomOK(r, Drawn)
    /\ \A i \in DOMAIN Seats(r) : i \in DOMAIN Seats(room) /\ Seats(r)[i] = Seats(room)[i]
    /\ \A t : \A i \in Connected(room) : Unlocks(room, t, i) => Unlocks(r, t, i)

LEMMA CallsSpare ==
    ASSUME CInv
    PROVE  /\ Spares(room) /\ Spares(AfterPurge(room)) /\ Spares(AfterTick(room))
           /\ \A i : Spares(AfterSkipVote(room, i)) /\ Spares(AfterReset(room, i))
           /\ \A i, v : Spares(AfterVote(room, i, v, TRUE))
           /\ \A i, c : \A r \in AfterRemoveConnection(room, i, c) : Spares(r)
<1>1. RoomOK(room, Drawn) /\ HasFields(room)
  BY DEF CInv, RoomOK, RoomTyped
<1>2. ASSUME NEW r, RoomOK(r, Drawn), Seats(r) = Seats(room),
             r.index \in {room.index, AfterPurge(room).index}
      PROVE  Spares(r)
  <2>1. \A t : \A i \in Connected(room) : Unlocks(room, t, i) => Unlocks(AfterPurge(room), t, i)
    BY <1>1, PurgeUnlocks
  <2> QED
    BY <1>2, <2>1 DEF Spares, Unlocks
<1>3. Spares(room)
  BY <1>1, <1>2
<1>4. Spares(AfterPurge(room))
  BY <1>1, <1>2, PurgeOK, PurgeSeats
<1>5. Spares(AfterTick(room))
  BY <1>1, <1>2, TickOK, CallsKeepSeats, CallsKeepIndex
<1>6. ASSUME NEW i
      PROVE  Spares(AfterSkipVote(room, i)) /\ Spares(AfterReset(room, i))
  BY <1>1, <1>2, SkipVoteOK, ResetOK, CallsKeepSeats, CallsKeepIndex
<1>7. ASSUME NEW i, NEW v
      PROVE  Spares(AfterVote(room, i, v, TRUE))
  BY <1>1, <1>2, VoteOK, CallsKeepSeats, CallsKeepIndex
<1>8. ASSUME NEW i, NEW c, NEW r \in AfterRemoveConnection(room, i, c)
      PROVE  Spares(r)
  <2>1. RoomOK(r, Drawn) /\ r.index = AfterPurge(room).index
    BY <1>1, RemoveConnectionOK, RemoveConnectionIndex
  <2>2. Seats(r) = Drop(Seats(room), i) \/ Seats(r) = Seats(room)
    BY <1>1, RemoveConnectionSeats
  <2>3. CASE Seats(r) = Seats(room)
    BY <1>2, <2>1, <2>3
  <2>4. CASE Seats(r) = Drop(Seats(room), i)
    <3>1. \A j \in DOMAIN Seats(r) : j \in DOMAIN Seats(room) /\ Seats(r)[j] = Seats(room)[j]
      BY <2>4 DEF Drop
    <3>2. \A t : \A j \in Connected(room) : Unlocks(room, t, j) => Unlocks(r, t, j)
      <4>1. \A t : \A j \in Connected(room) : Unlocks(room, t, j) => Unlocks(AfterPurge(room), t, j)
        BY <1>1, PurgeUnlocks
      <4> QED
        BY <2>1, <4>1 DEF Unlocks
    <3> QED
      BY <2>1, <3>1, <3>2 DEF Spares
  <2> QED
    BY <2>2, <2>3, <2>4
<1> QED
  BY <1>3, <1>4, <1>5, <1>6, <1>7, <1>8

\* The conjuncts about the room, after such a call.
LEMMA RoomStep ==
    ASSUME CInv, NEW r, Spares(r), room' = r, UNCHANGED <<presented, key>>,
           \A s \in Sockets : Fresh(s)' => Fresh(s),
           \A s \in Sockets : served'[s] \in {served[s], None}
    PROVE  RoomOK(room, Drawn)' /\ TokensOpen'
<1>1. Drawn \subseteq Drawn'
  BY DEF Drawn
<1>2. RoomOK(r, Drawn')
  BY <1>1, Monotone DEF Spares
<1>3. ASSUME NEW s \in Sockets, Holds(s)'
      PROVE  Unlocks(r, Issued(s), served[s]) /\ served'[s] = served[s]
  <2>1. served'[s] \in Connected(r) /\ r.participants[served'[s]].conn = s
    BY <1>3 DEF Holds
  <2>2. served'[s] \in DOMAIN Seats(room) /\ Seats(room)[served'[s]] = s
    BY <2>1, SeatsFacts DEF Spares
  <2>3. served'[s] \in Connected(room) /\ room.participants[served'[s]].conn = s
    BY <2>2, SeatsFacts
  <2>4. served'[s] = served[s]
    <3>1. None \notin Connected(room)
      BY SocketFacts DEF CInv, RoomOK, RoomTyped, Connected, Drawn
    <3> QED
      BY <2>3, <3>1
  <2>5. Unlocks(room, Issued(s), served[s])
    BY <2>3, <2>4 DEF CInv, TokensOpen, Holds
  <2> QED
    BY <2>3, <2>4, <2>5 DEF Spares
<1>4. TokensOpen'
  <2>1. \A s \in Sockets : Issued(s)' = Issued(s)
    BY DEF Issued
  <2> QED
    BY <1>3, <2>1 DEF TokensOpen
<1> QED
  BY <1>2, <1>4

-----------------------------------------------------------------------------
(* The steps of the handlers *)

LEMMA BrokenFacts ==
    ASSUME CInv, NEW S
    PROVE  /\ Broken(S) = [ s \in Sockets |-> Broken(S)[s] ]
           /\ \A s \in Sockets : /\ wire' = Broken(S) => Wears(s)
                                 /\ s \notin S => Broken(S)[s] = wire[s]
                                 /\ s \in S => Broken(S)[s] # "open"
BY DEF Broken, Wears

LEMMA TakesFacts ==
    ASSUME CInv, NEW s \in Sockets, Takes(s)
    PROVE  up' = [ x \in Sockets |-> up'[x] ] /\ up[s] # <<>> /\ \A x \in Sockets : TakesUp(x)
<1>1. up = [ x \in Sockets |-> up[x] ]
  BY DEF CInv, NetTyped
<1> QED
  BY <1>1 DEF Takes, TakesUp

\* A message for everybody who has joined.
LEMMA EnqueueFacts ==
    ASSUME CInv, NEW S \in SUBSET Sockets, NEW m, Enqueue(S, m),
           \A s \in S : ~ Fresh(s)' /\ Letter(m, s)'
    PROVE  /\ wire' = [ s \in Sockets |-> wire'[s] ]
           /\ down' = [ s \in Sockets |-> down'[s] ]
           /\ \A s \in Sockets : Wears(s) /\ Hears(s)
           /\ \A s \in S : wire'[s] = "open" => down'[s] = Append(down[s], m)
<1> DEFINE takes == { s \in S : phase[s] # "closing" /\ Len(down[s]) < MaxInbox }
<1>1. /\ wire' = Broken(S \ takes)
      /\ down' = [ s \in Sockets |-> IF s \in takes /\ wire[s] = "open"
                                     THEN Append(down[s], m) ELSE down[s] ]
      /\ takes \subseteq S
  BY DEF Enqueue
<1> HIDE DEF takes
<1>2. \A s \in Sockets : Hears(s)
  BY <1>1 DEF Hears
<1>3. /\ wire' = [ s \in Sockets |-> wire'[s] ]
      /\ \A s \in Sockets : Wears(s)
      /\ \A s \in S : wire'[s] = "open" => s \in takes
  <2> DEFINE B == S \ takes
  <2>1. wire' = Broken(B)
    BY <1>1
  <2>2. \A s \in S : s \notin takes => s \in B
    OBVIOUS
  <2> HIDE DEF B
  <2>3. /\ Broken(B) = [ s \in Sockets |-> Broken(B)[s] ]
        /\ \A s \in Sockets : /\ wire' = Broken(B) => Wears(s)
                              /\ s \in B => Broken(B)[s] # "open"
    BY BrokenFacts
  <2> QED
    BY <2>1, <2>2, <2>3
<1>4. \A s \in S : wire'[s] = "open" => down'[s] = Append(down[s], m)
  BY <1>1, <1>3 DEF Wears
<1> QED
  BY <1>1, <1>2, <1>3, <1>4

LEMMA TurnStep ==
    ASSUME CInv,
           NEW c \in Conns, NEW from \in Phases \ {"waiting"}, NEW to \in Phases \ {"waiting"},
           Goto(c, from, to),
           c \in Sockets /\ to \in Idle => served[c] = None,
           NEW r, Spares(r), room' = r,
           HubOK',
           draft' = [ d \in Conns |-> draft'[d] ],
           \A d \in Conns \ {c} : draft'[d] = draft[d],
           c \in Sockets /\ to = "handing" => Greets(draft[c], c)',
           to = "collecting" => Plain(draft[c])',
           wire' = [ s \in Sockets |-> wire'[s] ],
           up' = [ s \in Sockets |-> up'[s] ],
           down' = [ s \in Sockets |-> down'[s] ],
           \A s \in Sockets : Wears(s) /\ TakesUp(s) /\ Hears(s),
           c \in Sockets => Welcomes(c),
           UNCHANGED <<pageVars, presented, served>>
    PROVE  CInv'
<1>1. /\ phase' \in [ Conns -> Phases ]
      /\ phase[c] = from /\ phase'[c] = to
      /\ \A d \in Conns \ {c} : phase'[d] = phase[d]
  BY GotoFacts
<1>2. HandlersTyped'
  BY <1>1 DEF CInv, HandlersTyped
<1>3. \A s \in Sockets : Fresh(s)' <=> Fresh(s)
  BY <1>1, SocketFacts DEF Fresh
<1>4. key' = key
  BY DEF pageVars
<1>5. RoomOK(room, Drawn)' /\ TokensOpen'
  BY <1>3, <1>4, RoomStep
<1>6. ASSUME NEW s \in Sockets
      PROVE  /\ Advances(s) /\ Welcomes(s)
             /\ phase'[s] = "handing" => Greets(draft[s], s)'
  <2>1. CASE s = c
    BY <1>1, <1>3, <2>1 DEF Advances
  <2>2. CASE s # c
    <3>1. phase'[s] = phase[s] /\ draft'[s] = draft[s]
      BY <1>1, <2>2, SocketFacts
    <3>2. Advances(s) /\ Welcomes(s)
      BY <1>3, <3>1 DEF Advances, Welcomes, CInv, WiresOK
    <3>3. phase[s] = "handing" => Greets(draft[s], s)
      BY DEF CInv, LettersOK
    <3>4. Issued(s)' = Issued(s)
      BY <1>4 DEF Issued
    <3> QED
      BY <3>1, <3>2, <3>3, <3>4 DEF Greets
  <2> QED
    BY <2>1, <2>2
<1>7. \A d \in Conns : phase'[d] = "collecting" => Plain(draft[d])'
  <2>1. ASSUME NEW d \in Conns, d # c, phase'[d] = "collecting"
        PROVE  Plain(draft[d])'
    <3>1. phase[d] = "collecting" /\ draft'[d] = draft[d]
      BY <1>1, <2>1
    <3> QED
      BY <3>1 DEF CInv, LettersOK, Plain
  <2> QED
    BY <1>1, <2>1
<1> QED
  BY <1>2, <1>5, <1>6, <1>7, HandlerStep

\* Nobody hears anything, and nothing else happens to the connections.
LEMMA QuietNet ==
    ASSUME CInv
    PROVE  /\ wire' = wire => /\ wire' = [ s \in Sockets |-> wire'[s] ]
                              /\ \A s \in Sockets : Wears(s)
           /\ up' = up => /\ up' = [ s \in Sockets |-> up'[s] ]
                          /\ \A s \in Sockets : TakesUp(s)
           /\ down' = down => /\ down' = [ s \in Sockets |-> down'[s] ]
                              /\ \A s \in Sockets : Hears(s)
           /\ draft' = draft => draft' = [ c \in Conns |-> draft'[c] ]
<1>1. wire = [ s \in Sockets |-> wire[s] ]
  BY DEF CInv, NetTyped
<1>2. up = [ s \in Sockets |-> up[s] ]
  BY DEF CInv, NetTyped
<1>3. down = [ s \in Sockets |-> down[s] ]
  BY DEF CInv, NetTyped
<1>4. draft = [ c \in Conns |-> draft[c] ]
  BY DEF CInv, HandlersTyped
<1> QED
  BY <1>1, <1>2, <1>3, <1>4 DEF Wears, TakesUp, Hears

\* The hub stays as it is while connections join.
LEMMA SameHub ==
    ASSUME CInv, hub' = hub, \A s \in Sockets : Fresh(s)' => Fresh(s)
    PROVE  HubOK'
BY DEF CInv, HubOK

\* The steps that only go on from one phase to another, or read the state, or
\* change the room by a call that gives nobody a seat.
LEMMA CallStep ==
    ASSUME CInv,
           NEW c \in Conns, NEW from \in Phases \ {"waiting"}, NEW to \in Phases \ {"waiting"},
           Goto(c, from, to),
           c \in Sockets /\ to \in Idle => served[c] = None,
           c \in Sockets /\ to \in Greeted => from \in Greeted \/ served[c] = None,
           NEW r, Spares(r), room' = r,
           draft' = [ d \in Conns |-> draft'[d] ],
           \A d \in Conns \ {c} : draft'[d] = draft[d],
           c \in Sockets /\ to = "handing" => Greets(draft[c], c)',
           to = "collecting" => Plain(draft[c])',
           wire' = wire \/ \E S : wire' = Broken(S),
           up' = up \/ (c \in Sockets /\ (Takes(c) \/ (up' = [ up EXCEPT ![c] = <<>> ]))),
           UNCHANGED <<pageVars, presented, served, down, hub>>
    PROVE  CInv'
<1>1. /\ phase[c] = from /\ phase'[c] = to
      /\ \A d \in Conns \ {c} : phase'[d] = phase[d]
  BY GotoFacts
<1>2. \A s \in Sockets : Fresh(s)' <=> Fresh(s)
  BY <1>1, SocketFacts DEF Fresh
<1>3. HubOK'
  BY <1>2, SameHub
<1>4. wire' = [ s \in Sockets |-> wire'[s] ] /\ \A s \in Sockets : Wears(s)
  BY QuietNet, BrokenFacts
<1>5. up' = [ s \in Sockets |-> up'[s] ] /\ \A s \in Sockets : TakesUp(s)
  <2>1. CASE up' = up
    BY <2>1, QuietNet
  <2>2. CASE c \in Sockets /\ Takes(c)
    BY <2>2, TakesFacts
  <2>3. CASE c \in Sockets /\ up' = [ up EXCEPT ![c] = <<>> ]
    <3>1. up = [ s \in Sockets |-> up[s] ]
      BY DEF CInv, NetTyped
    <3> QED
      BY <2>3, <3>1 DEF TakesUp
  <2> QED
    BY <2>1, <2>2, <2>3
<1>6. c \in Sockets => Welcomes(c)
  BY <1>1 DEF Welcomes
<1> QED
  BY <1>3, <1>4, <1>5, <1>6, QuietNet, TurnStep

\* The token that a join hands out is one.
LEMMA IssuedFacts ==
    ASSUME CInv, NEW s \in Sockets
    PROVE  Issued(s) \in Conns /\ Letter(Greeting(s), s) /\ Greets(Greeting(s), s)
<1>1. Issued(s) \in Conns
  BY SocketFacts DEF CInv, NetTyped, Issued, Issues, Asks
<1> QED
  BY <1>1 DEF Letter, Greets, Greeting

LEMMA HandlesFacts ==
    ASSUME NEW c, NEW m, Handles(c, m)
    PROVE  \E to \in {"serving", "announcing", "resetting"} :
             /\ Goto(c, "serving", to)
             /\ \/ room' = AfterReset(room, served[c])
                \/ room' = AfterSkipVote(room, served[c])
                \/ room' = AfterVote(room, served[c], m.card, TRUE)
<1> DEFINE r == AfterPurge(room)
           i == served[c]
<1>1. \/ room' = AfterReset(room, i) /\ Goto(c, "serving", IF MayReset(r, i) THEN "resetting" ELSE "serving")
      \/ room' = AfterSkipVote(room, i) /\ Goto(c, "serving", IF MayVote(r, i) THEN "announcing" ELSE "serving")
      \/ room' = AfterVote(room, i, m.card, TRUE)
         /\ Goto(c, "serving", IF MayVote(r, i) THEN "announcing" ELSE "serving")
  BY DEF Handles
<1> HIDE DEF r
<1> QED
  BY <1>1

LEMMA PassingStep ==
    ASSUME CInv,
           \/ \E s \in Sockets : \/ ClosePrevious(s) \/ ReadOwnState(s) \/ Serve(s)
                                 \/ ReadFails(s) \/ Close(s)
           \/ \E c \in Conns : ReadState(c) \/ DeleteIfEmpty(c)
           \/ HostActs \/ HostLeaves
    PROVE  CInv'
<1> USE CallsSpare, QuietNet
<1>1. ASSUME NEW s \in Sockets, ClosePrevious(s)
      PROVE  CInv'
  BY <1>1, SocketFacts, CallStep DEF ClosePrevious, Phases, Idle, Greeted, roomVars, netVars
<1>2. ASSUME NEW c \in Conns, NEW from \in Phases \ {"waiting"}, NEW to \in {"handing", "collecting"},
             NEW m, Reads(c, from, to, m),
             c \in Sockets /\ to = "collecting" => from \in Greeted,
             to = "collecting" => Plain(m),
             c \in Sockets /\ to = "handing" => Greets(m, c)
      PROVE  CInv'
  <2>1. /\ UNCHANGED <<pageVars, room, hub, served, wire, presented, up, down>>
        /\ Goto(c, from, to) /\ draft' = [ draft EXCEPT ![c] = m ]
    BY <1>2 DEF Reads, roomVars, netVars
  <2>2. /\ draft' = [ d \in Conns |-> draft'[d] ] /\ draft'[c] = m
        /\ \A d \in Conns \ {c} : draft'[d] = draft[d]
    <3>1. draft = [ d \in Conns |-> draft[d] ]
      BY DEF CInv, HandlersTyped
    <3> QED
      BY <2>1, <3>1
  <2>3. to = "collecting" => Plain(draft[c])'
    BY <1>2, <2>2 DEF Plain
  <2>4. c \in Sockets /\ to = "handing" => Greets(draft[c], c)'
    <3>1. Issued(c)' = Issued(c)
      BY <2>1 DEF pageVars, Issued
    <3> QED
      BY <1>2, <2>1, <2>2, <3>1 DEF Greets
  <2>5. to \in Phases \ {"waiting"} /\ to \notin Idle /\ (to \in Greeted => to = "collecting")
    BY DEF Phases, Idle, Greeted
  <2> QED
    BY <1>2, <2>1, <2>2, <2>3, <2>4, <2>5, CallStep
<1>3. ASSUME NEW s \in Sockets, ReadOwnState(s)
      PROVE  CInv'
  BY <1>2, <1>3, SocketFacts, IssuedFacts DEF ReadOwnState, Phases
<1>4. ASSUME NEW c \in Conns, ReadState(c)
      PROVE  CInv'
  <2>1. Plain(News("room_state")) /\ Plain(News("voting_reset"))
    BY DEF Plain, News
  <2> QED
    BY <1>2, <1>4, <2>1 DEF ReadState, Phases, Greeted
<1>5. ASSUME NEW c \in Conns, NEW m, Handles(c, m),
             up' = up \/ (c \in Sockets /\ Takes(c)),
             UNCHANGED <<pageVars, hub, served, draft, wire, presented, down>>
      PROVE  CInv'
  <2>1. PICK to \in {"serving", "announcing", "resetting"} :
             /\ Goto(c, "serving", to)
             /\ \/ room' = AfterReset(room, served[c])
                \/ room' = AfterSkipVote(room, served[c])
                \/ room' = AfterVote(room, served[c], m.card, TRUE)
    BY <1>5, HandlesFacts
  <2>2. PICK r : room' = r /\ Spares(r)
    BY <2>1
  <2>3. /\ "serving" \in Phases \ {"waiting"} /\ to \in Phases \ {"waiting"}
        /\ to \notin Idle /\ to \notin {"handing", "collecting"} /\ "serving" \in Greeted
    BY DEF Phases, Idle, Greeted
  <2> QED
    BY <1>5, <2>1, <2>2, <2>3, CallStep
<1>6. ASSUME NEW s \in Sockets, Serve(s)
      PROVE  CInv'
  BY <1>5, <1>6, SocketFacts DEF Serve
<1>7. ASSUME NEW s \in Sockets, ReadFails(s)
      PROVE  CInv'
  <2>1. /\ Goto(s, "serving", "closing") /\ up' = [ up EXCEPT ![s] = <<>> ]
        /\ UNCHANGED <<pageVars, room, hub, served, draft, wire, presented, down>>
    BY <1>7 DEF ReadFails, roomVars
  <2>2. /\ "serving" \in Phases \ {"waiting"} /\ "closing" \in Phases \ {"waiting"}
        /\ "closing" \notin Greeted /\ "closing" \notin Idle
    BY DEF Phases, Greeted, Idle
  <2> QED
    BY <2>1, <2>2, SocketFacts, CallStep
<1>8. ASSUME NEW s \in Sockets, Close(s)
      PROVE  CInv'
  <2>1. served[s] = None /\ s \in Conns
    BY <1>8, SocketFacts DEF Close, Goto, CInv, WiresOK, Idle
  <2>2. /\ Goto(s, "ended", "done") /\ wire' = Broken({s}) /\ up' = [ up EXCEPT ![s] = <<>> ]
        /\ UNCHANGED <<pageVars, room, hub, served, draft, presented, down>>
    BY <1>8 DEF Close, roomVars
  <2>3. "ended" \in Phases \ {"waiting"} /\ "done" \in Phases \ {"waiting"} /\ "done" \notin Greeted
    BY DEF Phases, Greeted
  <2> QED
    BY <2>1, <2>2, <2>3, CallStep
<1>9. ASSUME NEW c \in Conns, DeleteIfEmpty(c)
      PROVE  CInv'
  <2>1. c \in Sockets => served[c] = None
    BY <1>9 DEF DeleteIfEmpty, Goto, CInv, WiresOK, Idle
  <2>2. room' \in {room, AfterPurge(room)}
    BY <1>9 DEF DeleteIfEmpty
  <2> QED
    BY <1>9, <2>1, <2>2, CallStep DEF DeleteIfEmpty, Phases, Idle, Greeted, netVars
<1>10. CASE HostActs
  BY <1>5, <1>10, ClientAssumption DEF HostActs, netVars
<1>11. CASE HostLeaves
  BY <1>11, ClientAssumption, CallStep
     DEF HostLeaves, Phases, Idle, Greeted, Sockets, roomVars, netVars
<1> QED
  BY <1>1, <1>3, <1>4, <1>6, <1>7, <1>8, <1>9, <1>10, <1>11

LEMMA HubStep ==
    ASSUME CInv, \/ \E s \in Sockets : Register(s)
                 \/ \E c \in Conns : Unregister(c)
    PROVE  CInv'
<1> USE CallsSpare, QuietNet
<1>1. ASSUME NEW s \in Sockets, Register(s)
      PROVE  CInv'
  <2>1. /\ Goto(s, "joined", "registered") /\ hub' = Put(hub, served[s], s)
        /\ UNCHANGED <<pageVars, room, served, draft, wire, presented, up, down>>
    BY <1>1 DEF Register, roomVars, netVars
  <2>2. "joined" \in Phases \ {"waiting"} /\ "registered" \in Phases \ {"waiting"}
        /\ "registered" \notin Idle /\ "registered" \notin Greeted
    BY DEF Phases, Idle, Greeted
  <2>3. phase' \in [ Conns -> Phases ] /\ phase'[s] = "registered"
        /\ \A d \in Conns \ {s} : phase'[d] = phase[d]
    BY <2>1, <2>2, SocketFacts, GotoFacts
  <2>4. HubOK'
    BY <2>1, <2>3, SocketFacts DEF CInv, HubOK, Put, Fresh
  <2>5. Welcomes(s)
    BY <2>2, <2>3 DEF Welcomes
  <2> QED
    BY <2>1, <2>2, <2>4, <2>5, SocketFacts, TurnStep
<1>2. ASSUME NEW c \in Conns, Unregister(c)
      PROVE  CInv'
  <2>1. /\ Goto(c, "closing", "unregistered") /\ hub' \in {hub, Drop(hub, served[c])}
        /\ UNCHANGED <<pageVars, room, served, draft, wire, presented, up, down>>
    BY <1>2 DEF Unregister, roomVars, netVars
  <2>2. "closing" \in Phases \ {"waiting"} /\ "unregistered" \in Phases \ {"waiting"}
        /\ "unregistered" \notin Idle /\ "unregistered" \notin Greeted
    BY DEF Phases, Idle, Greeted
  <2>3. phase' \in [ Conns -> Phases ] /\ phase'[c] = "unregistered"
        /\ \A d \in Conns \ {c} : phase'[d] = phase[d]
    BY <2>1, <2>2, GotoFacts
  <2>4. HubOK'
    BY <2>1, <2>3, SocketFacts DEF CInv, HubOK, Drop, Fresh
  <2>5. c \in Sockets => Welcomes(c)
    BY <2>2, <2>3 DEF Welcomes
  <2> QED
    BY <2>1, <2>2, <2>4, <2>5, TurnStep
<1> QED
  BY <1>1, <1>2

LEMMA SendingStep ==
    ASSUME CInv, \/ \E s \in Sockets : Hand(s) \/ RefuseMessage(s)
                 \/ \E c \in Conns : Broadcast(c)
    PROVE  CInv'
<1> USE CallsSpare, QuietNet
<1>0. draft = [ c \in Conns |-> draft[c] ]
  BY DEF CInv, HandlersTyped
<1>1. ASSUME NEW s \in Sockets, Hand(s)
      PROVE  CInv'
  <2>1. /\ Goto(s, "handing", "announcing") /\ Enqueue({s}, draft[s])
        /\ draft' = [ draft EXCEPT ![s] = None ]
        /\ UNCHANGED <<pageVars, room, hub, served, presented, up>>
    BY <1>1 DEF Hand, roomVars
  <2>2. "handing" \in Phases \ {"waiting"} /\ "announcing" \in Phases \ {"waiting"}
        /\ "announcing" \notin Idle
    BY DEF Phases, Idle
  <2>3. phase[s] = "handing" /\ phase'[s] = "announcing"
        /\ \A d \in Conns \ {s} : phase'[d] = phase[d]
    BY <2>1, <2>2, SocketFacts, GotoFacts
  <2>4. PICK m : m = draft[s]
    OBVIOUS
  <2>5. Greets(m, s)' /\ Letter(m, s)'
    <3>1. Greets(m, s) /\ Issued(s)' = Issued(s) /\ Issued(s) \in Conns
      BY <2>1, <2>3, <2>4, IssuedFacts DEF CInv, LettersOK, Issued, pageVars
    <3> QED
      BY <2>1, <3>1 DEF Greets, Letter
  <2>6. \A x \in {s} : ~ Fresh(x)' /\ Letter(m, x)'
    BY <2>3, <2>5 DEF Fresh
  <2>7. /\ wire' = [ x \in Sockets |-> wire'[x] ]
        /\ down' = [ x \in Sockets |-> down'[x] ]
        /\ \A x \in Sockets : Wears(x) /\ Hears(x)
        /\ wire'[s] = "open" => down'[s] = Append(down[s], m)
    <3>1. {s} \in SUBSET Sockets /\ Enqueue({s}, m)
      BY <2>1, <2>4
    <3> QED
      BY <2>6, <3>1, EnqueueFacts
  <2>8. Welcomes(s)
    BY <2>5, <2>7 DEF Welcomes
  <2>9. \A x \in Sockets : Fresh(x)' => Fresh(x)
    BY <2>3 , SocketFacts DEF Fresh
  <2>10. HubOK'
    BY <2>1, <2>9, SameHub
  <2>11. draft' = [ d \in Conns |-> draft'[d] ] /\ \A d \in Conns \ {s} : draft'[d] = draft[d]
    BY <1>0, <2>1
  <2> QED
    <3>1. /\ s \in Conns /\ Spares(room) /\ room' = room
          /\ up' = [ x \in Sockets |-> up'[x] ] /\ \A x \in Sockets : TakesUp(x)
      BY <2>1, SocketFacts
    <3>2. "announcing" \notin {"handing", "collecting"}
      OBVIOUS
    <3> QED
      BY <2>1, <2>2, <2>7, <2>8, <2>10, <2>11, <3>1, <3>2, TurnStep
<1>2. ASSUME NEW s \in Sockets, RefuseMessage(s)
      PROVE  CInv'
  <2>1. /\ Takes(s) /\ Goto(s, "serving", "closing")
        /\ Enqueue({s}, ErrorMessage) \/ UNCHANGED <<down, wire>>
        /\ UNCHANGED <<pageVars, room, hub, served, draft, presented>>
    BY <1>2 DEF RefuseMessage, roomVars
  <2>2. "serving" \in Phases \ {"waiting"} /\ "closing" \in Phases \ {"waiting"}
        /\ "closing" \notin Idle /\ "closing" \notin Greeted
    BY DEF Phases, Idle, Greeted
  <2>3. phase[s] = "serving" /\ phase'[s] = "closing"
        /\ \A d \in Conns \ {s} : phase'[d] = phase[d]
    BY <2>1, <2>2, SocketFacts, GotoFacts
  <2>4. \A x \in {s} : ~ Fresh(x)' /\ Letter(ErrorMessage, x)'
    BY <2>3 DEF Fresh, Letter, Plain, ErrorMessage
  <2>5. /\ wire' = [ x \in Sockets |-> wire'[x] ]
        /\ down' = [ x \in Sockets |-> down'[x] ]
        /\ \A x \in Sockets : Wears(x) /\ Hears(x)
    <3>1. {s} \in SUBSET Sockets
      OBVIOUS
    <3>2. CASE Enqueue({s}, ErrorMessage)
      BY <2>4, <3>1, <3>2, EnqueueFacts
    <3>3. CASE UNCHANGED <<down, wire>>
      BY <3>3
    <3> QED
      BY <2>1, <3>2, <3>3
  <2>6. Welcomes(s)
    BY <2>2, <2>3 DEF Welcomes
  <2>7. HubOK'
    <3>1. \A x \in Sockets : Fresh(x)' => Fresh(x)
      BY <2>3 , SocketFacts DEF Fresh
    <3> QED
      BY <2>1, <3>1, SameHub
  <2>8. up' = [ x \in Sockets |-> up'[x] ] /\ \A x \in Sockets : TakesUp(x)
    BY <2>1, TakesFacts
  <2> QED
    BY <2>1, <2>2, <2>5, <2>6, <2>7, <2>8, SocketFacts, TurnStep
<1>3. ASSUME NEW c \in Conns, Broadcast(c)
      PROVE  CInv'
  <2> DEFINE S == Sockets \cap { hub[i] : i \in DOMAIN hub }
             to == IF served[c] = None THEN "ended" ELSE "serving"
  <2>1. /\ Goto(c, "collecting", to) /\ Enqueue(S, draft[c])
        /\ draft' = [ draft EXCEPT ![c] = None ]
        /\ UNCHANGED <<pageVars, room, hub, served, presented, up>>
    BY <1>3 DEF Broadcast, roomVars
  <2>2. /\ "collecting" \in Phases \ {"waiting"} /\ to \in Phases \ {"waiting"}
        /\ to \in Idle => served[c] = None
        /\ "collecting" \in Greeted /\ to \notin {"handing", "collecting"}
    BY DEF Phases, Idle, Greeted
  <2>3. S \in SUBSET Sockets /\ \A x \in S : ~ Fresh(x)
    BY DEF CInv, HubOK
  <2> HIDE DEF S, to
  <2>4. phase[c] = "collecting" /\ phase'[c] = to
        /\ \A d \in Conns \ {c} : phase'[d] = phase[d]
    BY <2>1, <2>2, GotoFacts
  <2>5. PICK m : m = draft[c]
    OBVIOUS
  <2>6. \A x \in Sockets : Fresh(x)' <=> Fresh(x)
    BY <2>2, <2>4, SocketFacts DEF Fresh
  <2>7. \A x \in S : ~ Fresh(x)' /\ Letter(m, x)'
    <3>1. Plain(m)
      BY <2>4, <2>5 DEF CInv, LettersOK
    <3> QED
      BY <2>3, <2>6, <3>1 DEF Letter
  <2>8. /\ wire' = [ x \in Sockets |-> wire'[x] ]
        /\ down' = [ x \in Sockets |-> down'[x] ]
        /\ \A x \in Sockets : Wears(x) /\ Hears(x)
    <3>1. Enqueue(S, m)
      BY <2>1, <2>5
    <3> QED
      BY <2>3, <2>7, <3>1, EnqueueFacts
  <2>9. c \in Sockets => Welcomes(c)
    BY <2>2, <2>4 DEF Welcomes
  <2>10. HubOK'
    BY <2>1, <2>6, SameHub
  <2>11. draft' = [ d \in Conns |-> draft'[d] ] /\ \A d \in Conns \ {c} : draft'[d] = draft[d]
    BY <1>0, <2>1
  <2> QED
    BY <2>1, <2>2, <2>8, <2>9, <2>10, <2>11, TurnStep
<1> QED
  BY <1>1, <1>2, <1>3

\* The steps that leave the phases alone.
LEMMA StillStep ==
    ASSUME CInv, Tick \/ \E s \in Sockets : TimeOut(s)
    PROVE  CInv'
<1>1. /\ UNCHANGED <<pageVars, handlerVars, presented, up, down>>
      /\ wire' = wire \/ \E S : wire' = Broken(S)
      /\ \E r : Spares(r) /\ room' = r
  BY CallsSpare DEF Tick, TimeOut, roomVars, netVars
<1>2. UNCHANGED <<hub, phase, served, draft, key>>
  BY <1>1 DEF handlerVars, pageVars
<1>3. wire' = [ s \in Sockets |-> wire'[s] ] /\ \A s \in Sockets : Wears(s)
  BY <1>1, QuietNet, BrokenFacts
<1>4. HandlersTyped' /\ HubOK'
  BY <1>2 DEF CInv, HandlersTyped, HubOK, Fresh
<1>5. RoomOK(room, Drawn)' /\ TokensOpen'
  <2>1. PICK r : Spares(r) /\ room' = r
    BY <1>1
  <2>2. \A s \in Sockets : Fresh(s)' => Fresh(s)
    BY <1>2 DEF Fresh
  <2> QED
    BY <1>1, <1>2, <2>1, <2>2, RoomStep
<1>6. ASSUME NEW s \in Sockets
      PROVE  /\ Advances(s) /\ Welcomes(s)
             /\ phase'[s] = "handing" => Greets(draft[s], s)'
  <2>1. phase[s] = "handing" => Greets(draft[s], s)
    BY DEF CInv, LettersOK
  <2>2. Issued(s)' = Issued(s)
    BY <1>1, <1>2 DEF Issued
  <2> QED
    BY <1>2, <2>1, <2>2 DEF CInv, WiresOK, Advances, Welcomes, Fresh, Greets
<1>7. \A c \in Conns : phase'[c] = "collecting" => Plain(draft[c])'
  BY <1>2 DEF CInv, LettersOK, Plain
<1> QED
  BY <1>1, <1>3, <1>4, <1>5, <1>6, <1>7, QuietNet, HandlerStep

LEMMA LeaveStep ==
    ASSUME CInv, NEW c \in Conns, LeaveRoom(c)
    PROVE  CInv'
<1> DEFINE to == IF Removes(room, served[c], c) THEN "removed" ELSE "ended"
<1>1. /\ Goto(c, "unregistered", to)
      /\ room' \in AfterRemoveConnection(room, served[c], c)
      /\ served' = [ served EXCEPT ![c] = None ]
      /\ UNCHANGED <<pageVars, hub, draft, wire, presented, up, down>>
  BY DEF LeaveRoom, netVars
<1>2. to \in Phases /\ to \notin Greeted /\ to \notin {"waiting", "handing", "collecting"}
  BY DEF Phases, Greeted
<1> HIDE DEF to
<1>3. /\ phase' \in [ Conns -> Phases ]
      /\ phase[c] = "unregistered" /\ phase'[c] = to
      /\ \A d \in Conns \ {c} : phase'[d] = phase[d]
  BY <1>1, <1>2, GotoFacts
<1>4. /\ served' \in [ Conns -> Conns \cup {None} ] /\ served'[c] = None
      /\ \A d \in Conns \ {c} : served'[d] = served[d]
  BY <1>1 DEF CInv, HandlersTyped
<1>5. \A s \in Sockets : Fresh(s)' <=> Fresh(s)
  BY <1>2, <1>3, SocketFacts DEF Fresh
<1>6. HandlersTyped' /\ HubOK'
  BY <1>1, <1>3, <1>4, <1>5, SameHub DEF CInv, HandlersTyped
<1>7. key' = key
  BY <1>1 DEF pageVars
<1>8. RoomOK(room, Drawn)' /\ TokensOpen'
  <2>1. PICK r : Spares(r) /\ room' = r
    BY <1>1, CallsSpare
  <2>2. \A s \in Sockets : served'[s] \in {served[s], None}
    BY <1>4, SocketFacts
  <2> QED
    BY <1>1, <1>5, <1>7, <2>1, <2>2, RoomStep
<1>9. ASSUME NEW s \in Sockets
      PROVE  /\ Advances(s) /\ Welcomes(s)
             /\ phase'[s] = "handing" => Greets(draft[s], s)'
  <2>1. CASE s = c
    BY <1>2, <1>3, <1>4, <1>5, <2>1 DEF Advances, Welcomes
  <2>2. CASE s # c
    <3>1. phase'[s] = phase[s] /\ served'[s] = served[s]
      BY <1>3, <1>4, <2>2, SocketFacts
    <3>2. phase[s] = "handing" => Greets(draft[s], s)
      BY DEF CInv, LettersOK
    <3>3. Issued(s)' = Issued(s)
      BY <1>1, <1>7 DEF Issued
    <3> QED
      BY <1>1, <1>5, <3>1, <3>2, <3>3 DEF CInv, WiresOK, Advances, Welcomes, Greets
  <2> QED
    BY <2>1, <2>2
<1>10. \A d \in Conns : phase'[d] = "collecting" => Plain(draft[d])'
  BY <1>1, <1>2, <1>3 DEF CInv, LettersOK, Plain
<1> QED
  BY <1>1, <1>6, <1>8, <1>9, <1>10, QuietNet, HandlerStep

LEMMA RefuseStep ==
    ASSUME CInv, NEW s \in Sockets, RefuseJoin(s)
    PROVE  CInv'
<1>1. /\ Takes(s) /\ Goto(s, "waiting", "done") /\ wire' = Broken({s})
      /\ down' = [ down EXCEPT ![s] = IF wire[s] = "open" THEN Append(@, ErrorMessage) ELSE @ ]
      /\ UNCHANGED <<pageVars, hub, served, draft, presented>>
  BY DEF RefuseJoin
<1>2. /\ phase' \in [ Conns -> Phases ]
      /\ phase[s] = "waiting" /\ phase'[s] = "done"
      /\ \A d \in Conns \ {s} : phase'[d] = phase[d]
  BY <1>1, SocketFacts, GotoFacts DEF Phases
<1>3. up' = [ x \in Sockets |-> up'[x] ] /\ up[s] # <<>> /\ \A x \in Sockets : TakesUp(x)
  BY <1>1, TakesFacts
<1>4. wire' = [ x \in Sockets |-> wire'[x] ] /\ \A x \in Sockets : Wears(x)
  BY <1>1, BrokenFacts
<1>5. ~ Fresh(s)' /\ \A x \in Sockets \ {s} : Fresh(x)' <=> Fresh(x)
  BY <1>2, SocketFacts DEF Fresh
<1>6. served[s] = None
  BY <1>2 DEF CInv, WiresOK, Idle
<1>7. HandlersTyped' /\ HubOK'
  BY <1>1, <1>2, <1>5, SameHub DEF CInv, HandlersTyped
<1>8. key' = key
  BY <1>1 DEF pageVars
<1>9. RoomOK(room, Drawn)' /\ TokensOpen'
  <2>1. PICK r : Spares(r) /\ room' = r
    BY CallsSpare DEF RefuseJoin
  <2> QED
    BY <1>1, <1>5, <1>8, <2>1, RoomStep
<1>10. down' = [ x \in Sockets |-> down'[x] ] /\ \A x \in Sockets : Hears(x)
  <2>1. down = [ x \in Sockets |-> down[x] ]
    BY DEF CInv, NetTyped
  <2>3. PICK m : m = ErrorMessage
    OBVIOUS
  <2>4. Letter(m, s)'
    BY <2>3 DEF Letter, Plain, ErrorMessage
  <2>5. down'[s] \in {down[s], Append(down[s], m)} /\ \A x \in Sockets \ {s} : down'[x] = down[x]
    BY <1>1, <2>1, <2>3
  <2> QED
    BY <1>1, <1>5, <2>1, <2>4, <2>5 DEF Hears
<1>11. ASSUME NEW x \in Sockets
       PROVE  /\ Advances(x) /\ Welcomes(x)
              /\ phase'[x] = "handing" => Greets(draft[x], x)'
  <2>1. phase[x] = "handing" => Greets(draft[x], x)
    BY DEF CInv, LettersOK
  <2>2. Issued(x)' = Issued(x)
    BY <1>1, <1>8 DEF Issued
  <2>3. CASE x = s
    BY <1>1, <1>2, <1>3, <1>5, <1>6, <2>3 DEF Advances, Welcomes
  <2>4. CASE x # s
    <3>1. phase'[x] = phase[x]
      BY <1>2, <2>4, SocketFacts
    <3> QED
      BY <1>1, <1>5, <2>1, <2>2, <2>4, <3>1 DEF CInv, WiresOK, Advances, Welcomes, Greets
  <2> QED
    BY <2>3, <2>4
<1>12. \A d \in Conns : phase'[d] = "collecting" => Plain(draft[d])'
  BY <1>1, <1>2 DEF CInv, LettersOK, Plain
<1> QED
  BY <1>1, <1>3, <1>4, <1>7, <1>9, <1>10, <1>11, <1>12, HandlerStep

\* What the room looks like after the join on s, which takes the participant
\* i in: it draws the name of s.
LEMMA JoinFacts ==
    ASSUME CInv, NEW s \in Sockets, AcceptJoin(s)
    PROVE  \E r : \E i \in Conns :
             /\ served' = [ served EXCEPT ![s] = i ] /\ room' = r
             /\ RoomOK(r, Drawn \cup {s})
             /\ i \in Connected(r) /\ r.participants[i].conn = s
             /\ Unlocks(r, Issued(s), i)
             /\ \A k, x : k # i /\ k \in Connected(r) /\ r.participants[k].conn = x
                    => /\ k \in Connected(room) /\ room.participants[k].conn = x
                       /\ \A t : Unlocks(room, t, k) => Unlocks(r, t, k)
<1> DEFINE q == Asks(Page, presented[s], key)
           p == AfterPurge(room)
           i == JoinsAs(p, s, q)
           r == Admit(p, s, q)
<1>1. /\ phase[s] = "waiting" /\ JoinError(p, q) = "none"
      /\ room' = r /\ served' = [ served EXCEPT ![s] = i ]
  BY DEF AcceptJoin, Goto, AfterAddConnection
<1>2. s \in Conns /\ s \notin Drawn
  BY <1>1, SocketFacts DEF Drawn, Fresh
<1>3. q \in Request /\ Issued(s) = Issues(s, q)
  <2>1. presented[s] \in Conns \cup {None} /\ key \in {OwnerToken, None}
    BY DEF CInv, NetTyped, PageTyped
  <2> QED
    BY <2>1, ClientAssumption DEF Asks, Request, Issued
<1>4. RoomOK(room, Drawn) /\ RoomOK(p, Drawn)
  BY PurgeOK DEF CInv
<1>5. Seats(p) = Seats(room) /\ \A t : \A k \in Connected(room) : Unlocks(room, t, k) => Unlocks(p, t, k)
  BY <1>4, PurgeSeats, PurgeUnlocks DEF RoomOK, RoomTyped
<1> HIDE DEF p, q
<1>6. /\ i \in Present(p) \cup {s} /\ Seats(r) = Put(Seats(p), i, s)
      /\ RoomOK(r, Drawn \cup {s})
      /\ Unlocks(r, Issued(s), i)
      /\ \A t, k : k # i /\ Unlocks(p, t, k) => Unlocks(r, t, k)
  BY <1>1, <1>2, <1>3, <1>4, AdmitSeats, AdmitOK, AdmitUnlocks
<1>7. i \in Conns
  <2>1. Present(p) \subseteq Drawn
    BY <1>4 DEF RoomOK, RoomTyped
  <2> QED
    BY <1>2, <1>6, <2>1 DEF Drawn
<1> HIDE DEF i, r
<1>8. i \in Connected(r) /\ r.participants[i].conn = s
  <2>1. i \in DOMAIN Seats(r) /\ Seats(r)[i] = s
    BY <1>6 DEF Put
  <2> QED
    BY <2>1, SeatsFacts
<1>9. ASSUME NEW k, NEW x, k # i, k \in Connected(r), r.participants[k].conn = x
      PROVE  /\ k \in Connected(room) /\ room.participants[k].conn = x
             /\ \A t : Unlocks(room, t, k) => Unlocks(r, t, k)
  <2>1. k \in DOMAIN Seats(room) /\ Seats(room)[k] = x
    <3>1. k \in DOMAIN Seats(r) /\ Seats(r)[k] = x
      BY <1>9, SeatsFacts
    <3> QED
      BY <1>5, <1>6, <1>9, <3>1 DEF Put
  <2>2. k \in Connected(room) /\ room.participants[k].conn = x
    BY <2>1, SeatsFacts
  <2> QED
    BY <1>5, <1>6, <1>9, <2>2
<1> QED
  BY <1>1, <1>6, <1>7, <1>8, <1>9

LEMMA AcceptStep ==
    ASSUME CInv, NEW s \in Sockets, AcceptJoin(s)
    PROVE  CInv'
<1>1. /\ Takes(s) /\ Goto(s, "waiting", "joined")
      /\ UNCHANGED <<pageVars, hub, draft, wire, presented, down>>
  BY DEF AcceptJoin
<1>2. PICK r, i :
         /\ i \in Conns
         /\ served' = [ served EXCEPT ![s] = i ] /\ room' = r
         /\ RoomOK(r, Drawn \cup {s})
         /\ i \in Connected(r) /\ r.participants[i].conn = s
         /\ Unlocks(r, Issued(s), i)
         /\ \A k, x : k # i /\ k \in Connected(r) /\ r.participants[k].conn = x
                => /\ k \in Connected(room) /\ room.participants[k].conn = x
                   /\ \A t : Unlocks(room, t, k) => Unlocks(r, t, k)
  BY JoinFacts
<1>3. /\ phase' \in [ Conns -> Phases ]
      /\ phase[s] = "waiting" /\ phase'[s] = "joined"
      /\ \A d \in Conns \ {s} : phase'[d] = phase[d]
  BY <1>1, SocketFacts, GotoFacts DEF Phases
<1>4. /\ served' \in [ Conns -> Conns \cup {None} ] /\ served'[s] = i
      /\ \A d \in Conns \ {s} : served'[d] = served[d]
  BY <1>2, SocketFacts DEF CInv, HandlersTyped
<1>5. up' = [ x \in Sockets |-> up'[x] ] /\ up[s] # <<>> /\ \A x \in Sockets : TakesUp(x)
  BY <1>1, TakesFacts
<1>6. Fresh(s) /\ ~ Fresh(s)' /\ \A x \in Sockets \ {s} : Fresh(x)' <=> Fresh(x)
  BY <1>3, SocketFacts DEF Fresh
<1>7. HandlersTyped' /\ HubOK'
  BY <1>1, <1>3, <1>4, <1>6, SameHub DEF CInv, HandlersTyped
<1>8. \A x \in Sockets : Issued(x)' = Issued(x)
  BY <1>1 DEF pageVars, Issued
<1>9. RoomOK(room, Drawn)'
  <2>1. Drawn \cup {s} \subseteq Drawn'
    BY <1>6, SocketFacts DEF Drawn
  <2> QED
    BY <1>2, <2>1, Monotone
<1>10. TokensOpen'
  <2>1. ASSUME NEW x \in Sockets, Holds(x)'
        PROVE  Unlocks(r, Issued(x), served'[x])
    <3>1. served'[x] \in Connected(r) /\ r.participants[served'[x]].conn = x
      BY <1>2, <2>1 DEF Holds
    <3>2. CASE x = s
      BY <1>2, <1>4, <3>2
    <3>3. CASE x # s
      <4>1. served'[x] = served[x] /\ served[x] # i
        BY <1>2, <1>4, <3>1, <3>3, SocketFacts
      <4>2. Holds(x) /\ \A t : Unlocks(room, t, served[x]) => Unlocks(r, t, served[x])
        BY <1>2, <3>1, <4>1 DEF Holds
      <4>3. Unlocks(room, Issued(x), served[x])
        BY <4>2 DEF CInv, TokensOpen
      <4> QED
        BY <4>1, <4>2, <4>3
    <3> QED
      BY <3>2, <3>3
  <2> QED
    BY <1>2, <1>8, <2>1 DEF TokensOpen
<1>11. ASSUME NEW x \in Sockets
       PROVE  /\ Advances(x) /\ Welcomes(x)
              /\ phase'[x] = "handing" => Greets(draft[x], x)'
  <2>1. CASE x = s
    BY <1>3, <1>5, <1>6, <2>1 DEF Advances, Welcomes, Idle, Greeted
  <2>2. CASE x # s
    <3>1. phase'[x] = phase[x] /\ served'[x] = served[x]
      BY <1>3, <1>4, <2>2, SocketFacts
    <3>2. phase[x] = "handing" => Greets(draft[x], x)
      BY DEF CInv, LettersOK
    <3> QED
      BY <1>1, <1>6, <1>8, <2>2, <3>1, <3>2 DEF CInv, WiresOK, Advances, Welcomes, Greets
  <2> QED
    BY <2>1, <2>2
<1>12. \A d \in Conns : phase'[d] = "collecting" => Plain(draft[d])'
  BY <1>1, <1>3 DEF CInv, LettersOK, Plain
<1> QED
  BY <1>1, <1>5, <1>7, <1>9, <1>10, <1>11, <1>12, QuietNet, HandlerStep

-----------------------------------------------------------------------------
(* The steps of the page and of the network *)

\* The page reads the first message, or what is on its way is lost.
Shortens(s) ==
    \/ down'[s] \in {down[s], <<>>}
    \/ down[s] # <<>> /\ down'[s] = Tail(down[s])

\* The page goes on with the socket that it had, or with a new one.
GoesOn(s) ==
    (socket' = s /\ wire'[s] = "open")
        => \/ Fresh(s)
           \/ /\ socket = s /\ wire[s] = "open"
              /\ \/ UNCHANGED <<mode, selfId, stored>> /\ down'[s] = down[s]
                 \/ (served[s] # None /\ phase[s] \in Greeted) => Introduced(s)'

LEMMA ShorterFacts ==
    ASSUME CInv, NEW s \in Sockets, Shortens(s)
    PROVE  /\ Pile(down'[s])
           /\ Fresh(s) => down'[s] = <<>>
           /\ \A k \in 1 .. Len(down'[s]) :
                 \E j \in 1 .. Len(down[s]) : down'[s][k] = down[s][j]
<1>1. Pile(down[s]) /\ (Fresh(s) => down[s] = <<>>)
  BY DEF CInv, NetTyped, WiresOK
<1>2. CASE down'[s] = down[s]
  BY <1>1, <1>2
<1>3. CASE down'[s] = <<>>
  <2>1. 1 .. Len(down'[s]) = {}
    BY <1>3, EmptyPile
  <2> QED
    BY <1>3, <2>1, EmptyPile
<1>4. CASE down[s] # <<>> /\ down'[s] = Tail(down[s])
  <2>1. /\ Pile(down'[s]) /\ Len(down[s]) \in Nat \ {0} /\ Len(down'[s]) = Len(down[s]) - 1
        /\ \A k \in 1 .. Len(down'[s]) : down'[s][k] = down[s][k + 1]
    BY <1>1, <1>4, PileTail
  <2>2. \A k \in 1 .. Len(down'[s]) : k + 1 \in 1 .. Len(down[s])
    BY <2>1
  <2> QED
    BY <1>1, <1>4, <2>1, <2>2
<1> QED
  BY <1>2, <1>3, <1>4 DEF Shortens

LEMMA PageSide ==
    ASSUME CInv, UNCHANGED <<key, room, handlerVars>>, PageTyped',
           wire' \in [ Sockets -> Wires ],
           presented' \in [ Sockets -> Conns \cup {None} ],
           up' = [ s \in Sockets |-> up'[s] ],
           down' = [ s \in Sockets |-> down'[s] ],
           \A s \in Sockets :
               /\ presented'[s] = presented[s] \/ Fresh(s)
               /\ NotOpened(s)' => up'[s] = <<>> /\ Fresh(s)
               /\ socket' = s => wire'[s] \notin {"unused", "closed"}
               /\ Shortens(s) /\ GoesOn(s)
    PROVE  CInv'
<1>1. UNCHANGED <<hub, phase, served, draft>> /\ \A s \in Sockets : Fresh(s)' <=> Fresh(s)
  BY DEF handlerVars, Fresh
<1>2. HandlersTyped' /\ HubOK'
  BY <1>1 DEF CInv, HandlersTyped, HubOK
<1>3. RoomOK(room, Drawn)'
  <2>1. Drawn' = Drawn
    BY <1>1 DEF Drawn
  <2> QED
    BY <2>1 DEF CInv
<1>4. NetTyped'
  BY ShorterFacts DEF NetTyped
<1>5. WiresOK'
  BY <1>1, ShorterFacts DEF CInv, WiresOK
<1>6. \A s \in Sockets : Fresh(s) => served[s] = None /\ phase[s] = "waiting"
  BY DEF CInv, WiresOK, Fresh, Idle
<1>7. \A s \in Sockets : ~ Fresh(s) => Issued(s)' = Issued(s)
  BY DEF Issued
<1>8. TokensOpen'
  <2>1. \A s \in Sockets : Holds(s)' => Holds(s) /\ ~ Fresh(s)
    BY <1>1, <1>6, HoldersServe DEF Holds
  <2> QED
    BY <1>1, <1>7, <2>1 DEF CInv, TokensOpen
<1>9. LettersOK'
  <2>1. ASSUME NEW s \in Sockets, NEW k \in 1 .. Len(down'[s])
        PROVE  Letter(down[s][k], s)'
    <3>1. PICK j \in 1 .. Len(down[s]) : down'[s][k] = down[s][j]
      BY ShorterFacts
    <3>2. Letter(down[s][j], s)
      BY DEF CInv, LettersOK
    <3>3. CASE ~ Fresh(s)
      BY <1>1, <1>7, <3>1, <3>2, <3>3 DEF Letter, Greets
    <3>4. CASE Fresh(s)
      BY <1>1, <1>6, <3>1, <3>2, <3>4 DEF Letter, Greets
    <3> QED
      BY <3>3, <3>4
  <2>2. ASSUME NEW s \in Sockets, phase'[s] = "handing"
        PROVE  Greets(draft[s], s)'
    <3>1. phase[s] = "handing" /\ ~ Fresh(s)
      BY <1>1, <1>6, <2>2
    <3>2. Greets(draft[s], s)
      BY <3>1 DEF CInv, LettersOK
    <3> QED
      BY <1>1, <1>7, <3>1, <3>2 DEF Greets
  <2>3. \A c \in Conns : phase'[c] = "collecting" => Plain(draft[c])'
    BY <1>1 DEF CInv, LettersOK, Plain
  <2> QED
    BY <2>1, <2>2, <2>3 DEF LettersOK
<1>10. PageTold'
  <2>1. ASSUME NEW s \in Sockets, socket' = s, wire'[s] = "open", served[s] # None,
               phase[s] \in Greeted
        PROVE  Introduced(s)'
    <3>1. ~ Fresh(s) /\ Issued(s)' = Issued(s)
      BY <1>6, <1>7, <2>1
    <3>2. CASE UNCHANGED <<mode, selfId, stored>> /\ down'[s] = down[s] /\ socket = s /\ wire[s] = "open"
      <4>1. Introduced(s)
        BY <2>1, <3>2 DEF CInv, PageTold
      <4> QED
        BY <1>1, <3>1, <3>2, <4>1 DEF Introduced, Greets
    <3> QED
      BY <2>1, <3>1, <3>2 DEF GoesOn
  <2> QED
    BY <1>1, <2>1 DEF PageTold
<1> QED
  BY <1>2, <1>3, <1>4, <1>5, <1>8, <1>9, <1>10 DEF CInv

\* The page does something of its own, and may send a message.
LEMMA OwnStep ==
    ASSUME CInv, \/ TimerFires \/ Answer \/ FetchFails \/ FetchMisses \/ Vote \/ SkipVote \/ Reset
                 \/ \E card \in Cards : SelectCard(card)
                 \/ UNCHANGED vars
    PROVE  CInv'
<1>1. /\ UNCHANGED <<socket, storyVars, key, room, handlerVars, wire, presented, down>>
      /\ \/ up' = up
         \/ \E m : socket # None /\ Sent(m)
  <2>1. CASE TimerFires \/ Answer \/ FetchFails \/ FetchMisses
    BY <2>1 DEF TimerFires, Answer, FetchFails, FetchMisses, roomVars, netVars
  <2>2. CASE \E card \in Cards : SelectCard(card)
    BY <2>2 DEF SelectCard, roomVars, netVars
  <2>3. CASE Vote \/ SkipVote
    BY <2>3 DEF Vote, SkipVote, Submit, Sends, roomVars
  <2>4. CASE Reset
    BY <2>4 DEF Reset, Sends, roomVars
  <2>5. CASE UNCHANGED vars
    BY <2>5 DEF vars, pageVars, roomVars, netVars
  <2> QED
    BY <2>1, <2>2, <2>3, <2>4, <2>5
<1>2. UNCHANGED <<mode, selfId, stored>>
  BY <1>1 DEF storyVars
<1>3. PageTyped'
  BY <1>1, <1>2 DEF CInv, PageTyped
<1>4. up = [ s \in Sockets |-> up[s] ] /\ socket \in Sockets \cup {None}
  BY DEF CInv, NetTyped, PageTyped
<1>5. /\ up' = [ s \in Sockets |-> up'[s] ]
      /\ \A s \in Sockets : up'[s] = up[s] \/ wire[s] = "open"
  BY <1>1, <1>4 DEF Sent
<1>6. ASSUME NEW s \in Sockets
      PROVE  /\ NotOpened(s)' => up'[s] = <<>> /\ Fresh(s)
             /\ socket' = s => wire'[s] \notin {"unused", "closed"}
             /\ Shortens(s) /\ GoesOn(s)
  BY <1>1, <1>2, <1>5 DEF CInv, WiresOK, NotOpened, Shortens, GoesOn
<1> QED
  BY <1>1, <1>3, <1>5, <1>6, PageSide DEF CInv, NetTyped

LEMMA ConnectStep ==
    ASSUME CInv, Join \/ FetchFinds
    PROVE  CInv'
<1>1. Connect
  BY DEF Join, FetchFinds
<1>2. PICK n \in Unused : /\ socket' = n
                          /\ wire' = [ wire EXCEPT ![n] = "connecting" ]
                          /\ presented' = [ presented EXCEPT ![n] = stored ]
  <2>1. Unused # {} /\ socket' = CHOOSE s \in Unused : TRUE
    BY <1>1 DEF Connect
  <2>2. socket' \in Unused
    BY <2>1
  <2> QED
    BY <1>1, <2>2 DEF Connect
<1>3. n \in Sockets /\ wire[n] = "unused"
  BY <1>2 DEF Unused
<1>4. UNCHANGED <<storyVars, key, room, handlerVars, up, down>>
  BY <1>1 DEF Connect, roomVars
<1>5. /\ wire' \in [ Sockets -> Wires ] /\ wire'[n] = "connecting"
      /\ \A s \in Sockets \ {n} : wire'[s] = wire[s]
  BY <1>2, <1>3 DEF CInv, NetTyped, Wires
<1>6. /\ presented' \in [ Sockets -> Conns \cup {None} ]
      /\ \A s \in Sockets \ {n} : presented'[s] = presented[s]
  BY <1>2, <1>3 DEF CInv, NetTyped, PageTyped
<1>7. up[n] = <<>> /\ Fresh(n)
  BY <1>3 DEF CInv, WiresOK, NotOpened
<1>8. PageTyped'
  BY <1>2, <1>3, <1>4 DEF CInv, PageTyped, storyVars
<1>9. ASSUME NEW s \in Sockets
      PROVE  /\ presented'[s] = presented[s] \/ Fresh(s)
             /\ NotOpened(s)' => up'[s] = <<>> /\ Fresh(s)
             /\ socket' = s => wire'[s] \notin {"unused", "closed"}
             /\ Shortens(s) /\ GoesOn(s)
  <2>1. CASE s = n
    BY <1>2, <1>4, <1>5, <1>7, <2>1 DEF Shortens, GoesOn
  <2>2. CASE s # n
    BY <1>2, <1>4, <1>5, <1>6, <2>2 DEF CInv, WiresOK, NotOpened, Shortens, GoesOn
  <2> QED
    BY <2>1, <2>2
<1> QED
  BY <1>4, <1>5, <1>6, <1>8, <1>9, PageSide DEF CInv, NetTyped

LEMMA OpenStep ==
    ASSUME CInv, NEW s \in Sockets, OnOpen(s)
    PROVE  CInv'
<1>1. /\ wire[s] = "connecting" /\ wire' = [ wire EXCEPT ![s] = "open" ]
      /\ up' = up \/ \E m : up' = [ up EXCEPT ![s] = Append(@, m) ]
      /\ UNCHANGED <<socket, storyVars, key, room, handlerVars, presented, down>>
  BY DEF OnOpen, roomVars
<1>2. UNCHANGED <<mode, selfId, stored>> /\ PageTyped'
  BY <1>1 DEF storyVars, CInv, PageTyped
<1>3. /\ wire' \in [ Sockets -> Wires ] /\ wire'[s] = "open"
      /\ \A x \in Sockets \ {s} : wire'[x] = wire[x]
  BY <1>1 DEF CInv, NetTyped, Wires
<1>4. up' = [ x \in Sockets |-> up'[x] ] /\ \A x \in Sockets \ {s} : up'[x] = up[x]
  <2>1. up = [ x \in Sockets |-> up[x] ]
    BY DEF CInv, NetTyped
  <2> QED
    BY <1>1, <2>1
<1>5. Fresh(s)
  BY <1>1 DEF CInv, WiresOK, NotOpened
<1>6. ASSUME NEW x \in Sockets
      PROVE  /\ NotOpened(x)' => up'[x] = <<>> /\ Fresh(x)
             /\ socket' = x => wire'[x] \notin {"unused", "closed"}
             /\ Shortens(x) /\ GoesOn(x)
  <2>1. CASE x = s
    BY <1>1, <1>3, <1>5, <2>1 DEF NotOpened, Shortens, GoesOn
  <2>2. CASE x # s
    BY <1>1, <1>2, <1>3, <1>4, <2>2 DEF CInv, WiresOK, NotOpened, Shortens, GoesOn
  <2> QED
    BY <2>1, <2>2
<1> QED
  BY <1>1, <1>2, <1>3, <1>4, <1>6, PageSide DEF CInv, NetTyped

\* A connection ends, for the page or in fact.
LEMMA EndStep ==
    ASSUME CInv, \/ \E s \in Sockets : OnClose(s) \/ Lose(s)
                 \/ Leave \/ Reload
    PROVE  CInv'
<1>0. /\ up = [ x \in Sockets |-> up[x] ] /\ down = [ x \in Sockets |-> down[x] ]
      /\ presented \in [ Sockets -> Conns \cup {None} ]
      /\ wire \in [ Sockets -> Wires ]
      /\ socket \in Sockets \cup {None}
  BY DEF CInv, NetTyped, PageTyped
<1>1. ASSUME NEW s \in Sockets, OnClose(s)
      PROVE  CInv'
  <2>1. /\ wire' = [ wire EXCEPT ![s] = Gone(s) ]
        /\ socket' = IF socket = s THEN None ELSE socket
        /\ UNCHANGED <<storyVars, key, room, handlerVars, presented, up, down>>
    BY <1>1 DEF OnClose, ForgetSocket, roomVars
  <2>2. UNCHANGED <<mode, selfId, stored>> /\ PageTyped'
    BY <1>0, <2>1 DEF storyVars, CInv, PageTyped
  <2>3. Gone(s) = "closed" \/ (Gone(s) = "unused" /\ Fresh(s) /\ up[s] = <<>>)
    BY DEF Gone, Fresh
  <2>4. /\ wire' \in [ Sockets -> Wires ] /\ wire'[s] = Gone(s)
        /\ \A x \in Sockets \ {s} : wire'[x] = wire[x]
    BY <1>0, <2>1, <2>3 DEF Wires
  <2>5. ASSUME NEW x \in Sockets
        PROVE  /\ NotOpened(x)' => up'[x] = <<>> /\ Fresh(x)
               /\ socket' = x => wire'[x] \notin {"unused", "closed"}
               /\ Shortens(x) /\ GoesOn(x)
    <3>1. CASE x = s
      BY <2>1, <2>3, <2>4, <3>1, SocketFacts DEF NotOpened, Shortens, GoesOn
    <3>2. CASE x # s
      BY <2>1, <2>2, <2>4, <3>2, SocketFacts DEF CInv, WiresOK, NotOpened, Shortens, GoesOn
    <3> QED
      BY <3>1, <3>2
  <2> QED
    BY <1>0, <2>1, <2>2, <2>4, <2>5, PageSide
<1>2. ASSUME NEW s \in Sockets, Lose(s)
      PROVE  CInv'
  <2>1. /\ wire' = Broken({s})
        /\ up' = [ up EXCEPT ![s] = <<>> ] /\ down' = [ down EXCEPT ![s] = <<>> ]
        /\ UNCHANGED <<socket, mode, selfId, stored, key, room, handlerVars, presented>>
    BY <1>2 DEF Lose, pageVars, storyVars, roomVars
  <2>2. PageTyped'
    BY <2>1 DEF CInv, PageTyped
  <2>3. /\ wire' \in [ Sockets -> Wires ] /\ wire'[s] # "open"
        /\ \A x \in Sockets : Wears(x)
        /\ \A x \in Sockets \ {s} : wire'[x] = wire[x]
    BY <1>0, <2>1 DEF Broken, Wires, Wears
  <2>4. /\ up' = [ x \in Sockets |-> up'[x] ] /\ down' = [ x \in Sockets |-> down'[x] ]
        /\ up'[s] = <<>> /\ down'[s] = <<>>
        /\ \A x \in Sockets \ {s} : up'[x] = up[x] /\ down'[x] = down[x]
    BY <1>0, <2>1
  <2>5. ASSUME NEW x \in Sockets
        PROVE  /\ NotOpened(x)' => up'[x] = <<>> /\ Fresh(x)
               /\ socket' = x => wire'[x] \notin {"unused", "closed"}
               /\ Shortens(x) /\ GoesOn(x)
    <3>1. NotOpened(x)' => NotOpened(x)
      BY <2>3 DEF Wears, NotOpened
    <3>2. NotOpened(x) => up[x] = <<>> /\ Fresh(x)
      BY DEF CInv, WiresOK
    <3>3. socket = x => wire[x] \notin {"unused", "closed"}
      BY DEF CInv, WiresOK
    <3>4. CASE x = s
      BY <2>1, <2>3, <2>4, <3>1, <3>2, <3>3, <3>4 DEF Wears, Shortens, GoesOn
    <3>5. CASE x # s
      BY <2>1, <2>3, <2>4, <3>1, <3>2, <3>3, <3>5 DEF Shortens, GoesOn
    <3> QED
      BY <3>4, <3>5
  <2> QED
    BY <1>0, <2>1, <2>2, <2>3, <2>4, <2>5, PageSide
<1>3. CASE Leave
  <2>1. /\ wire' = Broken({socket}) /\ socket' = None
        /\ UNCHANGED <<mode, selfId, stored, key, room, handlerVars, presented, up, down>>
    BY <1>3 DEF Leave, storyVars, roomVars
  <2>2. PageTyped'
    BY <2>1 DEF CInv, PageTyped
  <2>3. wire' \in [ Sockets -> Wires ] /\ \A x \in Sockets : Wears(x)
    BY <1>0, <2>1 DEF Broken, Wires, Wears
  <2>4. ASSUME NEW x \in Sockets
        PROVE  /\ NotOpened(x)' => up'[x] = <<>> /\ Fresh(x)
               /\ socket' = x => wire'[x] \notin {"unused", "closed"}
               /\ Shortens(x) /\ GoesOn(x)
    <3>1. NotOpened(x)' => NotOpened(x)
      BY <2>3 DEF Wears, NotOpened
    <3> QED
      BY <2>1, <3>1, SocketFacts DEF CInv, WiresOK, Shortens, GoesOn
  <2> QED
    BY <1>0, <2>1, <2>2, <2>3, <2>4, PageSide
<1>4. CASE Reload
  <2>1. /\ wire' = [ s \in Sockets |-> Gone(s) ] /\ socket' = None
        /\ down' = [ s \in Sockets |-> <<>> ]
        /\ UNCHANGED <<stored, key, room, handlerVars, presented, up>>
    BY <1>4 DEF Reload, roomVars
  <2>2. PageTyped'
    BY <2>1 DEF CInv, PageTyped
  <2>3. \A x \in Sockets : Gone(x) = "closed" \/ (Gone(x) = "unused" /\ Fresh(x) /\ up[x] = <<>>)
    BY DEF Gone, Fresh
  <2>4. wire' \in [ Sockets -> Wires ] /\ down' = [ s \in Sockets |-> down'[s] ]
    BY <2>1, <2>3 DEF Wires
  <2>5. ASSUME NEW x \in Sockets
        PROVE  /\ NotOpened(x)' => up'[x] = <<>> /\ Fresh(x)
               /\ socket' = x => wire'[x] \notin {"unused", "closed"}
               /\ Shortens(x) /\ GoesOn(x)
    BY <2>1, <2>3, SocketFacts DEF NotOpened, Shortens, GoesOn
  <2> QED
    BY <1>0, <2>1, <2>2, <2>4, <2>5, PageSide
<1> QED
  BY <1>1, <1>2, <1>3, <1>4

\* The page reads the message m on its socket.
LEMMA ReadingFacts ==
    ASSUME CInv, NEW s \in Sockets, socket = s, OnMessage(s)
    PROVE  /\ stored' \in Conns \cup {None}
           /\ (wire[s] = "open" /\ served[s] # None /\ phase[s] \in Greeted) => Introduced(s)'
<1>1. /\ down[s] # <<>> /\ down' = [ down EXCEPT ![s] = Tail(@) ]
      /\ IF Head(down[s]).type = "error" THEN HandleError ELSE HandleState(Head(down[s]))
      /\ UNCHANGED <<key, handlerVars, presented>>
  BY DEF OnMessage
<1>2. UNCHANGED <<phase, served>> /\ Issued(s)' = Issued(s)
  BY <1>1 DEF handlerVars, Issued
<1>3. /\ Pile(down[s]) /\ down' = [ x \in Sockets |-> down'[x] ] /\ down'[s] = Tail(down[s])
  BY <1>1 DEF CInv, NetTyped
<1>4. /\ Head(down[s]) = down[s][1] /\ Len(down[s]) \in Nat \ {0}
      /\ Len(down'[s]) = Len(down[s]) - 1
      /\ \A k \in 1 .. Len(down'[s]) : down'[s][k] = down[s][k + 1]
  BY <1>1, <1>3, PileTail
<1>5. PICK m : m = Head(down[s])
  OBVIOUS
<1>6. Letter(m, s) /\ m = down[s][1]
  <2>1. 1 \in 1 .. Len(down[s])
    BY <1>4
  <2> QED
    BY <1>4, <1>5, <2>1 DEF CInv, LettersOK
<1>7. stored \in Conns \cup {None}
  BY DEF CInv, PageTyped
<1>8. CASE m.type = "error"
  <2>1. UNCHANGED <<mode, selfId, stored>>
    BY <1>1, <1>5, <1>8 DEF HandleError, storyVars
  <2>2. ASSUME wire[s] = "open", served[s] # None, phase[s] \in Greeted
        PROVE  Introduced(s)'
    <3>1. Introduced(s)
      BY <2>2 DEF CInv, PageTold
    <3>2. CASE mode = "game" /\ selfId = served[s] /\ stored = Issued(s)
      BY <1>2, <2>1, <3>2 DEF Introduced
    <3>3. CASE \E k \in 1 .. Len(down[s]) : Greets(down[s][k], s)
      <4>1. PICK k \in 1 .. Len(down[s]) : Greets(down[s][k], s)
        BY <3>3
      <4>2. k # 1
        BY <1>6, <1>8, <4>1 DEF Greets
      <4>3. k - 1 \in 1 .. Len(down'[s]) /\ down'[s][k - 1] = down[s][k]
        BY <1>4, <4>2
      <4>4. \E j \in 1 .. Len(down'[s]) : Greets(down[s][j], s)'
        BY <1>2, <4>1, <4>3 DEF Greets
      <4> QED
        BY <4>4 DEF Introduced
    <3> QED
      BY <3>1, <3>2, <3>3 DEF Introduced
  <2> QED
    BY <1>7, <2>1, <2>2
<1>9. CASE m.type # "error"
  <2>1. /\ mode' = "game"
        /\ selfId' = IF m.self # None THEN m.self ELSE selfId
        /\ stored' = IF m.token # None THEN m.token ELSE stored
    BY <1>1, <1>5, <1>9 DEF HandleState
  <2>2. stored' \in Conns \cup {None}
    BY <1>6, <1>7, <2>1 DEF Letter, Plain
  <2>3. ASSUME wire[s] = "open", served[s] # None, phase[s] \in Greeted
        PROVE  Introduced(s)'
    <3>1. Introduced(s)
      BY <2>3 DEF CInv, PageTold
    <3>2. CASE Greets(m, s)
      <4>1. m.self = served[s] /\ m.token = Issued(s) /\ Issued(s) # None
        BY <3>2, IssuedFacts, SocketFacts DEF Greets
      <4>2. mode' = "game" /\ selfId' = served'[s] /\ stored' = Issued(s)
        BY <1>2, <2>1, <2>3, <4>1
      <4> QED
        BY <1>2, <4>2 DEF Introduced
    <3>3. CASE ~ Greets(m, s)
      <4>1. Plain(m)
        BY <1>6, <2>3, <3>3 DEF Letter
      <4>2. selfId' = selfId /\ stored' = stored
        BY <2>1, <4>1 DEF Plain
      <4>3. CASE mode = "game" /\ selfId = served[s] /\ stored = Issued(s)
        BY <1>2, <2>1, <4>2, <4>3 DEF Introduced
      <4>4. CASE \E k \in 1 .. Len(down[s]) : Greets(down[s][k], s)
        <5>1. PICK k \in 1 .. Len(down[s]) : Greets(down[s][k], s)
          BY <4>4
        <5>2. k # 1
          BY <1>6, <3>3, <5>1
        <5>3. k - 1 \in 1 .. Len(down'[s]) /\ down'[s][k - 1] = down[s][k]
          BY <1>4, <5>2
        <5>4. \E j \in 1 .. Len(down'[s]) : Greets(down[s][j], s)'
          BY <1>2, <5>1, <5>3 DEF Greets
        <5> QED
          BY <5>4 DEF Introduced
      <4> QED
        BY <3>1, <4>3, <4>4 DEF Introduced
    <3> QED
      BY <3>2, <3>3
  <2> QED
    BY <2>2, <2>3
<1> QED
  BY <1>8, <1>9

LEMMA MessageStep ==
    ASSUME CInv, NEW s \in Sockets, OnMessage(s)
    PROVE  CInv'
<1>1. /\ down[s] # <<>> /\ down' = [ down EXCEPT ![s] = Tail(@) ]
      /\ UNCHANGED <<socket, key, room, handlerVars, wire, presented, up>>
      /\ socket # s => UNCHANGED <<mode, selfId, stored>>
  BY DEF OnMessage, roomVars, storyVars
<1>2. /\ down = [ x \in Sockets |-> down[x] ] /\ up = [ x \in Sockets |-> up[x] ]
      /\ presented \in [ Sockets -> Conns \cup {None} ] /\ wire \in [ Sockets -> Wires ]
  BY DEF CInv, NetTyped
<1>3. /\ down' = [ x \in Sockets |-> down'[x] ] /\ down'[s] = Tail(down[s])
      /\ \A x \in Sockets \ {s} : down'[x] = down[x]
  BY <1>1, <1>2
<1>4. PageTyped'
  BY <1>1, ReadingFacts DEF CInv, PageTyped
<1>5. ASSUME NEW x \in Sockets
      PROVE  /\ NotOpened(x)' => up'[x] = <<>> /\ Fresh(x)
             /\ socket' = x => wire'[x] \notin {"unused", "closed"}
             /\ Shortens(x) /\ GoesOn(x)
  <2>1. /\ NotOpened(x)' => up'[x] = <<>> /\ Fresh(x)
        /\ socket' = x => wire'[x] \notin {"unused", "closed"}
    BY <1>1 DEF CInv, WiresOK, NotOpened
  <2>2. Shortens(x)
    BY <1>1, <1>3 DEF Shortens
  <2>3. GoesOn(x)
    <3>1. CASE x = s /\ socket = s
      BY <1>1, <3>1, ReadingFacts DEF GoesOn
    <3>2. CASE ~ (x = s /\ socket = s)
      BY <1>1, <1>3, <3>2 DEF GoesOn
    <3> QED
      BY <3>1, <3>2
  <2> QED
    BY <2>1, <2>2, <2>3
<1> QED
  BY <1>1, <1>2, <1>3, <1>4, <1>5, PageSide

-----------------------------------------------------------------------------
(* The theorem *)

LEMMA InitCInv == Init => CInv
<1> SUFFICES ASSUME Init
             PROVE  CInv
  OBVIOUS
<1>1. /\ wire \in [ Sockets -> {"unused", "closed"} ] /\ socket = None
      /\ phase = [ c \in Conns |-> IF c = Host THEN "serving" ELSE "waiting" ]
      /\ served = [ c \in Conns |-> IF c = Host THEN Host ELSE None ]
      /\ draft = [ c \in Conns |-> None ]
      /\ presented = [ s \in Sockets |-> None ]
      /\ up = [ s \in Sockets |-> <<>> ]
      /\ down = [ s \in Sockets |-> <<>> ]
      /\ hub = [ i \in {Host} |-> Host ]
      /\ stored = None /\ key \in Keys
  BY DEF Init
<1>2. /\ \A s \in Sockets : phase[s] = "waiting" /\ served[s] = None
      /\ Host \in Conns /\ Host \notin Sockets /\ phase[Host] = "serving"
  BY <1>1, ClientAssumption DEF Sockets
<1>3. PageTyped
  BY <1>1, ClientAssumption DEF PageTyped
<1>4. NetTyped
  BY <1>1, EmptyPile DEF NetTyped, Wires
<1>5. HandlersTyped
  BY <1>1, <1>2 DEF HandlersTyped, Phases
<1>6. WiresOK
  BY <1>1, <1>2, SocketFacts DEF WiresOK, Fresh
<1>7. HubOK
  BY <1>1, <1>2 DEF HubOK
<1>8. RoomOK(room, Drawn)
  <2>1. Drawn = {} \cup {Host}
    BY <1>2 DEF Drawn, Fresh, Sockets
  <2>2. Asks(HostClient, None, None) \in Request
    BY ClientAssumption DEF Asks, Request
  <2>3. Host \notin {}
    OBVIOUS
  <2>4. RoomOK(room, {} \cup {Host})
    BY <1>2, <2>2, <2>3, NewRoomOK, AddConnectionOK DEF Init
  <2> QED
    BY <2>1, <2>4
<1>9. TokensOpen
  <2>1. None \notin Connected(room)
    BY <1>8, SocketFacts DEF RoomOK, RoomTyped, Connected, Drawn
  <2> QED
    BY <1>2, <2>1 DEF TokensOpen, Holds
<1>10. LettersOK
  <2>1. \A s \in Sockets : 1 .. Len(down[s]) = {}
    BY <1>1, EmptyPile
  <2> QED
    BY <1>1, <1>2, <2>1 DEF LettersOK
<1>11. PageTold
  BY <1>1, SocketFacts DEF PageTold
<1> QED
  BY <1>3, <1>4, <1>5, <1>6, <1>7, <1>8, <1>9, <1>10, <1>11 DEF CInv

LEMMA NextCInv == CInv /\ [Next]_vars => CInv'
<1> SUFFICES ASSUME CInv, [Next]_vars
             PROVE  CInv'
  OBVIOUS
<1>1. CASE PageNext
  BY <1>1, OwnStep, ConnectStep, OpenStep, MessageStep, EndStep, StillStep DEF PageNext
<1>2. CASE HandlersNext
  BY <1>2, RefuseStep, AcceptStep, PassingStep, HubStep, SendingStep, LeaveStep DEF HandlersNext
<1>3. CASE UserActs \/ UNCHANGED vars
  BY <1>3, OwnStep, EndStep DEF UserActs
<1>4. CASE OthersAct
  BY <1>4, PassingStep, StillStep DEF OthersAct
<1> QED
  BY <1>1, <1>2, <1>3, <1>4 DEF Next

\* Whoever has been told everything has been told who it is.
LEMMA CInvKnows == CInv => PageKnowsItsSeat
<1> SUFFICES ASSUME CInv, InGame
             PROVE  /\ mode = "game"
                    /\ selfId = served[socket]
                    /\ stored \in DOMAIN room.index /\ room.index[stored] = selfId
  BY DEF PageKnowsItsSeat
<1>1. PICK s \in Sockets : s = socket
  BY DEF CInv, PageTyped, InGame
<1>2. /\ Holds(s) /\ down[s] = <<>>
      /\ wire[s] \in {"unused", "open", "closed"}
      /\ phase[s] \in {"waiting", "serving", "done"}
  BY <1>1 DEF InGame, Settled
<1>3. wire[s] = "open"
  BY <1>1, <1>2 DEF CInv, WiresOK
<1>4. served[s] # None /\ phase[s] \in Greeted
  BY <1>2, HoldersServe DEF CInv, WiresOK, Idle, Greeted
<1>5. Introduced(s)
  BY <1>1, <1>3, <1>4 DEF CInv, PageTold
<1>6. mode = "game" /\ selfId = served[s] /\ stored = Issued(s)
  <2>1. 1 .. Len(down[s]) = {}
    BY <1>2, EmptyPile
  <2> QED
    BY <1>5, <2>1 DEF Introduced
<1>7. Unlocks(room, Issued(s), served[s])
  BY <1>2 DEF CInv, TokensOpen
<1> QED
  BY <1>1, <1>6, <1>7 DEF Unlocks

(***************************************************************************)
(* A page that is in the room and has been told everything agrees with the *)
(* server on who the user is and holds the token of that seat: whatever it *)
(* gave up, reloaded or lost on the way there, and in whatever order the   *)
(* handlers join, register, read the state, send and clean up.             *)
(***************************************************************************)
THEOREM PageAndRoomAgree == Spec => []PageKnowsItsSeat
<1> QED
  BY InitCInv, NextCInv, CInvKnows, PTL DEF Spec

-----------------------------------------------------------------------------
(* Votes *)

\* Whatever becomes of the page without a socket, its vote has been given up
\* or it is leaving.
LEMMA NextOffline == NothingIsSentOffline /\ [Next]_vars => NothingIsSentOffline'
<1> SUFFICES ASSUME NothingIsSentOffline, [Next]_vars
             PROVE  NothingIsSentOffline'
  OBVIOUS
<1> USE DEF NothingIsSentOffline
<1>1. None \notin Sockets
  BY NoneAssumption DEF Sockets
<1>2. "idle" \notin Pending /\ "skipped" \notin Pending /\ "confirmed" \notin Pending
  BY DEF Pending
<1>3. ASSUME Connect
      PROVE  socket' # None
  <2>1. Unused # {} /\ socket' = CHOOSE s \in Unused : TRUE
    BY <1>3 DEF Connect
  <2>2. socket' \in Unused
    BY <2>1
  <2> QED
    BY <1>1, <2>2 DEF Unused
<1>4. CASE Join \/ FetchFinds
  BY <1>3, <1>4 DEF Join, FetchFinds
<1>5. CASE \/ TimerFires \/ Answer \/ FetchFails \/ FetchMisses
           \/ \E s \in Sockets : OnOpen(s)
  <2>1. UNCHANGED <<socket, leaving, vote>>
    BY <1>5 DEF TimerFires, Answer, FetchFails, FetchMisses, OnOpen, voteVars, reconnectVars
  <2> QED
    BY <2>1
<1>6. ASSUME NEW s \in Sockets, OnClose(s)
      PROVE  NothingIsSentOffline'
  <2>1. CASE socket = s
    BY <1>2, <1>6, <2>1 DEF OnClose, ForgetSocket, VoteGivenUp
  <2>2. CASE socket # s
    BY <1>6, <2>2 DEF OnClose
  <2> QED
    BY <2>1, <2>2
<1>7. ASSUME NEW s \in Sockets, OnMessage(s)
      PROVE  NothingIsSentOffline'
  <2>1. CASE socket = s
    BY <1>1, <1>7, <2>1 DEF OnMessage
  <2>2. CASE socket # s
    BY <1>7, <2>2 DEF OnMessage, voteVars
  <2> QED
    BY <2>1, <2>2
<1>8. CASE \E card \in Cards : SelectCard(card)
  BY <1>2, <1>8 DEF SelectCard, reconnectVars
<1>9. CASE Vote \/ SkipVote
  BY <1>9 DEF Vote, SkipVote, Submit, Sends, reconnectVars
<1>10. CASE Reset \/ Leave \/ Reload
  BY <1>2, <1>10 DEF Reset, Leave, Reload
<1>11. CASE \/ \E s \in Sockets : TimeOut(s) \/ Lose(s)
            \/ HandlersNext \/ OthersAct \/ UNCHANGED vars
  <2>1. UNCHANGED pageVars
    BY <1>11 DEF TimeOut, Lose, HandlersNext, RefuseJoin, AcceptJoin, Register, ClosePrevious,
                 ReadOwnState, ReadState, Reads, Hand, Serve, RefuseMessage, ReadFails, Close,
                 Broadcast, Unregister, LeaveRoom, DeleteIfEmpty,
                 OthersAct, HostActs, HostLeaves, Tick, vars
  <2> QED
    BY <2>1 DEF pageVars, reconnectVars, voteVars
<1> QED
  BY <1>4, <1>5, <1>6, <1>7, <1>8, <1>9, <1>10, <1>11 DEF Next, PageNext, UserActs

(***************************************************************************)
(* However the page loses its socket (onclose, leave, reload), no vote is  *)
(* left as being sent on it, in executions of any length.                  *)
(***************************************************************************)
THEOREM NoVoteHangsOffline == Spec => []NothingIsSentOffline
<1>1. Init => NothingIsSentOffline
  BY DEF Init, NothingIsSentOffline, Pending
<1> QED
  BY <1>1, NextOffline, PTL DEF Spec

=============================================================================
