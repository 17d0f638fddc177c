----------------------------- MODULE HubProofs ------------------------------
(***************************************************************************)
(* Theorems about Hub, for every set of rooms, participants, connections   *)
(* and broadcasts: the map of maps with its tokens is a Directory, and     *)
(* whoever loses its place is closed.                                      *)
(***************************************************************************)
EXTENDS Hub, TLAPS

-----------------------------------------------------------------------------
(* The inductive invariant *)

\* The entry of its place is the connection's.
Current(c) == Has(place[c]) /\ Entry(place[c]).conn = c

Added(c) == stage[c] \in {"in", "removing", "out"}

\* An entry is that of a connection that was added there and has not left, and
\* it has the token that the connection was given.
EntriesAgree ==
    \A k \in Keys : Has(k) =>
        /\ Entry(k).conn \in Live
        /\ place[Entry(k).conn] = k
        /\ token[Entry(k).conn] = Entry(k).token

\* No two connections were given the same token.
TokensDiffer ==
    /\ \A c \in Conns : Added(c) => token[c] # 0
    /\ \A c, d \in Conns : token[c] = token[d] /\ token[c] # 0 => c = d

\* Whoever is to be closed has lost its place, and cannot get it again.
DoomedAreGone ==
    /\ \A c \in Conns : owes[c] # None => stage[c] = "in"
    /\ \A c \in Conns : Doomed(c) => Added(c) /\ ~ Current(c)

\* Whoever has lost its place is to be closed.
GoneAreDoomed ==
    \A c \in Live : closable[c] /\ ~ Current(c) => Doomed(c) \/ c \in removed

IInv == HubTypeOK /\ EntriesAgree /\ TokensDiffer /\ DoomedAreGone /\ GoneAreDoomed

-----------------------------------------------------------------------------
(* The map of maps *)

\* Put changes one entry.
LEMMA PutChangesOne ==
    ASSUME NEW k \in Keys, NEW e, rooms' = Put(k, e), NEW x \in Keys
    PROVE  /\ Has(x)' <=> x = k \/ Has(x)
           /\ Has(x)' => Entry(x)' = IF x = k THEN e ELSE Entry(x)
<1>1. PICK r \in RoomIds, p \in Participants : x = <<r, p>>
  BY DEF Keys
<1>2. PICK s \in RoomIds, q \in Participants : k = <<s, q>>
  BY DEF Keys
<1>3. x = k <=> r = s /\ p = q
  BY <1>1, <1>2
<1>4. /\ Has(x) <=> r \in DOMAIN rooms /\ p \in DOMAIN rooms[r]
      /\ Has(x)' <=> r \in DOMAIN rooms' /\ p \in DOMAIN rooms'[r]
      /\ Entry(x) = rooms[r][p]
      /\ Entry(x)' = rooms'[r][p]
  BY <1>1 DEF Has, Entry
<1>5. DOMAIN rooms' = DOMAIN rooms \cup {s}
  BY <1>2 DEF Put
<1>6. CASE r # s
  <2>1. r \in DOMAIN rooms => rooms'[r] = rooms[r]
    BY <1>2, <1>5, <1>6 DEF Put
  <2>2. QED
    BY <1>3, <1>4, <1>5, <1>6, <2>1
<1>7. CASE r = s /\ s \in DOMAIN rooms
  <2>1. rooms'[r] = [ y \in DOMAIN rooms[s] \cup {q} |-> IF y = q THEN e ELSE rooms[s][y] ]
    BY <1>2, <1>5, <1>7 DEF Put
  <2>2. QED
    BY <1>3, <1>4, <1>5, <1>7, <2>1
<1>8. CASE r = s /\ s \notin DOMAIN rooms
  <2>1. rooms'[r] = [ y \in {q} |-> e ]
    BY <1>2, <1>5, <1>8 DEF Put
  <2>2. QED
    BY <1>3, <1>4, <1>5, <1>8, <2>1
<1>9. QED
  BY <1>6, <1>7, <1>8

\* Drop takes one entry out.
LEMMA DropTakesOne ==
    ASSUME NEW k \in Keys, Has(k), rooms' = Drop(k), NEW x \in Keys
    PROVE  /\ Has(x)' <=> x # k /\ Has(x)
           /\ Has(x)' => Entry(x)' = Entry(x)
<1>1. PICK r \in RoomIds, p \in Participants : x = <<r, p>>
  BY DEF Keys
<1>2. PICK s \in RoomIds, q \in Participants : k = <<s, q>>
  BY DEF Keys
<1>3. x = k <=> r = s /\ p = q
  BY <1>1, <1>2
<1>4. /\ Has(x) <=> r \in DOMAIN rooms /\ p \in DOMAIN rooms[r]
      /\ Has(x)' <=> r \in DOMAIN rooms' /\ p \in DOMAIN rooms'[r]
      /\ Entry(x) = rooms[r][p]
      /\ Entry(x)' = rooms'[r][p]
  BY <1>1 DEF Has, Entry
<1>5. s \in DOMAIN rooms
  BY <1>2 DEF Has
<1> DEFINE left == DOMAIN rooms[s] \ {q}
<1>6. rooms' = [ y \in (IF left = {} THEN DOMAIN rooms \ {s} ELSE DOMAIN rooms) |->
                   [ z \in (IF y = s THEN left ELSE DOMAIN rooms[y]) |-> rooms[y][z] ] ]
  BY <1>2, <1>5 DEF Drop
<1>7. CASE r # s
  <2>1. r \in DOMAIN rooms <=> r \in DOMAIN rooms'
    BY <1>6, <1>7
  <2>2. r \in DOMAIN rooms => rooms'[r] = [ z \in DOMAIN rooms[r] |-> rooms[r][z] ]
    BY <1>6, <1>7
  <2>3. QED
    BY <1>3, <1>4, <1>7, <2>1, <2>2
<1>8. CASE r = s
  <2>1. s \in DOMAIN rooms' <=> left # {}
    BY <1>5, <1>6
  <2>2. s \in DOMAIN rooms' => rooms'[s] = [ z \in left |-> rooms[s][z] ]
    BY <1>5, <1>6
  <2>3. p \in left <=> p # q /\ p \in DOMAIN rooms[s]
    OBVIOUS
  <2>4. QED
    BY <1>3, <1>4, <1>5, <1>8, <2>1, <2>2, <2>3
<1>9. QED
  BY <1>7, <1>8

-----------------------------------------------------------------------------
(* Types *)

\* What HubTypeOK says of the maps.
Nested(bound) ==
    /\ DOMAIN rooms \subseteq RoomIds
    /\ \A r \in DOMAIN rooms :
         /\ DOMAIN rooms[r] # {} /\ DOMAIN rooms[r] \subseteq Participants
         /\ \A p \in DOMAIN rooms[r] : rooms[r][p] \in [ conn : Conns, token : 1..bound ]

\* Put keeps the type of the maps, for a token that may be the next one.
LEMMA PutNested ==
    ASSUME NEW n \in Nat, NEW m \in Nat, n <= m, Nested(n),
           NEW k \in Keys, NEW e \in [ conn : Conns, token : 1..m ], rooms' = Put(k, e)
    PROVE  /\ DOMAIN rooms' \subseteq RoomIds
           /\ \A r \in DOMAIN rooms' :
                /\ DOMAIN rooms'[r] # {} /\ DOMAIN rooms'[r] \subseteq Participants
                /\ \A p \in DOMAIN rooms'[r] :
                      rooms'[r][p] \in [ conn : Conns, token : 1..m ]
<1>1. PICK s \in RoomIds, q \in Participants : k = <<s, q>>
  BY DEF Keys
<1>2. DOMAIN rooms' = DOMAIN rooms \cup {s}
  BY <1>1 DEF Put
<1>3. ASSUME NEW r \in DOMAIN rooms, NEW p \in DOMAIN rooms[r]
      PROVE  rooms[r][p] \in [ conn : Conns, token : 1..m ]
  <2>1. rooms[r][p] \in [ conn : Conns, token : 1..n ]
    BY DEF Nested
  <2>2. 1..n \subseteq 1..m
    OBVIOUS
  <2>3. QED
    BY <2>1, <2>2
<1>4. ASSUME NEW r \in DOMAIN rooms', r # s
      PROVE  r \in DOMAIN rooms /\ rooms'[r] = rooms[r]
  BY <1>1, <1>2, <1>4 DEF Put
<1>5. /\ DOMAIN rooms'[s] # {} /\ DOMAIN rooms'[s] \subseteq Participants
      /\ \A p \in DOMAIN rooms'[s] : rooms'[s][p] \in [ conn : Conns, token : 1..m ]
  <2>1. CASE s \in DOMAIN rooms
    <3>1. rooms'[s] = [ y \in DOMAIN rooms[s] \cup {q} |-> IF y = q THEN e ELSE rooms[s][y] ]
      BY <1>1, <1>2, <2>1 DEF Put
    <3>2. DOMAIN rooms'[s] = DOMAIN rooms[s] \cup {q}
      BY <3>1
    <3>3. DOMAIN rooms[s] \subseteq Participants
      BY <2>1 DEF Nested
    <3>4. \A p \in DOMAIN rooms'[s] : rooms'[s][p] = IF p = q THEN e ELSE rooms[s][p]
      BY <3>1, <3>2
    <3>5. QED
      BY <1>3, <2>1, <3>2, <3>3, <3>4
  <2>2. CASE s \notin DOMAIN rooms
    <3>1. rooms'[s] = [ y \in {q} |-> e ]
      BY <1>1, <1>2, <2>2 DEF Put
    <3>2. QED
      BY <3>1
  <2>3. QED
    BY <2>1, <2>2
<1>6. ASSUME NEW r \in DOMAIN rooms', r # s
      PROVE  /\ DOMAIN rooms'[r] # {} /\ DOMAIN rooms'[r] \subseteq Participants
             /\ \A p \in DOMAIN rooms'[r] : rooms'[r][p] \in [ conn : Conns, token : 1..m ]
  <2>1. r \in DOMAIN rooms /\ rooms'[r] = rooms[r]
    BY <1>4, <1>6
  <2>2. DOMAIN rooms[r] # {} /\ DOMAIN rooms[r] \subseteq Participants
    BY <2>1 DEF Nested
  <2>3. QED
    BY <1>3, <2>1, <2>2
<1>7. DOMAIN rooms' \subseteq RoomIds
  BY <1>2 DEF Nested
<1>8. QED
  BY <1>5, <1>6, <1>7

\* So does Drop, which leaves no room without a connection.
LEMMA DropNested ==
    ASSUME NEW n, Nested(n), NEW k \in Keys, Has(k), rooms' = Drop(k)
    PROVE  /\ DOMAIN rooms' \subseteq RoomIds
           /\ \A r \in DOMAIN rooms' :
                /\ DOMAIN rooms'[r] # {} /\ DOMAIN rooms'[r] \subseteq Participants
                /\ \A p \in DOMAIN rooms'[r] :
                      rooms'[r][p] \in [ conn : Conns, token : 1..n ]
<1>1. PICK s \in RoomIds, q \in Participants : k = <<s, q>>
  BY DEF Keys
<1>2. s \in DOMAIN rooms
  BY <1>1 DEF Has
<1> DEFINE left == DOMAIN rooms[s] \ {q}
<1>3. rooms' = [ y \in (IF left = {} THEN DOMAIN rooms \ {s} ELSE DOMAIN rooms) |->
                   [ z \in (IF y = s THEN left ELSE DOMAIN rooms[y]) |-> rooms[y][z] ] ]
  BY <1>1, <1>2 DEF Drop
<1>4. ASSUME NEW r \in DOMAIN rooms'
      PROVE  /\ r \in DOMAIN rooms
             /\ r = s => left # {}
             /\ rooms'[r] = [ z \in (IF r = s THEN left ELSE DOMAIN rooms[r]) |-> rooms[r][z] ]
  BY <1>3
<1>5. ASSUME NEW r \in DOMAIN rooms'
      PROVE  /\ DOMAIN rooms'[r] # {} /\ DOMAIN rooms'[r] \subseteq DOMAIN rooms[r]
             /\ \A p \in DOMAIN rooms'[r] : rooms'[r][p] = rooms[r][p]
  <2>1. DOMAIN rooms'[r] = IF r = s THEN left ELSE DOMAIN rooms[r]
    BY <1>4
  <2>2. \A p \in DOMAIN rooms'[r] : rooms'[r][p] = rooms[r][p]
    BY <1>4, <2>1
  <2>3. DOMAIN rooms[r] # {}
    BY <1>4 DEF Nested
  <2>4. QED
    BY <1>4, <2>1, <2>2, <2>3
<1>6. QED
  BY <1>4, <1>5 DEF Nested

LEMMA InitTyped == Init => HubTypeOK
<1> SUFFICES ASSUME Init PROVE HubTypeOK
  OBVIOUS
<1>1. DOMAIN rooms = {}
  BY DEF Init, NoRooms
<1>2. QED
  BY <1>1 DEF Init, HubTypeOK

\* What is in the map has the type that HubTypeOK gives it.
LEMMA EntryTyped ==
    ASSUME HubTypeOK, NEW k \in Keys, Has(k)
    PROVE  Entry(k) \in [ conn : Conns, token : 1..nextToken ]
<1>1. PICK r \in RoomIds, p \in Participants : k = <<r, p>>
  BY DEF Keys
<1>2. QED
  BY <1>1 DEF HubTypeOK, Has, Entry

LEMMA NextTyped == HubTypeOK /\ [Next]_vars => HubTypeOK'
<1> SUFFICES ASSUME HubTypeOK, [Next]_vars PROVE HubTypeOK'
  OBVIOUS
<1>0. Nested(nextToken) /\ nextToken \in Nat
  BY DEF HubTypeOK, Nested
<1>1. ASSUME NEW c \in Conns, CallAdd(c) PROVE HubTypeOK'
  BY <1>1 DEF CallAdd, HubTypeOK
<1>2. ASSUME NEW c \in Conns, AddConnection(c) PROVE HubTypeOK'
  <2>1. place[c] \in Keys /\ nextToken' = nextToken + 1
    BY <1>2 DEF AddConnection, HubTypeOK
  <2>2. [ conn |-> c, token |-> nextToken' ] \in [ conn : Conns, token : 1..nextToken' ]
    BY <1>0, <2>1
  <2>3. rooms' = Put(place[c], [ conn |-> c, token |-> nextToken' ])
    BY <1>2 DEF AddConnection
  <2>4. nextToken' \in Nat /\ nextToken <= nextToken'
    BY <1>0, <2>1
  <2>5. /\ DOMAIN rooms' \subseteq RoomIds
        /\ \A r \in DOMAIN rooms' :
             /\ DOMAIN rooms'[r] # {} /\ DOMAIN rooms'[r] \subseteq Participants
             /\ \A p \in DOMAIN rooms'[r] :
                   rooms'[r][p] \in [ conn : Conns, token : 1..nextToken' ]
    BY <1>0, <2>1, <2>2, <2>3, <2>4, PutNested
  <2>6. token' \in [ Conns -> 0..nextToken' ]
    BY <1>0, <1>2, <2>1 DEF AddConnection, HubTypeOK
  <2>7. Previous(c) \in Conns \cup {None}
    BY <2>1, EntryTyped DEF Previous
  <2>8. owes' \in [ Conns -> Conns \cup {None} ]
    BY <1>2, <2>7 DEF AddConnection, HubTypeOK
  <2>9. QED
    BY <1>2, <2>4, <2>5, <2>6, <2>8 DEF AddConnection, HubTypeOK
<1>3. ASSUME NEW c \in Conns, ClosePrevious(c) PROVE HubTypeOK'
  BY <1>3 DEF ClosePrevious, HubTypeOK
<1>4. ASSUME NEW c \in Conns, CallRemove(c) PROVE HubTypeOK'
  BY <1>4 DEF CallRemove, HubTypeOK
<1>5. ASSUME NEW c \in Conns, RemoveConnection(c) PROVE HubTypeOK'
  <2>1. place[c] \in Keys
    BY DEF HubTypeOK
  <2>2. CASE IsCurrent(c)
    <3>1. Has(place[c]) /\ rooms' = Drop(place[c])
      BY <1>5, <2>2 DEF RemoveConnection, IsCurrent
    <3>2. QED
      BY <1>0, <1>5, <2>1, <3>1, DropNested DEF RemoveConnection, HubTypeOK
  <2>3. CASE ~ IsCurrent(c)
    BY <1>5, <2>3 DEF RemoveConnection, HubTypeOK
  <2>4. QED
    BY <2>2, <2>3
<1>6. ASSUME NEW k \in Keys, Remove(k) PROVE HubTypeOK'
  <2>1. Has(k) /\ rooms' = Drop(k)
    BY <1>6 DEF Remove
  <2>2. removed' \subseteq Conns
    BY <1>6, <2>1, EntryTyped DEF Remove, HubTypeOK
  <2>3. QED
    BY <1>0, <1>6, <2>1, <2>2, DropNested DEF Remove, callers, HubTypeOK
<1>7. ASSUME NEW b \in Broadcasts, NEW r \in RoomIds, Copy(b, r) PROVE HubTypeOK'
  <2> DEFINE S == { c \in Conns : place[c][1] = r /\ Has(place[c]) /\ Entry(place[c]).conn = c }
  <2>1. casts' = [ casts EXCEPT ![b] = [ at |-> "copied", senders |-> S, calling |-> None ] ]
    BY <1>7 DEF Copy
  <2>2. S \subseteq Conns
    OBVIOUS
  <2> HIDE DEF S
  <2>3. casts' \in [ Broadcasts -> [ at : {"new", "copied", "sending", "done"},
                                    senders : SUBSET Conns, calling : Conns \cup {None} ] ]
    BY <2>1, <2>2 DEF HubTypeOK
  <2>4. QED
    BY <1>7, <2>3 DEF Copy, callers, HubTypeOK
<1>8. ASSUME NEW b \in Broadcasts, NEW c \in Conns, Send(b, c) PROVE HubTypeOK'
  BY <1>8 DEF Send, callers, HubTypeOK
<1>9. ASSUME NEW b \in Broadcasts, RUnlock(b) \/ SenderReturns(b) \/ BroadcastReturns(b)
      PROVE  HubTypeOK'
  BY <1>9 DEF RUnlock, SenderReturns, BroadcastReturns, callers, HubTypeOK
<1>10. CASE UNCHANGED vars
  BY <1>10 DEF vars, callers, HubTypeOK
<1>11. QED
  BY <1>1, <1>2, <1>3, <1>4, <1>5, <1>6, <1>7, <1>8, <1>9, <1>10 DEF Next

-----------------------------------------------------------------------------
(* The invariant is inductive *)

LEMMA InitIInv == Init => IInv
<1> SUFFICES ASSUME Init PROVE IInv
  OBVIOUS
<1>1. \A k \in Keys : ~ Has(k)
  BY DEF Init, NoRooms, Has
<1>2. \A c \in Conns : ~ Added(c) /\ ~ Doomed(c) /\ token[c] = 0 /\ owes[c] = None
  BY NoneAssumption DEF Init, Added, Doomed
<1>3. Live = {}
  BY DEF Init, Live
<1>4. QED
  BY <1>1, <1>2, <1>3, InitTyped
  DEF IInv, EntriesAgree, TokensDiffer, DoomedAreGone, GoneAreDoomed

\* Steps that leave the map, the tokens and who is to be closed alone.
LEMMA StutterIInv ==
    ASSUME IInv, HubTypeOK',
           UNCHANGED <<rooms, place, closable, token, owes, closed, removed>>,
           \A c \in Conns : /\ Added(c)' <=> Added(c)
                            /\ stage'[c] \in {"in", "removing"} <=> stage[c] \in {"in", "removing"}
                            /\ owes[c] # None => stage'[c] = stage[c]
    PROVE  IInv'
<1>1. Live' = Live
  BY DEF Live
<1>2. \A k \in Keys : Has(k)' = Has(k) /\ Entry(k)' = Entry(k)
  BY DEF Has, Entry
<1>3. \A c \in Conns : place'[c] = place[c] /\ place[c] \in Keys
  BY DEF IInv, HubTypeOK
<1>4. \A c \in Conns : Current(c)' = Current(c) /\ Doomed(c)' = Doomed(c)
  BY <1>2, <1>3 DEF Current, Doomed
<1>5. EntriesAgree'
  BY <1>1, <1>2 DEF IInv, EntriesAgree
<1>6. TokensDiffer'
  BY DEF IInv, TokensDiffer
<1>7. DoomedAreGone'
  BY <1>4 DEF IInv, DoomedAreGone
<1>8. GoneAreDoomed'
  BY <1>1, <1>4 DEF IInv, GoneAreDoomed, Live
<1>9. QED
  BY <1>5, <1>6, <1>7, <1>8 DEF IInv

\* A connection is in the map at its own place, if anywhere.
LEMMA CurrentIsEntry ==
    ASSUME IInv, NEW c \in Conns, NEW k \in Keys, Has(k)
    PROVE  Entry(k).conn = c => k = place[c] /\ Current(c)
BY DEF IInv, EntriesAgree, Current

\* What AddConnection does: c takes its place, and owes its predecessor a close.
LEMMA AddConnectionIInv ==
    ASSUME IInv, HubTypeOK', NEW c \in Conns, AddConnection(c)
    PROVE  IInv'
<1> DEFINE k == place[c]
           e == [ conn |-> c, token |-> nextToken' ]
<1>1. /\ k \in Keys /\ stage[c] = "adding" /\ ~ Added(c)
      /\ stage' = [ stage EXCEPT ![c] = "in" ]
      /\ token' = [ token EXCEPT ![c] = nextToken' ]
      /\ nextToken' = nextToken + 1 /\ nextToken \in Nat
      /\ UNCHANGED <<place, closable, closed, removed>>
  BY DEF AddConnection, Added, IInv, HubTypeOK
<1>2. \A x \in Keys : /\ Has(x)' <=> x = k \/ Has(x)
                      /\ Has(x)' => Entry(x)' = IF x = k THEN e ELSE Entry(x)
  BY <1>1, PutChangesOne DEF AddConnection
<1>3. /\ Live' = Live \cup {c} /\ c \notin Live
      /\ \A d \in Conns : Added(d)' <=> d = c \/ Added(d)
  BY <1>1 DEF Live, Added, IInv, HubTypeOK
<1>4. ~ Doomed(c) /\ owes[c] = None
  BY <1>1 DEF IInv, DoomedAreGone
<1>5. \A d \in Conns : place'[d] = place[d] /\ place[d] \in Keys
  BY <1>1 DEF IInv, HubTypeOK
<1>6. Current(c)'
  BY <1>1, <1>2, <1>5 DEF Current
<1>7. \A d \in Conns \ {c} : Current(d)' <=> Current(d) /\ place[d] # k
  BY <1>1, <1>2, <1>5 DEF Current
<1>8. owes' = [ owes EXCEPT ![c] = IF Previous(c) # None /\ closable[Previous(c)]
                                   THEN Previous(c) ELSE None ]
  BY DEF AddConnection
<1>9. Previous(c) # None =>
        /\ Previous(c) \in Live \ {c} /\ place[Previous(c)] = k /\ Current(Previous(c))
  BY <1>1, <1>3 DEF Previous, IInv, EntriesAgree, Current
<1>10. \A d \in Conns : Current(d) /\ place[d] = k => d = Previous(c)
  BY DEF Current, Previous
<1>11. \A d \in Conns :
         Doomed(d)' <=> Doomed(d) \/ (d = Previous(c) /\ closable[d])
  BY <1>1, <1>4, <1>8, NoneAssumption DEF Doomed, IInv, HubTypeOK
<1>12. EntriesAgree'
  <2> SUFFICES ASSUME NEW x \in Keys, Has(x)'
               PROVE  /\ Entry(x)'.conn \in Live'
                      /\ place'[Entry(x)'.conn] = x
                      /\ token'[Entry(x)'.conn] = Entry(x)'.token
    BY DEF EntriesAgree
  <2>1. CASE x = k
    <3>1. Entry(x)' = e
      BY <1>2, <2>1
    <3>2. QED
      BY <1>1, <1>3, <1>5, <2>1, <3>1 DEF IInv, HubTypeOK
  <2>2. CASE x # k
    <3>1. Has(x) /\ Entry(x)' = Entry(x)
      BY <1>2, <2>2
    <3>2. /\ Entry(x).conn \in Live /\ place[Entry(x).conn] = x
          /\ token[Entry(x).conn] = Entry(x).token
      BY <3>1 DEF IInv, EntriesAgree
    <3>3. Entry(x).conn \in Conns \ {c}
      BY <1>3, <3>2 DEF Live
    <3>4. token'[Entry(x).conn] = token[Entry(x).conn]
      BY <1>1, <3>3 DEF IInv, HubTypeOK
    <3>5. QED
      BY <1>3, <1>5, <3>1, <3>2, <3>3, <3>4
  <2>3. QED
    BY <2>1, <2>2
<1>13. TokensDiffer'
  <2>1. token'[c] = nextToken + 1
    BY <1>1 DEF IInv, HubTypeOK
  <2>2. \A d \in Conns \ {c} : token'[d] = token[d] /\ token[d] \in 0..nextToken
    BY <1>1 DEF IInv, HubTypeOK
  <2>3. \A d \in Conns : Added(d)' => token'[d] # 0
    BY <1>1, <1>3, <2>1, <2>2 DEF IInv, TokensDiffer
  <2>4. \A d \in Conns \ {c} : token'[d] # token'[c]
    BY <1>1, <2>1, <2>2
  <2>5. \A a, b \in Conns : token'[a] = token'[b] /\ token'[a] # 0 => a = b
    BY <2>2, <2>4 DEF IInv, TokensDiffer
  <2>6. QED
    BY <2>3, <2>5 DEF TokensDiffer
<1>14. DoomedAreGone'
  <2>1. \A d \in Conns : owes'[d] # None => stage'[d] = "in"
    BY <1>1, <1>8 DEF IInv, DoomedAreGone, HubTypeOK
  <2>2. \A d \in Conns : Doomed(d)' => Added(d)' /\ ~ Current(d)'
    <3> SUFFICES ASSUME NEW d \in Conns, Doomed(d)'
                 PROVE  Added(d)' /\ ~ Current(d)'
      OBVIOUS
    <3>1. CASE Doomed(d)
      BY <1>3, <1>4, <1>7, <3>1 DEF IInv, DoomedAreGone
    <3>2. CASE d = Previous(c)
      <4>1. Previous(c) # None
        BY <3>2, NoneAssumption
      <4>2. d \in Live \ {c} /\ place[d] = k
        BY <1>9, <3>2, <4>1
      <4>3. QED
        BY <1>3, <1>7, <4>2 DEF Live, Added
    <3>3. QED
      BY <1>11, <3>1, <3>2
  <2>3. QED
    BY <2>1, <2>2 DEF DoomedAreGone
<1>15. GoneAreDoomed'
  <2> SUFFICES ASSUME NEW d \in Live', closable'[d], ~ Current(d)'
               PROVE  Doomed(d)' \/ d \in removed'
    BY DEF GoneAreDoomed
  <2>1. d \in Live /\ d \in Conns \ {c} /\ closable[d]
    BY <1>1, <1>3, <1>6 DEF Live
  <2>2. CASE Current(d)
    BY <1>7, <1>10, <1>11, <2>1, <2>2
  <2>3. CASE ~ Current(d)
    BY <1>1, <1>11, <2>1, <2>3 DEF IInv, GoneAreDoomed
  <2>4. QED
    BY <2>2, <2>3
<1>16. QED
  BY <1>12, <1>13, <1>14, <1>15 DEF IInv

\* Whoever is closed now was to be closed before.
LEMMA ClosePreviousIInv ==
    ASSUME IInv, HubTypeOK', NEW c \in Conns, ClosePrevious(c)
    PROVE  IInv'
<1>1. /\ owes[c] \in Conns /\ closed' = closed \cup {owes[c]}
      /\ owes' = [ owes EXCEPT ![c] = None ]
      /\ UNCHANGED <<rooms, stage, place, closable, token, removed>>
  BY DEF ClosePrevious, IInv, HubTypeOK
<1>2. \A d \in Conns : Doomed(d)' <=> Doomed(d)
  BY <1>1, NoneAssumption DEF Doomed, IInv, HubTypeOK
<1>3. Live' = Live /\ \A d \in Conns : Added(d)' <=> Added(d)
  BY <1>1 DEF Live, Added
<1>4. \A k \in Keys : Has(k)' = Has(k) /\ Entry(k)' = Entry(k)
  BY <1>1 DEF Has, Entry
<1>5. \A d \in Conns : Current(d)' <=> Current(d)
  BY <1>1 DEF Current, Has, Entry
<1>6. EntriesAgree'
  BY <1>1, <1>3, <1>4 DEF IInv, EntriesAgree
<1>7. TokensDiffer'
  BY <1>1, <1>3 DEF IInv, TokensDiffer
<1>8. DoomedAreGone'
  <2>1. \A d \in Conns : owes'[d] # None => owes[d] # None
    BY <1>1 DEF IInv, HubTypeOK
  <2>2. QED
    BY <1>1, <1>2, <1>3, <1>5, <2>1 DEF IInv, DoomedAreGone
<1>9. GoneAreDoomed'
  BY <1>1, <1>2, <1>3, <1>5 DEF IInv, GoneAreDoomed, Live
<1>10. QED
  BY <1>6, <1>7, <1>8, <1>9 DEF IInv

\* The token of the entry is a connection's only if the entry is.
LEMMA TokenTellsWho ==
    ASSUME IInv, NEW c \in Conns, Added(c)
    PROVE  IsCurrent(c) <=> Current(c)
<1>1. place[c] \in Keys /\ token[c] # 0
  BY DEF IInv, HubTypeOK, TokensDiffer
<1>2. CASE ~ Has(place[c])
  BY <1>2 DEF IsCurrent, Current
<1>3. CASE Has(place[c])
  <2>1. /\ Entry(place[c]).conn \in Conns
        /\ token[Entry(place[c]).conn] = Entry(place[c]).token
    BY <1>1, <1>3 DEF IInv, EntriesAgree, Live
  <2>2. Entry(place[c]).conn = c <=> token[Entry(place[c]).conn] = token[c]
    BY <1>1, <2>1 DEF IInv, TokensDiffer
  <2>3. QED
    BY <1>3, <2>1, <2>2 DEF IsCurrent, Current
<1>4. QED
  BY <1>2, <1>3

\* A connection that leaves takes out its own entry or none.
LEMMA RemoveConnectionIInv ==
    ASSUME IInv, HubTypeOK', NEW c \in Conns, RemoveConnection(c)
    PROVE  IInv'
<1>1. /\ place[c] \in Keys /\ stage[c] = "removing" /\ Added(c)
      /\ stage' = [ stage EXCEPT ![c] = "out" ]
      /\ UNCHANGED <<place, closable, token, owes, closed, removed>>
  BY DEF RemoveConnection, Added, IInv, HubTypeOK
<1>2. /\ Live' = Live \ {c} /\ Live \subseteq Conns
      /\ \A d \in Conns : Added(d)' <=> Added(d)
  BY <1>1 DEF Live, Added, IInv, HubTypeOK
<1>3. \A x \in Keys : /\ Has(x)' <=> Has(x) /\ ~ (Current(c) /\ x = place[c])
                      /\ Has(x)' => Entry(x)' = Entry(x)
  <2>1. CASE Current(c)
    <3>1. IsCurrent(c)
      BY <1>1, <2>1, TokenTellsWho
    <3>2. rooms' = Drop(place[c]) /\ Has(place[c])
      BY <3>1 DEF RemoveConnection, IsCurrent
    <3>3. QED
      BY <1>1, <2>1, <3>2, DropTakesOne
  <2>2. CASE ~ Current(c)
    <3>1. rooms' = rooms
      BY <1>1, <2>2, TokenTellsWho DEF RemoveConnection
    <3>2. QED
      BY <2>2, <3>1 DEF Has, Entry
  <2>3. QED
    BY <2>1, <2>2
<1>4. ASSUME NEW x \in Keys, Has(x)' PROVE Entry(x).conn # c /\ Entry(x)' = Entry(x) /\ Has(x)
  BY <1>3, <1>4, CurrentIsEntry
<1>5. \A d \in Conns : place'[d] = place[d] /\ place[d] \in Keys
  BY <1>1 DEF IInv, HubTypeOK
<1>6. \A d \in Conns \ {c} : Current(d)' <=> Current(d)
  BY <1>3, <1>5 DEF Current
<1>7. ~ Current(c)'
  BY <1>4, <1>5 DEF Current
<1>8. \A d \in Conns : Doomed(d)' <=> Doomed(d)
  BY <1>1 DEF Doomed
<1>9. EntriesAgree'
  BY <1>1, <1>2, <1>4 DEF IInv, EntriesAgree
<1>10. TokensDiffer'
  BY <1>1, <1>2 DEF IInv, TokensDiffer
<1>11. DoomedAreGone'
  <2>1. \A d \in Conns : owes'[d] # None => stage'[d] = "in"
    BY <1>1 DEF IInv, DoomedAreGone, HubTypeOK
  <2>2. QED
    BY <1>2, <1>6, <1>7, <1>8, <2>1 DEF IInv, DoomedAreGone
<1>12. GoneAreDoomed'
  BY <1>1, <1>2, <1>6, <1>8 DEF IInv, GoneAreDoomed
<1>13. QED
  BY <1>9, <1>10, <1>11, <1>12 DEF IInv

\* Remove takes out one entry, and remembers whose.
LEMMA RemoveIInv ==
    ASSUME IInv, HubTypeOK', NEW k \in Keys, Remove(k)
    PROVE  IInv'
<1>1. /\ Has(k) /\ rooms' = Drop(k) /\ removed' = removed \cup {Entry(k).conn}
      /\ UNCHANGED <<stage, place, closable, token, owes, closed>>
  BY DEF Remove, callers
<1>2. \A x \in Keys : /\ Has(x)' <=> Has(x) /\ x # k
                      /\ Has(x)' => Entry(x)' = Entry(x)
  BY <1>1, DropTakesOne
<1>3. Live' = Live /\ \A d \in Conns : Added(d)' <=> Added(d)
  BY <1>1 DEF Live, Added
<1>4. \A d \in Conns : place'[d] = place[d] /\ place[d] \in Keys
  BY <1>1 DEF IInv, HubTypeOK
<1>5. \A d \in Conns : Current(d)' <=> Current(d) /\ place[d] # k
  BY <1>2, <1>4 DEF Current
<1>6. \A d \in Conns : Doomed(d)' <=> Doomed(d)
  BY <1>1 DEF Doomed
<1>7. EntriesAgree'
  BY <1>1, <1>2, <1>3 DEF IInv, EntriesAgree
<1>8. TokensDiffer'
  BY <1>1, <1>3 DEF IInv, TokensDiffer
<1>9. DoomedAreGone'
  BY <1>1, <1>3, <1>5, <1>6 DEF IInv, DoomedAreGone
<1>10. GoneAreDoomed'
  <2> SUFFICES ASSUME NEW d \in Live, closable[d], ~ Current(d)'
               PROVE  Doomed(d)' \/ d \in removed'
    BY <1>1, <1>3 DEF GoneAreDoomed
  <2>1. d \in Conns
    BY DEF Live
  <2>2. CASE Current(d)
    <3>1. Entry(k).conn = d
      BY <1>5, <2>1, <2>2 DEF Current
    <3>2. QED
      BY <1>1, <3>1
  <2>3. CASE ~ Current(d)
    BY <1>1, <1>6, <2>1, <2>3 DEF IInv, GoneAreDoomed
  <2>4. QED
    BY <2>2, <2>3
<1>11. QED
  BY <1>7, <1>8, <1>9, <1>10 DEF IInv

LEMMA NextIInv == IInv /\ [Next]_vars => IInv'
<1> SUFFICES ASSUME IInv, [Next]_vars PROVE IInv'
  OBVIOUS
<1>1. HubTypeOK'
  BY NextTyped DEF IInv
<1>2. ASSUME NEW c \in Conns, CallAdd(c) \/ CallRemove(c) PROVE IInv'
  <2>1. UNCHANGED <<rooms, place, closable, token, owes, closed, removed>>
    BY <1>2 DEF CallAdd, CallRemove
  <2>2. ASSUME NEW d \in Conns
        PROVE  /\ Added(d)' <=> Added(d)
               /\ stage'[d] \in {"in", "removing"} <=> stage[d] \in {"in", "removing"}
               /\ owes[d] # None => stage'[d] = stage[d]
    BY <1>2 DEF CallAdd, CallRemove, Added, IInv, HubTypeOK, DoomedAreGone
  <2>3. QED
    BY <1>1, <2>1, <2>2, StutterIInv
<1>3. ASSUME NEW b \in Broadcasts,
             \/ \E r \in RoomIds : Copy(b, r)
             \/ \E c \in Conns : Send(b, c)
             \/ RUnlock(b) \/ SenderReturns(b) \/ BroadcastReturns(b)
      PROVE  IInv'
  <2>1. UNCHANGED <<rooms, stage, place, closable, token, owes, closed, removed>>
    BY <1>3 DEF Copy, Send, RUnlock, SenderReturns, BroadcastReturns, callers
  <2>2. QED
    BY <1>1, <2>1, StutterIInv DEF Added
<1>4. CASE UNCHANGED vars
  <2>1. UNCHANGED <<rooms, stage, place, closable, token, owes, closed, removed>>
    BY <1>4 DEF vars, callers
  <2>2. QED
    BY <1>1, <2>1, StutterIInv DEF Added
<1>5. ASSUME NEW c \in Conns, AddConnection(c) \/ ClosePrevious(c) \/ RemoveConnection(c)
      PROVE  IInv'
  BY <1>1, <1>5, AddConnectionIInv, ClosePreviousIInv, RemoveConnectionIInv
<1>6. ASSUME NEW k \in Keys, Remove(k) PROVE IInv'
  BY <1>1, <1>6, RemoveIInv
<1>7. QED
  BY <1>2, <1>3, <1>4, <1>5, <1>6 DEF Next

LEMMA SpecIInv == Spec => []IInv
<1>1. Init => IInv
  BY InitIInv
<1>2. IInv /\ [Next]_vars => IInv'
  BY NextIInv
<1>3. QED
  BY <1>1, <1>2, PTL DEF Spec

-----------------------------------------------------------------------------
(* The theorems *)

\* The maps have their types, the tokens are dealt out in order, and no room
\* is kept in the map without a connection (hub.go, Remove and
\* RemoveConnection).
THEOREM HubTypeCorrect == Spec => []HubTypeOK
<1>1. IInv => HubTypeOK
  BY DEF IInv
<1>2. QED
  BY <1>1, SpecIInv, PTL

\* A connection that lost its place to another is closed or about to be, and
\* nobody else is (hub.go, AddConnection; server.go, ws).
THEOREM ReplacedClose == Spec => []ReplacedAreClosed
<1>1. IInv => ReplacedAreClosed
  <2> SUFFICES ASSUME IInv, NEW c \in Conns
               PROVE  /\ Doomed(c) => Flat[place[c]] # c
                      /\ c \in Live /\ closable[c] /\ Flat[place[c]] # c
                            => Doomed(c) \/ c \in removed
    BY DEF ReplacedAreClosed
  <2>1. place[c] \in Keys
    BY DEF IInv, HubTypeOK
  <2>2. Flat[place[c]] = c <=> Current(c)
    BY <2>1, NoneAssumption DEF Flat, Current
  <2>3. QED
    BY <2>2 DEF IInv, DoomedAreGone, GoneAreDoomed
<1>2. QED
  BY <1>1, SpecIInv, PTL

\* Flat is a function on Keys, and depends on the map alone.
LEMMA FlatIs ==
    ASSUME NEW x \in Keys
    PROVE  /\ Flat = [ k \in Keys |-> Flat[k] ] /\ Flat' = [ k \in Keys |-> Flat'[k] ]
           /\ Flat[x] = IF Has(x) THEN Entry(x).conn ELSE None
           /\ Flat'[x] = IF Has(x)' THEN Entry(x)'.conn ELSE None
BY DEF Flat

LEMMA AddIsAdd ==
    ASSUME IInv, NEW c \in Conns, AddConnection(c)
    PROVE  c \notin Live /\ Dir!Add(place[c], c)
<1>1. place[c] \in Keys /\ rooms' = Put(place[c], [ conn |-> c, token |-> nextToken' ])
  BY DEF AddConnection, IInv, HubTypeOK
<1>2. Live' = Live \cup {c} /\ c \notin Live
  BY DEF AddConnection, Live, IInv, HubTypeOK
<1>3. ASSUME NEW x \in Keys
      PROVE  Flat'[x] = IF x = place[c] THEN c ELSE Flat[x]
  BY <1>1, PutChangesOne, FlatIs
<1>4. Flat' = [ Flat EXCEPT ![place[c]] = c ]
  BY <1>3 DEF Flat
<1>5. QED
  BY <1>2, <1>4 DEF Dir!Add

LEMMA RemoveConnectionIsLeave ==
    ASSUME IInv, NEW c \in Conns, RemoveConnection(c)
    PROVE  Dir!Leave(c)
<1>1. place[c] \in Keys /\ Added(c)
  BY DEF RemoveConnection, Added, IInv, HubTypeOK
<1>2. Live' = Live \ {c} /\ c \in Live
  BY DEF RemoveConnection, Live, IInv, HubTypeOK
<1>3. ASSUME NEW x \in Keys
      PROVE  Flat'[x] = IF Flat[x] = c THEN None ELSE Flat[x]
  <2>1. Flat[x] = c <=> x = place[c] /\ Current(c)
    BY <1>1, CurrentIsEntry, FlatIs, NoneAssumption DEF Current
  <2>2. CASE Current(c)
    <3>1. rooms' = Drop(place[c]) /\ Has(place[c])
      BY <1>1, <2>2, TokenTellsWho DEF RemoveConnection, IsCurrent
    <3>2. QED
      BY <1>1, <2>1, <2>2, <3>1, DropTakesOne, FlatIs
  <2>3. CASE ~ Current(c)
    <3>1. rooms' = rooms
      BY <1>1, <2>3, TokenTellsWho DEF RemoveConnection
    <3>2. Flat' = Flat
      BY <3>1 DEF Flat, Has, Entry
    <3>3. QED
      BY <2>1, <2>3, <3>2
  <2>4. QED
    BY <2>2, <2>3
<1>4. Flat' = [ k \in Keys |-> IF Flat[k] = c THEN None ELSE Flat[k] ]
  BY <1>3 DEF Flat
<1>5. QED
  BY <1>2, <1>4 DEF Dir!Leave

LEMMA RemoveIsForget ==
    ASSUME IInv, NEW k \in Keys, Remove(k)
    PROVE  Dir!Forget(k)
<1>1. Has(k) /\ rooms' = Drop(k) /\ Live' = Live
  BY DEF Remove, callers, Live
<1>2. ASSUME NEW x \in Keys PROVE Flat'[x] = IF x = k THEN None ELSE Flat[x]
  BY <1>1, DropTakesOne, FlatIs
<1>3. Flat' = [ Flat EXCEPT ![k] = None ]
  BY <1>2 DEF Flat
<1>4. QED
  BY <1>1, <1>3 DEF Dir!Forget

\* The hub, with its map of maps and its tokens, is a Directory: a connection
\* that was replaced never takes out its successor, and the departure of one
\* participant leaves the others alone (hub.go).
THEOREM ImplementsDirectory == Spec => IsDirectory
<1>1. Init => Dir!Init
  <2> SUFFICES ASSUME Init PROVE Dir!Init
    OBVIOUS
  <2>1. \A k \in Keys : ~ Has(k)
    BY DEF Init, NoRooms, Has
  <2>2. Live = {}
    BY DEF Init, Live
  <2>3. Flat = [ k \in Keys |-> None ]
    BY <2>1 DEF Flat
  <2>4. QED
    BY <2>2, <2>3 DEF Dir!Init
<1>2. IInv /\ [Next]_vars => [Dir!Next]_(Dir!vars)
  <2> SUFFICES ASSUME IInv, [Next]_vars PROVE [Dir!Next]_(Dir!vars)
    OBVIOUS
  <2>1. ASSUME NEW c \in Conns, AddConnection(c) PROVE Dir!Next
    <3>1. place[c] \in Keys
      BY DEF IInv, HubTypeOK
    <3>2. QED
      BY <2>1, <3>1, AddIsAdd DEF Dir!Next
  <2>2. ASSUME NEW c \in Conns, RemoveConnection(c) PROVE Dir!Next
    BY <2>2, RemoveConnectionIsLeave DEF Dir!Next
  <2>3. ASSUME NEW k \in Keys, Remove(k) PROVE Dir!Next
    BY <2>3, RemoveIsForget DEF Dir!Next
  <2>4. ASSUME rooms' = rooms, Live' = Live PROVE UNCHANGED Dir!vars
    BY <2>4 DEF Dir!vars, Flat, Has, Entry
  <2>5. ASSUME NEW c \in Conns, CallAdd(c) \/ ClosePrevious(c) \/ CallRemove(c)
        PROVE  UNCHANGED Dir!vars
    <3>1. rooms' = rooms
      BY <2>5 DEF CallAdd, ClosePrevious, CallRemove
    <3>2. Live' = Live
      BY <2>5 DEF CallAdd, ClosePrevious, CallRemove, Live, IInv, HubTypeOK
    <3>3. QED
      BY <2>4, <3>1, <3>2
  <2>6. ASSUME NEW b \in Broadcasts,
               \/ \E r \in RoomIds : Copy(b, r)
               \/ \E c \in Conns : Send(b, c)
               \/ RUnlock(b) \/ SenderReturns(b) \/ BroadcastReturns(b)
        PROVE  UNCHANGED Dir!vars
    <3>1. rooms' = rooms /\ stage' = stage
      BY <2>6 DEF Copy, Send, RUnlock, SenderReturns, BroadcastReturns, callers
    <3>2. QED
      BY <2>4, <3>1 DEF Live
  <2>7. CASE UNCHANGED vars
    <3>1. rooms' = rooms /\ stage' = stage
      BY <2>7 DEF vars, callers
    <3>2. QED
      BY <2>4, <3>1 DEF Live
  <2>8. QED
    BY <2>1, <2>2, <2>3, <2>5, <2>6, <2>7 DEF Next
<1>3. QED
  BY <1>1, <1>2, SpecIInv, PTL DEF Spec, IsDirectory, Dir!Spec
=============================================================================
