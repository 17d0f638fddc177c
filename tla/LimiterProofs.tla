---------------------------- MODULE LimiterProofs ----------------------------
(***************************************************************************)
(* The rate limiters keep the promise of Buckets, for every number of      *)
(* addresses, every rate and burst and every size of the table: a bucket   *)
(* that is forgotten would have been full, one that is refilled when it is *)
(* used has what it would have gained by then, and the table is never      *)
(* larger than it may be.                                                  *)
(***************************************************************************)
EXTENDS Limiter, FiniteSetTheorems, TLAPS

-----------------------------------------------------------------------------
(* The invariant *)

LInv ==
    /\ entries \in [ DOMAIN entries -> Bucket ]
    /\ DOMAIN entries \subseteq Addresses
    /\ bucket \in Bucket

LEMMA FullAndExpiry ==
    /\ Full \in Nat /\ Cost \in Nat /\ Full >= Cost /\ Cost > 0
    /\ Expiry \in Nat /\ Expiry >= 2 * Full
<1>1. \A b, c \in Nat \ {0} : b * c \in Nat /\ b * c >= c
  OBVIOUS
<1>2. Full \in Nat /\ Full >= Cost
  BY <1>1, LimiterAssumption DEF Full
<1> QED
  BY <1>2, LimiterAssumption DEF Expiry

-----------------------------------------------------------------------------
(* One bucket *)

LEMMA RefilledFacts ==
    ASSUME NEW b \in Bucket
    PROVE  /\ Refilled(b) \in Bucket
           /\ Refilled(b).idle = 0
           /\ Refilled(b).tokens = IF b.tokens + b.idle < Full THEN b.tokens + b.idle ELSE Full
           /\ b.idle > Expiry => Refilled(b).tokens = Full
BY FullAndExpiry DEF Refilled, Bucket

LEMMA RefilledAgain ==
    ASSUME NEW b \in Bucket, b.idle = 0
    PROVE  Refilled(b).tokens = b.tokens
BY FullAndExpiry, RefilledFacts DEF Bucket

LEMMA ChargedFacts ==
    ASSUME NEW b \in Bucket
    PROVE  /\ Charged(b) \in Bucket
           /\ Refilled(Charged(b)).tokens =
                IF Suffices(b) THEN Refilled(b).tokens - Cost ELSE Refilled(b).tokens
<1> DEFINE f == Refilled(b)
           c == [ f EXCEPT !.tokens = IF @ < Cost THEN @ ELSE @ - Cost ]
<1>1. f \in Bucket /\ f.idle = 0
  BY RefilledFacts
<1>2. Suffices(b) <=> f.tokens >= Cost
  BY DEF Suffices
<1> HIDE DEF f
<1>3. /\ c \in Bucket /\ c.idle = 0
      /\ c.tokens = IF f.tokens >= Cost THEN f.tokens - Cost ELSE f.tokens
  BY <1>1, FullAndExpiry DEF Bucket
<1>4. Charged(b) = c
  BY DEF Charged, f
<1> HIDE DEF c
<1>5. Refilled(c).tokens = c.tokens
  BY <1>3, RefilledAgain
<1> QED
  BY <1>2, <1>3, <1>4, <1>5 DEF f

LEMMA AgedFacts ==
    ASSUME NEW b \in Bucket
    PROVE  /\ Aged(b) \in Bucket
           /\ Refilled(Aged(b)).tokens =
                IF Refilled(b).tokens < Full THEN Refilled(b).tokens + 1 ELSE Full
<1>1. /\ Aged(b) \in Bucket
      /\ Aged(b).tokens = b.tokens
      /\ Aged(b).idle = IF b.idle > Expiry THEN b.idle ELSE b.idle + 1
  BY FullAndExpiry DEF Aged, Bucket
<1>2. /\ Refilled(b).tokens = IF b.tokens + b.idle < Full THEN b.tokens + b.idle ELSE Full
      /\ Refilled(Aged(b)).tokens =
            IF Aged(b).tokens + Aged(b).idle < Full THEN Aged(b).tokens + Aged(b).idle ELSE Full
  BY <1>1, RefilledFacts
<1> QED
  BY <1>1, <1>2, FullAndExpiry DEF Bucket

-----------------------------------------------------------------------------
(* The table *)

\* What address k could use, given the table f.
LevelIn(f, k) == IF k \in DOMAIN f THEN Refilled(f[k]).tokens ELSE Full

LEMMA LevelFacts ==
    /\ DOMAIN Level = Addresses \cup {Connection}
    /\ Level[Connection] = Refilled(bucket).tokens
    /\ \A k \in Addresses : Level[k] = LevelIn(entries, k)
BY LimiterAssumption DEF Level, LevelIn

\* To forget the expired changes nobody's level, and to store a bucket only
\* that of its address.
LEMMA KeptFacts ==
    ASSUME LInv
    PROVE  /\ DOMAIN Kept = Unexpired
           /\ Unexpired \subseteq DOMAIN entries
           /\ Kept \in [ Unexpired -> Bucket ]
           /\ \A k \in Addresses : LevelIn(Kept, k) = LevelIn(entries, k)
           /\ \A k \in Addresses \ Unexpired : LevelIn(entries, k) = Full
<1>1. /\ DOMAIN Kept = Unexpired
      /\ \A k \in Unexpired : Kept[k] = entries[k]
  BY DEF Kept, Restrict
<1>2. Unexpired \subseteq DOMAIN entries
  BY DEF Unexpired
<1>3. Kept \in [ Unexpired -> Bucket ]
  BY <1>2 DEF Kept, Restrict, LInv
<1>4. ASSUME NEW k \in DOMAIN entries, k \notin Unexpired
      PROVE  Refilled(entries[k]).tokens = Full
  <2>1. entries[k] \in Bucket
    BY DEF LInv
  <2>2. entries[k].idle > Expiry
    BY <1>4, <2>1, FullAndExpiry DEF Unexpired, Bucket
  <2> QED
    BY <2>1, <2>2, RefilledFacts
<1> QED
  BY <1>1, <1>2, <1>3, <1>4 DEF LevelIn, LInv

LEMMA KeptWithFacts ==
    ASSUME LInv, NEW k \in Addresses, NEW b \in Bucket
    PROVE  LET f == KeptWith(k, b) IN
           /\ DOMAIN f = Unexpired \cup {k}
           /\ f \in [ DOMAIN f -> Bucket ]
           /\ LevelIn(f, k) = Refilled(b).tokens
           /\ \A j \in Addresses \ {k} : LevelIn(f, j) = LevelIn(entries, j)
<1> DEFINE f == KeptWith(k, b)
<1>1. /\ DOMAIN f = Unexpired \cup {k}
      /\ f[k] = b
      /\ \A j \in Unexpired \ {k} : f[j] = entries[j]
  BY DEF KeptWith
<1>2. f \in [ DOMAIN f -> Bucket ]
  BY KeptFacts DEF KeptWith, LInv
<1> HIDE DEF f
<1>3. ASSUME NEW j \in Addresses \ {k}
      PROVE  LevelIn(f, j) = LevelIn(entries, j)
  BY <1>1, KeptFacts DEF LevelIn
<1> QED
  BY <1>1, <1>2, <1>3 DEF LevelIn, f

LEMMA InitLInv == Init => LInv
BY FullAndExpiry DEF Init, LInv, Bucket

LEMMA NextLInv == LInv /\ [Next]_vars => LInv'
<1> SUFFICES ASSUME LInv, [Next]_vars
             PROVE  LInv'
  OBVIOUS
<1>1. ASSUME NEW k \in Addresses, AllowKnown(k)
      PROVE  LInv'
  <2>1. Charged(entries[k]) \in Bucket
    BY <1>1, KeptFacts, ChargedFacts DEF AllowKnown, LInv
  <2>2. entries' = KeptWith(k, Charged(entries[k]))
    BY <1>1 DEF AllowKnown
  <2> HIDE DEF KeptWith
  <2>3. /\ DOMAIN entries' = Unexpired \cup {k}
        /\ entries' \in [ DOMAIN entries' -> Bucket ]
    BY <2>1, <2>2, KeptWithFacts
  <2> QED
    BY <1>1, <2>3, KeptFacts DEF AllowKnown, LInv
<1>2. ASSUME NEW k \in Addresses, AllowNew(k)
      PROVE  LInv'
  <2> DEFINE b == [ tokens |-> Full - Cost, idle |-> 0 ]
  <2>1. b \in Bucket
    BY FullAndExpiry DEF Bucket
  <2>2. entries' = KeptWith(k, b) \/ entries' = Kept
    BY <1>2 DEF AllowNew
  <2> HIDE DEF b
  <2>3. /\ DOMAIN entries' \subseteq Addresses
        /\ entries' \in [ DOMAIN entries' -> Bucket ]
    <3>1. Unexpired \subseteq Addresses
      BY KeptFacts DEF LInv
    <3>2. CASE entries' = KeptWith(k, b)
      <4>1. /\ DOMAIN KeptWith(k, b) = Unexpired \cup {k}
            /\ KeptWith(k, b) \in [ DOMAIN KeptWith(k, b) -> Bucket ]
        BY <2>1, KeptWithFacts
      <4> HIDE DEF KeptWith
      <4> QED
        BY <3>1, <3>2, <4>1
    <3>3. CASE entries' = Kept
      <4>1. DOMAIN Kept = Unexpired /\ Kept \in [ Unexpired -> Bucket ]
        BY KeptFacts
      <4> QED
        BY <3>1, <3>3, <4>1
    <3> QED
      BY <2>2, <3>2, <3>3
  <2> QED
    BY <1>2, <2>3 DEF AllowNew, LInv
<1>3. CASE AllowMessage
  BY <1>3, ChargedFacts DEF AllowMessage, LInv
<1>4. CASE Tick
  <2>1. /\ DOMAIN entries' = DOMAIN entries
        /\ entries' \in [ DOMAIN entries -> Bucket ]
    BY <1>4, AgedFacts DEF Tick, LInv
  <2>2. bucket' \in Bucket
    BY <1>4, AgedFacts DEF Tick, LInv
  <2> QED
    BY <2>1, <2>2 DEF LInv
<1>5. CASE UNCHANGED vars
  BY <1>5 DEF vars, LInv
<1> QED
  BY <1>1, <1>2, <1>3, <1>4, <1>5 DEF Next

\* Every reachable table holds buckets of addresses, no fuller than Full.
THEOREM LimiterInvariance == Spec => []LInv
BY InitLInv, NextLInv, PTL DEF Spec

-----------------------------------------------------------------------------
(* The refinement *)

Askers == Addresses \cup {Connection}

\* Nobody's level changes but that of k.
LEMMA LevelOfOne ==
    ASSUME LInv, LInv', NEW k \in Askers, NEW n, Level'[k] = n,
           \A j \in Askers \ {k} : Level'[j] = Level[j]
    PROVE  Level' = [ Level EXCEPT ![k] = n ]
<1>1. /\ Level = [ j \in Askers |-> Level[j] ]
      /\ Level' = [ j \in Askers |-> Level'[j] ]
  BY DEF Level, Askers
<1> HIDE DEF Level
<1> QED
  BY <1>1

LEMMA SameLevel ==
    ASSUME LInv, LInv', \A j \in Askers : Level'[j] = Level[j]
    PROVE  Level' = Level
<1>1. /\ Level = [ j \in Askers |-> Level[j] ]
      /\ Level' = [ j \in Askers |-> Level'[j] ]
  BY DEF Level, Askers
<1> HIDE DEF Level
<1> QED
  BY <1>1

LEMMA NextLevelFacts ==
    /\ Level'[Connection] = Refilled(bucket').tokens
    /\ \A k \in Addresses : Level'[k] = LevelIn(entries', k)
BY LimiterAssumption DEF Level, LevelIn

\* A use of a bucket, by an address or by the connection, with its answer.
LEMMA UseIsPromised ==
    ASSUME LInv, LInv', NEW k \in Askers, NEW b \in Bucket,
           Level[k] = Refilled(b).tokens,
           Level'[k] = Refilled(Charged(b)).tokens,
           \A j \in Askers \ {k} : Level'[j] = Level[j],
           answer' = <<k, Suffices(b)>>
    PROVE  Promised!Next
<1>1. CASE Suffices(b)
  <2>1. Level'[k] = Level[k] - Cost /\ Level[k] >= Cost
    BY <1>1, ChargedFacts DEF Suffices
  <2>2. Level' = [ Level EXCEPT ![k] = Level[k] - Cost ]
    BY <2>1, LevelOfOne
  <2>3. answer' = <<k, TRUE>>
    BY <1>1 DEF Suffices
  <2>4. Promised!Allow(k)
    BY <2>1, <2>2, <2>3 DEF Promised!Allow
  <2> QED
    BY <2>4 DEF Promised!Next, Promised!Askers, Askers
<1>2. CASE ~ Suffices(b)
  <2>1. Level'[k] = Level[k] /\ Level[k] < Cost
    BY <1>2, ChargedFacts, RefilledFacts, FullAndExpiry DEF Suffices, Bucket
  <2>2. Level' = Level
    BY <2>1, SameLevel
  <2>3. answer' = <<k, FALSE>>
    <3>1. Suffices(b) = FALSE
      BY <1>2, RefilledFacts, FullAndExpiry DEF Suffices, Bucket
    <3> QED
      BY <3>1
  <2>4. Promised!Refuse(k)
    BY <2>1, <2>2, <2>3 DEF Promised!Refuse
  <2> QED
    BY <2>4 DEF Promised!Next, Promised!Askers, Askers
<1> QED
  BY <1>1, <1>2

LEMMA StepIsPromised ==
    ASSUME LInv, LInv', [Next]_vars
    PROVE  [Promised!Next]_(Promised!vars)
<1>1. ASSUME NEW k \in Addresses, AllowKnown(k)
      PROVE  Promised!Next
  <2> DEFINE b == entries[k]
  <2>1. k \in DOMAIN entries /\ b \in Bucket /\ Charged(b) \in Bucket
    BY <1>1, KeptFacts, ChargedFacts DEF AllowKnown, LInv
  <2>2. /\ entries' = KeptWith(k, Charged(b))
        /\ bucket' = bucket
        /\ answer' = <<k, Suffices(b)>>
    BY <1>1 DEF AllowKnown
  <2>3. Level[k] = Refilled(b).tokens
    BY <2>1, LevelFacts DEF LevelIn
  <2> HIDE DEF b
  <2>4. /\ LevelIn(entries', k) = Refilled(Charged(b)).tokens
        /\ \A j \in Addresses \ {k} : LevelIn(entries', j) = LevelIn(entries, j)
    BY <2>1, <2>2, KeptWithFacts
  <2>5. Level'[k] = Refilled(Charged(b)).tokens
    BY <2>4, NextLevelFacts
  <2>6. \A j \in Askers \ {k} : Level'[j] = Level[j]
    BY <2>2, <2>4, LevelFacts, NextLevelFacts DEF Askers
  <2> QED
    BY <2>1, <2>2, <2>3, <2>5, <2>6, UseIsPromised DEF Askers
<1>2. ASSUME NEW k \in Addresses, AllowNew(k)
      PROVE  Promised!Next
  <2> DEFINE b == [ tokens |-> Full - Cost, idle |-> 0 ]
  <2>1. Level[k] = Full
    BY <1>2, KeptFacts, LevelFacts DEF AllowNew
  <2>2. bucket' = bucket
    BY <1>2 DEF AllowNew
  <2>3. CASE entries' = KeptWith(k, b) /\ answer' = <<k, TRUE>>
    <3>1. b \in Bucket /\ b.idle = 0 /\ b.tokens = Full - Cost
      BY FullAndExpiry DEF Bucket
    <3> HIDE DEF b
    <3>2. Refilled(b).tokens = Full - Cost
      BY <3>1, RefilledAgain
    <3>3. /\ LevelIn(entries', k) = Full - Cost
          /\ \A j \in Addresses \ {k} : LevelIn(entries', j) = LevelIn(entries, j)
      BY <2>3, <3>1, <3>2, KeptWithFacts
    <3>4. Level'[k] = Full - Cost
      BY <3>3, NextLevelFacts
    <3>5. \A j \in Askers \ {k} : Level'[j] = Level[j]
      BY <2>2, <3>3, LevelFacts, NextLevelFacts DEF Askers
    <3>6. Level' = [ Level EXCEPT ![k] = Level[k] - Cost ]
      BY <2>1, <3>4, <3>5, LevelOfOne DEF Askers
    <3>7. Promised!Allow(k)
      BY <2>1, <2>3, <3>6, FullAndExpiry DEF Promised!Allow
    <3> QED
      BY <3>7 DEF Promised!Next, Promised!Askers
  <2>4. CASE entries' = Kept /\ answer' = <<k, FALSE>>
    <3>1. \A j \in Addresses : LevelIn(entries', j) = LevelIn(entries, j)
      BY <2>4, KeptFacts
    <3>2. \A j \in Askers : Level'[j] = Level[j]
      BY <2>2, <3>1, LevelFacts, NextLevelFacts DEF Askers
    <3>3. Level' = Level
      BY <3>2, SameLevel
    <3>4. Promised!Refuse(k)
      BY <2>1, <2>4, <3>3 DEF Promised!Refuse
    <3> QED
      BY <3>4 DEF Promised!Next, Promised!Askers
  <2> QED
    BY <1>2, <2>3, <2>4 DEF AllowNew
<1>3. CASE AllowMessage
  <2>1. /\ bucket \in Bucket
        /\ bucket' = Charged(bucket)
        /\ entries' = entries
        /\ answer' = <<Connection, Suffices(bucket)>>
    BY <1>3 DEF AllowMessage, LInv
  <2>2. \A j \in Askers \ {Connection} : Level'[j] = Level[j]
    BY <2>1, LevelFacts, NextLevelFacts DEF Askers
  <2>3. /\ Level[Connection] = Refilled(bucket).tokens
        /\ Level'[Connection] = Refilled(Charged(bucket)).tokens
    BY <2>1, LevelFacts, NextLevelFacts
  <2> QED
    BY <2>1, <2>2, <2>3, UseIsPromised DEF Askers
<1>4. CASE Tick
  <2>1. /\ DOMAIN entries' = DOMAIN entries
        /\ \A k \in DOMAIN entries : entries'[k] = Aged(entries[k])
        /\ bucket' = Aged(bucket)
        /\ answer' = answer
    BY <1>4 DEF Tick
  <2>2. ASSUME NEW k \in Addresses
        PROVE  Level'[k] = IF Level[k] < Full THEN Level[k] + 1 ELSE Full
    <3>1. CASE k \in DOMAIN entries
      <4>1. entries[k] \in Bucket
        BY <3>1 DEF LInv
      <4> QED
        BY <2>1, <3>1, <4>1, AgedFacts, LevelFacts, NextLevelFacts DEF LevelIn
    <3>2. CASE k \notin DOMAIN entries
      BY <2>1, <3>2, LevelFacts, NextLevelFacts, FullAndExpiry DEF LevelIn
    <3> QED
      BY <3>1, <3>2
  <2>3. Level'[Connection] =
            IF Level[Connection] < Full THEN Level[Connection] + 1 ELSE Full
    BY <2>1, AgedFacts, LevelFacts, NextLevelFacts DEF LInv
  <2>4. Level' = [ k \in Askers |-> Level'[k] ]
    BY DEF Level, Askers
  <2>5. Level' = [ k \in Askers |-> IF Level[k] < Full THEN Level[k] + 1 ELSE Full ]
    BY <2>2, <2>3, <2>4 DEF Askers
  <2>6. Promised!Fill
    BY <2>1, <2>5 DEF Promised!Fill, Promised!Askers, Askers
  <2> QED
    BY <2>6 DEF Promised!Next
<1>5. CASE UNCHANGED vars
  BY <1>5 DEF vars, Level, Promised!vars
<1> QED
  BY <1>1, <1>2, <1>3, <1>4, <1>5 DEF Next

(***************************************************************************)
(* Lazy refilling and the purge of the table cannot be told from buckets   *)
(* that fill all the time and are kept for ever: an address gets nothing   *)
(* out of being forgotten, and a full table refuses only those that have   *)
(* used nothing.                                                           *)
(***************************************************************************)
THEOREM ForgettingIsInvisible == Spec => PurgeIsInvisible
<1>1. Init => Promised!Init
  <2>1. ASSUME Init
        PROVE  Level = [ k \in Askers |-> Full ]
    <3>1. LInv
      BY <2>1, InitLInv
    <3>2. Refilled(bucket).tokens = Full
      BY <2>1, <3>1, RefilledAgain DEF Init, LInv
    <3>3. DOMAIN entries = {}
      BY <2>1 DEF Init
    <3>4. \A k \in Askers : Level[k] = Full
      BY <3>2, <3>3, LevelFacts DEF Askers, LevelIn
    <3>5. Level = [ k \in Askers |-> Level[k] ]
      BY DEF Level, Askers
    <3> HIDE DEF Level
    <3> QED
      BY <3>4, <3>5
  <2> QED
    BY <2>1 DEF Init, Promised!Init, Promised!Askers, Askers
<1>2. LInv /\ LInv' /\ [Next]_vars => [Promised!Next]_(Promised!vars)
  BY StepIsPromised
<1> QED
  BY <1>1, <1>2, LimiterInvariance, PTL DEF Spec, PurgeIsInvisible, Promised!Spec

-----------------------------------------------------------------------------
(* The size of the table *)

TableInv ==
    /\ LInv
    /\ IsFiniteSet(DOMAIN entries)
    /\ Cardinality(DOMAIN entries) <= MaxEntries

(***************************************************************************)
(* However many addresses ask, the table never holds more buckets than it  *)
(* may: only an address that finds room after the purge gets one.          *)
(***************************************************************************)
THEOREM TableIsBounded == Spec => [](Cardinality(DOMAIN entries) <= MaxEntries)
<1>1. Init => TableInv
  BY InitLInv, FS_EmptySet, LimiterAssumption DEF Init, TableInv
<1>2. TableInv /\ [Next]_vars => TableInv'
  <2> SUFFICES ASSUME TableInv, [Next]_vars
               PROVE  /\ IsFiniteSet(DOMAIN entries')
                      /\ Cardinality(DOMAIN entries') <= MaxEntries
    BY NextLInv DEF TableInv
  <2>1. Unexpired \subseteq DOMAIN entries
    BY DEF Unexpired
  <2>2. /\ IsFiniteSet(Unexpired)
        /\ Cardinality(Unexpired) \in Nat
        /\ Cardinality(Unexpired) <= MaxEntries
    <3>1. Cardinality(Unexpired) <= Cardinality(DOMAIN entries)
      BY <2>1, FS_Subset DEF TableInv
    <3>2. Cardinality(DOMAIN entries) \in Nat
      BY FS_CardinalityType DEF TableInv
    <3>3. IsFiniteSet(Unexpired) /\ Cardinality(Unexpired) \in Nat
      BY <2>1, FS_Subset, FS_CardinalityType DEF TableInv
    <3> QED
      BY <3>1, <3>2, <3>3, LimiterAssumption DEF TableInv
  <2>3. ASSUME NEW k \in Addresses, AllowKnown(k)
        PROVE  DOMAIN entries' = Unexpired
    BY <2>3 DEF AllowKnown, KeptWith
  <2>4. ASSUME NEW k \in Addresses, AllowNew(k)
        PROVE  /\ IsFiniteSet(DOMAIN entries')
               /\ Cardinality(DOMAIN entries') <= MaxEntries
    <3>1. CASE Cardinality(Unexpired) < MaxEntries
      <4>1. DOMAIN entries' = Unexpired \cup {k} /\ k \notin Unexpired
        BY <2>4, <3>1 DEF AllowNew, KeptWith
      <4>2. /\ IsFiniteSet(Unexpired \cup {k})
            /\ Cardinality(Unexpired \cup {k}) = Cardinality(Unexpired) + 1
        BY <2>2, <4>1, FS_AddElement
      <4> QED
        BY <2>2, <3>1, <4>1, <4>2, LimiterAssumption
    <3>2. CASE ~ (Cardinality(Unexpired) < MaxEntries)
      <4>1. DOMAIN entries' = Unexpired
        BY <2>4, <3>2 DEF AllowNew, Kept, Restrict
      <4> QED
        BY <2>2, <4>1
    <3> QED
      BY <3>1, <3>2
  <2>5. CASE AllowMessage \/ Tick \/ UNCHANGED vars
    <3>1. DOMAIN entries' = DOMAIN entries
      BY <2>5 DEF AllowMessage, Tick, vars
    <3> QED
      BY <3>1 DEF TableInv
  <2> QED
    BY <2>2, <2>3, <2>4, <2>5 DEF Next
<1>3. TableInv => Cardinality(DOMAIN entries) <= MaxEntries
  BY DEF TableInv
<1> QED
  BY <1>1, <1>2, <1>3, PTL DEF Spec

=============================================================================
