------------------------------ MODULE Limiter ------------------------------
(***************************************************************************)
(* The rate limiters of the server (backend/pkg/httpapi/limiter.go): the   *)
(* table of buckets by which POST /api/rooms limits addresses, and the     *)
(* bucket that limits the messages of a connection.  A bucket stores its   *)
(* tokens as they were at its last use and is refilled when it is used;    *)
(* the table forgets buckets that were idle for long and takes in no       *)
(* address when it is full.  Every call is one step: the table has a       *)
(* mutex, and the connection's bucket has one user.                        *)
(*                                                                         *)
(* Tokens are counted in parts, one of which is refilled in a tick of the  *)
(* clock, and a request takes Cost parts: rate is 1 / Cost.  Rounding of   *)
(* floating-point numbers is not modelled.                                 *)
(***************************************************************************)
EXTENDS Integers, FiniteSets, Functions

CONSTANTS
    Addresses,      \* remote addresses
    Connection,     \* one connection
    Burst,          \* requests a full bucket allows
    Cost,           \* parts a request takes
    MinExpiry,      \* a minute, in ticks
    MaxEntries      \* buckets the table holds at most

ASSUME LimiterAssumption ==
    /\ Connection \notin Addresses
    /\ Burst \in Nat \ {0}
    /\ Cost \in Nat \ {0}
    /\ MinExpiry \in Nat
    /\ MaxEntries \in Nat \ {0}

VARIABLES
    entries,        \* the table, from addresses to buckets
    bucket,         \* the bucket of the connection
    answer          \* the last answer: who asked, and whether it was allowed

vars == <<entries, bucket, answer>>

Full == Burst * Cost

\* Mutant: a bucket is forgotten before it would have been full.
ExpiryOfOneToken == IF Cost < MinExpiry THEN MinExpiry ELSE Cost

\* Twice the time an empty bucket takes to fill, and at least a minute.
Expiry == IF 2 * Full < MinExpiry THEN MinExpiry ELSE 2 * Full

\* idle is the time since last, counted until the bucket has expired.
Bucket == [ tokens : 0 .. Full, idle : 0 .. Expiry + 1 ]

Init ==
    /\ entries = [ k \in {} |-> k ]
    /\ bucket = [ tokens |-> Full, idle |-> 0 ]
    /\ answer = <<Connection, TRUE>>

\* The bucket at its next use.
Refilled(b) ==
    [ tokens |-> IF b.tokens + b.idle < Full THEN b.tokens + b.idle ELSE Full,
      idle   |-> 0 ]

\* The bucket after a request, which may find it too empty.
Charged(b) ==
    [ Refilled(b) EXCEPT !.tokens = IF @ < Cost THEN @ ELSE @ - Cost ]

Suffices(b) == Refilled(b).tokens >= Cost

Unexpired == { k \in DOMAIN entries : entries[k].idle <= Expiry }

Kept == Restrict(entries, Unexpired)

\* What is kept, with bucket b for address k.
KeptWith(k, b) == [ j \in Unexpired \cup {k} |-> IF j = k THEN b ELSE entries[j] ]

\* keyedLimiter.allow for an address in the table.
AllowKnown(k) ==
    /\ k \in Unexpired
    /\ entries' = KeptWith(k, Charged(entries[k]))
    /\ answer' = <<k, Suffices(entries[k])>>
    /\ UNCHANGED bucket

\* The same for any other address: its bucket starts full, if it gets one.
AllowNew(k) ==
    /\ k \notin Unexpired
    /\ IF Cardinality(Unexpired) < MaxEntries
       THEN /\ entries' = KeptWith(k, [ tokens |-> Full - Cost, idle |-> 0 ])
            /\ answer' = <<k, TRUE>>
       ELSE /\ entries' = Kept
            /\ answer' = <<k, FALSE>>
    /\ UNCHANGED bucket

\* tokenBucket.allow, for a message.
AllowMessage ==
    /\ bucket' = Charged(bucket)
    /\ answer' = <<Connection, Suffices(bucket)>>
    /\ UNCHANGED entries

Aged(b) == [ b EXCEPT !.idle = IF @ > Expiry THEN @ ELSE @ + 1 ]

Tick ==
    /\ entries' = [ k \in DOMAIN entries |-> Aged(entries[k]) ]
    /\ bucket' = Aged(bucket)
    /\ UNCHANGED answer

Next ==
    \/ \E k \in Addresses : AllowKnown(k) \/ AllowNew(k)
    \/ AllowMessage
    \/ Tick

Spec == Init /\ [][Next]_vars

-----------------------------------------------------------------------------

\* What everybody could use at this moment.
Level ==
    [ k \in Addresses \cup {Connection} |->
        IF k = Connection THEN Refilled(bucket).tokens
        ELSE IF k \in DOMAIN entries THEN Refilled(entries[k]).tokens
        ELSE Full ]

Promised == INSTANCE Buckets WITH level <- Level

(***************************************************************************)
(* Refilling at use and forgetting the idle cannot be told from buckets    *)
(* that fill all the time and are kept for ever: purgeExpiredLocked never  *)
(* gives an address more than waiting would have, the burst bounds what    *)
(* anybody saves up, and a table that is full refuses only addresses that  *)
(* have used nothing of their burst.                                       *)
(***************************************************************************)
PurgeIsInvisible == Promised!Spec

=============================================================================
