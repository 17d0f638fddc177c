------------------------------ MODULE Buckets ------------------------------
(***************************************************************************)
(* What rate limiting promises: everybody has a bucket that fills by one   *)
(* part in a tick up to Full, a request takes Cost parts out of it and is  *)
(* refused when they are not there.  Nobody is ever forgotten.  An address *)
(* may also be refused while its bucket is full, which is how a server     *)
(* that remembers too many addresses turns new ones away; the message      *)
(* bucket of a connection knows no such refusal.                           *)
(***************************************************************************)
EXTENDS Integers

CONSTANTS
    Addresses,      \* remote addresses
    Connection,     \* one connection, which has a bucket for its messages
    Full,
    Cost

VARIABLES
    level,          \* the parts in each bucket
    answer          \* the last answer: who asked, and whether it was allowed

vars == <<level, answer>>

Askers == Addresses \cup {Connection}

Init ==
    /\ level = [ k \in Askers |-> Full ]
    /\ answer = <<Connection, TRUE>>

Allow(k) ==
    /\ level[k] >= Cost
    /\ level' = [ level EXCEPT ![k] = @ - Cost ]
    /\ answer' = <<k, TRUE>>

Refuse(k) ==
    /\ level[k] < Cost \/ (k \in Addresses /\ level[k] = Full)
    /\ answer' = <<k, FALSE>>
    /\ UNCHANGED level

Fill ==
    /\ level' = [ k \in Askers |-> IF level[k] < Full THEN level[k] + 1 ELSE Full ]
    /\ UNCHANGED answer

Next ==
    \/ \E k \in Askers : Allow(k) \/ Refuse(k)
    \/ Fill

Spec == Init /\ [][Next]_vars

=============================================================================
