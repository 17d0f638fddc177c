----------------------------- MODULE Directory -----------------------------
(***************************************************************************)
(* What the hub promises: for every participant of a room the connection   *)
(* to send to, which is the newest one, until that connection leaves.  It  *)
(* is how Service sees the hub.                                            *)
(***************************************************************************)
CONSTANTS Keys, Conns, None

VARIABLES
    hub,    \* the connection of a participant of a room, or None
    live    \* the connections that were added and have not left

vars == <<hub, live>>

TypeOK == hub \in [ Keys -> Conns \cup {None} ] /\ live \subseteq Conns

Init == hub = [ k \in Keys |-> None ] /\ live = {}

Add(k, c) ==
    /\ hub' = [ hub EXCEPT ![k] = c ]
    /\ live' = live \cup {c}

\* A connection that was replaced leaves its successor alone.
Leave(c) ==
    /\ c \in live
    /\ hub' = [ k \in Keys |-> IF hub[k] = c THEN None ELSE hub[k] ]
    /\ live' = live \ {c}

Forget(k) ==
    /\ hub' = [ hub EXCEPT ![k] = None ]
    /\ UNCHANGED live

Next ==
    \/ \E k \in Keys, c \in Conns \ live : Add(k, c)
    \/ \E c \in Conns : Leave(c)
    \/ \E k \in Keys : Forget(k)

Spec == Init /\ [][Next]_vars
=============================================================================
