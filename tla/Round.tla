------------------------------- MODULE Round -------------------------------
(***************************************************************************)
(* What a room promises about a round of voting, with nothing about        *)
(* connections, tokens or time: players put cards on the table face down   *)
(* and take them back, the cards are turned over once, with the last       *)
(* card, and the result of that moment stands until the table is cleared.  *)
(***************************************************************************)
EXTENDS Functions

CONSTANTS
    Players, Roles, Cards,
    Average(_)  \* the estimate that a function from players to cards gives

VARIABLES
    table,          \* the cards face down, from players to ballots
    revealed,       \* whether the cards have been turned over
    average,        \* the result over all cards
    roleAverages    \* the result in each role that played a card

vars == <<table, revealed, average, roleAverages>>

Ballot == [ role : Roles, card : Cards ]

Nothing == [ x \in {} |-> x ]

CardsOf(t) == [ i \in DOMAIN t |-> t[i].card ]

RolesOf(t) == { t[i].role : i \in DOMAIN t }

PlayedBy(t, x) == Restrict(t, { i \in DOMAIN t : t[i].role = x })

Init ==
    /\ table = Nothing
    /\ revealed = FALSE
    /\ average = 0
    /\ roleAverages = Nothing

\* The tables after player i has played another card, or none.
Played(i) ==
    { [ j \in DOMAIN table \cup {i} |-> IF j = i THEN b ELSE table[j] ] : b \in Ballot }

Without(i) == Restrict(table, DOMAIN table \ {i})

Play(i) ==
    /\ ~ revealed
    /\ table' \in Played(i)
    /\ UNCHANGED <<revealed, average, roleAverages>>

TakeBack(i) ==
    /\ ~ revealed
    /\ table' = Without(i)
    /\ UNCHANGED <<revealed, average, roleAverages>>

\* Player i plays or passes, and everybody's cards are turned over.
Reveal(i) ==
    /\ ~ revealed
    /\ \E last \in Played(i) \cup {Without(i)} :
          /\ average' = Average(CardsOf(last))
          /\ roleAverages' = [ x \in RolesOf(last) |-> Average(CardsOf(PlayedBy(last, x))) ]
    /\ table' = Nothing
    /\ revealed' = TRUE

Reset ==
    /\ table' = Nothing
    /\ revealed' = FALSE
    /\ average' = 0
    /\ roleAverages' = Nothing

Next ==
    \/ \E i \in Players : Play(i) \/ TakeBack(i) \/ Reveal(i)
    \/ Reset

Spec == Init /\ [][Next]_vars

=============================================================================
