------------------------------- MODULE Voting -------------------------------
(***************************************************************************)
(* The average shown when a round is revealed (backend/app/voting).  A     *)
(* card is an integer number of tenths (the card 0.5 is 5), and so is an   *)
(* average: the code rounds it to one decimal, halves away from zero,      *)
(* which for the non-negative cards newRoom accepts is rounding up.        *)
(***************************************************************************)
EXTENDS Integers, FiniteSets, Functions

(***************************************************************************)
(* The average of the cards played: f maps a set of players to cards.      *)
(***************************************************************************)
Average(f) ==
    LET n == Cardinality(DOMAIN f) IN
    IF n = 0 THEN 0 ELSE (2 * SumFunction(f) + n) \div (2 * n)

=============================================================================
