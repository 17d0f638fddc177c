------------------------------ MODULE MCClient ------------------------------
(***************************************************************************)
(* Client for TLC.  The fewer sockets the page may use, the more the users *)
(* do besides: with one, they all act MaxActs times together; with all of  *)
(* them the host only looks on, a guest acts once and the owner only joins *)
(* and reconnects.                                                         *)
(***************************************************************************)
EXTENDS Client, TLC

CONSTANT MaxActs    \* bound: acts of the users and ticks of the clock

VARIABLES
    acts,           \* how many are left
    calm            \* the host and the clock stand still

boundVars == <<acts, calm>>

FirstSocket == CHOOSE s \in Sockets : TRUE

MCInit ==
    /\ Init
    /\ \/ Unused = {FirstSocket} /\ acts = MaxActs /\ calm = FALSE
       \/ Unused = Sockets /\ acts = (IF key = None THEN 1 ELSE 0) /\ calm = TRUE

MCNext ==
    /\ UNCHANGED calm
    /\ \/ (PageNext \/ HandlersNext) /\ UNCHANGED acts
       \/ /\ acts > 0 /\ acts' = acts - 1
          /\ UserActs \/ (~ calm /\ OthersAct)

MCSpec == MCInit /\ [][MCNext]_<<vars, boundVars>> /\ Fairness

=============================================================================
