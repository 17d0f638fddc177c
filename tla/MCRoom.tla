------------------------------- MODULE MCRoom -------------------------------
(* Room for TLC. The fresh names, the clients and the roles are alike.      *)
EXTENDS Room, TLC

Alike == Permutations(Conns) \cup Permutations(Clients) \cup Permutations(Roles)

(****************************************************************************)
(* What Average computes, said without it: a is the whole number of tenths  *)
(* that is nearest to sum / n, and of two that are as near the greater one; *)
(* and when nobody played a card it is 0. TLC evaluates it before the run.  *)
(****************************************************************************)
IsRounded(a, sum, n) == 2 * sum - n < 2 * n * a /\ 2 * n * a <= 2 * sum + n

ASSUME AverageIsRounded ==
    /\ Average(<<>>) = 0
    /\ \A a, b, c \in 0 .. 20 :
          /\ IsRounded(Average(<<a>>), a, 1)
          /\ IsRounded(Average(<<a, b>>), a + b, 2)
          /\ IsRounded(Average(<<a, b, c>>), a + b + c, 3)
          /\ IsRounded(Average(<<a, b, c, 0>>), a + b + c, 4)

=============================================================================
