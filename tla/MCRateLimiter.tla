-------------------------- MODULE MCRateLimiter --------------------------
(* Values for model checking RateLimiter: one project with two keys, one   *)
(* of them with limits of its own; the third minute begins a new day.      *)
EXTENDS RateLimiter, TLC

CONSTANTS r1, r2, r3, k1, k2, p1

MCRequests == {r1, r2, r3}
MCKeys == {k1, k2}
MCProjects == {p1}
MCProjectOf == [k \in MCKeys |-> p1]
MCKeyLimit ==
  k1 :> [rpm |-> 1, day |-> 0, month |-> 0, tpm |-> 3]
    @@ k2 :> [rpm |-> 0, day |-> 1, month |-> 0, tpm |-> 0]
MCProjectLimit == p1 :> [rpm |-> 2, day |-> 2, month |-> 2, tpm |-> 2]
MCTokenCounts == {2}
MCDayOf == [t \in 0..Horizon |-> IF t < 2 THEN 0 ELSE 1]
MCMonthOf == [t \in 0..Horizon |-> 0]

Symmetry == Permutations(Requests)
===========================================================================
