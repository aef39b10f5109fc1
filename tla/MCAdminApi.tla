------------------------------ MODULE MCAdminApi ------------------------------
(* The instance of AdminApi that TLC checks.                                   *)
EXTENDS AdminApi, TLC

Symmetry == Permutations(Requests) \union Permutations(Names)

===============================================================================
