--------------------------- MODULE MCTenantClaims ---------------------------
(* Values for model checking TenantClaims. *)
EXTENDS TenantClaims, TLC

CONSTANTS a1, a2, b1, A, B

\* A tenant with two places for jobs, and one with a single place.
TwoAndOne == [j \in {a1, a2, b1} |-> IF j = b1 THEN B ELSE A]

=============================================================================
