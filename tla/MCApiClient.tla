----------------------------- MODULE MCApiClient -----------------------------
(***************************************************************************)
(* Constants for model checking ApiClient.                                 *)
(***************************************************************************)
EXTENDS ApiClient

CONSTANTS c1, c2, r1, r2, r3

\* A hook with two calls at once, as a query that is refetched, and a second.
TwoHooks == [r \in {r1, r2, r3} |-> IF r = r3 THEN c2 ELSE c1]
=============================================================================
