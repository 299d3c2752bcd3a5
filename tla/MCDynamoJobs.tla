---------------------------- MODULE MCDynamoJobs ----------------------------
(***************************************************************************)
(* TLC instance of DynamoJobs.                                             *)
(***************************************************************************)
EXTENDS DynamoJobs, TLC

CONSTANT MaxClaims   \* bound: attempts claimed over all runs

MCSpec == Init /\ [][Next /\ Cardinality(attempts') <= MaxClaims]_vars

Symmetric == Permutations(Clients)
=============================================================================
