--------------------------- MODULE MCReviewJobs ---------------------------
(***************************************************************************)
(* Instances of the job control plane for TLC.                             *)
(***************************************************************************)
EXTENDS ReviewJobs, TLC

CONSTANT MaxClaims   \* bound: claims of a job over all its runs

\* Every safety property is checked up to that many claims.
ClaimsBounded == \A j \in Jobs : Cardinality(ClaimsOf(j)) <= MaxClaims

\* Workers and dispatchers are interchangeable in every safety property.
Symmetric == Permutations(Workers) \cup Permutations(Dispatchers)
===========================================================================
