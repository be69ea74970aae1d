------------------------------ MODULE MCClaim ------------------------------
(* Claim on small instances: two or three agents whose claim labels sort in *)
(* the order of their numbers.                                              *)
EXTENDS Claim

MCRank == [a \in Agents |-> a]
=============================================================================
