--------------------------- MODULE MCBrokerReview ---------------------------
(***************************************************************************)
(* BrokerReview for TLC; the configurations give the constants.            *)
(***************************************************************************)
EXTENDS BrokerReview, TLC

\* The types of licences are interchangeable where all of them are submitted.
Symmetry == Permutations(Submitted)
=============================================================================
