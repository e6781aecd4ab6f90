--------------------------- MODULE MCBrokerProfile ---------------------------
(***************************************************************************)
(* BrokerProfile for TLC; the configuration gives the constants.           *)
(***************************************************************************)
EXTENDS BrokerProfile, TLC

\* Posts, locations and tabs are interchangeable.
Symmetry == Permutations(Posts) \union Permutations(Places) \union Permutations(Tabs)
=============================================================================
