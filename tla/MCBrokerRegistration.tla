------------------------ MODULE MCBrokerRegistration ------------------------
(***************************************************************************)
(* BrokerRegistration on small instances.                                  *)
(***************************************************************************)
EXTENDS BrokerRegistration, TLC

\* Workers, licence types and addresses are interchangeable.
Symmetry ==
    Permutations(Workers) \union Permutations(LicenseTypes) \union Permutations(Emails)

=============================================================================
