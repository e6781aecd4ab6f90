---------------------------- MODULE MCUserSetup -----------------------------
(***************************************************************************)
(* UserSetup for TLC.                                                      *)
(***************************************************************************)
EXTENDS UserSetup, TLC

Symmetry == Permutations(Users) \union Permutations(Emails)

=============================================================================
