-------------------------- MODULE MCMemberSession ---------------------------
(***************************************************************************)
(* MemberSession for TLC; the configurations give the constants.           *)
(***************************************************************************)
EXTENDS MemberSession, TLC

\* Browsers are interchangeable, and so are users where all of them are registered.
Symmetry == Permutations(Browsers) \union Permutations(Users)
=============================================================================
