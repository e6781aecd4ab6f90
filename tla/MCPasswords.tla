----------------------------- MODULE MCPasswords -----------------------------
(***************************************************************************)
(* Passwords for TLC; the configurations give the constants.               *)
(***************************************************************************)
EXTENDS Passwords
=============================================================================
