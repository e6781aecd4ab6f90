----------------------------- MODULE MCPictures -----------------------------
(***************************************************************************)
(* Pictures for TLC; the configuration gives the constants.                *)
(***************************************************************************)
EXTENDS Pictures
=============================================================================
