--------------------------- MODULE MCTestimonies ----------------------------
(***************************************************************************)
(* Testimonies for TLC.                                                    *)
(***************************************************************************)
EXTENDS Testimonies, TLC

\* The workers are alike.
Symmetry == Permutations(Workers)

=============================================================================
