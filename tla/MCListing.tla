------------------------------ MODULE MCListing ------------------------------
(* Listing for TLC: programs are interchangeable model values. *)
EXTENDS Listing, TLC

Symmetry == Permutations(Programs)
=============================================================================
