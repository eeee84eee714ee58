----------------------------- MODULE MCListing -----------------------------
(* A small instance of Listing: the rows are interchangeable.              *)
EXTENDS Listing

Symmetry == Permutations(Rows)
=============================================================================
