------------------------------ MODULE MCAccess ------------------------------
(* A small instance of Access: one organization, a clock of half seconds.  *)
EXTENDS Access, TLC

Symmetry == Permutations(Keys)
=============================================================================
