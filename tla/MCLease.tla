------------------------------- MODULE MCLease -------------------------------
(* TLC instances of Lease. *)
EXTENDS Lease, TLC

Symmetry == Permutations(Instances) \cup Permutations(Keys)
=============================================================================
