------------------------- MODULE MCActivationLease -------------------------
(* Small instances of ActivationLease for TLC.                             *)
EXTENDS ActivationLease, TLC

LeaseSymmetry == Permutations(Leases) \cup Permutations(Processes)
=============================================================================
