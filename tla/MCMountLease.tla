---------------------------- MODULE MCMountLease ----------------------------
(* Small instances of MountLease for TLC. *)
EXTENDS MountLease, TLC

CONSTANTS p1, p2, p3

MCSymmetry == Permutations(Proc)
=============================================================================
