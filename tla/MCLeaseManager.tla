--------------------------- MODULE MCLeaseManager ---------------------------
(* Small instances of LeaseManager for TLC. *)
EXTENDS LeaseManager, TLC

CONSTANTS s1, s2, A, B

MCSymmetry == Permutations({s1, s2}) \union Permutations({A, B})
=============================================================================
