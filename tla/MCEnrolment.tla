---------------------------- MODULE MCEnrolment ----------------------------
(* Two replicas, one tenant, bearers for two pods and an API token. *)
EXTENDS Enrolment, TLC

CONSTANTS r1, r2, e1, e2, t1

MCTenantOf == [k \in Token |-> t1]
MCSymmetry == Permutations({e1, e2})
=============================================================================
