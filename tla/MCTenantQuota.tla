--------------------------- MODULE MCTenantQuota ---------------------------
(* An account that is its own tenant with another tenant below it, and an  *)
(* account of which only the budget is set.                                *)
EXTENDS TenantQuota, TLC

CONSTANTS u, w, a, s1, s2

MCOwnerOf == (u :> u) @@ (a :> u)
MCBudgets == (u :> {1, 3}) @@ (w :> {1})
=============================================================================
