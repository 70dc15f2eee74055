SPECIFICATION FairSpec
CONSTANTS
    u = u
    w = w
    a = a
    s1 = s1
    s2 = s2
    None = None
    Tenant = {u, a}
    Owner = {u, w}
    OwnerOf <- MCOwnerOf
    Budgets <- MCBudgets
    Unit = 2
    Margin = 1
    Slot = {s1, s2}
    MaxAsk = 3
    MaxFault = 1
INVARIANTS RegistryAgrees PromisedIsEnforced ProjectsDistinct
PROPERTY QuotaConverges
CHECK_DEADLOCK FALSE
