SPECIFICATION Spec
CONSTANTS
    r1 = r1
    r2 = r2
    e1 = e1
    e2 = e2
    t1 = t1
    Replica = {r1, r2}
    FileReplica = r1
    Tenant = {t1}
    Allowed = {t1}
    Token = {"pod", "pod2", "api"}
    TenantOf <- MCTenantOf
    SingleUse = {"pod", "pod2"}
    Request = {e1, e2}
    MaxKey = 3
    MaxCert = 2
SYMMETRY MCSymmetry
INVARIANTS OneAuthority MutualTrust OneCertPerToken
CHECK_DEADLOCK FALSE
