\* Processes with different configurations on one storage.
CONSTANTS
    r1 = r1
    r2 = r2
    Configs <- MixedConfigs
    Roles = {r1, r2}
    MaxEpoch = 1
    MaxKey = 1
    Workload = Workload
    None = None
SPECIFICATION Spec
SYMMETRY RoleSymmetry
INVARIANTS
    TypeOK
    LatestLogin
    LoginKept
