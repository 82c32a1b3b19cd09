SPECIFICATION Spec
CONSTANTS
    Tenants = {t1, t2}
    RoleIds = {r1}
    Texts = {"x", "y"}
    Jobs = {j1, j2}
    Requests = {q1, q2}
    Keys = {k1}
    MaxChallenges = 2
    MaxSignatures = 3
    Instances = {i1, i2}
    LastVersion = 3
    Low = 1
    CompaniesAt = 2
    Blocks <- MCBlocks
    MaxFaults = 1
INVARIANTS TenantsSound ChallengesSound ServingSound
PROPERTIES DataLossExplained StartupSucceeds CountFallsOnlyStale
