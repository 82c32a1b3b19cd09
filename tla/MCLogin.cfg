SPECIFICATION LoginSpec
CONSTANTS
    Requests = {r1, r2}
    TempTokens = {t1}
    MaxSetups = 2
    CodesPerSetup = 1
    Widths = {1, 2}
    MaxRetries = 1
    MaxStrikes = 2
    Skips = {{}, {"graphql", "grpc"}}
    Fragile = {"register", "login", "createCompany"}
    Sampled = {"login", "createCompany", "listCompanies", "grpcAccess"}
    Users = {alice}
    Groups = {g1, g2}
    Object = object
    Checks = {c1, c2}
    Depth = 3
    Ttl = 2
    MaxDelay = 1
SYMMETRY Symm
INVARIANTS FactorRequired BackupCodeDies EnabledWasVerified TempTokenUsedOnce VerdictSound ChecksSound StaleBounded
