SPECIFICATION Spec
CONSTANTS
    register = register
    company = company
    tenantProvisioned = tenantProvisioned
    userCreated = userCreated
    companyCreated = companyCreated
    Txns <- MCTxns
    Events <- MCEvents
    Writes <- MCWrites
    Relays = {}
    Sentinels = {s1, s2}
    RelayBatch = 2
    SentinelBatch = 1
    Poison = {}
    MaxLost = 0
    MaxCrash = 0
INVARIANT NoSharedProcessing
