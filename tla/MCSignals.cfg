SPECIFICATION SignalsSpec
CONSTANTS
    register = register
    company = company
    tenantProvisioned = tenantProvisioned
    userCreated = userCreated
    companyCreated = companyCreated
    Txns <- MCTxns
    Events <- MCEvents
    Writes <- MCWrites
    Relays = {r1}
    Sentinels = {}
    RelayBatch = 2
    SentinelBatch = 1
    Poison = {tenantProvisioned}
    MaxLost = 1
    MaxCrash = 1
    Streams = {s1, s2, s3}
    Triggers = {k1}
    Nil = Nil
INVARIANTS StreamsSound
PROPERTIES DeliverySpec KilledStreamsEnd
