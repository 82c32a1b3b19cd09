SPECIFICATION CompanySpec
CONSTANTS
    register = register
    company = company
    tenantProvisioned = tenantProvisioned
    userCreated = userCreated
    companyCreated = companyCreated
    Txns <- MCTxns
    Events <- MCEvents
    Writes <- MCWrites
    Relays = {r1}
    Sentinels = {s1}
    RelayBatch = 2
    SentinelBatch = 1
    Poison = {}
    MaxLost = 1
    MaxCrash = 1
    People = {alice, bob}
    Creator = alice
    Reqs = {q1, q2}
    Targets = {bob}
    Invitations = {i1}
    InvitedRoles = {"admin"}
SYMMETRY Symm
INVARIANTS NothingUncommittedSeen RepublishNeedsLoss MembersWereGranted StaleRoleExplained InvitationUsedOnce
