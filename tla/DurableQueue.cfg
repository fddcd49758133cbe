SPECIFICATION RestartedSpec
CONSTANTS
    mine = mine
    theirs = theirs
    NoConsumer = NoConsumer
    NoTenant = NoTenant
    Jobs = {job1}
    Consumers = {c1, c2}
    Tenants <- MCTenants
    Tenant <- MCTenant
    MaxAttempts = 2
    MaxFaults = 2
INVARIANTS
    TypeOK
    NoneForgotten
    WorkedAlone
PROPERTIES
    Settles
