SPECIFICATION FairSpec
CONSTANTS
    Request = {r1, r2}
    None = None
    MaxLoads = 3
    MaxDeploys = 1
    MaxWrites = 1
INVARIANTS
    FreshAcrossReload
    RegistryNeverAhead
    SubscriptionsAccounted
PROPERTIES
    LastSighupServed
