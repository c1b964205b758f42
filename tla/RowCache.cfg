SPECIFICATION Spec
CONSTANTS
    q1 = q1
    q2 = q2
    q3 = q3
    q4 = q4
    k1 = k1
    k2 = k2
    k3 = k3
    t1 = t1
    t2 = t2
    r1 = r1
    r2 = r2
    r3 = r3
    Sql = {q1, q2, q3, q4}
    Key = {k1, k2, k3}
    Table = {t1, t2}
    Rows = {r1, r2, r3}
    Miss = Miss
    HashOf <- MCHashOf
    TablesOf <- MCTablesOf
    SizeOf <- MCSizeOf
    MaxEntries = 2
    MaxBytes = 3
    BypassWriteThreshold = 1
    BypassWindow = 1
    BypassCooldown = 2
    MaxLag = 1
    MaxClock = 4
    MaxWrites = 2
INVARIANTS
    TypeOK
    IndexMatchesEntries
    BytesAccounted
    CapsRespected
    BypassedTablesUncached
PROPERTIES
    ImplementsTaggedStore
