SPECIFICATION Spec
CONSTANTS
    k1 = k1
    k2 = k2
    k3 = k3
    k4 = k4
    k5 = k5
    t1 = t1
    t2 = t2
    p1 = p1
    p2 = p2
    p3 = p3
    Key = {k1, k2, k3, k4, k5}
    Table = {t1, t2}
    Page = {p1, p2, p3}
    Miss = Miss
    Attributable = {k1, k2, k3, k5}
    TablesOf <- MCTablesOf
    SizeOf <- MCSizeOf
    MaxEntries = 3
    MaxBytes = 5
INVARIANTS
    IndexMatchesEntries
    CapsRespected
PROPERTIES
    ImplementsTaggedStore
