SPECIFICATION Spec
CONSTANTS
    q1 = q1
    q2 = q2
    q3 = q3
    p1 = p1
    p2 = p2
    p3 = p3
    Table = {"a"}
    Route = {p1, p3}
    Query = {q1, q2, q3}
    Conn = {c1, c2}
    Request = {r1, r2}
    None = None
    HolesOf <- MCHolesOf
    ReadsOf <- MCReadsOf
    FiledUnder <- MCFiledUnder
    MaxPoolWrites = 1
    MaxExtWrites = 0
    MaxHooks = 2
SYMMETRY Interchangeable
INVARIANTS
    ConnsConserved
    RowFreshUnlessRaced
    PageFreshUnlessRaced

