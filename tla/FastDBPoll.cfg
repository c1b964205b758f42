SPECIFICATION FairSpec
CONSTANTS
    q1 = q1
    q2 = q2
    q3 = q3
    p1 = p1
    p2 = p2
    p3 = p3
    Table = {"a"}
    Route = {p2}
    Query = {q1, q2, q3}
    Conn = {c1}
    Request = {r1, r2}
    None = None
    HolesOf <- MCHolesOf
    ReadsOf <- MCReadsOf
    FiledUnder <- MCFiledUnder
    MaxPoolWrites = 1
    MaxExtWrites = 2
    MaxHooks = 1

    

PROPERTIES
    RequestsFinish
