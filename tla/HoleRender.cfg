SPECIFICATION RenderSpec
CONSTANTS
    Request = {r1, r2}
    Binding = {b1, b2}
    NoParams = NoParams
    Holes <- MCHoles
    NumRows = 2
    MaxFills = 2
SYMMETRY Interchangeable
CHECK_DEADLOCK FALSE
INVARIANTS
    CachedRowsClean
    OwnFillShowsOwnParams
