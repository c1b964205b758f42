SPECIFICATION ListSpec
CONSTANTS
    Node = {a, b, c, d}
    Nil = Nil
INVARIANTS
    PointersMatch
PROPERTIES
    EvictsOldest
