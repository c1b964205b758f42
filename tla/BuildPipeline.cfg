SPECIFICATION Spec
CONSTANTS
    Walk <- MCWalk
    Path <- MCPath
    PageOf <- MCPageOf
    Aliases = {none, root, x}
    NoAlias = none
    Root = root
    X = x
    FirstAlias <- MCFirstAlias
    Worker = {w1, w2}
    ChanSize = 1
    Editable = {"p1"}
    MaxEdits = 2
    MaxRuns = 2
CHECK_DEADLOCK FALSE
INVARIANTS
    SkippedIsCurrent
    ManifestHasTree
    UrlsFollowAliases
PROPERTIES
    BuildEnds
    WatchCatchesUp
