SPECIFICATION Spec
CONSTANTS
    Mime = "video"
    RouteMimes <- MCRouteMimes
    BaseHeads <- MCBaseHeads
    Ranges <- MCRanges
    NoRange = NoRange
    Empty = Empty
    Bad = Bad
    Sizes = {1, 3}
    ChunkSize = 2
    MaxBuilds = 1
CHECK_DEADLOCK FALSE
INVARIANTS
    
    
    FileReleased
    HeadFits
