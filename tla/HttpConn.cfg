SPECIFICATION Spec
CONSTANTS
    c1 = c1
    c2 = c2
    Conn = {c1, c2}
    Sends <- MCSends
    initialReadBuf = 3
    MaxReadBuf = 9
    MaxBodyBytes = 4
    MaxRequestLine = 3
    MaxHeaderBytes = 6
    MaxHeaders = 2
    MaxChunks = 2
CHECK_DEADLOCK FALSE
INVARIANTS
    HandledAsSent
    RefusalsJustified
    RepliesFramed
    
    DrainedAtExit
PROPERTY
    ShutdownReturns
