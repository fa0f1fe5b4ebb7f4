SPECIFICATION LiveSpec
CONSTANTS
    Clients = {c1, c2}
    Watching = {c1}
    Pids = {4, 8}
    InitialSize = 1
    Requests <- MCRequests
CHECK_DEADLOCK FALSE
INVARIANTS
    ListSound
    ListComplete
    BufferBounded
    ExitTruthful

    
