SPECIFICATION LiveSpec
CONSTANTS
    Clients = {c1, c2}
    Scanner = scanner
    System = system
    NoThread = NoThread
    NoPid = NoPid
    Pids = {4, 8}
    Frames = {0, 2}
    Maps <- MCMaps
    Contents = {x}
    SigOf <- MCSigOf
    InitMem <- MCInitMem
    InitProc <- MCInitUsers
    MaxFrames = 2
    MaxScan = 1
    FreedContents = {}
    MaxRef = 3
    MaxEvents = 0
    AfterRace = FALSE
CHECK_DEADLOCK FALSE
PROPERTIES
    RequestsComplete
    UnloadCompletes
    LowestVisited
