SPECIFICATION LiveSpec
CONSTANTS
    Clients = {c1, c2}
    Scanner = scanner
    System = system
    NoThread = NoThread
    NoPid = NoPid
    Pids = {8}
    Frames = {0, 2}
    Maps <- MCMaps
    Contents = {x}
    SigOf <- MCSigOf
    InitMem <- MCInitMem
    InitProc <- MCInitProc
    MaxFrames = 2
    MaxScan = 1
    FreedContents <- MCFreed
    MaxRef = 2
    MaxEvents = 0
    AfterRace = FALSE
CHECK_DEADLOCK FALSE
PROPERTIES
    PromotedIsTracked
