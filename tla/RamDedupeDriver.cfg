SPECIFICATION Spec
CONSTANTS
    Clients = {c1, c2}
    Scanner = scanner
    System = system
    NoThread = NoThread
    NoPid = NoPid
    Pids = {4}
    Frames = {0, 1, 2}
    Maps <- MCMaps
    Contents = {x, y}
    SigOf <- MCSigOf
    InitMem <- MCInitMem
    InitProc <- MCInitAny
    MaxFrames = 2
    MaxScan = 1
    FreedContents <- MCFreed
    MaxRef = 4
    MaxEvents = 1
    AfterRace = FALSE
SYMMETRY Symmetry
CHECK_DEADLOCK FALSE
INVARIANTS
    TypeOK
    NoLockCarriedOut
    PageEntriesWellFormed
    FramesAgree
    
PROPERTIES
    LeakIsPermanent
