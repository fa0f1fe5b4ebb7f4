SPECIFICATION LiveSpec
CONSTANTS
    Procs = {"p1", "p2", "p3"}
    OptIn = {"p1", "p2"}
    Scores <- MCScores
    MaxProcesses = 2
CHECK_DEADLOCK FALSE
INVARIANTS
    RequestNotLost
    TargetExists
    OnlyLeadersScanned
PROPERTIES
    ImplementsRequests
    StopReturns
    CallsReturn
    RequestAnswered
