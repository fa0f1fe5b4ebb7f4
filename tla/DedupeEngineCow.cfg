SPECIFICATION Spec
CONSTANTS
    Regions = {r1, r2}
    NoRegion = NoRegion
    NumPages = 3
    OptedIn = {r1}
    Bytes = {a, b}
    Rests = {x, y}
    SigOf <- MCSigOf
    MaxScanned = 6
    MaxWrites = 3
CHECK_DEADLOCK FALSE
PROPERTIES
    WriteToSharedCopies
