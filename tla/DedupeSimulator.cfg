SPECIFICATION LiveSpec
CONSTANTS
    MaxScanned = 200
CHECK_DEADLOCK FALSE
INVARIANTS
    OnlyTabsShared
    ReportConsistent
    AllOrNothing
PROPERTIES
    MainEnds
