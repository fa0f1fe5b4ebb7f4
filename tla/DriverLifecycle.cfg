SPECIFICATION Spec
CONSTANTS
    Images = {i1, i2, i3}
    Other = Other
    Nobody = Nobody
CHECK_DEADLOCK FALSE
INVARIANTS
    LoadedIsReachable
    GoneIsClean
PROPERTIES
    LinkNotStolen
    ImplementsDriver
