SPECIFICATION FairSpec
CONSTANTS
    Clients = {1, 2, 3}
    Rooms = {1, 2}
    NoRoom = NoRoom
    NoSet = NoSet
CONSTRAINT Bounds
INVARIANTS
    TypeOK
    NoGlare
    ListedReachable
    CalleeTold
    ListedSameRoom
    SerialRosterExact
    SerialMesh
PROPERTY DepartedCleared
CHECK_DEADLOCK FALSE
