SPECIFICATION Spec
CONSTANTS
    Clients = {1, 2}
    Rooms = {1}
    NoRoom = NoRoom
    NoSet = NoSet
CONSTRAINT Bounds
INVARIANTS
    Mesh
CHECK_DEADLOCK FALSE
