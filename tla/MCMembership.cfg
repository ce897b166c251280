SPECIFICATION Spec
CONSTANTS
    Users = {u1, u2}
    Workspaces = {w1, w2}
    Members = {m1, m2, m3}
    Channels = {c1}
    Roles = {x1}
    Ids = {1, 2, 3}
    UserId <- UserIds
    None = None
SYMMETRY Symmetry
CONSTRAINT ChannelsOrRoles
INVARIANTS
    TypeOK
    OneCreator
    ChannelCreatorAtHome
    ChannelHasHistory
PROPERTY UpdateExact
CHECK_DEADLOCK FALSE
