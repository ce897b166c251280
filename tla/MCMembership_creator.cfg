SPECIFICATION Spec
CONSTANTS
    Users = {u1, u2}
    Workspaces = {w1}
    Members = {m1, m2}
    Channels = {c1}
    Roles = {}
    Ids = {1, 2}
    UserId <- UserIds
    None = None
SYMMETRY Symmetry
INVARIANT CreatorKept
CHECK_DEADLOCK FALSE
