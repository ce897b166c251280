SPECIFICATION Spec
CONSTANTS
    Channels = {"a", "b"}
    Private = {"a", "b"}
    Messages = {"m1", "m2"}
    ChannelOf <- Together
    Own = {}
    Strangers = {"m2"}
    Stamp <- Reversed
    Copies = {k1, k2}
    Runs = {r1, r2}
    k1 = k1
    k2 = k2
    r1 = r1
    r2 = r2
    None = None
    MaxNotices = 2
    MaxFailures = 1
CONSTRAINT FewEvents
SYMMETRY Symmetry
INVARIANTS
    TypeOK
    NothingAnnouncedTwice
    PageAgrees
    
    
    TwiceOnlyIfLive
CHECK_DEADLOCK FALSE
