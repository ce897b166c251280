SPECIFICATION FairSpec
CONSTANTS
    Messages = {1, 2}
    Instances = {1, 2}
    ChannelSockets = {"channel"}
    UserSockets = {"user"}
    Unopened = Unopened
    Closed = Closed
    Memberships = 2
    Copies <- CopiesOf
CONSTRAINTS
    InOrder
    OneLoss
INVARIANTS
    TypeOK
    HistoryCausal
    Accounted
    NotifiedFirst
PROPERTIES
    ImplementsFeed
    AudienceReached
CHECK_DEADLOCK FALSE
