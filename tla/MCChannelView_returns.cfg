SPECIFICATION Spec
CONSTANTS
    Channels = {"a", "b"}
    Private = {"b"}
    Messages = {"m1", "m2"}
    ChannelOf <- OneEach
    Own = {"m1"}
    Strangers = {}
    Stamp <- Reversed
    Copies = {1}
    Runs = {1, 2}
    None = None
    MaxNotices = 0
    MaxFailures = 0
CONSTRAINT FewEvents
INVARIANTS
    ReturnsToOriginal
CHECK_DEADLOCK FALSE
