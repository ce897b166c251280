SPECIFICATION FairSpec
CONSTANTS
    Channels = {"a", "b"}
    Private = {"b"}
    Messages = {"m1", "m2"}
    ChannelOf <- OneEach
    Own = {}
    Strangers = {"m2"}
    Stamp <- Reversed
    Copies = {1}
    Runs = {1, 2}
    None = None
    MaxNotices = 0
    MaxFailures = 1
CONSTRAINT FewEvents
PROPERTIES
    ResultFound
CHECK_DEADLOCK FALSE
