SPECIFICATION Spec
CONSTANTS
    Channels = {"a", "b"}
    Members = {"ann", "bob"}
    Messages = {"m1", "m2"}
    ChannelOf <- Channel
    From <- Sender
    SentAt <- Time
    Words <- Content
    Strangers = {}
    Keywords = {"word"}
    Days = {2}
    None = None
    MaxTags = 2
CONSTRAINT FewTags
INVARIANTS
    TypeOK
    ResultsMatch
    NothingMissed
CHECK_DEADLOCK FALSE
