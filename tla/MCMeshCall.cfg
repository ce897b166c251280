SPECIFICATION FairSpec
CONSTANTS
    Clients = {1, 2, 3}
    Nobody = Nobody
    MaxLosses = 2
CONSTRAINT Bounds
INVARIANTS
    TypeOK
    WrongOnlyIfOverlapped
    EndsAgree
    DepartedForgotten
    
PROPERTY OfferAnswered
CHECK_DEADLOCK FALSE
