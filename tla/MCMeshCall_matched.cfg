SPECIFICATION Spec
CONSTANTS
    Clients = {1, 2, 3}
    Nobody = Nobody
    MaxLosses = 0
CONSTRAINT Bounds
INVARIANT AnswerMatches
CHECK_DEADLOCK FALSE
