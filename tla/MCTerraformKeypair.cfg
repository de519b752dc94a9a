\* Two requests of one VM, nothing refused, no restart: the second apply.
SPECIFICATION FairSpec
CONSTANTS
    r1 = r1
    r2 = r2
    x1 = x1
    none = none
    NoRequest = none
    Requests <- TwoRequests
    Quantity = 1
    ByHand <- NoneByHand
    CloudRefuses = FALSE
    MaxRestarts = 0
PROPERTIES
    EveryApplyProvisions
CHECK_DEADLOCK FALSE
