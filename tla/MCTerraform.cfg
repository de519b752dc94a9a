\* Two requests of two VMs, one VM made by hand, refusals, one restart.
SPECIFICATION Spec
CONSTANTS
    r1 = r1
    r2 = r2
    x1 = x1
    none = none
    NoRequest = none
    Requests <- TwoRequests
    Quantity = 2
    ByHand <- OneByHand
    CloudRefuses = TRUE
    MaxRestarts = 1
INVARIANTS
    TypeOK
    RecordedIsFindable
    DestroyedIsGone
    OneRequestHasMachines
PROPERTIES
    MachinesGoWithTheirRequest
    KeepsContract
