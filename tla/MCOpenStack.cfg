\* Two requests of two VMs, with and without floating IPs, two lost answers, one restart.
SPECIFICATION FairSpec
CONSTANTS
    r1 = r1
    r2 = r2
    Requests <- TwoRequests
    Quantity = 2
    MaxLost = 2
    MaxRestarts = 1
INVARIANTS
    TypeOK
    RecordedHasMachine
    OrphansAreOfFailures
    IdleAddressExplained
PROPERTIES
    ProvisioningEnds
    KeepsContract
CHECK_DEADLOCK FALSE
