\* Two VMs, two coroutines, a change of season.
SPECIFICATION FairSpec
CONSTANTS
    v1 = v1
    v2 = v2
    p1 = p1
    p2 = p2
    none = none
    NoVm = none
    maker = maker
    Maker = maker
    Refreshers <- TwoRefreshers
    FreeVms <- NoFreeVm
    DayLength = 2
    Vms <- TwoVms
    Wall <- Spring
    Doomed <- OneVm
    Births <- Staggered
    Patches <- Broken
    MaxNow = 2
    MaxRefreshes = 2
INVARIANTS
    TypeOK
    OneBatchPerRefresher
    
PROPERTIES
    CleanWhenAlone
    RefreshEnds
