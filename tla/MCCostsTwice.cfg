\* One VM, two coroutines, no change of season.
SPECIFICATION Spec
CONSTANTS
    v1 = v1
    v2 = v2
    p1 = p1
    p2 = p2
    none = none
    NoVm = none
    maker = maker
    Maker = maker
    Refreshers <- TwoRefreshers
    FreeVms <- NoFreeVm
    DayLength = 2
    Vms <- OneVm
    Wall <- Winter
    Doomed <- OneVm
    Births <- Anytime
    Patches <- Broken
    MaxNow = 2
    MaxRefreshes = 2
INVARIANT
    HoursAreReal
