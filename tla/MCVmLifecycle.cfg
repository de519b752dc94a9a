\* One VM, one handler, two Ansible tasks, both runners of the lifecycle job,
\* one restart; administrators may mark the VM stopped.
SPECIFICATION FairSpec
CONSTANTS
    v1 = v1
    h1 = h1
    h2 = h2
    t1 = t1
    t2 = t2
    startup = startup
    interval = interval
    none = none
    NoVm = none
    Startup = startup
    Interval = interval
    Vms <- OneVm
    Handlers <- OneHandler
    Tasks <- TwoTasks
    AnsibleEnabled = TRUE
    AdminStatuses <- StopPatch
    MaxRestarts = 1
INVARIANTS
    TypeOK
    DestroyedMeansGone
    DownHasDestroyer
    ConfiguringHasTask
PROPERTIES
    DueVmIsTaken
