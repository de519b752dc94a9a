\* One VM, one handler, one Ansible task, no PATCH and no restart: the end of a
\* playbook against a destruction.
SPECIFICATION Spec
CONSTANTS
    v1 = v1
    h1 = h1
    h2 = h2
    t1 = t1
    t2 = t2
    startup = startup
    interval = interval
    none = none
    NoVm = none
    Startup = startup
    Interval = interval
    Vms <- OneVm
    Handlers <- OneHandler
    Tasks <- OneTask
    AnsibleEnabled = TRUE
    AdminStatuses <- NoPatch
    MaxRestarts = 0
PROPERTIES
    DestroyedIsFinal
