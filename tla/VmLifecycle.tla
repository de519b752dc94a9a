----------------------------- MODULE VmLifecycle -----------------------------
(***************************************************************************)
(* The life of virtual machines: services/vm_service.py, the Ansible jobs  *)
(* of services/vm_request_service.py and jobs/lifecycle.py.                *)
(*                                                                         *)
(* Four kinds of coroutine write the status of a VM, each with a session   *)
(* of its own: an HTTP handler that destroys or patches it, an Ansible     *)
(* task that configures it, the batch of the lifecycle job that destroys   *)
(* the VMs whose end date is reached, and the handler that creates it.     *)
(* Destroy and retry read the row with SELECT ... FOR UPDATE and commit    *)
(* without any wait but the database's: no other transaction changes the   *)
(* row in between, and a plain read in between returns what it would have  *)
(* returned before, so each is one action here.  Everything else reads     *)
(* without a lock and commits later what it decided then.                  *)
(***************************************************************************)
EXTENDS Naturals, CloudLabData

CONSTANTS
    Vms,                \* virtual machines that may be created
    Handlers,           \* coroutines serving HTTP requests
    Tasks,              \* bound: Ansible tasks alive at the same time
    Startup, Interval,  \* the two runners of the lifecycle job
    NoVm,               \* the VM of an actor that has none
    AnsibleEnabled,     \* the setting ANSIBLE_ENABLED
    AdminStatuses,      \* the statuses administrators write by PATCH
    MaxRestarts         \* bound: how often the server process restarts

Jobs   == {Startup, Interval}
Actors == Handlers \union Jobs

ASSUME ActorsAssumption   == Startup # Interval /\ Handlers \intersect Jobs = {}
ASSUME NoVmAssumption     == NoVm \notin Vms
ASSUME AnsibleAssumption  == AnsibleEnabled \in BOOLEAN
ASSUME AdminAssumption    == AdminStatuses \subseteq VmStatus
ASSUME RestartsAssumption == MaxRestarts \in Nat

VARIABLES
    status,       \* status[v]: the committed status of v, or "absent"
    destroyedAt,  \* destroyedAt[v]: the column destroyed_at is set
    hasId,        \* hasId[v]: the column provider_vm_id is set
    due,          \* due[v]: the end date of v is reached
    cloud,        \* cloud[v]: the server, "up" or "gone": given up for deletion
    tpc, tvm,     \* an Ansible task: what it is about to do, and its VM
    tseen,        \* tseen[t]: the status task t's session holds
    apc, avm,     \* a handler or runner: what it is about to do, and its VM
    aseen, want,  \* a PATCH handler: status loaded, status to write
    batch,        \* batch[j]: VMs runner j has loaded and not reached yet
    ided,         \* ided[j]: those of them that had a provider id
    restarts      \* restarts of the server process so far

rowVars  == <<status, destroyedAt, hasId>>
taskVars == <<tpc, tvm, tseen>>
actVars  == <<apc, avm, aseen, want>>
jobVars  == <<batch, ided>>
vars     == <<rowVars, due, cloud, taskVars, actVars, jobVars, restarts>>

TaskPCs  == {"free", "queued", "requeued", "loaded", "playing"}
ActorPCs == {"idle", "batch", "done", "deleting", "deleted", "raised",
             "patching", "reporting", "closing"}

TypeOK ==
    /\ status \in [Vms -> VmStatus \union {"absent"}]
    /\ destroyedAt \in [Vms -> BOOLEAN]
    /\ hasId \in [Vms -> BOOLEAN]
    /\ due \in [Vms -> BOOLEAN]
    /\ cloud \in [Vms -> {"up", "gone"}]
    /\ tpc \in [Tasks -> TaskPCs]
    /\ tvm \in [Tasks -> Vms \union {NoVm}]
    /\ tseen \in [Tasks -> VmStatus]
    /\ apc \in [Actors -> ActorPCs]
    /\ avm \in [Actors -> Vms \union {NoVm}]
    /\ aseen \in [Actors -> VmStatus]
    /\ want \in [Actors -> VmStatus]
    /\ batch \in [Jobs -> SUBSET Vms]
    /\ ided \in [Jobs -> SUBSET Vms]
    /\ restarts \in 0..MaxRestarts

Init ==
    /\ status      = [v \in Vms |-> "absent"]
    /\ destroyedAt = [v \in Vms |-> FALSE]
    /\ hasId       = [v \in Vms |-> FALSE]
    /\ due         = [v \in Vms |-> FALSE]
    /\ cloud       = [v \in Vms |-> "up"]
    /\ restarts    = 0
    /\ tpc   = [t \in Tasks |-> "free"]
    /\ tvm   = [t \in Tasks |-> NoVm]
    /\ tseen = [t \in Tasks |-> "creating"]
    /\ apc   = [a \in Actors |-> "idle"]
    /\ avm   = [a \in Actors |-> NoVm]
    /\ aseen = [a \in Actors |-> "creating"]
    /\ want  = [a \in Actors |-> "creating"]
    /\ batch = [j \in Jobs |-> {}]
    /\ ided  = [j \in Jobs |-> {}]

-----------------------------------------------------------------------------
(* Helpers.                                                                *)

\* The server accepts HTTP requests once its startup hook has returned.
Serving == apc[Startup] = "done"

SetStatus(v, s) == status' = [status EXCEPT ![v] = s]

TaskStep(t, p, v, s) ==
    /\ tpc'   = [tpc EXCEPT ![t] = p]
    /\ tvm'   = [tvm EXCEPT ![t] = v]
    /\ tseen' = [tseen EXCEPT ![t] = s]

ActorStep(a, p, v, s, w) ==
    /\ apc'   = [apc EXCEPT ![a] = p]
    /\ avm'   = [avm EXCEPT ![a] = v]
    /\ aseen' = [aseen EXCEPT ![a] = s]
    /\ want'  = [want EXCEPT ![a] = w]

Move(a, p, v) == ActorStep(a, p, v, "creating", "creating")

-----------------------------------------------------------------------------
(* The environment.                                                        *)

EndDateArrives(v) ==
    /\ ~due[v]
    /\ due' = [due EXCEPT ![v] = TRUE]
    /\ UNCHANGED <<rowVars, cloud, taskVars, actVars, jobVars, restarts>>

\* An operator deletes the server with the infrastructure tools, outside of
\* the portal, and may report it afterwards.
InfraDeletes(v) ==
    /\ status[v] # "absent"
    /\ cloud[v] = "up"
    /\ cloud' = [cloud EXCEPT ![v] = "gone"]
    /\ UNCHANGED <<rowVars, due, taskVars, actVars, jobVars, restarts>>

-----------------------------------------------------------------------------
(* Creation and Ansible.                                                   *)

\* The transaction that inserts the VM, and the Ansible task scheduled right
\* after it, whatever ANSIBLE_ENABLED says.
CreateVm(v, t) ==
    /\ Serving
    /\ status[v] = "absent"
    /\ tpc[t] = "free"
    /\ SetStatus(v, IF AnsibleEnabled THEN "configuring" ELSE "running")
    /\ hasId' = [hasId EXCEPT ![v] = TRUE]
    /\ TaskStep(t, "queued", v, "creating")
    /\ UNCHANGED <<destroyedAt, due, cloud, actVars, jobVars, restarts>>

\* Mutant of RetryAnsible: no new task while one is alive.
RetryAnsibleUnlessConfiguring(v, t) ==
    /\ Serving
    /\ status[v] \notin {"absent", "destroyed", "down"}
    /\ tpc[t] = "free"
    /\ SetStatus(v, "configuring")
    /\ IF \E u \in Tasks : tvm[u] = v
       THEN UNCHANGED taskVars
       ELSE TaskStep(t, "requeued", v, "creating")
    /\ UNCHANGED <<destroyedAt, hasId, due, cloud, actVars, jobVars, restarts>>

\* POST .../retry-ansible: 409 when destroyed or down; else "configuring" is
\* committed and a task scheduled.  (Without an IP address: 409 as well.)
RetryAnsible(v, t) ==
    /\ Serving
    /\ status[v] \notin {"absent", "destroyed", "down"}
    /\ tpc[t] = "free"
    /\ SetStatus(v, "configuring")
    /\ TaskStep(t, "requeued", v, "creating")
    /\ UNCHANGED <<destroyedAt, hasId, due, cloud, actVars, jobVars, restarts>>

\* The first task of a VM loads it ...
TaskLoad(t) ==
    /\ tpc[t] = "queued"
    /\ TaskStep(t, "loaded", tvm[t], status[tvm[t]])
    /\ UNCHANGED <<rowVars, due, cloud, actVars, jobVars, restarts>>

\* ... and commits "configuring" before it runs the playbook.
TaskStart(t) ==
    /\ tpc[t] = "loaded"
    /\ SetStatus(tvm[t], Flushed(status[tvm[t]], tseen[t], "configuring"))
    /\ TaskStep(t, "playing", tvm[t], "configuring")
    /\ UNCHANGED <<destroyedAt, hasId, due, cloud, actVars, jobVars, restarts>>

\* The task of a retry loads the VM and writes no status before the playbook.
RetryTaskLoad(t) ==
    /\ tpc[t] = "requeued"
    /\ TaskStep(t, "playing", tvm[t], status[tvm[t]])
    /\ UNCHANGED <<rowVars, due, cloud, actVars, jobVars, restarts>>

\* The playbook ended, failed or timed out (disabled: it was skipped).
PlayOutcomes == IF AnsibleEnabled THEN {"running", "error"} ELSE {"running"}

TaskEnd(t, s) ==
    /\ tpc[t] = "playing"
    /\ s \in PlayOutcomes
    /\ SetStatus(tvm[t], Flushed(status[tvm[t]], tseen[t], s))
    /\ TaskStep(t, "free", NoVm, "creating")
    /\ UNCHANGED <<destroyedAt, hasId, due, cloud, actVars, jobVars, restarts>>

-----------------------------------------------------------------------------
(* The provider, for a handler or for the lifecycle job.                   *)

\* The provider accepts the deletion, or answers that there is no such server.
\* "gone" is that: OpenStack answers 202 before it has deleted anything, and
\* the code does not wait.
ProviderDeletes(a) ==
    /\ apc[a] = "deleting"
    /\ cloud' = [cloud EXCEPT ![avm[a]] = "gone"]
    /\ Move(a, "deleted", avm[a])
    /\ UNCHANGED <<rowVars, due, taskVars, jobVars, restarts>>

\* The call raises: refused, unreachable, or the answer to a deletion that
\* was carried out is lost.
ProviderRaises(a) ==
    /\ apc[a] = "deleting"
    /\ \E c \in {cloud[avm[a]], "gone"} : cloud' = [cloud EXCEPT ![avm[a]] = c]
    /\ Move(a, "raised", avm[a])
    /\ UNCHANGED <<rowVars, due, taskVars, jobVars, restarts>>

-----------------------------------------------------------------------------
(* POST .../destroy.                                                       *)

\* 409 when down, or when there is no provider id; nothing to do when
\* destroyed; else commit "down" and call the provider.
UserDestroy(h, v) ==
    /\ Serving
    /\ apc[h] = "idle"
    /\ status[v] \notin {"absent", "destroyed", "down"}
    /\ hasId[v]
    /\ SetStatus(v, "down")
    /\ Move(h, "deleting", v)
    /\ UNCHANGED <<destroyedAt, hasId, due, cloud, taskVars, jobVars, restarts>>

\* After the provider answered: the transaction that ends the destruction.
UserDestroyed(h) ==
    /\ apc[h] = "deleted"
    /\ SetStatus(avm[h], "destroyed")
    /\ destroyedAt' = [destroyedAt EXCEPT ![avm[h]] = TRUE]
    /\ Move(h, "idle", NoVm)
    /\ UNCHANGED <<hasId, due, cloud, taskVars, jobVars, restarts>>

\* Mutant of UserDestroyFails: the failure is not recorded.
UserDestroyFailsSilently(h) ==
    /\ apc[h] = "raised"
    /\ Move(h, "idle", NoVm)
    /\ UNCHANGED <<rowVars, due, cloud, taskVars, jobVars, restarts>>

UserDestroyFails(h) ==
    /\ apc[h] = "raised"
    /\ SetStatus(avm[h], "error")
    /\ Move(h, "idle", NoVm)
    /\ UNCHANGED <<destroyedAt, hasId, due, cloud, taskVars, jobVars, restarts>>

-----------------------------------------------------------------------------
(* The lifecycle job: once in the startup hook, then at every interval,    *)
(* never two at once from the scheduler (max_instances=1).                 *)

Destroyable == {"configuring", "running", "stopped", "expired"}

\* Mutant of LoadBatch: stopped VMs are not selected.
LoadBatchButStopped(j) ==
    /\ apc[j] = "idle"
    /\ LET loaded == {v \in Vms : due[v] /\ status[v] \in Destroyable \ {"stopped"}} IN
           /\ batch' = [batch EXCEPT ![j] = loaded]
           /\ ided' = [ided EXCEPT ![j] = {v \in loaded : hasId[v]}]
    /\ Move(j, "batch", NoVm)
    /\ UNCHANGED <<rowVars, due, cloud, taskVars, restarts>>

\* One SELECT loads the batch.
LoadBatch(j) ==
    /\ apc[j] = "idle"
    /\ LET loaded == {v \in Vms : due[v] /\ status[v] \in Destroyable} IN
           /\ batch' = [batch EXCEPT ![j] = loaded]
           /\ ided' = [ided EXCEPT ![j] = {v \in loaded : hasId[v]}]
    /\ Move(j, "batch", NoVm)
    /\ UNCHANGED <<rowVars, due, cloud, taskVars, restarts>>

\* The next VM of the batch leaves it.
Take(j, v) ==
    /\ apc[j] = "batch"
    /\ v \in batch[j]
    /\ batch' = [batch EXCEPT ![j] = @ \ {v}]
    /\ ided' = [ided EXCEPT ![j] = @ \ {v}]

\* It had a provider id when loaded: commit "down" and call the provider.
\* Its status is not looked at again, whatever happened since the SELECT.
JobDestroy(j, v) ==
    /\ v \in ided[j]
    /\ Take(j, v)
    /\ SetStatus(v, "down")
    /\ Move(j, "deleting", v)
    /\ UNCHANGED <<destroyedAt, hasId, due, cloud, taskVars, restarts>>

\* It had none: commit "error" and go on.
JobCannotDestroy(j, v) ==
    /\ v \notin ided[j]
    /\ Take(j, v)
    /\ SetStatus(v, "error")
    /\ UNCHANGED <<destroyedAt, hasId, due, cloud, taskVars, actVars, restarts>>

JobDestroyed(j) ==
    /\ apc[j] = "deleted"
    /\ SetStatus(avm[j], "destroyed")
    /\ destroyedAt' = [destroyedAt EXCEPT ![avm[j]] = TRUE]
    /\ Move(j, "batch", NoVm)
    /\ UNCHANGED <<hasId, due, cloud, taskVars, jobVars, restarts>>

\* Mutant of JobDestroyFails: a failure is taken for a success.
JobDestroyFailsAsDestroyed(j) ==
    /\ apc[j] = "raised"
    /\ SetStatus(avm[j], "destroyed")
    /\ Move(j, "batch", NoVm)
    /\ UNCHANGED <<destroyedAt, hasId, due, cloud, taskVars, jobVars, restarts>>

JobDestroyFails(j) ==
    /\ apc[j] = "raised"
    /\ SetStatus(avm[j], "error")
    /\ Move(j, "batch", NoVm)
    /\ UNCHANGED <<destroyedAt, hasId, due, cloud, taskVars, jobVars, restarts>>

\* The batch is finished: the startup hook returns, the interval job will run
\* again.
EndBatch(j) ==
    /\ apc[j] = "batch"
    /\ batch[j] = {}
    /\ Move(j, IF j = Startup THEN "done" ELSE "idle", NoVm)
    /\ UNCHANGED <<rowVars, due, cloud, taskVars, jobVars, restarts>>

-----------------------------------------------------------------------------
(* PATCH of the status, of the provisioning result, of the destruction     *)
(* result: a read without a lock, and a commit.                            *)

\* Mutant of ReadForPatch: no 404 for a missing row.
ReadForPatchUnchecked(h, v, p, s) ==
    /\ Serving
    /\ apc[h] = "idle"
    /\ p \in {"patching", "reporting"}
    /\ ActorStep(h, p, v, status[v], s)
    /\ UNCHANGED <<rowVars, due, cloud, taskVars, jobVars, restarts>>

ReadForPatch(h, v, p, s) ==
    /\ Serving
    /\ apc[h] = "idle"
    /\ status[v] # "absent"
    /\ p \in {"patching", "reporting"}
    /\ ActorStep(h, p, v, status[v], s)
    /\ UNCHANGED <<rowVars, due, cloud, taskVars, jobVars, restarts>>

CommitPatch(h) ==
    /\ apc[h] = "patching"
    /\ SetStatus(avm[h], Flushed(status[avm[h]], aseen[h], want[h]))
    /\ Move(h, "idle", NoVm)
    /\ UNCHANGED <<destroyedAt, hasId, due, cloud, taskVars, jobVars, restarts>>

\* The provider id of the payload may be missing.
CommitProvisioningResult(h) ==
    /\ apc[h] = "reporting"
    /\ SetStatus(avm[h], Flushed(status[avm[h]], aseen[h], want[h]))
    /\ \E id \in BOOLEAN : hasId' = [hasId EXCEPT ![avm[h]] = id]
    /\ Move(h, "idle", NoVm)
    /\ UNCHANGED <<destroyedAt, due, cloud, taskVars, jobVars, restarts>>

\* A destruction is reported once the server is gone.
ReadForDestruction(h, v) ==
    /\ Serving
    /\ apc[h] = "idle"
    /\ status[v] # "absent"
    /\ cloud[v] = "gone"
    /\ ActorStep(h, "closing", v, status[v], "destroyed")
    /\ UNCHANGED <<rowVars, due, cloud, taskVars, jobVars, restarts>>

CommitDestruction(h) ==
    /\ apc[h] = "closing"
    /\ SetStatus(avm[h], Flushed(status[avm[h]], aseen[h], "destroyed"))
    /\ destroyedAt' = [destroyedAt EXCEPT ![avm[h]] = TRUE]
    /\ Move(h, "idle", NoVm)
    /\ UNCHANGED <<hasId, due, cloud, taskVars, jobVars, restarts>>

-----------------------------------------------------------------------------

\* The process restarts: tasks, handlers and batches are gone (a deletion that
\* was asked for may or may not have been carried out: ProviderDeletes has or
\* has not happened), and the startup hook runs again.
Restart ==
    /\ restarts < MaxRestarts
    /\ restarts' = restarts + 1
    /\ tpc'   = [t \in Tasks |-> "free"]
    /\ tvm'   = [t \in Tasks |-> NoVm]
    /\ tseen' = [t \in Tasks |-> "creating"]
    /\ apc'   = [a \in Actors |-> "idle"]
    /\ avm'   = [a \in Actors |-> NoVm]
    /\ aseen' = [a \in Actors |-> "creating"]
    /\ want'  = [a \in Actors |-> "creating"]
    /\ batch' = [j \in Jobs |-> {}]
    /\ ided'  = [j \in Jobs |-> {}]
    /\ UNCHANGED <<rowVars, due, cloud>>

\* What an HTTP request about v makes an idle handler do.
Arrival(h, v) ==
    \/ UserDestroy(h, v)
    \/ \E p \in {"patching", "reporting"}, s \in AdminStatuses : ReadForPatch(h, v, p, s)
    \/ ReadForDestruction(h, v)

HandlerStep(h) ==
    \/ ProviderDeletes(h) \/ ProviderRaises(h)
    \/ UserDestroyed(h) \/ UserDestroyFails(h)
    \/ CommitPatch(h) \/ CommitProvisioningResult(h) \/ CommitDestruction(h)

JobStep(j) ==
    \/ LoadBatch(j)
    \/ \E v \in Vms : JobDestroy(j, v) \/ JobCannotDestroy(j, v)
    \/ ProviderDeletes(j) \/ ProviderRaises(j)
    \/ JobDestroyed(j) \/ JobDestroyFails(j)
    \/ EndBatch(j)

TaskStepOf(t) ==
    \/ TaskLoad(t) \/ TaskStart(t) \/ RetryTaskLoad(t)
    \/ \E s \in {"running", "error"} : TaskEnd(t, s)

Next ==
    \/ \E v \in Vms : EndDateArrives(v) \/ InfraDeletes(v)
    \/ \E v \in Vms, t \in Tasks : CreateVm(v, t) \/ RetryAnsible(v, t)
    \/ \E h \in Handlers, v \in Vms : Arrival(h, v)
    \/ \E h \in Handlers : HandlerStep(h)
    \/ \E j \in Jobs : JobStep(j)
    \/ \E t \in Tasks : TaskStepOf(t)
    \/ Restart

Spec == Init /\ [][Next]_vars

\* The event loop runs every ready coroutine; the scheduler starts its job at
\* every interval; playbooks have a timeout and the provider is assumed to
\* answer or raise.
Fairness ==
    /\ \A h \in Handlers : WF_vars(HandlerStep(h))
    /\ \A j \in Jobs : WF_vars(JobStep(j))
    /\ \A t \in Tasks : WF_vars(TaskStepOf(t))

FairSpec == Spec /\ Fairness

-----------------------------------------------------------------------------
(* Properties.                                                             *)

\* "destroyed = la ressource cloud a vraiment ete supprimee": a VM shows as
\* destroyed, or has a destruction date, only when its server is gone.  (The
\* status written by PATCH is taken on trust; AdminStatuses excludes it.)
DestroyedMeansGone ==
    \A v \in Vms : status[v] = "destroyed" \/ destroyedAt[v] => cloud[v] = "gone"

\* A VM shows as down only while somebody is destroying it: "down" answers 409
\* to a new destruction, and the lifecycle job skips it, so a VM left in it
\* would stay at the provider for ever.  A restart does leave some in it.
Destroying(a, v) == apc[a] \in {"deleting", "deleted", "raised"} /\ avm[a] = v

DownHasDestroyer ==
    restarts = 0 =>
        \A v \in Vms : status[v] = "down" => \E a \in Actors : Destroying(a, v)

\* A VM shows as configuring only while a task that will end this status is
\* alive: its session must not hold the status it is going to write, or the
\* write would be skipped.  A restart loses the task.
Ending(t, v) ==
    /\ tvm[t] = v
    /\ tpc[t] = "playing" => tseen[t] = "configuring"

ConfiguringHasTask ==
    restarts = 0 =>
        \A v \in Vms : status[v] = "configuring" => \E t \in Tasks : Ending(t, v)

\* A VM whose end date is reached does not stay running (nor configuring,
\* stopped or expired): the lifecycle job takes it.
DueVmIsTaken ==
    \A v \in Vms :
        (due[v] /\ status[v] \in Destroyable) ~> (status[v] \notin Destroyable)

\* "destroyed" is the end of a VM's life: nothing writes another status later.
DestroyedIsFinal ==
    [][\A v \in Vms : status[v] = "destroyed" => status'[v] = "destroyed"]_vars

\* "Le scheduler detruit la VM a sa date de fin": once the end date is reached,
\* whatever state the VM is in, its destruction is at least started.
EndDateStartsDestruction ==
    \A v \in Vms : (due[v] /\ status[v] # "absent") ~> (status[v] \in {"down", "destroyed"})

=============================================================================
