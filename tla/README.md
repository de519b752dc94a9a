# Cloud Lab: specifications and proofs

This directory verifies the server of Cloud Lab (`src/server`), a portal where
students and teachers request virtual machines, validators approve them, a
provisioner (OpenStack, Terraform or a mock) creates them, Ansible configures
them, and a scheduled job destroys them at their end date. It holds TLA+
modules translated from the Python code, TLC configurations that check them on
small instances, and proofs checked by TLAPS.

Five parts are modelled each by a specification of its own: the requests, the
VMs, the two provisioners that create real machines (with the contract both
implement), the cost records, and signing in.

Contents: [the system](#the-system), [the modules](#the-modules),
[what the runs show](#what-the-runs-show), [bounds](#bounds),
[fairness](#fairness), [what is proved](#what-is-proved),
[what is not modelled](#what-is-not-modelled), [plan](#plan).

## The system

One FastAPI process, one PostgreSQL database, one cloud. Every HTTP request is
a coroutine with a database session of its own (`db/session.py`); Ansible runs
in tasks that outlive the request that started them; APScheduler runs the
lifecycle job. The database is the only state that survives the process, and
the rows of `vm_requests` and `virtual_machines` are the shared state that
everything races on.

| Component | State it keeps | Operations | Interacts with | What makes it correct |
|---|---|---|---|---|
| VM requests, `services/vm_request_service.py` | `vm_requests.status`, notifications | create (a teacher's is approved at once), approve, provision, reject, patch | provisioner (creates), VM rows (inserts), Ansible tasks (starts) | the cloud is asked once for a request; a verdict announced is true; a failure is visible |
| VM lifecycle, `services/vm_service.py`, `jobs/lifecycle.py` | `virtual_machines.status`, `destroyed_at`, `provider_vm_id` | destroy, patch, provisioning and destruction results, retry Ansible, batch of due VMs | provisioner (deletes), Ansible tasks | destroyed means gone; nothing stays in a transient status; due VMs are destroyed |
| Ansible, `services/ansible_service.py` | none (a process per playbook) | run a playbook with a timeout | VM status | the outcome reaches the VM it is about, and only while it is wanted |
| Scheduler, `jobs/scheduler.py`, `main.py` | job instances | run at startup, then at an interval | lifecycle job | runs may overlap without harm |
| OpenStack, `services/openstack_service.py` | servers, floating addresses (at the cloud) | create several servers, delete one | called by the two services | what was recorded is up until its deletion is accepted; what is left over belongs to failures |
| Terraform, `services/terraform_service.py`, `src/infrastructure` | a run directory and a state per request, one keypair in the project | init, apply, output, destroy; the sync script | called by the two services | a destroy finds the directory of its VM and takes machines of its request only |
| Costs, `services/cost_service.py` | `cost_records` | delete and insert the records of a VM, or of all | dashboard, `/metrics`, destruction | each hour of a VM is counted once; refreshes end |
| Authentication, `services/oidc_service.py`, `routes/auth.py`, `core/security.py` | cookie session (in the browser), users | OIDC handshake, mock and JWT login, logout | every route, Entra ID | a session is that of who signed in from that browser, has a row, and agrees with the directory |
| Audit, notifications, dashboard, monitoring, catalogue | append-only rows, queries | insert, list | everything | - |
| Front end (`src/app`), Terraform and Ansible code, scripts | - | - | HTTP, processes | - |

The hard parts, listed line by line in `PROJECT.json` under `hazards`, are of
six kinds. *Reads that are not locked*: reject, PATCH, the lifecycle batch and
the Ansible tasks read a row, wait (for a lock, a cloud, a playbook) and write
what they decided before. *Long steps between two commits*: a status is
committed before the cloud is called, so a restart can fall in between.
*Failures*: of the provisioner, of a playbook, of an answer that is lost, and of
the code that records a failure. *Sessions*: SQLAlchemy writes an attribute only
when it differs from what the session loaded, so an assignment may overwrite
another transaction's value, or silently write nothing. *State outside of the
database*: servers and addresses, Terraform states and result files, cookies;
nothing makes it change together with a row. *Delete, then insert*: two
transactions under READ COMMITTED that replace the same rows do not see each
other's.

## The modules

| Module | What it is |
|---|---|
| `CloudLabData` | the status enumerations; `Flushed`, what a session writes when it flushes an assigned attribute |
| `RequestWorkflow` | the request workflow: one action per step between two points where another coroutine can act |
| `ProvisionOnce` | the abstract promise about cloud resources: open, claimed, launched, delivered or closed, and never back |
| `RequestWorkflowProofs` | theorems about `RequestWorkflow` |
| `VmLifecycle` | the VM lifecycle: handlers, Ansible tasks, lifecycle job, provider |
| `VmLifecycleProofs` | theorems about `VmLifecycle` |
| `ProvisionerContract` | what the services expect of a provisioner, whichever it is |
| `OpenStackProvisioner` | `create_vms` and `destroy_vm` over the OpenStack API, call by call |
| `OpenStackProofs` | theorems about `OpenStackProvisioner` |
| `TerraformProvisioner` | run directories, apply and destroy resource by resource, the shared keypair, the sync script |
| `TerraformProofs` | theorems about `TerraformProvisioner` |
| `CostLedger` | cost refreshes as PostgreSQL transactions, and the split of a life into days |
| `CostProofs` | theorems about `CostLedger` |
| `AuthSession` | signing in and out: cookies, handshakes, first logins |
| `AuthProofs` | theorems about `AuthSession`: types, and who has accounts |
| `AuthSessionProofs` | theorems about `AuthSession`: whose session it is, roles, logging out |
| `DataLemmas` | least and greatest elements of sets of numbers; induction over a set |
| `MCRequestWorkflow`, `MCVmLifecycle`, `MCOpenStack`, `MCTerraform`, `MCCosts`, `MCAuth` | instances for TLC |

`RequestWorkflow` and `VmLifecycle` see a provisioner from its callers: it
answers or raises. The provisioners' modules see the callers from inside: a
request begins, is recorded or fails, and a VM is destroyed. `ProvisionerContract`
stands between them.

**The grain.** A coroutine runs alone between two `await`s, and only awaits on
the database, the provider and the playbook let something happen that matters.
So an action is: a statement that reads the row that decides; a commit; a call
to the provider; its answer. Assignments to attributes take effect at the
commit, as `Flushed(stored, loaded, assigned)`. PostgreSQL runs READ COMMITTED:
a plain SELECT never waits, `SELECT ... FOR UPDATE` holds the row until the
transaction ends, and UPDATEs wait for it; so does the INSERT of a VM, whose
foreign key locks the row of its request.

**`RequestWorkflow`.** `status`, `batches` (commits that inserted VM rows) and
`notified` are database state, `launches` counts calls of `create_vms`. A handler
has a program counter `pc`, the request `job`, the status `seen` its session
holds, and the status `want` of a PATCH.

| Action | Code |
|---|---|
| `CreatePending`, `CreateAutoApproved` | `create`: one transaction, pending or (teacher) already provisioning |
| `SelectForUpdate` | `_get_request_for_update`: waits for the row, then holds it |
| `Claim`, `RefuseClaim` | the checks of `approve_and_provision` and `mark_provisioning_requested` with `_ensure_not_already_provisioned`; commit of provisioning, or 409 |
| `BeginCreate` | `provisioner.create_vms` is called |
| `RecordVms` | the rest of `_provision_request` and its commit |
| `ProvisionFails`, `MarkFailed`, `MarkRaises` | an exception, the rollback and re-read, then the commit of failed, or a second exception |
| `ReadForReject`, `CommitReject`, `ReadForPatch`, `CommitPatch` | `reject`, `patch` |
| `Restart` | the process stops and starts: handlers and open transactions are gone |

The read of `actor.id` after the rollback is a constant, `ExpiredRead`: it
"raises" (SQLAlchemy's `MissingGreenlet`) or "loads" (what the handler was
written for). The main run allows both, so that the safety properties do not
depend on the defect; the run about the defect uses "raises" alone.

**`VmLifecycle`.** `status`, `destroyedAt` and `hasId` are the row, `due` its
end date, `cloud` the server. Tasks have `tpc`, `tvm`, `tseen`; handlers and the
two runners of the job have `apc`, `avm`, `aseen`, `want`; runners also have the
`batch` they loaded, and which of it had a provider id (`ided`). A destroy
request reads its row FOR UPDATE and commits with no wait but the database's, so
it is one action up to its call of the provider; so is a retry. What is read
from the objects of a batch is what the batch's SELECT loaded, because sessions
do not expire at commit (`expire_on_commit=False`). The provider either deletes
(`ProviderDeletes`: accepted, or no such server) or raises (`ProviderRaises`:
refused, unreachable, or carried out with the answer lost). A retry needs an IP
address and a destruction needs an owner or a role: such checks only keep
requests out, and requests come at any time or never, so they are left out.

`InfraDeletes` and `EndDateArrives` are the environment. A destruction result is
reported only for a server that is gone; that is the operator's part of the
contract stated in `src/server/README.md`.

**`ProvisionerContract`.** A request is new, working, provisioned or failed, and
`up` is the set of VMs with a usable machine. Machines appear for a request in
the making, or for one that failed (nobody takes back what was made); a request
succeeds only when all of its VMs are up; machines disappear only from
provisioned requests, and those never gain any. Both provisioners implement it;
for them a coroutine that a restart has cut is still working.

**`OpenStackProvisioner`.** A VM is the pair of its request and its index in the
loop. `server` and `fip` are the machine and the floating IP of a VM, `recorded`
the VMs with a row; `pc` and `index` are the coroutine of a request; `floating`
is `TERRAFORM_ASSIGN_FLOATING_IP`. `told`, `lost` and `spoiled` are history: the
VMs for which `destroy_vm` returned, the answers that did not come back, and the
VMs they were about. All that `destroy_vm` takes from a row is the id of the
server, so the module keeps of a row that it exists. The status of the row has
more writers than the provisioner (destructions, Ansible tasks and retries,
PATCH), all of them in `VmLifecycle`: it decides when `destroy_vm` is called,
which here is at any time, and any number of times. A deletion that OpenStack
accepted (202) is not a deletion: `CloudDeletes` comes later, or fails.

| Action | Code |
|---|---|
| `Begin` | settings, token, endpoints, image, flavor, network: everything that can fail before something exists |
| `CreateServer` | `_create_server`: accepted, refused, or accepted with the answer lost |
| `Poll`, `PollRefused`, `BootTimeout` | `_wait_for_server`: ACTIVE or ERROR, a failing read, the deadline |
| `Address`, `Allocate`, `Associate`, `Release` | the private address, or `_assign_floating_ip` with its `except` clause |
| `Advance` (an operator of the last two) | the next index, or the list is returned |
| `Record`, `MarkFailed` | the caller commits the rows, or marks the request failed |
| `Destroy` | `destroy_vm`: accepted (`Accept`: 202, 204 or 404), accepted with the answer lost, or refused |
| `CloudBoots`, `CloudDeletes`, `Restart` | OpenStack building and deleting servers; the server process |

**`TerraformProvisioner`.** `servers` and `keyExists` are the cloud, `tracked`
the resources in the state files, `results` the requests whose
`provisioning_results.json` is written, `row` the database, `pc` and `dpc` the
coroutines that provision a request and destroy a VM, `dir` the run directory the
latter found. What an apply makes is in the state as soon as it exists, but for
what a restart interrupts. The keypair has the same name in every request,
because the service never sets `ssh_keypair_name`.

| Action | Code |
|---|---|
| `Prepare` | `_prepare_run_dir`, the variables, `terraform init` |
| `ApplyKeypair`, `ApplyServer`, `ApplyRefused`, `ApplyDone` | `terraform apply`: `security.tf`, `compute.tf`, `_run_command` |
| `Output`, `WriteResults`, `Record`, `MarkFailed` | the rest of `create_vms` and its caller |
| `SyncOutputs` | `scripts/sync_terraform_outputs.py` |
| `DestroyStart`, `Find`, `Lock` | down is committed; the run directory, or 404; the lock of its state, or a failure |
| `DestroyServer`, `DestroyKeypair`, `DestroyRefused` | `terraform destroy` of the whole directory |
| `DestroyDone`, `DestroyFailed` | the caller writes destroyed, or error |

There a VM has one destroyer at a time, as between HTTP requests; the two runs of
the lifecycle job, which may both take a VM, are in `VmLifecycle`.

**`CostLedger`.** `ledger[v]` is the committed records of a VM, as the batches
that one refresh inserts together; `gone` and `fresh` are what an open
transaction has deleted and inserted. A DELETE has two ends: `DeleteStart` fixes
the rows it sees, `DeleteEnd` comes when no other transaction is deleting one of
them. `Deadlocked` transactions abort, as PostgreSQL makes them. `RefreshAll` is
the dashboard, `/cost-records` and `/metrics`; `RefreshDestroyed` the
destruction of a VM by a user or reported by an operator (dated now, whatever
date the report has); `JobDestroys` the lifecycle job, which refreshes nothing.
A new VM is refreshed too, in the transaction that inserts it. That transaction
is open while the provider works, and `created_at` is its start (`func.now()`):
`BeginVm` opens it, and `RecordVm` commits the row with the records of the hours
that the machine took to make, of which `Maker` is the author, or `FailVm` rolls
back. A refresh that is open at that moment has not read of the VM, and misses
it. `DailyHours` is a recursive function on the clock of the wall, `Wall[t]`,
which a change of season moves against time.

**`AuthSession`.** A session is the handshake under way and a user id. It lives in
the cookie: a request carries the one its browser had when it was sent, and its
response puts back the one the request left (`CookieAfter`, what Starlette's
`SessionMiddleware` does). `req` is the requests in flight; `Login` to
`StartHandshake`, `Callback` to `Exchange`, `FindAccount`, `Insert` and `Commit`
are the routes, cut where they wait for Entra ID or the database. `Fail` is an
exception that is not an `ApiError`: it is answered above the middleware and sets
no cookie. A callback URL can be opened again, or in another browser. An INSERT
waits for an uncommitted row with the same email (`Waits`). `GrantOf` and
`MappingOf` are `resolve_role_from_groups` and `entra_group_mapping`.

**`ProvisionOnce`** is implemented by `RequestWorkflow` under the refinement
mapping `Phase`: a request is delivered once VM rows exist, launched while a
handler waits for the provider, claimed while one is about to call it, open
while its status lets someone claim it, and closed otherwise.

## What the runs show

| Run | Configuration | Result |
|---|---|---|
| `requests` | `MCRequestWorkflow.cfg` | `TypeOK`, `LaunchOnce`, `ClaimableIsUntouched`, `ProvisionedHasVms`, `HandlersTerminate`, `ImplementsProvisionOnce` hold (43 270 states) |
| `vms` | `MCVmLifecycle.cfg` | `TypeOK`, `DestroyedMeansGone`, `DownHasDestroyer`, `ConfiguringHasTask`, `DueVmIsTaken` hold (406 022 states) |
| `openstack` | `MCOpenStack.cfg` | `TypeOK`, `RecordedHasMachine`, `OrphansAreOfFailures`, `IdleAddressExplained`, `ProvisioningEnds`, `KeepsContract` hold (91 280 states) |
| `terraform` | `MCTerraform.cfg` | `TypeOK`, `RecordedIsFindable`, `DestroyedIsGone`, `OneRequestHasMachines`, `MachinesGoWithTheirRequest`, `KeepsContract` hold (393 119 states) |
| `costs` | `MCCosts.cfg` | `TypeOK`, `OneBatchPerRefresher`, `SlicesAddUp`, `CleanWhenAlone`, `RefreshEnds` hold (803 073 states) |
| `auth` | `MCAuth.cfg` | `TypeOK`, `SessionIsOwn`, `SessionHasRow`, `RoleAgrees`, `AccountsExplained`, `LogoutForgets`, `RequestsEnd` hold (447 526 states) |
| `request_refusal` | `MCRequestReject.cfg` | `RefusedOnlyWhenPending` is violated |
| `request_failure` | `MCRequestFailure.cfg` | `FailureIsRecorded` is violated |
| `vm_final` | `MCVmFinal.cfg` | `DestroyedIsFinal` is violated |
| `vm_end_date` | `MCVmEndDate.cfg` | `EndDateStartsDestruction` is violated |
| `terraform_keypair` | `MCTerraformKeypair.cfg` | `EveryApplyProvisions` is violated |
| `costs_twice` | `MCCostsTwice.cfg` | `HoursAreReal` is violated |

The six violations are disagreements between the code and what it says of
itself:

- A refusal races an approval. `reject` checks that the request is pending on a
  row it has not locked; an approval that commits in between is overwritten, and
  a request whose VMs are being created shows as refused until `RecordVms`
  overwrites it in turn.
- A failed provisioning is not recorded. `_mark_provisioning_failed` rolls back,
  which expires the actor, and reads `actor.id` before its commit. The request
  stays in provisioning, which neither route accepts: it is out of reach but for
  PATCH. With `ExpiredRead = {"loads"}` the property holds.
- A playbook that ends after its VM was destroyed writes running or error over
  destroyed.
- A VM in error (after a failed playbook, say) when its end date comes is never
  selected by the lifecycle job. `DueVmIsTaken` states what the job does
  guarantee: a due VM in one of the statuses it selects does not stay in them.
- Every Terraform request creates the keypair `cloud-lab-key`, in a state of its
  own: while one request has it, the apply of the next fails, although nothing
  else does. `OneRequestHasMachines` is the other side of it: in Terraform mode
  the machines of the portal belong to one request at a time.
- Two cost refreshes that overlap each insert the records of a VM, which is then
  charged twice. `OneBatchPerRefresher` and `CleanWhenAlone` state the limits of
  the damage: one set per coroutine, until a refresh that nothing overlaps.

What the passing runs say of the parts where much can go wrong:

- *OpenStack.* The loop may stop at any call, with machines made and none
  recorded. `OrphansAreOfFailures` and `IdleAddressExplained` state where to look
  for what is left: requests that failed or that a restart cut, and addresses of
  deleted servers, which `destroy_vm` never releases. `RecordedHasMachine` states that the portal records nothing
  that is not so: a machine it has on record is up until somebody asked for its
  deletion, and who is told that it was deleted is right that OpenStack agreed.
  It promises no more, because the code does not either. OpenStack answers 202
  and deletes later; `destroy_vm` does not wait, so that a row may say destroyed
  while the server is there, for ever when the deletion fails (`undeleted`), and
  nothing looks at the server again: `destroyed` is less than
  `src/server/README.md:368` says ("la ressource cloud a vraiment ete supprimee
  par l'infra"). And a row may say running with no server: when the answer to a
  deletion is lost its VM is in error, and a retry of Ansible
  (`vm_service.py:102`) takes it to configuring and, Ansible disabled or the
  playbook skipped, to running.
- *Terraform.* `terraform destroy` runs in the directory of the request: the
  siblings of a VM go with it, and keep rows that say running (destroying them
  later succeeds, on an empty state). `MachinesGoWithTheirRequest` is the limit
  that holds. `RecordedIsFindable` excludes `terraform_state_not_found` for all
  but the VMs recorded by the sync script.
- *Signing in.* The session of a new account is written before the commit, yet
  `SessionHasRow` holds, because a failed commit is answered without a cookie.
  Two first logins race: one is answered with an error, and `AccountsExplained`
  says that nobody gets two accounts but someone whose account an admin typed
  with capitals. `LogoutForgets` is restricted to logouts that nothing overlaps:
  the late response of an earlier request puts the old session back.

Every property of a passing run is broken by a mutant of the code's model
(`PROJECT.json`, `mutants`): a lookup without its 404, a select without its
lock, a failure that leaves the request approved, a status written too early, a
refusal that polls instead of answering, a route that accepts failed requests; a
failed destruction recorded as done or not at all, a retry that starts no task
when one is running, a batch that forgets stopped VMs; a loop that is one short,
a wait that accepts any status, an address that is not cleaned up, a refusal that passes for a deletion; a command
whose result is not looked at, the wrong run directory; a delete that keeps
today's records, an end that ignores `destroyed_at`; a reused state, an email
that is not unique, an empty session that sets no cookie. The mutants stand in the
modules just before the definition they replace, and nothing refers to them.

## Bounds

- **Requests, VMs.** One. The rows are independent: no action of either module
  reads or writes two requests, or two VMs, except a restart and the end of a
  batch. The proofs are for any number.
- **Handlers.** Three for requests: two that race and one that finishes, rejects
  or patches in between; the locks and the checks involve two. One for VMs,
  besides two tasks and two runners, that is up to five writers of one row; with
  a second handler the four invariants hold as well (10.7 million states).
- **`Tasks`** bounds the Ansible tasks alive at once, at two: the first
  configuration and a retry, or two retries.
- **`MaxRestarts`** = 1 in the passing runs: one restart, at any point.
- **`PatchStatuses`, `AdminStatuses`**: what administrators write by PATCH,
  which accepts any status. The passing runs use refused and failed for
  requests, stopped for VMs. A PATCH that reopens a request, or declares a VM
  destroyed, is an administrator's decision the properties cannot hold against;
  the theorems state exactly which of those statuses must not be written. So no
  run shows what a reopened request does, nor `/provision` of an approved one: no
  other code writes approved.
- **OpenStack.** Two requests of two VMs: an index that is not the last, and
  siblings of another request. `MaxLost` = 2 lost answers (a lost cleanup after a
  lost association needs two), `MaxRestarts` = 1. The theorems are for any of them.
- **Terraform.** Two requests of two VMs, and one VM recorded by the sync script
  (`ByHand`); `CloudRefuses` lets every command fail. The keypair and the run
  directories relate two requests at a time. `MaxRestarts` = 1.
- **Costs.** Two VMs and two coroutines: what a deadlock takes. `MaxRefreshes` = 2
  transactions of each, so that a refresh that nothing overlaps comes after two
  that do; `MaxNow` = 2 hours of days of
  `DayLength` = 2, with the clock (`Wall`) moved forward after the first, so that
  a life crosses both a midnight and the change. `Births`, `Doomed` and `Patches`
  bound when VMs are created (one in the first hour, one in the second or third,
  so that records of hours of making exist and a VM may appear during a
  refresh), and which may be destroyed or fall in error.
- **Signing in.** Two browsers, two people, two requests in flight (`Slots`), two
  handshakes, two accounts (`MaxIds`; `IdsLeft` lets no sign-in start that could
  run out of them), and three accounts that an admin may create
  (`AdminCreations`). Races there are between two requests, and a third browser
  would only repeat the second. `Uses` says who signs in from where.
- `launches` and `batches` are naturals without a bound: they stay finite
  because a claim needs a startable status.

## Fairness

`RequestWorkflow!FairSpec` is strong fairness of each handler's steps: the event
loop runs every coroutine that is ready, and a statement that waits for a row
gets it although others keep locking it, because PostgreSQL queues waiters. The
provider is assumed to answer or to raise: OpenStack calls have timeouts of
sixty seconds, Terraform commands have none, so for Terraform this is an
assumption about the command. `VmLifecycle!FairSpec` is weak fairness of each
handler, task and runner: none of their steps waits for a row there, playbooks
have a timeout (`ansible_timeout_seconds`), and the scheduler starts its job at
every interval (`lifecycle_scheduler_enabled` is assumed). HTTP requests,
restarts, end dates and operators are not fair: they may never come.

`OpenStackProvisioner!FairSpec` is weak fairness of the coroutine of each
request: every HTTP call ends with an answer or the client's timeout, and the
deadline of the wait comes. Nothing obliges OpenStack to boot a server.
`TerraformProvisioner!FairSpec`, used by the run about the keypair only, is weak
fairness of each provisioning: Terraform gets on with an apply that nothing
refuses. `CostLedger!FairSpec` and `AuthSession!FairSpec` are weak fairness of an
open transaction and of a request in flight: the event loop is fair and the
database answers, with a deadlock error when that is the answer, and releases the
row of a transaction that ends. Weak fairness is enough in both: a wait there is
for a transaction that ends, and nobody overtakes the waiter for ever in a bounded
number of transactions or slots.

The runs that pass check deadlock, but for `openstack`, where a system whose
requests are all over, and whose servers are deleted, really has nothing to do.
Elsewhere a next step always exists: requests arrive, and the interval job runs
for ever.

## What is proved

Every invariant and every action property that a passing run checks is proved,
and so are the three refinements. All theorems are of `Spec`, for any sets of
requests, VMs, handlers, tasks, refreshers, browsers and people, any number of VMs
of a request, of restarts, of lost answers and of refreshes, any length of a day
and any span of time, any groups and settings that map them to roles, and either
outcome of `ExpiredRead`. The named assumptions of the modules are only that a
"none" value is not one of the values it stands for, that statuses written by PATCH
are statuses, that machines made by hand are not VMs of requests, that what a run
may destroy, create or patch is a VM, that tokens hold groups and settings,
demonstration accounts and the admin's accounts have roles, that finitely many
HTTP requests are in flight, that the transaction that records a VM is not one of
those that refresh (`MakerAssumption`), that the clock of the wall shows a number,
and that bounds are numbers.

| Theorem | Hypothesis | Argument |
|---|---|---|
| `RequestWorkflowProofs!TypeCorrect` | - | inductive with `BusyHasRow`: a busy handler's request exists, so what its session loads is a status |
| `LaunchAtMostOnce`: `LaunchOnce`, `ClaimableIsUntouched` | PATCH writes neither pending nor approved | `Safe`, below |
| `ProvisionedMeansVms`: `ProvisionedHasVms` | PATCH writes neither approved nor provisioned | inductive: only `RecordVms` writes provisioned, in the transaction that inserts the rows |
| `Refinement`: `ImplementsProvisionOnce` | PATCH writes neither pending nor approved | each action maps, under `Phase`, to an abstract step or a stutter, in states where `Safe` holds |
| `VmLifecycleProofs!TypeCorrect` | - | inductive: whoever is in the middle of something has a VM that exists |
| `DestroyedIsGone`: `DestroyedMeansGone` | PATCH does not write destroyed | inductive with `ToldGone`: an actor about to write destroyed was told that the server is gone; servers do not come back |
| `DownIsBeingDestroyed`: `DownHasDestroyer` | PATCH does not write down | inductive: whoever stops destroying writes another status |
| `ConfiguringEnds`: `ConfiguringHasTask` | PATCH does not write configuring | inductive with `FreeHasNoVm`: a task that ends has another value to write than the one its session holds, or the status is not configuring |
| `OpenStackProofs!TypeCorrect`: `TypeOK` | - | inductive: the loop stays in the indices of its request |
| `OpenStackProofs!Consistent`: `RecordedHasMachine`, `OrphansAreOfFailures` | - | `SafeInv`, below |
| `AddressesExplained`: `IdleAddressExplained` | - | inductive with `SafeInv` and `NotYetMade`: a VM the loop has not come to has no address, so the current one is all that a step explains anew |
| `OpenStackProofs!Keeps`: `KeepsContract` | - | each action maps to a step of `ProvisionerContract` or a stutter, in states where `SafeInv` holds |
| `TerraformProofs!TypeCorrect`: `TypeOK` | - | inductive by itself |
| `TerraformProofs!Consistent`: `RecordedIsFindable`, `DestroyedIsGone`, `OneRequestHasMachines` | - | its own `SafeInv`, below |
| `MachinesGo`: `MachinesGoWithTheirRequest` | - | from `SafeInv`: a destroyer works in the directory of its own VM |
| `TerraformProofs!Keeps`: `KeepsContract` | - | as above; a restart is a boot of the one request that holds the keypair |
| `CostProofs!TypeCorrect`: `TypeOK` | - | inductive with what a coroutine in its loop works on: a VM |
| `OneBatchEach`: `OneBatchPerRefresher` | - | `LedgerInv`, below |
| `LoneRefreshCleans`: `CleanWhenAlone` | - | `CleanInv`, below |
| `SlicesHold`: `SlicesAddUp` | - | `Lived` and `DailyHoursAddUp`, below |
| `AuthProofs!TypeCorrect`: `TypeOK` | - | inductive with what each step of a request carries: a handshake, a token, a row |
| `OneAccountEach`: `AccountsExplained` | - | `AccountInv`, below |
| `SessionsHaveRows`, `SessionsAreOwn`, `RolesAgree`: `SessionHasRow`, `SessionIsOwn`, `RoleAgrees` | - | `SessionInv`, below |
| `LogoutIsFinal`: `LogoutForgets` | - | `CalmInv`, below |

`LaunchOnce` is not inductive: that a request was launched once says nothing of
a handler about to claim it. `Safe` adds why nobody can. A handler that holds a
row is alone (`LockExclusive`) and knows its current status (`LockFresh`), since
nobody writes a row that is held; so when it claims, the status is still one
that can be claimed; such a request has never been worked on
(`ClaimableIsUntouched`); and a handler that works on a request is alone
(`WorkerAlone`) and knows how far it is (`WorkerProgress`). What ends a piece of
work never makes the request claimable again.

`RecordedHasMachine` is not inductive either: it says nothing of a coroutine
about to record. `SafeInv` follows the loop. A request that has not begun has
nothing (`NewHasNothing`); every VM before the current index has an ACTIVE
server and, when the settings ask for one, an attached address (`EarlierReady`);
past the wait the current one is ACTIVE too (`AddressedIsActive`); so a
coroutine that records has a complete list (`RecordingIsComplete`). Rows exist
of provisioned requests only (`RowsAreProvisioned`), whose servers are ACTIVE or
accepted for deletion (`RecordedAreSettled`): no coroutine works on such a VM
any more, so that only `destroy_vm` takes its server from ACTIVE, and a
`destroy_vm` that does either returns or loses its answer. It is called for
recorded VMs only (`ToldAreRecorded`). The refinement needs one fact more,
`NotYetMade`: the VMs after the current index have no server.

For Terraform, `DestroyedIsGone` needs to know why a destroy that finds nothing
left is right to succeed. What a state file holds exists, and a machine with a
row is in it (`StateIsTrue`), since an apply is over only when everything is in
the state (`AppliedIsTracked`) and what a destroy takes leaves the cloud and the
state together. Rows are those of provisioned requests (`RowsAreProvisioned`), so
that no restart in an apply touches a machine with one; their results are on disk
(`RecordedHasResults`); a destroyer works in the directory of its own VM
(`DestroyersAreHome`), which shows as down (`DestroyingIsDown`). `KeypairOfOne`
says that a machine implies the keypair of its request and that the keypair is in
one state only; `OneRequestHasMachines` follows, and the refinement uses it: the
machines a restart leaves are of one request.

`OneBatchPerRefresher` holds because nobody else inserts records in the name of
a coroutine, not even the transaction that records a VM (`MakerAssumption`). What
the coroutine's `DELETE` saw when it started is therefore all there is of its own
when the `DELETE` ends (`WaitsForItsOwn`), however long it waits, and when the
transaction commits (`ReplacesItsOwn`): the records it inserts (`FreshIsOwn`)
replace them.

`CleanWhenAlone` is about one commit, and its reason is everything the
transaction did. `CleanInv` says of a transaction that is alone that no other is
open (`AloneIsAlone`), and of each VM it has dealt with that all committed
records of it are deleted and that those inserted instead end with the VM
(`Replaced`), or that the VM was recorded after the list of VMs was read and has
the records it was born with (`Missed`): before it is recorded a VM has none,
and nobody refreshes it (`PresentOnly`). Of the VM it is dealing with, it says
that what the transaction read is still so (`KnowsTheEnd`), as whatever ends a
VM meanwhile takes `alone` away. A destruction is the delicate case: the end is
in the transaction, not yet in the table (`EndOf`), and it refreshes that VM
only (`DestroysOne`).

`SlicesAddUp` is about sums of recursive functions. The
hours that `DailyHours` splits are proved to add up to the difference of the two
clocks, for every pair of them and every length of a day (`DailyHoursAddUp`).
The library's induction takes a predicate, which the provers used here cannot
instantiate, so `DataLemmas` does it over a set: a set that has 0, and n + 1 when it
has n, has every number. With it, the recursive
function exists (`DaysExist`) and so does the sum over a finite set (`SumsExist`),
which does not depend on the element taken first (`SumsAnyFirst`); a life that
starts a day earlier has one slice more, on a date that no later slice has
(`OneDayMore`); the induction goes backwards from its end. What is left is that
batches are of lives that began before they end (`Lived`), an invariant of `Spec`.

`SessionHasRow` and its companions speak of cookies; the danger is in the requests,
since the callback writes the session before it commits. `SessionInv` says of the
session that a request carries, and of every cookie, that it is that of nobody or
of a row, committed or inserted by that very request (`UserOwn`), of somebody who
signed in at Entra ID from that browser (`SignedIn`), with the role their groups
give; and that its handshake was started from there (`HandshakeOwn`). Rows,
handshakes and callback URLs are never taken back (`Grows`), so what is answered
stays backed. An id must name one row for this to say anything: `AccountInv` is
that no two rows, committed or in flight, have the same id or the same email typed
the same way, which is what an INSERT that waits for an uncommitted row is for.
`AccountsExplained` follows: only an admin types capitals, and who has two
accounts has one typed by an admin. For `LogoutForgets`, `CalmInv` says that a
logout that nothing overlapped is the only request of its browser, whose cookie
is still the one that came with it.

Only model-checked: the liveness properties (`HandlersTerminate`, `DueVmIsTaken`,
`ProvisioningEnds`, `RefreshEnds`, `RequestsEnd`), since the prover does not
reason about fairness; and that the six properties of the other runs fail.

## What is not modelled

- Errors of the database itself, except while provisioning, where
  `ProvisionFails` covers them, and in commits of logins. The connection pool: a
  provisioning holds a connection while the cloud works, so that enough slow ones
  stop every handler; it would only add a counter that bounds busy handlers.
- Roles and owners: they decide who may send a request, not what it does.
- `add_metric` and audit rows, which are only appended; `mark_expired_vms`,
  which nothing that runs calls (its script imports a name that does not exist).
- Names, addresses, keys, images and flavors of VMs; the choice of an IP address,
  a key and a template for a playbook: strings computed from strings.
- Terraform's networks, security groups and floating IPs: each request has its
  own, under names that OpenStack lets several resources have.
- Bearer tokens, which do not touch the session, and `is_active`, which no route
  sets to false.
- The amounts of cost records: they are hours times a price, rounded. That the
  dashboard counts cost records as VMs (`dashboard_service.py:34`) and bills
  nothing for a VM in error (`cost_service.py:78`) is read off the code, and takes
  no interleaving.
- The front end, the playbooks, the schema migrations, the seeds and simulations:
  they hold no state that the portal's code acts on. `PROJECT.json` lists every
  component with its status and the reason.

## Plan

1. *Done.* `RequestWorkflow`, `ProvisionOnce`, `VmLifecycle` and their proofs.
2. *Done.* `OpenStackProvisioner` and `ProvisionerContract` with the proofs that
   the one is safe and implements the other; `TerraformProvisioner`;
   `CostLedger`; `AuthSession`.
3. Proofs: *done* for every invariant, action property and refinement of the
   passing runs; next, what a proof can say of termination: a measure that every
   step of a handler decreases.
4. A composition of `RequestWorkflow` and `VmLifecycle` over
   `ProvisionerContract`; an abstract `VmLife` that `VmLifecycle` implements when
   Ansible tasks check the row before they write.
