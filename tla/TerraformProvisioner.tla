------------------------ MODULE TerraformProvisioner ------------------------
(***************************************************************************)
(* PROVISIONER_MODE=terraform: services/terraform_service.py with the      *)
(* module infrastructure/*.tf, and scripts/sync_terraform_outputs.py.      *)
(*                                                                         *)
(* Every request has a run directory of its own, with its own Terraform    *)
(* state; provisioning_results.json, written once the apply is over, is    *)
(* how destroy_vm() finds the directory of a VM.  What the directories     *)
(* share is the OpenStack project: the keypair has the same name for all.  *)
(***************************************************************************)
EXTENDS Naturals

CONSTANTS
    Requests,       \* approved requests
    Quantity,       \* VMs of each request
    NoRequest,      \* the run directory of a destroyer that has none
    ByHand,         \* VMs made outside the site, recorded by the sync script
    CloudRefuses,   \* whether OpenStack or Terraform may refuse something
    MaxRestarts     \* bound: restarts of the server process

ASSUME QuantityAssumption == Quantity \in Nat \ {0}
ASSUME NoRequestAssumption == NoRequest \notin Requests
ASSUME RefusesAssumption  == CloudRefuses \in BOOLEAN
ASSUME RestartsAssumption == MaxRestarts \in Nat

VmsOf(r) == {r} \X (1..Quantity)
Vms      == Requests \X (1..Quantity)

ASSUME ByHandAssumption == ByHand \intersect Vms = {}

VARIABLES
    servers,    \* the machines that exist in OpenStack
    keyExists,  \* whether the keypair cloud-lab-key exists in OpenStack
    tracked,    \* resources in the state files: <<r, i>>, or <<r, 0>> the keypair
    results,    \* requests whose provisioning_results.json is written
    row,        \* row[v]: the row of VM v in virtual_machines
    pc,         \* pc[r]: the coroutine that provisions request r
    dpc,        \* dpc[v]: the coroutine that destroys VM v
    dir,        \* dir[v]: the run directory it found, as its request
    restarts    \* restarts so far

cloudVars   == <<servers, keyExists, tracked>>
destroyVars == <<dpc, dir>>
vars        == <<cloudVars, results, row, pc, destroyVars, restarts>>

\* openstack_compute_keypair_v2.lab_keypair in the state of request r.
Key(r) == <<r, 0>>

\* The resources of the run directory of request r.
ResourcesOf(r) == {r} \X (0..Quantity)

Working    == {"applying", "output", "writing", "recording", "failing"}
Destroying == {"finding", "locking", "destroying", "breaking"}

TypeOK ==
    /\ servers \subseteq Vms \union ByHand
    /\ keyExists \in BOOLEAN
    /\ tracked \subseteq Requests \X (0..Quantity)
    /\ results \subseteq Requests
    /\ row \in [Vms \union ByHand -> {"absent", "live", "down", "error", "destroyed"}]
    /\ pc \in [Requests -> Working \union {"new", "provisioned", "failed", "dead"}]
    /\ dpc \in [Vms \union ByHand -> Destroying \union {"idle"}]
    /\ dir \in [Vms \union ByHand -> Requests \union {NoRequest}]
    /\ restarts \in 0..MaxRestarts

Init ==
    /\ servers = ByHand
    /\ keyExists = FALSE
    /\ tracked = {}
    /\ results = {}
    /\ row = [v \in Vms \union ByHand |-> "absent"]
    /\ pc = [r \in Requests |-> "new"]
    /\ dpc = [v \in Vms \union ByHand |-> "idle"]
    /\ dir = [v \in Vms \union ByHand |-> NoRequest]
    /\ restarts = 0

Goto(r, p) == pc' = [pc EXCEPT ![r] = p]

\* The destroyer of v goes on to p, in the run directory of request r.
DGoto(v, p, r) ==
    /\ dpc' = [dpc EXCEPT ![v] = p]
    /\ dir' = [dir EXCEPT ![v] = r]

\* It is over.
DLeave(v) == DGoto(v, "idle", NoRequest)

-----------------------------------------------------------------------------
(* create_vms().                                                           *)

\* The module is copied into the run directory, the variables are written and
\* terraform init runs: a missing module or SSH key, or init, may fail.
Prepare(r) ==
    /\ pc[r] = "new"
    /\ \/ Goto(r, "applying")
       \/ CloudRefuses /\ Goto(r, "failing")
    /\ UNCHANGED <<cloudVars, results, row, destroyVars, restarts>>

\* Mutant of ApplyKeypair: each request has a keypair name of its own.
ApplyKeypairOfItsOwn(r) ==
    /\ pc[r] = "applying"
    /\ Key(r) \notin tracked
    /\ keyExists' = TRUE
    /\ tracked' = tracked \union {Key(r)}
    /\ UNCHANGED <<servers, results, row, pc, destroyVars, restarts>>

\* terraform apply creates the keypair.  The name is the default of
\* ssh_keypair_name, which the service does not set; when the project already
\* has a keypair of that name, OpenStack answers 409 and the apply fails.
ApplyKeypair(r) ==
    /\ pc[r] = "applying"
    /\ Key(r) \notin tracked
    /\ IF keyExists
       THEN Goto(r, "failing") /\ UNCHANGED <<keyExists, tracked>>
       ELSE /\ keyExists' = TRUE
            /\ tracked' = tracked \union {Key(r)}
            /\ UNCHANGED pc
    /\ UNCHANGED <<servers, results, row, destroyVars, restarts>>

\* terraform apply creates a machine, which refers to the keypair: the
\* machines of one apply are made in any order.
ApplyServer(v) ==
    /\ pc[v[1]] = "applying"
    /\ Key(v[1]) \in tracked
    /\ v \notin tracked
    /\ servers' = servers \union {v}
    /\ tracked' = tracked \union {v}
    /\ UNCHANGED <<keyExists, results, row, pc, destroyVars, restarts>>

\* The apply fails; what it made stays, in the cloud and in the state.
ApplyRefused(r) ==
    /\ CloudRefuses
    /\ pc[r] = "applying"
    /\ Goto(r, "failing")
    /\ UNCHANGED <<cloudVars, results, row, destroyVars, restarts>>

\* Mutant of ApplyDone: the result of the command is not looked at.
ApplyUnchecked(r) ==
    /\ pc[r] = "applying"
    /\ Goto(r, "output")
    /\ UNCHANGED <<cloudVars, results, row, destroyVars, restarts>>

ApplyDone(r) ==
    /\ pc[r] = "applying"
    /\ ResourcesOf(r) \subseteq tracked
    /\ Goto(r, "output")
    /\ UNCHANGED <<cloudVars, results, row, destroyVars, restarts>>

\* Mutant of Output: the results are returned and never written.
OutputOnly(r) ==
    /\ pc[r] = "output"
    /\ \/ Goto(r, "recording")
       \/ CloudRefuses /\ Goto(r, "failing")
    /\ UNCHANGED <<cloudVars, results, row, destroyVars, restarts>>

\* terraform output, its JSON and, best effort, the fingerprint.
Output(r) ==
    /\ pc[r] = "output"
    /\ \/ Goto(r, "writing")
       \/ CloudRefuses /\ Goto(r, "failing")
    /\ UNCHANGED <<cloudVars, results, row, destroyVars, restarts>>

\* provisioning_results.json.
WriteResults(r) ==
    /\ pc[r] = "writing"
    /\ results' = results \union {r}
    /\ Goto(r, "recording")
    /\ UNCHANGED <<cloudVars, row, destroyVars, restarts>>

\* The caller commits a row per VM.
Record(r) ==
    /\ pc[r] = "recording"
    /\ row' = [v \in Vms \union ByHand |-> IF v \in VmsOf(r) THEN "live" ELSE row[v]]
    /\ Goto(r, "provisioned")
    /\ UNCHANGED <<cloudVars, results, destroyVars, restarts>>

\* The caller marks the request failed.  Nothing is destroyed.
MarkFailed(r) ==
    /\ pc[r] = "failing"
    /\ Goto(r, "failed")
    /\ UNCHANGED <<cloudVars, results, row, destroyVars, restarts>>

-----------------------------------------------------------------------------
(* scripts/sync_terraform_outputs.py.                                      *)

\* The row of a machine of another Terraform directory is inserted, or
\* overwritten whatever its status is: no run directory goes with it.
SyncOutputs(v) ==
    /\ v \in ByHand
    /\ row' = [row EXCEPT ![v] = "live"]
    /\ UNCHANGED <<cloudVars, results, pc, destroyVars, restarts>>

-----------------------------------------------------------------------------
(* destroy_vm().                                                           *)

\* The VM is committed as down.
DestroyStart(v) ==
    /\ row[v] \in {"live", "error"}
    /\ dpc[v] = "idle"
    /\ row' = [row EXCEPT ![v] = "down"]
    /\ DGoto(v, "finding", NoRequest)
    /\ UNCHANGED <<cloudVars, results, pc, restarts>>

\* Mutant of FindRunDir: any directory with results will do.
FindAnyRunDir(v, r) == r \in results

\* The directory whose results name the machine.
FindRunDir(v, r) == r \in results /\ v \in VmsOf(r)

\* A run directory is found, or terraform_state_not_found is raised.
Find(v) ==
    /\ dpc[v] = "finding"
    /\ \/ \E r \in Requests : FindRunDir(v, r) /\ DGoto(v, "locking", r)
       \/ /\ ~\E r \in Requests : FindRunDir(v, r)
          /\ DGoto(v, "breaking", NoRequest)
    /\ UNCHANGED <<cloudVars, results, row, pc, restarts>>

\* A Terraform command runs in the directory of request r and holds the lock
\* of its state.
DirLocked(r) ==
    \/ pc[r] = "applying"
    \/ \E v \in Vms : dpc[v] = "destroying" /\ dir[v] = r

\* terraform destroy takes the lock; it does not wait for it.
Lock(v) ==
    /\ dpc[v] = "locking"
    /\ IF DirLocked(dir[v]) THEN DGoto(v, "breaking", NoRequest)
                            ELSE DGoto(v, "destroying", dir[v])
    /\ UNCHANGED <<cloudVars, results, row, pc, restarts>>

\* The destroy of VM v is that of its whole directory: every machine w in the
\* state goes, in any order.
DestroyServer(v, w) ==
    /\ dpc[v] = "destroying"
    /\ w \in tracked \intersect VmsOf(dir[v])
    /\ servers' = servers \ {w}
    /\ tracked' = tracked \ {w}
    /\ UNCHANGED <<keyExists, results, row, pc, destroyVars, restarts>>

\* The keypair goes once no machine of the state refers to it.
DestroyKeypair(v) ==
    /\ dpc[v] = "destroying"
    /\ tracked \intersect ResourcesOf(dir[v]) = {Key(dir[v])}
    /\ keyExists' = FALSE
    /\ tracked' = tracked \ {Key(dir[v])}
    /\ UNCHANGED <<servers, results, row, pc, destroyVars, restarts>>

\* The command fails half way; the state holds what is left.
DestroyRefused(v) ==
    /\ CloudRefuses
    /\ dpc[v] = "destroying"
    /\ DGoto(v, "breaking", NoRequest)
    /\ UNCHANGED <<cloudVars, results, row, pc, restarts>>

\* Mutant of DestroyDone: the result of the command is not looked at.
DestroyUnchecked(v) ==
    /\ dpc[v] = "destroying"
    /\ DLeave(v)
    /\ row' = [row EXCEPT ![v] = "destroyed"]
    /\ UNCHANGED <<cloudVars, results, pc, restarts>>

\* The command succeeds, also on an empty state: this VM is destroyed.  The
\* rows of the others of its request stay as they are.
DestroyDone(v) ==
    /\ dpc[v] = "destroying"
    /\ tracked \intersect ResourcesOf(dir[v]) = {}
    /\ DLeave(v)
    /\ row' = [row EXCEPT ![v] = "destroyed"]
    /\ UNCHANGED <<cloudVars, results, pc, restarts>>

\* Mutant of DestroyFailed: the status written is one of a request.
DestroyFailedAsRequest(v) ==
    /\ dpc[v] = "breaking"
    /\ DLeave(v)
    /\ row' = [row EXCEPT ![v] = "failed"]
    /\ UNCHANGED <<cloudVars, results, pc, restarts>>

\* The caller's except clause: the VM is an error and may be destroyed again.
DestroyFailed(v) ==
    /\ dpc[v] = "breaking"
    /\ DLeave(v)
    /\ row' = [row EXCEPT ![v] = "error"]
    /\ UNCHANGED <<cloudVars, results, pc, restarts>>

-----------------------------------------------------------------------------

\* The container stops, and the Terraform processes with it: what an apply was
\* creating may exist without being in the state.  (What a destroy was
\* deleting is still in the state, where the next command finds it gone.)
Restart ==
    /\ restarts < MaxRestarts
    /\ restarts' = restarts + 1
    /\ \E made \in SUBSET {v \in Vms \ tracked :
                              pc[v[1]] = "applying" /\ Key(v[1]) \in tracked} :
          servers' = servers \union made
    /\ \/ keyExists' = keyExists
       \/ /\ \E r \in Requests : pc[r] = "applying" /\ Key(r) \notin tracked
          /\ keyExists' = TRUE
    /\ pc' = [r \in Requests |-> IF pc[r] \in Working THEN "dead" ELSE pc[r]]
    /\ dpc' = [v \in Vms \union ByHand |-> "idle"]
    /\ dir' = [v \in Vms \union ByHand |-> NoRequest]
    /\ UNCHANGED <<tracked, results, row>>

Provision(r) ==
    \/ Prepare(r) \/ ApplyKeypair(r) \/ (\E v \in VmsOf(r) : ApplyServer(v))
    \/ ApplyDone(r) \/ Output(r) \/ WriteResults(r) \/ Record(r) \/ MarkFailed(r)

Destroy(v) ==
    \/ DestroyStart(v) \/ Find(v) \/ Lock(v)
    \/ (\E w \in Vms : DestroyServer(v, w))
    \/ DestroyKeypair(v) \/ DestroyDone(v) \/ DestroyFailed(v)

Next ==
    \/ \E r \in Requests : Provision(r) \/ ApplyRefused(r)
    \/ \E v \in Vms \union ByHand : Destroy(v) \/ DestroyRefused(v) \/ SyncOutputs(v)
    \/ Restart

Spec == Init /\ [][Next]_vars

\* A provisioning goes on as long as it can: the event loop is fair and
\* Terraform gets on with an apply that nothing refuses.
FairSpec == Spec /\ \A r \in Requests : WF_vars(Provision(r))

-----------------------------------------------------------------------------
(* Properties.                                                             *)

\* The rows that create_vms() led to name machines whose run directory can be
\* found, whatever was refused or interrupted: terraform_state_not_found is
\* raised only for machines that the sync script recorded.
RecordedIsFindable ==
    \A v \in Vms : row[v] # "absent" => v[1] \in results

\* A VM marked destroyed has no machine left, also when the command that
\* succeeded was the second one in its directory.
DestroyedIsGone ==
    \A v \in Vms : row[v] = "destroyed" => v \notin servers

\* The machines that the site made belong to one request at a time: the one
\* whose apply created the keypair that all of them refer to.
OneRequestHasMachines ==
    \A v, w \in servers \intersect Vms : v[1] = w[1]

\* A destroy takes machines of the request of its VM only: it may take the
\* siblings of the VM, and never a machine of another request or one that
\* was made by hand.
MachinesGoWithTheirRequest ==
    [][\A w \in servers \ servers' :
          \E v \in Vms : v[1] = w[1] /\ dpc[v] = "destroying"]_vars

\* What the services see of this provisioner.
phaseSeen ==
    [r \in Requests |->
        IF pc[r] \in Working \union {"dead"} THEN "working" ELSE pc[r]]

Contract == INSTANCE ProvisionerContract WITH
                phase <- phaseSeen,
                up    <- servers \intersect Vms

\* The provisioner is one the services can use: a request is provisioned only
\* when the apply made every one of its machines, and machines disappear only
\* from provisioned requests, which never gain any.
KeepsContract == Contract!Spec

\* "Nom de la keypair OpenStack a utiliser/creer" (infrastructure/variables.tf):
\* an apply that finds the keypair uses it, so that a request whose apply
\* starts is provisioned when nothing is refused and nothing stops.
EveryApplyProvisions ==
    \A r \in Requests : pc[r] = "applying" ~> pc[r] = "provisioned"

=============================================================================
