------------------------- MODULE ProvisionerContract -------------------------
(***************************************************************************)
(* What the services expect of a provisioner, whichever get_provisioner()  *)
(* returns (services/provisioner.py): create_vms() either makes every VM   *)
(* of the request, which becomes provisioned, or raises, and the request   *)
(* fails; machines disappear only from provisioned requests, which never   *)
(* gain any.  The OpenStack and the Terraform provisioners implement it.   *)
(***************************************************************************)
EXTENDS Naturals

CONSTANTS Requests,     \* approved VM requests
          Quantity      \* VMs of each request

VARIABLES phase,        \* phase[r]: how far request r got
          up            \* the VMs that have a usable machine

contractVars == <<phase, up>>

\* The VMs of request r.
VmsOf(r) == {r} \X (1..Quantity)

Init ==
    /\ phase = [r \in Requests |-> "new"]
    /\ up = {}

\* create_vms() is called.
Begin(r) ==
    /\ phase[r] = "new"
    /\ phase' = [phase EXCEPT ![r] = "working"]
    /\ UNCHANGED up

\* Machines become usable: of a request in the making, or of a failed one that
\* nobody waits for any more.  A provisioned request gains no machine.
Boot(r) ==
    /\ phase[r] \in {"working", "failed"}
    /\ \E made \in SUBSET VmsOf(r) : up' = up \union made
    /\ UNCHANGED phase

\* create_vms() returns and the VMs are recorded: all of them are usable.
Succeed(r) ==
    /\ phase[r] = "working"
    /\ VmsOf(r) \subseteq up
    /\ phase' = [phase EXCEPT ![r] = "provisioned"]
    /\ UNCHANGED up

\* create_vms() raises: the request fails, and no machine is taken back.
Fail(r) ==
    /\ phase[r] = "working"
    /\ phase' = [phase EXCEPT ![r] = "failed"]
    /\ UNCHANGED up

\* destroy_vm(): machines of one provisioned request disappear.
Remove(r) ==
    /\ phase[r] = "provisioned"
    /\ \E gone \in SUBSET VmsOf(r) : up' = up \ gone
    /\ UNCHANGED phase

Next ==
    \E r \in Requests :
        Begin(r) \/ Boot(r) \/ Succeed(r) \/ Fail(r) \/ Remove(r)

Spec == Init /\ [][Next]_contractVars

=============================================================================
