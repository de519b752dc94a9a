------------------------ MODULE OpenStackProvisioner ------------------------
(***************************************************************************)
(* PROVISIONER_MODE=openstack: services/openstack_service.py, called by    *)
(* _provision_request() and by the two destroy paths.                      *)
(*                                                                         *)
(* One coroutine makes the VMs of one request, one server after the other, *)
(* with an HTTP call at every step: it may be refused, and its answer may  *)
(* be lost after OpenStack did the work (httpx times out, and the          *)
(* exception is handled as a refusal).  A VM is the pair of its request    *)
(* and its index in the loop.                                              *)
(*                                                                         *)
(* Of a row this module keeps that it holds the id of the server: the only *)
(* thing that destroy_vm() takes from it.  Its status, which destructions, *)
(* Ansible tasks, retries and administrators write, is in VmLifecycle, and *)
(* decides only when destroy_vm() is called; here that is at any time.     *)
(* An operator's provisioning-result, which may put another id in the row, *)
(* is left out.                                                            *)
(***************************************************************************)
EXTENDS Naturals, FiniteSets

CONSTANTS
    Requests,           \* approved requests
    Quantity,           \* VMs of each request
    MaxLost,            \* bound: answers of OpenStack that are lost
    MaxRestarts         \* bound: restarts of the server process

ASSUME QuantityAssumption == Quantity \in Nat \ {0}
ASSUME BoundsAssumption   == MaxLost \in Nat /\ MaxRestarts \in Nat

VARIABLES
    floating,   \* settings.terraform_assign_floating_ip, read once at startup
    server,     \* server[v]: the machine of v in OpenStack
    fip,        \* fip[v]: the floating IP allocated for v
    recorded,   \* VMs with a row, and the id of their server in it
    pc,         \* pc[r]: the coroutine that provisions request r
    index,      \* index[r]: the iteration of its loop
    told,       \* VMs for which destroy_vm() returned: OpenStack said yes
    spoiled,    \* VMs for which an answer, a cleanup or a coroutine was lost
    lost,       \* answers lost so far
    restarts    \* restarts so far

handlerVars == <<pc, index>>
faultVars   == <<floating, spoiled, lost, restarts>>
vars        == <<server, fip, recorded, handlerVars, told, faultVars>>

VmsOf(r) == {r} \X (1..Quantity)
Vms      == Requests \X (1..Quantity)

\* The VM request r's coroutine is making.
Current(r) == <<r, index[r]>>

Working == {"creating", "waiting", "addressing", "allocating",
            "associating", "releasing", "recording", "failing"}

TypeOK ==
    /\ floating \in BOOLEAN
    /\ server \in [Vms -> {"none", "building", "active", "error",
                           "deleting", "deleted", "undeleted"}]
    /\ fip \in [Vms -> {"none", "idle", "attached"}]
    /\ recorded \subseteq Vms
    /\ pc \in [Requests -> Working \union {"new", "provisioned", "failed", "dead"}]
    /\ index \in [Requests -> 1..Quantity]
    /\ told \subseteq Vms
    /\ spoiled \subseteq Vms
    /\ lost \in 0..MaxLost
    /\ restarts \in 0..MaxRestarts

Init ==
    /\ floating \in BOOLEAN
    /\ server = [v \in Vms |-> "none"]
    /\ fip = [v \in Vms |-> "none"]
    /\ recorded = {}
    /\ pc = [r \in Requests |-> "new"]
    /\ index = [r \in Requests |-> 1]
    /\ told = {}
    /\ spoiled = {}
    /\ lost = 0
    /\ restarts = 0

Goto(r, p) == pc' = [pc EXCEPT ![r] = p]

\* The answer about VM v does not come back.
LoseAnswer(v) ==
    /\ lost < MaxLost
    /\ lost' = lost + 1
    /\ spoiled' = spoiled \union {v}
    /\ UNCHANGED <<floating, restarts>>

-----------------------------------------------------------------------------
(* create_vms().                                                           *)

\* Settings, token, endpoints, image, flavor and network: nothing exists in
\* OpenStack yet, whatever fails.
Begin(r) ==
    /\ pc[r] = "new"
    /\ \E p \in {"creating", "failing"} : Goto(r, p)
    /\ UNCHANGED <<server, fip, recorded, index, told, faultVars>>

\* POST /servers.
CreateServer(r) ==
    /\ pc[r] = "creating"
    /\ \/ /\ server' = [server EXCEPT ![Current(r)] = "building"]
          /\ Goto(r, "waiting")
          /\ UNCHANGED faultVars
       \/ /\ server' = [server EXCEPT ![Current(r)] = "building"]
          /\ LoseAnswer(Current(r))
          /\ Goto(r, "failing")
       \/ /\ Goto(r, "failing")
          /\ UNCHANGED <<server, faultVars>>
    /\ UNCHANGED <<fip, recorded, index, told>>

\* Mutant of Poll: any status but ERROR ends the wait.
PollAnyStatus(r) ==
    /\ pc[r] = "waiting"
    /\ \/ server[Current(r)] # "error" /\ Goto(r, "addressing")
       \/ server[Current(r)] = "error" /\ Goto(r, "failing")
    /\ UNCHANGED <<server, fip, recorded, index, told, faultVars>>

\* GET /servers/{id}, every five seconds, ends the wait when the server is
\* ACTIVE or in ERROR.
Poll(r) ==
    /\ pc[r] = "waiting"
    /\ \/ server[Current(r)] = "active" /\ Goto(r, "addressing")
       \/ server[Current(r)] = "error"  /\ Goto(r, "failing")
    /\ UNCHANGED <<server, fip, recorded, index, told, faultVars>>

\* A refused or lost read ends it too, whatever the server does.
PollRefused(r) ==
    /\ pc[r] = "waiting"
    /\ Goto(r, "failing")
    /\ UNCHANGED <<server, fip, recorded, index, told, faultVars>>

\* Mutant of BootTimeout: the deadline is looked at once the server is ACTIVE.
BootTimeoutWhenActive(r) ==
    /\ pc[r] = "waiting"
    /\ server[Current(r)] = "active"
    /\ Goto(r, "failing")
    /\ UNCHANGED <<server, fip, recorded, index, told, faultVars>>

\* openstack_boot_timeout_seconds are over: the loop is left before the next
\* read, even when the server has become ACTIVE since the last one.
BootTimeout(r) ==
    /\ pc[r] = "waiting"
    /\ Goto(r, "failing")
    /\ UNCHANGED <<server, fip, recorded, index, told, faultVars>>

\* OpenStack finishes building a server, well or badly.
CloudBoots(v) ==
    /\ server[v] = "building"
    /\ \E s \in {"active", "error"} : server' = [server EXCEPT ![v] = s]
    /\ UNCHANGED <<fip, recorded, handlerVars, told, faultVars>>

\* Mutant of Advance: range(1, quantity + 2).
AdvanceTooFar(r) ==
    IF index[r] < Quantity + 1
    THEN Goto(r, "creating") /\ index' = [index EXCEPT ![r] = @ + 1]
    ELSE Goto(r, "recording") /\ UNCHANGED index

\* Mutant of Advance: range(1, quantity).
AdvanceTooShort(r) ==
    IF index[r] + 1 < Quantity
    THEN Goto(r, "creating") /\ index' = [index EXCEPT ![r] = @ + 1]
    ELSE Goto(r, "recording") /\ UNCHANGED index

\* The VM is complete: on to the next index, or return the list.
Advance(r) ==
    IF index[r] < Quantity
    THEN Goto(r, "creating") /\ index' = [index EXCEPT ![r] = @ + 1]
    ELSE Goto(r, "recording") /\ UNCHANGED index

-----------------------------------------------------------------------------
(* _assign_floating_ip().                                                  *)

\* The private address is enough, or the lookups of the external network and
\* of the server's port come before the allocation.
Address(r) ==
    /\ pc[r] = "addressing"
    /\ IF floating
       THEN /\ \E p \in {"allocating", "failing"} : Goto(r, p)
            /\ UNCHANGED index
       ELSE Advance(r)
    /\ UNCHANGED <<server, fip, recorded, told, faultVars>>

\* POST /floatingips.
Allocate(r) ==
    /\ pc[r] = "allocating"
    /\ \/ /\ fip' = [fip EXCEPT ![Current(r)] = "idle"]
          /\ Goto(r, "associating")
          /\ UNCHANGED faultVars
       \/ /\ fip' = [fip EXCEPT ![Current(r)] = "idle"]
          /\ LoseAnswer(Current(r))
          /\ Goto(r, "failing")
       \/ /\ Goto(r, "failing")
          /\ UNCHANGED <<fip, faultVars>>
    /\ UNCHANGED <<server, recorded, index, told>>

\* Mutant of Associate: a refused association is not cleaned up.
AssociateNoCleanup(r) ==
    /\ pc[r] = "associating"
    /\ \/ /\ fip' = [fip EXCEPT ![Current(r)] = "attached"]
          /\ Advance(r)
       \/ Goto(r, "failing") /\ UNCHANGED <<fip, index>>
    /\ UNCHANGED <<server, recorded, told, faultVars>>

\* PUT /floatingips/{id}; any exception leads to the except clause.
Associate(r) ==
    /\ pc[r] = "associating"
    /\ \/ /\ fip' = [fip EXCEPT ![Current(r)] = "attached"]
          /\ Advance(r)
          /\ UNCHANGED faultVars
       \/ /\ fip' = [fip EXCEPT ![Current(r)] = "attached"]
          /\ LoseAnswer(Current(r))
          /\ Goto(r, "releasing")
          /\ UNCHANGED index
       \/ /\ Goto(r, "releasing")
          /\ UNCHANGED <<fip, index, faultVars>>
    /\ UNCHANGED <<server, recorded, told>>

\* DELETE /floatingips/{id} in the except clause.  Its status is not looked
\* at, and an exception of its own replaces the first: the loop ends anyhow.
Release(r) ==
    /\ pc[r] = "releasing"
    /\ \/ fip' = [fip EXCEPT ![Current(r)] = "none"] /\ UNCHANGED faultVars
       \/ LoseAnswer(Current(r)) /\ UNCHANGED fip
    /\ Goto(r, "failing")
    /\ UNCHANGED <<server, recorded, index, told>>

-----------------------------------------------------------------------------
(* The caller.                                                             *)

\* Mutant of Record: the list is made anew in every iteration.
RecordLast(r) ==
    /\ pc[r] = "recording"
    /\ recorded' = recorded \union {Current(r)}
    /\ Goto(r, "provisioned")
    /\ UNCHANGED <<server, fip, index, told, faultVars>>

\* _provision_request() adds a row per VM returned, and its caller commits
\* them with the status of the request.
Record(r) ==
    /\ pc[r] = "recording"
    /\ recorded' = recorded \union VmsOf(r)
    /\ Goto(r, "provisioned")
    /\ UNCHANGED <<server, fip, index, told, faultVars>>

\* except Exception: the request is marked failed; the servers made so far
\* are neither deleted nor recorded.
MarkFailed(r) ==
    /\ pc[r] = "failing"
    /\ Goto(r, "failed")
    /\ UNCHANGED <<server, fip, recorded, index, told, faultVars>>

-----------------------------------------------------------------------------
(* destroy_vm().                                                           *)

\* OpenStack agrees to delete the server of v: 202 or 204, and nobody can
\* count on the machine from now on; 404 when it is gone already.
Accept(v) ==
    server' = [server EXCEPT ![v] = IF @ = "deleted" THEN @ ELSE "deleting"]

\* Mutant of Destroy: the status of the answer is not looked at.
DestroyUnchecked(v) ==
    /\ v \in recorded
    /\ told' = told \union {v}
    /\ (Accept(v) \/ UNCHANGED server)
    /\ UNCHANGED <<fip, recorded, handlerVars, faultVars>>

\* DELETE /servers/{id}, for the route, a runner of the lifecycle job or a
\* retry, one after the other or at once.  An answer of success is taken for
\* the destruction: nothing waits for the server to go.  A refusal changes
\* nothing, and neither does a restart during the call but by losing the
\* answer.
Destroy(v) ==
    /\ v \in recorded
    /\ \/ Accept(v) /\ told' = told \union {v} /\ UNCHANGED faultVars
       \/ Accept(v) /\ LoseAnswer(v) /\ UNCHANGED told
       \/ UNCHANGED <<server, told, faultVars>>
    /\ UNCHANGED <<fip, recorded, handlerVars>>

\* Later OpenStack deletes the server, whose floating IP Neutron keeps for
\* the project, or fails to, and leaves the server in ERROR.
CloudDeletes(v) ==
    /\ server[v] = "deleting"
    /\ \/ /\ server' = [server EXCEPT ![v] = "deleted"]
          /\ fip' = [fip EXCEPT ![v] = IF @ = "none" THEN "none" ELSE "idle"]
       \/ /\ server' = [server EXCEPT ![v] = "undeleted"]
          /\ UNCHANGED fip
    /\ UNCHANGED <<recorded, handlerVars, told, faultVars>>

-----------------------------------------------------------------------------

\* The server process stops and starts again: every coroutine is lost where
\* it stands, and its request stays provisioning.
Restart ==
    /\ restarts < MaxRestarts
    /\ restarts' = restarts + 1
    /\ spoiled' = spoiled \union {Current(r) : r \in {q \in Requests : pc[q] \in Working}}
    /\ pc' = [r \in Requests |-> IF pc[r] \in Working THEN "dead" ELSE pc[r]]
    /\ UNCHANGED <<floating, server, fip, recorded, index, told, lost>>

Provision(r) ==
    \/ Begin(r) \/ CreateServer(r) \/ Poll(r) \/ BootTimeout(r) \/ Address(r)
    \/ Allocate(r) \/ Associate(r) \/ Release(r) \/ Record(r) \/ MarkFailed(r)

Next ==
    \/ \E r \in Requests : Provision(r) \/ PollRefused(r)
    \/ \E v \in Vms : Destroy(v) \/ CloudBoots(v) \/ CloudDeletes(v)
    \/ Restart

Spec == Init /\ [][Next]_vars

\* A coroutine that can go on does: the event loop is fair, every HTTP call
\* ends, with an answer or with the timeout of the client, and the deadline of
\* the wait comes.  Nothing obliges OpenStack to boot a server or to refuse.
FairSpec == Spec /\ \A r \in Requests : WF_vars(Provision(r))

-----------------------------------------------------------------------------
(* Properties.                                                             *)

\* The deletion of v's server was accepted, now or earlier.
Accepted(v) == server[v] \in {"deleting", "deleted", "undeleted"}

\* What the portal has on record of a machine is so, however many servers the
\* loop made and whoever destroys their siblings: it is ACTIVE, with its
\* floating IP when the settings ask for one, until a destroy_vm() returned
\* or lost its answer; and when one returned, OpenStack has really accepted
\* the deletion.
RecordedHasMachine ==
    \A v \in recorded :
        /\ v \notin told \union spoiled =>
              server[v] = "active" /\ (floating => fip[v] = "attached")
        /\ v \in told => Accepted(v)

\* A server without a row is being made, or belongs to a request whose
\* provisioning failed or died: those are the only ones to clean up by hand.
OrphansAreOfFailures ==
    \A r \in Requests : \A v \in VmsOf(r) :
        server[v] # "none" /\ v \notin recorded =>
            pc[r] \in Working \union {"failed", "dead"}

\* An allocated floating IP that no machine uses is about to be associated or
\* released, was spoiled by a lost answer, cleanup or process, or belongs to
\* a server that was deleted: destroy_vm() never gives the address back.
IdleAddressExplained ==
    \A r \in Requests : \A v \in VmsOf(r) :
        fip[v] = "idle" =>
            \/ v = Current(r) /\ pc[r] \in {"associating", "releasing"}
            \/ v \in spoiled
            \/ server[v] = "deleted"

\* Every provisioning ends, also when the server never becomes ACTIVE: the
\* request is provisioned, failed, or was cut by a restart.
ProvisioningEnds ==
    \A r \in Requests :
        pc[r] \in Working ~> pc[r] \in {"provisioned", "failed", "dead"}

\* What the services see of this provisioner: a request cut by a restart is
\* still in the making for them.
phaseSeen ==
    [r \in Requests |->
        IF pc[r] \in Working \union {"dead"} THEN "working" ELSE pc[r]]

Contract == INSTANCE ProvisionerContract WITH
                phase <- phaseSeen,
                up    <- {v \in Vms : server[v] = "active"}

\* The provisioner is one the services can use: a request is provisioned only
\* when every one of its VMs has an ACTIVE server, and machines disappear
\* only from provisioned requests, which never gain any.
KeepsContract == Contract!Spec

=============================================================================
