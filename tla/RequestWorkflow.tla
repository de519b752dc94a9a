--------------------------- MODULE RequestWorkflow ---------------------------
(***************************************************************************)
(* The life of VM requests: services/vm_request_service.py.                *)
(*                                                                         *)
(* Every HTTP request is served by a coroutine with a database session of  *)
(* its own.  Coroutines interleave at every await, so an action here is    *)
(* what one coroutine does between two points where another can act: a     *)
(* statement that reads the row, a commit, the call to the cloud.  The     *)
(* database is PostgreSQL under READ COMMITTED: SELECT ... FOR UPDATE      *)
(* holds the row until the transaction ends, UPDATEs and the INSERT of a   *)
(* VM (whose foreign key takes a share lock on the request) wait for it,   *)
(* and plain SELECTs do not.                                               *)
(***************************************************************************)
EXTENDS Naturals, CloudLabData

CONSTANTS
    Requests,       \* VM requests that may be created
    Handlers,       \* coroutines serving HTTP requests
    NoRequest,      \* the job of an idle handler
    PatchStatuses,  \* the statuses administrators send to PATCH /vm-requests
    ExpiredRead,    \* what reading actor.id does after session.rollback()
    MaxRestarts     \* bound: how often the server process restarts

ASSUME NoRequestAssumption   == NoRequest \notin Requests
ASSUME PatchAssumption       == PatchStatuses \subseteq RequestStatus
ASSUME MaxRestartsAssumption == MaxRestarts \in Nat

\* rollback() expires every object of the session, the actor included, and an
\* AsyncSession cannot reload an attribute implicitly: the read "raises"
\* MissingGreenlet.  "loads" is what the handler was written for.
ASSUME ExpiredReadAssumption == ExpiredRead \subseteq {"raises", "loads"}

VARIABLES
    status,     \* status[r]: the committed status of request r, or "absent"
    batches,    \* batches[r]: commits that recorded VM rows for request r
    launches,   \* launches[r]: calls of the provisioner's create_vms for r
    notified,   \* notified[r]: verdicts the requester was notified of
    pc,         \* pc[h]: what handler h is about to do
    job,        \* job[h]: the request handler h works on
    seen,       \* seen[h]: the status h's session holds for its request
    want,       \* want[h]: the status a PATCH handler is to write
    restarts    \* restarts of the server process so far

dbVars   == <<status, batches, notified>>
procVars == <<pc, job, seen, want>>
vars     == <<dbVars, launches, procVars, restarts>>

Verdicts == {"approved", "refused"}

PCs == {"idle", "approving", "requesting", "claimed", "creating",
        "marking", "rejecting", "patching"}

TypeOK ==
    /\ status \in [Requests -> RequestStatus \union {"absent"}]
    /\ batches \in [Requests -> Nat]
    /\ launches \in [Requests -> Nat]
    /\ notified \in [Requests -> SUBSET Verdicts]
    /\ pc \in [Handlers -> PCs]
    /\ job \in [Handlers -> Requests \union {NoRequest}]
    /\ seen \in [Handlers -> RequestStatus]
    /\ want \in [Handlers -> RequestStatus]
    /\ restarts \in 0..MaxRestarts

Init ==
    /\ status   = [r \in Requests |-> "absent"]
    /\ batches  = [r \in Requests |-> 0]
    /\ launches = [r \in Requests |-> 0]
    /\ notified = [r \in Requests |-> {}]
    /\ pc       = [h \in Handlers |-> "idle"]
    /\ job      = [h \in Handlers |-> NoRequest]
    /\ seen     = [h \in Handlers |-> "pending"]
    /\ want     = [h \in Handlers |-> "pending"]
    /\ restarts = 0

-----------------------------------------------------------------------------
(* Helpers.                                                                *)

\* The row of request r is held by a SELECT ... FOR UPDATE.
Locked(r) == \E h \in Handlers : pc[h] \in {"approving", "requesting"} /\ job[h] = r

\* Handler h moves on to p, on request r, its session holding status s.
Step(h, p, r, s) ==
    /\ pc'   = [pc EXCEPT ![h] = p]
    /\ job'  = [job EXCEPT ![h] = r]
    /\ seen' = [seen EXCEPT ![h] = s]
    /\ want' = [want EXCEPT ![h] = "pending"]

\* The HTTP response is sent, an error included, and the session is closed.
Leave(h) == Step(h, "idle", NoRequest, "pending")

-----------------------------------------------------------------------------
(* POST /vm-requests.                                                      *)

\* A student, a validator or an administrator: one transaction inserts the
\* request as pending.
CreatePending(r) ==
    /\ status[r] = "absent"
    /\ status' = [status EXCEPT ![r] = "pending"]
    /\ UNCHANGED <<batches, notified, launches, procVars, restarts>>

\* A teacher: the same transaction inserts the request and claims it, so no
\* other session ever sees it pending; the handler goes on to provision it.
CreateAutoApproved(h, r) ==
    /\ pc[h] = "idle"
    /\ status[r] = "absent"
    /\ status' = [status EXCEPT ![r] = "provisioning"]
    /\ Step(h, "claimed", r, "provisioning")
    /\ UNCHANGED <<batches, notified, launches, restarts>>

-----------------------------------------------------------------------------
(* POST .../approve (p = "approving") and .../provision ("requesting").    *)

\* Mutant of SelectForUpdate: a plain SELECT.
SelectForUpdateNoLock(h, r, p) ==
    /\ pc[h] = "idle"
    /\ p \in {"approving", "requesting"}
    /\ status[r] # "absent"
    /\ Step(h, p, r, status[r])
    /\ UNCHANGED <<dbVars, launches, restarts>>

\* SELECT ... FOR UPDATE: waits for the row, then holds it.
SelectForUpdate(h, r, p) ==
    /\ pc[h] = "idle"
    /\ p \in {"approving", "requesting"}
    /\ status[r] # "absent"
    /\ ~Locked(r)
    /\ Step(h, p, r, status[r])
    /\ UNCHANGED <<dbVars, launches, restarts>>

\* Mutant of Startable: failed requests are started again.
StartableAnyStatus(p) ==
    IF p = "approving" THEN {"pending", "approved"} ELSE {"approved", "failed"}

\* The statuses from which the route p may start provisioning.
Startable(p) == IF p = "approving" THEN {"pending", "approved"} ELSE {"approved"}

\* Mutant of Claim: the final status is written first.
ClaimAsProvisioned(h) ==
    /\ pc[h] \in {"approving", "requesting"}
    /\ seen[h] \in Startable(pc[h])
    /\ batches[job[h]] = 0
    /\ status' = [status EXCEPT ![job[h]] = "provisioned"]
    /\ Step(h, "claimed", job[h], "provisioned")
    /\ UNCHANGED <<batches, notified, launches, restarts>>

\* The status is startable and no VM row refers to the request: commit the
\* status "provisioning", which also releases the row.
Claim(h) ==
    /\ pc[h] \in {"approving", "requesting"}
    /\ seen[h] \in Startable(pc[h])
    /\ batches[job[h]] = 0
    /\ status' = [status EXCEPT ![job[h]] = "provisioning"]
    /\ Step(h, "claimed", job[h], "provisioning")
    /\ UNCHANGED <<batches, notified, launches, restarts>>

\* Mutant of RefuseClaim: the row is read again until it is startable.
RefuseClaimPolls(h) ==
    /\ pc[h] \in {"approving", "requesting"}
    /\ \/ seen[h] \notin Startable(pc[h])
       \/ batches[job[h]] > 0
    /\ Step(h, pc[h], job[h], status[job[h]])
    /\ UNCHANGED <<dbVars, launches, restarts>>

\* 409: wrong status, or VMs exist.  Closing the session releases the row.
RefuseClaim(h) ==
    /\ pc[h] \in {"approving", "requesting"}
    /\ \/ seen[h] \notin Startable(pc[h])
       \/ batches[job[h]] > 0
    /\ Leave(h)
    /\ UNCHANGED <<dbVars, launches, restarts>>

-----------------------------------------------------------------------------
(* _provision_request, and the commit or the failure that ends it.         *)

\* The provisioner is called: from here on the cloud may hold VMs.
BeginCreate(h) ==
    /\ pc[h] = "claimed"
    /\ launches' = [launches EXCEPT ![job[h]] = @ + 1]
    /\ Step(h, "creating", job[h], seen[h])
    /\ UNCHANGED <<dbVars, restarts>>

\* The provisioner answered: one transaction inserts the VM rows, sets the
\* status and notifies the requester.  The session still holds the status
\* "provisioning" it wrote itself, so "provisioned" overwrites the row
\* whatever it holds by now.
RecordVms(h) ==
    LET r == job[h] IN
    /\ pc[h] = "creating"
    /\ ~Locked(r)
    /\ batches' = [batches EXCEPT ![r] = @ + 1]
    /\ status' = [status EXCEPT ![r] = "provisioned"]
    /\ notified' = [notified EXCEPT ![r] = @ \union {"approved"}]
    /\ Leave(h)
    /\ UNCHANGED <<launches, restarts>>

\* The owner or the template is gone, the provisioner raised, or a statement
\* failed: the session is rolled back and the request is read again.
ProvisionFails(h) ==
    /\ pc[h] \in {"claimed", "creating"}
    /\ Step(h, "marking", job[h], status[job[h]])
    /\ UNCHANGED <<dbVars, launches, restarts>>

\* Mutant of MarkFailed: the request goes back to approved.
MarkFailedForRetry(h) ==
    LET r == job[h] IN
    /\ pc[h] = "marking"
    /\ "loads" \in ExpiredRead
    /\ ~Locked(r)
    /\ status' = [status EXCEPT ![r] = "approved"]
    /\ Leave(h)
    /\ UNCHANGED <<batches, notified, launches, restarts>>

\* The audit line needs actor.id.  If that read loads the actor again, the
\* status "failed" is committed ...
MarkFailed(h) ==
    LET r == job[h] IN
    /\ pc[h] = "marking"
    /\ "loads" \in ExpiredRead
    /\ ~Locked(r)
    /\ status' = [status EXCEPT ![r] = Flushed(@, seen[h], "failed")]
    /\ Leave(h)
    /\ UNCHANGED <<batches, notified, launches, restarts>>

\* ... and if it raises, the handler ends with nothing committed.
MarkRaises(h) ==
    /\ pc[h] = "marking"
    /\ "raises" \in ExpiredRead
    /\ Leave(h)
    /\ UNCHANGED <<dbVars, launches, restarts>>

-----------------------------------------------------------------------------
(* POST .../reject and PATCH: the row is read without a lock, and written  *)
(* by a later statement of the same transaction.                           *)

ReadForReject(h, r) ==
    /\ pc[h] = "idle"
    /\ status[r] = "pending"
    /\ Step(h, "rejecting", r, "pending")
    /\ UNCHANGED <<dbVars, launches, restarts>>

CommitReject(h) ==
    LET r == job[h] IN
    /\ pc[h] = "rejecting"
    /\ ~Locked(r)
    /\ status' = [status EXCEPT ![r] = Flushed(@, seen[h], "refused")]
    /\ notified' = [notified EXCEPT ![r] = @ \union {"refused"}]
    /\ Leave(h)
    /\ UNCHANGED <<batches, launches, restarts>>

\* Mutant of ReadForPatch: no 404 for a missing row.
ReadForPatchUnchecked(h, r, s) ==
    /\ pc[h] = "idle"
    /\ pc'   = [pc EXCEPT ![h] = "patching"]
    /\ job'  = [job EXCEPT ![h] = r]
    /\ seen' = [seen EXCEPT ![h] = status[r]]
    /\ want' = [want EXCEPT ![h] = s]
    /\ UNCHANGED <<dbVars, launches, restarts>>

ReadForPatch(h, r, s) ==
    /\ pc[h] = "idle"
    /\ status[r] # "absent"
    /\ pc'   = [pc EXCEPT ![h] = "patching"]
    /\ job'  = [job EXCEPT ![h] = r]
    /\ seen' = [seen EXCEPT ![h] = status[r]]
    /\ want' = [want EXCEPT ![h] = s]
    /\ UNCHANGED <<dbVars, launches, restarts>>

CommitPatch(h) ==
    LET r == job[h] IN
    /\ pc[h] = "patching"
    /\ ~Locked(r)
    /\ status' = [status EXCEPT ![r] = Flushed(@, seen[h], want[h])]
    /\ notified' = [notified EXCEPT ![r] = @ \union ({want[h]} \intersect Verdicts)]
    /\ Leave(h)
    /\ UNCHANGED <<batches, launches, restarts>>

-----------------------------------------------------------------------------
(* The process restarts: coroutines and open transactions are gone, and no *)
(* code looks for requests they left behind.                               *)

Restart ==
    /\ restarts < MaxRestarts
    /\ restarts' = restarts + 1
    /\ pc'   = [h \in Handlers |-> "idle"]
    /\ job'  = [h \in Handlers |-> NoRequest]
    /\ seen' = [h \in Handlers |-> "pending"]
    /\ want' = [h \in Handlers |-> "pending"]
    /\ UNCHANGED <<dbVars, launches>>

-----------------------------------------------------------------------------

\* What handler h does next for the HTTP request it is serving.
HandlerStep(h) ==
    \/ Claim(h) \/ RefuseClaim(h)
    \/ BeginCreate(h) \/ RecordVms(h) \/ ProvisionFails(h)
    \/ MarkFailed(h) \/ MarkRaises(h)
    \/ CommitReject(h) \/ CommitPatch(h)

\* An HTTP request about r arrives at an idle handler h.
Arrival(h, r) ==
    \/ CreateAutoApproved(h, r)
    \/ \E p \in {"approving", "requesting"} : SelectForUpdate(h, r, p)
    \/ ReadForReject(h, r)
    \/ \E s \in PatchStatuses : ReadForPatch(h, r, s)

Next ==
    \/ \E r \in Requests : CreatePending(r)
    \/ \E h \in Handlers, r \in Requests : Arrival(h, r)
    \/ \E h \in Handlers : HandlerStep(h)
    \/ Restart

Spec == Init /\ [][Next]_vars

\* A coroutine that can go on does (the event loop runs every ready task, and
\* the provisioner is assumed to answer: OpenStack calls have timeouts).  A
\* step that waits for a row gets it although others keep asking for the same
\* row, because PostgreSQL queues lock waiters: hence strong fairness.
Fairness == \A h \in Handlers : SF_vars(HandlerStep(h))

FairSpec == Spec /\ Fairness

-----------------------------------------------------------------------------
(* Properties.                                                             *)

\* Handler h has claimed request r and its provisioning has not ended.
Working(h, r) == pc[h] \in {"claimed", "creating", "marking"} /\ job[h] = r

\* The cloud is asked at most once to create the VMs of a request, whatever
\* approve, provision, reject, retries and restarts do: duplicates cost money
\* and the portal would know only one batch of them.  (PATCH may write
\* pending or approved at any time, and reopens a request then: the property is
\* about PATCH requests that do neither.)
LaunchOnce == \A r \in Requests : launches[r] <= 1

\* A request that could still be claimed has never been worked on: no VM, no
\* creation at the cloud, and no handler in the middle of provisioning it.
ClaimableIsUntouched ==
    \A r \in Requests :
        status[r] \in {"absent", "pending", "approved"} =>
            /\ launches[r] = 0
            /\ batches[r] = 0
            /\ \A h \in Handlers : ~Working(h, r)

\* A requester is told that the environment is available, and a request shows
\* as provisioned, only when its VM rows are committed.
ProvisionedHasVms ==
    \A r \in Requests :
        (status[r] = "provisioned" \/ "approved" \in notified[r]) => batches[r] >= 1

\* Every HTTP request about a VM request is answered: no handler waits for
\* ever on a row another one holds.
HandlersTerminate == \A h \in Handlers : (pc[h] # "idle") ~> (pc[h] = "idle")

\* The workflow implements ProvisionOnce.  The phase of a request:
Phase(r) ==
    IF batches[r] > 0 THEN "delivered"
    ELSE IF \E h \in Handlers : pc[h] = "creating" /\ job[h] = r THEN "launched"
    ELSE IF \E h \in Handlers : pc[h] = "claimed" /\ job[h] = r THEN "claimed"
    ELSE IF status[r] \in {"absent", "pending", "approved"} THEN "open"
    ELSE "closed"

Once == INSTANCE ProvisionOnce WITH phase <- [r \in Requests |-> Phase(r)]

\* Each request goes through one claim, one launch and one delivery at most.
ImplementsProvisionOnce == Once!Spec

\* "Seule une demande en attente peut etre refusee": a request becomes refused
\* only from pending (a PATCH may also write refused, so it is stated of runs
\* without PATCH).
RefusedOnlyWhenPending ==
    [][\A r \in Requests :
          status[r] # "refused" /\ status'[r] = "refused" => status[r] = "pending"]_vars

\* A provisioning that failed ends with the request shown as failed, so that
\* someone verifies it by hand before it is started again.
FailureIsRecorded ==
    \A r \in Requests :
        (\E h \in Handlers : pc[h] = "marking" /\ job[h] = r) ~> (status[r] = "failed")

=============================================================================
