------------------------ MODULE RequestWorkflowProofs ------------------------
(***************************************************************************)
(* Theorems about RequestWorkflow, for any sets of requests and handlers   *)
(* and any number of restarts.                                             *)
(***************************************************************************)
EXTENDS RequestWorkflow, TLAPS

-----------------------------------------------------------------------------
(* Type correctness.                                                       *)

\* The request a busy handler works on has a row: rows are never deleted.
BusyHasRow ==
    \A h \in Handlers : pc[h] # "idle" => job[h] \in Requests /\ status[job[h]] # "absent"

Typed == TypeOK /\ BusyHasRow

\* Rows stay: what every step that writes the status column respects.
RowsStay == \A r \in Requests : status[r] # "absent" => status'[r] # "absent"

\* A handler that moves on, on a request that has a row, stays well typed.
LEMMA StepTyped ==
    ASSUME Typed, RowsStay, NEW h \in Handlers, NEW p \in PCs, NEW r \in Requests,
           NEW s \in RequestStatus, Step(h, p, r, s), status'[r] # "absent"
    PROVE  /\ pc' \in [Handlers -> PCs]
           /\ job' \in [Handlers -> Requests \union {NoRequest}]
           /\ seen' \in [Handlers -> RequestStatus]
           /\ want' \in [Handlers -> RequestStatus]
           /\ BusyHasRow'
  BY DEF Typed, TypeOK, BusyHasRow, RowsStay, Step, RequestStatus

\* So does a handler that leaves.
LEMMA LeaveTyped ==
    ASSUME Typed, RowsStay, NEW h \in Handlers, Leave(h)
    PROVE  /\ pc' \in [Handlers -> PCs]
           /\ job' \in [Handlers -> Requests \union {NoRequest}]
           /\ seen' \in [Handlers -> RequestStatus]
           /\ want' \in [Handlers -> RequestStatus]
           /\ BusyHasRow'
  BY DEF Typed, TypeOK, BusyHasRow, RowsStay, Leave, Step, RequestStatus, PCs

\* Writing a request status into a row keeps the column typed.
LEMMA StatusTyped ==
    ASSUME Typed, NEW r \in Requests, NEW s \in RequestStatus,
           status' = [status EXCEPT ![r] = s]
    PROVE  /\ status' \in [Requests -> RequestStatus \union {"absent"}]
           /\ RowsStay
           /\ status'[r] # "absent"
  BY DEF Typed, TypeOK, RowsStay, RequestStatus

LEMMA TypedNext == Typed /\ [Next]_vars => Typed'
<1> SUFFICES ASSUME Typed, [Next]_vars PROVE Typed'
    OBVIOUS
<1>stay. status' = status => RowsStay /\ status' \in [Requests -> RequestStatus \union {"absent"}]
    BY DEF Typed, TypeOK, RowsStay
<1> USE MaxRestartsAssumption, PatchAssumption
<1> USE DEF dbVars, procVars
<1>row. ASSUME NEW h \in Handlers, pc[h] # "idle"
        PROVE  job[h] \in Requests /\ status[job[h]] \in RequestStatus
    BY <1>row DEF Typed, TypeOK, BusyHasRow
<1>st. /\ "pending" \in RequestStatus /\ "provisioning" \in RequestStatus
       /\ "provisioned" \in RequestStatus /\ "failed" \in RequestStatus
       /\ "refused" \in RequestStatus
    BY DEF RequestStatus
<1>1. ASSUME NEW r \in Requests, CreatePending(r) PROVE Typed'
    <2>1. RowsStay /\ status' \in [Requests -> RequestStatus \union {"absent"}]
        BY <1>1, <1>st, StatusTyped DEF CreatePending
    <2> QED  BY <1>1, <2>1 DEF Typed, TypeOK, BusyHasRow, RowsStay, CreatePending
<1>2. ASSUME NEW h \in Handlers, NEW r \in Requests, CreateAutoApproved(h, r) PROVE Typed'
    <2>1. RowsStay /\ status' \in [Requests -> RequestStatus \union {"absent"}] /\ status'[r] # "absent"
        BY <1>2, <1>st, StatusTyped DEF CreateAutoApproved
    <2>2. "claimed" \in PCs  BY DEF PCs
    <2> QED  BY <1>2, <1>st, <2>1, <2>2, StepTyped DEF Typed, TypeOK, CreateAutoApproved
<1>3. ASSUME NEW h \in Handlers, NEW r \in Requests, NEW p \in {"approving", "requesting"},
             SelectForUpdate(h, r, p) PROVE Typed'
    <2>1. p \in PCs /\ status[r] \in RequestStatus /\ status'[r] # "absent"
        BY <1>3 DEF PCs, Typed, TypeOK, SelectForUpdate
    <2>2. RowsStay  BY <1>3, <1>stay DEF SelectForUpdate
    <2> QED  BY <1>3, <2>1, <2>2, StepTyped DEF Typed, TypeOK, SelectForUpdate
<1>4. ASSUME NEW h \in Handlers, NEW r \in Requests, ReadForReject(h, r) PROVE Typed'
    <2>1. "rejecting" \in PCs /\ status'[r] # "absent"
        BY <1>4 DEF PCs, ReadForReject
    <2>2. RowsStay  BY <1>4, <1>stay DEF ReadForReject
    <2> QED  BY <1>4, <1>st, <2>1, <2>2, StepTyped DEF Typed, TypeOK, ReadForReject
<1>5. ASSUME NEW h \in Handlers, NEW r \in Requests, NEW s \in PatchStatuses,
             ReadForPatch(h, r, s) PROVE Typed'
    BY <1>5 DEF Typed, TypeOK, BusyHasRow, ReadForPatch, PCs
<1>6. ASSUME NEW h \in Handlers, Claim(h) PROVE Typed'
    <2>1. pc[h] # "idle" /\ "claimed" \in PCs  BY <1>6 DEF Claim, PCs
    <2>2. RowsStay /\ status' \in [Requests -> RequestStatus \union {"absent"}] /\ status'[job[h]] # "absent"
        BY <1>6, <2>1, <1>row, <1>st, StatusTyped DEF Claim
    <2> QED  BY <1>6, <1>row, <1>st, <2>1, <2>2, StepTyped DEF Typed, TypeOK, Claim
<1>7. ASSUME NEW h \in Handlers, RefuseClaim(h) PROVE Typed'
    BY <1>7, <1>stay, LeaveTyped DEF Typed, TypeOK, RefuseClaim
<1>8. ASSUME NEW h \in Handlers, BeginCreate(h) PROVE Typed'
    <2>1. /\ "creating" \in PCs /\ seen[h] \in RequestStatus
          /\ job[h] \in Requests /\ status'[job[h]] # "absent"
        BY <1>8 DEF PCs, Typed, TypeOK, BusyHasRow, BeginCreate
    <2>2. launches' \in [Requests -> Nat]
        BY <1>8, <2>1 DEF Typed, TypeOK, BeginCreate
    <2>3. RowsStay  BY <1>8, <1>stay DEF BeginCreate
    <2> QED  BY <1>8, <2>1, <2>2, <2>3, StepTyped DEF Typed, TypeOK, BeginCreate
<1>9. ASSUME NEW h \in Handlers, RecordVms(h) PROVE Typed'
    <2>1. job[h] \in Requests
        BY <1>9, <1>row DEF RecordVms
    <2>2. RowsStay /\ status' \in [Requests -> RequestStatus \union {"absent"}]
        BY <1>9, <2>1, <1>st, StatusTyped DEF RecordVms
    <2>3. notified' \in [Requests -> SUBSET Verdicts] /\ batches' \in [Requests -> Nat]
        BY <1>9, <2>1 DEF Typed, TypeOK, RecordVms, Verdicts
    <2> QED  BY <1>9, <2>2, <2>3, LeaveTyped DEF Typed, TypeOK, RecordVms
<1>10. ASSUME NEW h \in Handlers, ProvisionFails(h) PROVE Typed'
    <2>1. pc[h] # "idle" /\ "marking" \in PCs  BY <1>10 DEF ProvisionFails, PCs
    <2>2. status'[job[h]] # "absent"  BY <1>10, <2>1, <1>row DEF ProvisionFails, RequestStatus
    <2>3. RowsStay  BY <1>10, <1>stay DEF ProvisionFails
    <2> QED  BY <1>10, <1>row, <2>1, <2>2, <2>3, StepTyped DEF Typed, TypeOK, ProvisionFails
<1>11. ASSUME NEW h \in Handlers, MarkFailed(h) PROVE Typed'
    <2>1. job[h] \in Requests /\ status[job[h]] \in RequestStatus
        BY <1>11, <1>row DEF MarkFailed
    <2>2. Flushed(status[job[h]], seen[h], "failed") \in RequestStatus
        BY <2>1, <1>st DEF Flushed
    <2>3. RowsStay /\ status' \in [Requests -> RequestStatus \union {"absent"}]
        BY <1>11, <2>1, <2>2, StatusTyped DEF MarkFailed, Typed, TypeOK
    <2> QED  BY <1>11, <2>3, LeaveTyped DEF Typed, TypeOK, MarkFailed
<1>12. ASSUME NEW h \in Handlers, MarkRaises(h) PROVE Typed'
    BY <1>12, <1>stay, LeaveTyped DEF Typed, TypeOK, MarkRaises
<1>13. ASSUME NEW h \in Handlers, CommitReject(h) PROVE Typed'
    <2>1. job[h] \in Requests /\ status[job[h]] \in RequestStatus
        BY <1>13, <1>row DEF CommitReject
    <2>2. Flushed(status[job[h]], seen[h], "refused") \in RequestStatus
        BY <2>1, <1>st DEF Flushed
    <2>3. RowsStay /\ status' \in [Requests -> RequestStatus \union {"absent"}]
        BY <1>13, <2>1, <2>2, StatusTyped DEF CommitReject
    <2>4. notified' \in [Requests -> SUBSET Verdicts]
        BY <1>13, <2>1 DEF Typed, TypeOK, CommitReject, Verdicts
    <2> QED  BY <1>13, <2>3, <2>4, LeaveTyped DEF Typed, TypeOK, CommitReject
<1>14. ASSUME NEW h \in Handlers, CommitPatch(h) PROVE Typed'
    <2>1. job[h] \in Requests /\ status[job[h]] \in RequestStatus
        BY <1>14, <1>row DEF CommitPatch
    <2>2. Flushed(status[job[h]], seen[h], want[h]) \in RequestStatus
        BY <2>1 DEF Flushed, Typed, TypeOK
    <2>3. RowsStay /\ status' \in [Requests -> RequestStatus \union {"absent"}]
        BY <1>14, <2>1, <2>2, StatusTyped DEF CommitPatch
    <2>4. notified' \in [Requests -> SUBSET Verdicts]
        BY <1>14, <2>1 DEF Typed, TypeOK, CommitPatch, Verdicts
    <2> QED  BY <1>14, <2>3, <2>4, LeaveTyped DEF Typed, TypeOK, CommitPatch
<1>15. CASE Restart
    BY <1>15 DEF Typed, TypeOK, BusyHasRow, Restart, PCs, RequestStatus
<1>16. CASE UNCHANGED vars
    BY <1>16 DEF Typed, TypeOK, BusyHasRow, vars
<1> QED  BY <1>1, <1>2, <1>3, <1>4, <1>5, <1>6, <1>7, <1>8, <1>9, <1>10, <1>11, <1>12,
            <1>13, <1>14, <1>15, <1>16 DEF Next, Arrival, HandlerStep

\* Every reachable state is typed, and every busy handler works on an existing
\* request, whatever the routes are called with and whenever the server stops.
THEOREM TypeCorrect == Spec => [](TypeOK /\ BusyHasRow)
<1>1. Init => Typed
    BY MaxRestartsAssumption
    DEF Init, Typed, TypeOK, BusyHasRow, PCs, RequestStatus, Verdicts
<1> QED  BY <1>1, TypedNext, PTL DEF Spec, Typed

-----------------------------------------------------------------------------
(* At most one launch.  Under the hypothesis that PATCH does not reopen     *)
(* requests, what makes it true is that a request that is claimable has     *)
(* never been worked on, that a handler decides to claim on the status the  *)
(* row still has (it holds the row), and that one handler at a time works   *)
(* on a request.                                                           *)

NoReopen == PatchStatuses \intersect {"pending", "approved"} = {}

Locking(h) == pc[h] \in {"approving", "requesting"}

\* One handler holds a row, and knows its status.
LockExclusive ==
    \A g, h \in Handlers : Locking(g) /\ Locking(h) /\ job[g] = job[h] => g = h

LockFresh == \A h \in Handlers : Locking(h) => seen[h] = status[job[h]]

\* One handler works on a request, and how far it has got.
WorkerAlone ==
    \A r \in Requests, g, h \in Handlers : Working(g, r) /\ Working(h, r) => g = h

WorkerProgress ==
    \A h \in Handlers :
        /\ pc[h] = "claimed" => launches[job[h]] = 0 /\ batches[job[h]] = 0
        /\ pc[h] = "creating" => launches[job[h]] = 1 /\ batches[job[h]] = 0

\* A PATCH handler writes a status an administrator may send.
PatchWants == \A h \in Handlers : pc[h] = "patching" => want[h] \in PatchStatuses

Safe ==
    /\ Typed
    /\ LockExclusive
    /\ LockFresh
    /\ ClaimableIsUntouched
    /\ WorkerAlone
    /\ WorkerProgress
    /\ PatchWants
    /\ LaunchOnce

LEMMA SafeInit == Init => Safe
<1> SUFFICES ASSUME Init PROVE Safe
    OBVIOUS
<1>1. Typed
    BY MaxRestartsAssumption
    DEF Init, Typed, TypeOK, BusyHasRow, PCs, RequestStatus, Verdicts
<1> QED  BY <1>1 DEF Init, Safe, LockExclusive, LockFresh, ClaimableIsUntouched, WorkerAlone,
                     WorkerProgress, PatchWants, LaunchOnce, Locking, Working

\* The steps that change nothing but one handler's place, to one where it
\* neither holds a row nor works on a request, keep Safe.
LEMMA BystanderSafe ==
    ASSUME Safe, Typed', NEW h \in Handlers, NEW p \in {"idle", "rejecting", "marking"},
           NEW r, NEW s, Step(h, p, r, s),
           p = "marking" => Working(h, r),
           UNCHANGED <<status, batches, launches>>
    PROVE  Safe'
<1> USE DEF Safe, Typed, TypeOK, BusyHasRow, Step, Locking, Working
<1>1. LockExclusive' /\ LockFresh'
    BY DEF LockExclusive, LockFresh
<1>2. ClaimableIsUntouched' /\ LaunchOnce'
    BY DEF ClaimableIsUntouched, LaunchOnce
<1>3. WorkerAlone' /\ WorkerProgress'
    BY DEF WorkerAlone, WorkerProgress
<1>4. PatchWants'
    BY DEF PatchWants
<1> QED  BY <1>1, <1>2, <1>3, <1>4

\* A handler that does not hold its row leaves, having written a status that
\* cannot be claimed, or the one that was there, into a row nobody holds.
LEMMA WriterSafe ==
    ASSUME Safe, Typed', NEW h \in Handlers, pc[h] \in {"creating", "marking", "rejecting", "patching"},
           ~Locked(job[h]), Leave(h), NEW s,
           s = status[job[h]] \/ s \notin {"absent", "pending", "approved"},
           status' = [status EXCEPT ![job[h]] = s],
           \/ batches' = batches
           \/ pc[h] = "creating" /\ batches' = [batches EXCEPT ![job[h]] = @ + 1],
           launches' = launches
    PROVE  Safe'
<1> USE DEF Safe, Typed, TypeOK, BusyHasRow, Leave, Step, Locking, Working
<1>1. LockExclusive'
    BY DEF LockExclusive
<1>2. LockFresh'
    BY DEF LockFresh, Locked
<1>3. ClaimableIsUntouched'
    <2>1. pc[h] = "creating" => status[job[h]] \notin {"absent", "pending", "approved"}
        BY DEF ClaimableIsUntouched
    <2> QED  BY <2>1 DEF ClaimableIsUntouched
<1>4. WorkerAlone'
    BY DEF WorkerAlone
<1>5. WorkerProgress'
    BY DEF WorkerAlone, WorkerProgress
<1>6. PatchWants' /\ LaunchOnce'
    BY DEF PatchWants, LaunchOnce
<1> QED  BY <1>1, <1>2, <1>3, <1>4, <1>5, <1>6

LEMMA SafeNext == ASSUME NoReopen PROVE Safe /\ [Next]_vars => Safe'
<1> SUFFICES ASSUME Safe, [Next]_vars PROVE Safe'
    OBVIOUS
<1>t. Typed'
    BY TypedNext DEF Safe
<1> USE <1>t DEF dbVars, procVars
<1>1. ASSUME NEW r \in Requests, CreatePending(r) PROVE Safe'
    <2> USE <1>1 DEF CreatePending, Safe, Typed, TypeOK, BusyHasRow, Locking, Working
    <2>1. LockExclusive' /\ LockFresh'
        BY DEF LockExclusive, LockFresh
    <2>2. ClaimableIsUntouched'
        BY DEF ClaimableIsUntouched
    <2> QED  BY <2>1, <2>2 DEF WorkerAlone, WorkerProgress, PatchWants, LaunchOnce
<1>2. ASSUME NEW h \in Handlers, NEW r \in Requests, CreateAutoApproved(h, r) PROVE Safe'
    <2> USE <1>2 DEF CreateAutoApproved, Step, Safe, Typed, TypeOK, BusyHasRow, Locking, Working
    <2>1. LockExclusive' /\ LockFresh'
        BY DEF LockExclusive, LockFresh
    <2>2. ClaimableIsUntouched'
        BY DEF ClaimableIsUntouched
    <2>3. WorkerAlone' /\ WorkerProgress'
        \* the row was absent, so nobody has worked on this request
        BY DEF ClaimableIsUntouched, WorkerAlone, WorkerProgress
    <2> QED  BY <2>1, <2>2, <2>3 DEF PatchWants, LaunchOnce
<1>3. ASSUME NEW h \in Handlers, NEW r \in Requests, NEW p \in {"approving", "requesting"},
             SelectForUpdate(h, r, p) PROVE Safe'
    <2> USE <1>3 DEF SelectForUpdate, Step, Safe, Typed, TypeOK, BusyHasRow, Locking, Working
    <2>1. LockExclusive'
        BY DEF LockExclusive, Locked
    <2>2. LockFresh'
        BY DEF LockFresh
    <2>3. ClaimableIsUntouched' /\ WorkerAlone' /\ WorkerProgress'
        BY DEF ClaimableIsUntouched, WorkerAlone, WorkerProgress
    <2> QED  BY <2>1, <2>2, <2>3 DEF PatchWants, LaunchOnce
<1>4. ASSUME NEW h \in Handlers, NEW r \in Requests, ReadForReject(h, r) PROVE Safe'
    BY <1>4, BystanderSafe DEF ReadForReject
<1>5. ASSUME NEW h \in Handlers, NEW r \in Requests, NEW s \in PatchStatuses,
             ReadForPatch(h, r, s) PROVE Safe'
    <2> USE <1>5 DEF ReadForPatch, Safe, Typed, TypeOK, BusyHasRow, Locking, Working
    <2>1. LockExclusive' /\ LockFresh'
        BY DEF LockExclusive, LockFresh
    <2>2. ClaimableIsUntouched' /\ WorkerAlone' /\ WorkerProgress'
        BY DEF ClaimableIsUntouched, WorkerAlone, WorkerProgress
    <2>3. PatchWants' /\ LaunchOnce'
        BY DEF PatchWants, LaunchOnce
    <2> QED  BY <2>1, <2>2, <2>3
<1>6. ASSUME NEW h \in Handlers, Claim(h) PROVE Safe'
    <2> USE <1>6 DEF Claim, Step, Safe, Typed, TypeOK, BusyHasRow, Locking, Working
    <2>1. status[job[h]] \in {"pending", "approved"}
        \* the handler holds the row, so what it read is still there
        BY DEF LockFresh, Startable
    <2>2. launches[job[h]] = 0 /\ \A g \in Handlers : ~Working(g, job[h])
        BY <2>1 DEF ClaimableIsUntouched
    <2>3. LockExclusive' /\ LockFresh'
        BY DEF LockExclusive, LockFresh
    <2>4. ClaimableIsUntouched'
        BY DEF ClaimableIsUntouched
    <2>5. WorkerAlone' /\ WorkerProgress'
        BY <2>2 DEF WorkerAlone, WorkerProgress
    <2> QED  BY <2>3, <2>4, <2>5 DEF PatchWants, LaunchOnce
<1>7. ASSUME NEW h \in Handlers, RefuseClaim(h) PROVE Safe'
    BY <1>7, BystanderSafe DEF RefuseClaim, Leave
<1>8. ASSUME NEW h \in Handlers, BeginCreate(h) PROVE Safe'
    <2> USE <1>8 DEF BeginCreate, Step, Safe, Typed, TypeOK, BusyHasRow, Locking, Working
    <2>1. LockExclusive' /\ LockFresh'
        BY DEF LockExclusive, LockFresh
    <2>2. ClaimableIsUntouched'
        BY DEF ClaimableIsUntouched
    <2>3. WorkerAlone'
        BY DEF WorkerAlone
    <2>4. WorkerProgress'
        BY DEF WorkerAlone, WorkerProgress
    <2>5. LaunchOnce'
        BY DEF WorkerProgress, LaunchOnce
    <2> QED  BY <2>1, <2>2, <2>3, <2>4, <2>5 DEF PatchWants
<1>9. ASSUME NEW h \in Handlers, RecordVms(h) PROVE Safe'
    BY <1>9, WriterSafe DEF RecordVms
<1>10. ASSUME NEW h \in Handlers, ProvisionFails(h) PROVE Safe'
    BY <1>10, BystanderSafe DEF ProvisionFails, Working
<1>11. ASSUME NEW h \in Handlers, MarkFailed(h) PROVE Safe'
    BY <1>11, WriterSafe DEF MarkFailed, Flushed
<1>12. ASSUME NEW h \in Handlers, MarkRaises(h) PROVE Safe'
    BY <1>12, BystanderSafe DEF MarkRaises, Leave
<1>13. ASSUME NEW h \in Handlers, CommitReject(h) PROVE Safe'
    BY <1>13, WriterSafe DEF CommitReject, Flushed
<1>14. ASSUME NEW h \in Handlers, CommitPatch(h) PROVE Safe'
    <2>1. want[h] \in PatchStatuses
        BY <1>14 DEF CommitPatch, Safe, PatchWants
    <2>2. want[h] \notin {"absent", "pending", "approved"}
        BY <2>1, NoReopen, PatchAssumption DEF NoReopen, RequestStatus
    <2> QED  BY <1>14, <2>2, WriterSafe DEF CommitPatch, Flushed
<1>15. CASE Restart
    BY <1>15 DEF Restart, Safe, LockExclusive, LockFresh, ClaimableIsUntouched, WorkerAlone,
                 WorkerProgress, PatchWants, LaunchOnce, Locking, Working
<1>16. CASE UNCHANGED vars
    BY <1>16 DEF vars, Safe, LockExclusive, LockFresh, ClaimableIsUntouched, WorkerAlone,
                 WorkerProgress, PatchWants, LaunchOnce, Locking, Working
<1> QED  BY <1>1, <1>2, <1>3, <1>4, <1>5, <1>6, <1>7, <1>8, <1>9, <1>10, <1>11, <1>12,
            <1>13, <1>14, <1>15, <1>16 DEF Next, Arrival, HandlerStep

\* When PATCH does not reopen requests, the cloud is asked at most once for the
\* VMs of a request, and a request that can be claimed was never worked on.
THEOREM LaunchAtMostOnce == ASSUME NoReopen PROVE Spec => [](LaunchOnce /\ ClaimableIsUntouched)
<1>1. Spec => []Safe
    BY SafeInit, SafeNext, PTL DEF Spec
<1>2. Safe => LaunchOnce /\ ClaimableIsUntouched
    BY DEF Safe
<1> QED  BY <1>1, <1>2, PTL

-----------------------------------------------------------------------------
(* Verdicts the requester sees.                                            *)

NoFalseApproval == PatchStatuses \intersect {"approved", "provisioned"} = {}

\* Only RecordVms shows a request as provisioned or announces its environment,
\* in the transaction that inserts the VM rows; rows are never deleted.
THEOREM ProvisionedMeansVms == ASSUME NoFalseApproval PROVE Spec => []ProvisionedHasVms
<1> DEFINE Told == Typed /\ PatchWants /\ ProvisionedHasVms
<1>1. Init => Told
    BY SafeInit DEF Safe, Init, ProvisionedHasVms
<1>2. Told /\ [Next]_vars => Told'
    <2> SUFFICES ASSUME Told, [Next]_vars PROVE Told'
        OBVIOUS
    <2>t. Typed'
        BY TypedNext
    <2> USE <2>t DEF dbVars, procVars, Typed, TypeOK, BusyHasRow, Step, Leave
    <2>1. ASSUME NEW r \in Requests, CreatePending(r) PROVE Told'
        BY <2>1 DEF CreatePending, PatchWants, ProvisionedHasVms
    <2>2. ASSUME NEW h \in Handlers, NEW r \in Requests, Arrival(h, r) PROVE Told'
        <3>1. PatchWants'
            BY <2>2 DEF Arrival, CreateAutoApproved, SelectForUpdate, ReadForReject, ReadForPatch, PatchWants
        <3>2. ProvisionedHasVms'
            BY <2>2 DEF Arrival, CreateAutoApproved, SelectForUpdate, ReadForReject, ReadForPatch,
                        ProvisionedHasVms
        <3> QED  BY <3>1, <3>2
    <2>3. ASSUME NEW h \in Handlers, RecordVms(h) PROVE Told'
        BY <2>3 DEF RecordVms, PatchWants, ProvisionedHasVms
    <2>4. ASSUME NEW h \in Handlers, MarkFailed(h) PROVE Told'
        BY <2>4 DEF MarkFailed, Flushed, PatchWants, ProvisionedHasVms
    <2>5. ASSUME NEW h \in Handlers, CommitReject(h) PROVE Told'
        BY <2>5 DEF CommitReject, Flushed, PatchWants, ProvisionedHasVms
    <2>6. ASSUME NEW h \in Handlers, CommitPatch(h) PROVE Told'
        <3>1. want[h] \notin {"approved", "provisioned"}
            BY <2>6, NoFalseApproval DEF CommitPatch, NoFalseApproval, PatchWants
        <3> QED  BY <2>6, <3>1 DEF CommitPatch, Flushed, PatchWants, ProvisionedHasVms
    <2>7. ASSUME NEW h \in Handlers, Claim(h) \/ RefuseClaim(h) \/ BeginCreate(h) \/ ProvisionFails(h) \/ MarkRaises(h)
          PROVE Told'
        BY <2>7 DEF Claim, RefuseClaim, BeginCreate, ProvisionFails, MarkRaises, PatchWants, ProvisionedHasVms
    <2>8. CASE Restart
        BY <2>8 DEF Restart, PatchWants, ProvisionedHasVms
    <2>9. CASE UNCHANGED vars
        BY <2>9 DEF vars, PatchWants, ProvisionedHasVms
    <2> QED  BY <2>1, <2>2, <2>3, <2>4, <2>5, <2>6, <2>7, <2>8, <2>9 DEF Next, HandlerStep
<1> QED  BY <1>1, <1>2, PTL DEF Spec

-----------------------------------------------------------------------------
(* Refinement.                                                             *)

\* The phase of a request while one handler is at work on it, and after.
LEMMA PhaseOfWork ==
    ASSUME Safe, NEW h \in Handlers, Working(h, job[h])
    PROVE  /\ pc[h] = "claimed" => Phase(job[h]) = "claimed"
           /\ pc[h] = "creating" => Phase(job[h]) = "launched"
           /\ pc[h] = "marking" => Phase(job[h]) \in {"closed", "delivered"}
  BY DEF Safe, Typed, TypeOK, BusyHasRow, WorkerAlone, WorkerProgress, ClaimableIsUntouched,
         Working, Phase

\* A request that can be claimed is open.
LEMMA PhaseOfClaimable ==
    ASSUME Safe, NEW r \in Requests, status[r] \in {"absent", "pending", "approved"}
    PROVE  Phase(r) = "open"
  BY DEF Safe, Typed, TypeOK, ClaimableIsUntouched, Working, Phase

\* The mapping is a function on the requests, and a step that changes the
\* phase of one request only is a step of that request.
LEMMA PhaseStep ==
    ASSUME NEW r \in Requests, \A q \in Requests \ {r} : Phase(q)' = Phase(q)
    PROVE  [q \in Requests |-> Phase(q)]' = [[q \in Requests |-> Phase(q)] EXCEPT ![r] = Phase(r)']
  OBVIOUS

\* A handler that neither starts nor ends working on r, while nothing is
\* recorded for r and its row stays on the same side, leaves its phase alone.
LEMMA PhaseKept ==
    ASSUME NEW r \in Requests, NEW h \in Handlers, NEW p, Typed,
           pc' = [pc EXCEPT ![h] = p],
           job[h] = r => pc[h] \notin {"claimed", "creating"},
           job'[h] = r => p \notin {"claimed", "creating"},
           \A g \in Handlers \ {h} : job'[g] = job[g],
           batches'[r] = batches[r],
           status[r] \in {"absent", "pending", "approved"}
              <=> status'[r] \in {"absent", "pending", "approved"}
    PROVE  Phase(r)' = Phase(r)
<1>1. \A q \in {"claimed", "creating"} :
         (\E g \in Handlers : pc'[g] = q /\ job'[g] = r) <=> (\E g \in Handlers : pc[g] = q /\ job[g] = r)
    BY DEF Typed, TypeOK
<1> QED  BY <1>1 DEF Phase

LEMMA OnceNext ==
    ASSUME NoReopen, Safe, Safe', [Next]_vars
    PROVE  [Once!Next]_([r \in Requests |-> Phase(r)])
<1> DEFINE ph == [r \in Requests |-> Phase(r)]
<1> USE DEF dbVars, procVars
<1>ty. Typed /\ Typed'
    BY DEF Safe
<1>a. ASSUME \A r \in Requests : Phase(r)' = Phase(r) PROVE [Once!Next]_ph
    BY <1>a
<1>c. ASSUME NEW r \in Requests, Phase(r) = "open", Phase(r)' = "closed",
             \A q \in Requests \ {r} : Phase(q)' = Phase(q)
      PROVE  [Once!Next]_ph
    <2>1. ph' = [q \in Requests |-> IF q \in {r} THEN "closed" ELSE ph[q]]
        BY <1>c
    <2>2. Once!Close({r})
        BY <1>c, <2>1 DEF Once!Close
    <2> QED  BY <2>2 DEF Once!Next
<1>1. ASSUME NEW r \in Requests, CreatePending(r) PROVE [Once!Next]_ph
    <2>1. \A q \in Requests : Phase(q)' = Phase(q)
        BY <1>1, <1>ty DEF CreatePending, Phase, Typed, TypeOK
    <2> QED  BY <1>a, <2>1
<1>2. ASSUME NEW h \in Handlers, NEW r \in Requests, CreateAutoApproved(h, r) PROVE [Once!Next]_ph
    <2>1. Phase(r) = "open"
        BY <1>2, PhaseOfClaimable DEF CreateAutoApproved
    <2>2. batches[r] = 0 /\ \A g \in Handlers : ~Working(g, r)
        BY <1>2 DEF CreateAutoApproved, Safe, ClaimableIsUntouched
    <2>3. Phase(r)' = "claimed"
        BY <1>2, <2>2, <1>ty DEF CreateAutoApproved, Step, Phase, Working, Typed, TypeOK
    <2>4. \A q \in Requests \ {r} : Phase(q)' = Phase(q)
        BY <1>2, <1>ty DEF CreateAutoApproved, Step, Phase, Typed, TypeOK
    <2>5. Once!Claim(r)
        BY <2>1, <2>3, <2>4, PhaseStep DEF Once!Claim
    <2> QED  BY <2>5 DEF Once!Next
<1>3. ASSUME NEW h \in Handlers, NEW r \in Requests, NEW p \in {"approving", "requesting"},
             SelectForUpdate(h, r, p) PROVE [Once!Next]_ph
    <2>1. \A q \in Requests : Phase(q)' = Phase(q)
        BY <1>3, <1>ty, PhaseKept DEF SelectForUpdate, Step, Typed, TypeOK
    <2> QED  BY <1>a, <2>1
<1>4. ASSUME NEW h \in Handlers, NEW r \in Requests, ReadForReject(h, r) PROVE [Once!Next]_ph
    <2>1. \A q \in Requests : Phase(q)' = Phase(q)
        BY <1>4, <1>ty, PhaseKept DEF ReadForReject, Step, Typed, TypeOK
    <2> QED  BY <1>a, <2>1
<1>5. ASSUME NEW h \in Handlers, NEW r \in Requests, NEW s \in PatchStatuses,
             ReadForPatch(h, r, s) PROVE [Once!Next]_ph
    <2>1. \A q \in Requests : Phase(q)' = Phase(q)
        BY <1>5, <1>ty, PhaseKept DEF ReadForPatch, Typed, TypeOK
    <2> QED  BY <1>a, <2>1
<1>6. ASSUME NEW h \in Handlers, Claim(h) PROVE [Once!Next]_ph
    <2>r. PICK r \in Requests : r = job[h]
        BY <1>6, <1>ty DEF Claim, Typed, BusyHasRow
    <2>1. status[r] \in {"pending", "approved"}
        BY <2>r, <1>6 DEF Claim, Startable, Safe, Typed, BusyHasRow, LockFresh, Locking
    <2>2. Phase(r) = "open" /\ \A g \in Handlers : ~Working(g, r)
        BY <2>r, <2>1, PhaseOfClaimable DEF Safe, ClaimableIsUntouched
    <2>3. Phase(r)' = "claimed"
        BY <2>r, <1>6, <2>1, <2>2, <1>ty DEF Claim, Step, Phase, Working, Typed, TypeOK
    <2>4. \A q \in Requests \ {r} : Phase(q)' = Phase(q)
        BY <2>r, <1>6, <2>1, <1>ty DEF Claim, Step, Phase, Typed, TypeOK
    <2>5. Once!Claim(r)
        BY <2>r, <2>1, <2>2, <2>3, <2>4, PhaseStep DEF Once!Claim
    <2> QED  BY <2>1, <2>5 DEF Once!Next
<1>7. ASSUME NEW h \in Handlers, RefuseClaim(h) PROVE [Once!Next]_ph
    <2>1. \A q \in Requests : Phase(q)' = Phase(q)
        BY <1>7, <1>ty, PhaseKept DEF RefuseClaim, Leave, Step, Typed, TypeOK
    <2> QED  BY <1>a, <2>1
<1>8. ASSUME NEW h \in Handlers, BeginCreate(h) PROVE [Once!Next]_ph
    <2>r. PICK r \in Requests : r = job[h]
        BY <1>8, <1>ty DEF BeginCreate, Typed, BusyHasRow
    <2>1. Phase(r) = "claimed" /\ batches[r] = 0
        BY <2>r, <1>8, <1>ty, PhaseOfWork DEF BeginCreate, Working, Typed, BusyHasRow, Safe, WorkerProgress
    <2>2. Phase(r)' = "launched"
        BY <2>r, <1>8, <2>1, <1>ty DEF BeginCreate, Step, Phase, Typed, TypeOK
    <2>3. \A q \in Requests \ {r} : Phase(q)' = Phase(q)
        BY <2>r, <1>8, <2>1, <1>ty DEF BeginCreate, Step, Phase, Typed, TypeOK
    <2>4. Once!Launch(r)
        BY <2>r, <2>1, <2>2, <2>3, PhaseStep DEF Once!Launch
    <2> QED  BY <2>1, <2>4 DEF Once!Next
<1>9. ASSUME NEW h \in Handlers, RecordVms(h) PROVE [Once!Next]_ph
    <2>r. PICK r \in Requests : r = job[h]
        BY <1>9, <1>ty DEF RecordVms, Typed, BusyHasRow
    <2>1. Phase(r) = "launched"
        BY <2>r, <1>9, <1>ty, PhaseOfWork DEF RecordVms, Working, Typed, BusyHasRow
    <2>2. Phase(r)' = "delivered"
        BY <2>r, <1>9, <2>1, <1>ty DEF RecordVms, Phase, Typed, TypeOK
    <2>3. \A q \in Requests \ {r} : Phase(q)' = Phase(q)
        BY <2>r, <1>9, <2>1, <1>ty DEF RecordVms, Leave, Step, Phase, Typed, TypeOK
    <2>4. Once!Deliver(r)
        BY <2>r, <2>1, <2>2, <2>3, PhaseStep DEF Once!Deliver
    <2> QED  BY <2>1, <2>4 DEF Once!Next
<1>10. ASSUME NEW h \in Handlers, ProvisionFails(h) PROVE [Once!Next]_ph
    <2>r. PICK r \in Requests : r = job[h]
        BY <1>10, <1>ty DEF ProvisionFails, Typed, BusyHasRow
    <2>1. Working(h, r) /\ batches[r] = 0
        BY <2>r, <1>10, <1>ty DEF ProvisionFails, Working, Typed, BusyHasRow, Safe, WorkerProgress
    <2>2. Phase(r) \in {"claimed", "launched"}
        BY <2>r, <1>10, <2>1, PhaseOfWork DEF ProvisionFails
    <2>3. status[r] \notin {"absent", "pending", "approved"}
        BY <2>r, <2>1 DEF Safe, ClaimableIsUntouched
    <2>4. \A g \in Handlers \ {h} : ~Working(g, r)
        BY <2>r, <2>1 DEF Safe, WorkerAlone
    <2>5. Phase(r)' = "closed"
        BY <2>r, <1>10, <2>1, <2>3, <2>4, <1>ty DEF ProvisionFails, Step, Phase, Working, Typed, TypeOK
    <2>6. \A q \in Requests \ {r} : Phase(q)' = Phase(q)
        BY <2>r, <1>10, <2>1, <1>ty DEF ProvisionFails, Step, Phase, Typed, TypeOK
    <2>7. ph' = [q \in Requests |-> IF q \in {r} THEN "closed" ELSE ph[q]]
        BY <2>r, <2>5, <2>6
    <2>8. Once!Close({r})
        BY <2>r, <2>1, <2>2, <2>7 DEF Once!Close
    <2> QED  BY <2>1, <2>8 DEF Once!Next
<1>11. ASSUME NEW h \in Handlers, MarkFailed(h) PROVE [Once!Next]_ph
    <2>1. job[h] \in Requests /\ status[job[h]] \notin {"absent", "pending", "approved"}
        BY <1>11, <1>ty DEF MarkFailed, Working, Typed, BusyHasRow, Safe, ClaimableIsUntouched
    <2>2. \A q \in Requests : Phase(q)' = Phase(q)
        BY <1>11, <2>1, <1>ty, PhaseKept DEF MarkFailed, Flushed, Leave, Step, Typed, TypeOK
    <2> QED  BY <1>a, <2>2
<1>12. ASSUME NEW h \in Handlers, MarkRaises(h) PROVE [Once!Next]_ph
    <2>1. \A q \in Requests : Phase(q)' = Phase(q)
        BY <1>12, <1>ty, PhaseKept DEF MarkRaises, Leave, Step, Typed, TypeOK
    <2> QED  BY <1>a, <2>1
\* A rejection or a PATCH closes a request that was claimable, and changes
\* nothing for one that somebody works on or that is settled.
<1>w. ASSUME NEW h \in Handlers, pc[h] \in {"rejecting", "patching"}, Leave(h), NEW s,
             s = status[job[h]] \/ s \notin {"absent", "pending", "approved"},
             status' = [status EXCEPT ![job[h]] = s], batches' = batches
      PROVE  [Once!Next]_ph
    <2>r. PICK r \in Requests : r = job[h]
        BY <1>w, <1>ty DEF Typed, BusyHasRow
    <2>2. \A q \in Requests \ {r} : Phase(q)' = Phase(q)
        BY <2>r, <1>w, <1>ty, PhaseKept DEF Leave, Step, Typed, TypeOK
    <2>3. CASE /\ status[r] \in {"absent", "pending", "approved"}
               /\ s \notin {"absent", "pending", "approved"}
        <3>1. Phase(r) = "open" /\ batches[r] = 0 /\ \A g \in Handlers : ~Working(g, r)
            BY <2>r, <2>3, PhaseOfClaimable DEF Safe, ClaimableIsUntouched
        <3>2. Phase(r)' = "closed"
            BY <2>r, <1>w, <2>3, <3>1, <1>ty DEF Leave, Step, Phase, Working, Typed, TypeOK
        <3> QED  BY <1>c, <2>2, <3>1, <3>2
    <2>4. CASE ~ (/\ status[r] \in {"absent", "pending", "approved"}
                  /\ s \notin {"absent", "pending", "approved"})
        <3>1. Phase(r)' = Phase(r)
            BY <2>r, <1>w, <2>4, <1>ty, PhaseKept DEF Leave, Step, Typed, TypeOK
        <3> QED  BY <1>a, <2>2, <3>1
    <2> QED  BY <2>3, <2>4
<1>13. ASSUME NEW h \in Handlers, CommitReject(h) PROVE [Once!Next]_ph
    BY <1>13, <1>w DEF CommitReject, Flushed
<1>14. ASSUME NEW h \in Handlers, CommitPatch(h) PROVE [Once!Next]_ph
    <2>1. want[h] \notin {"absent", "pending", "approved"}
        BY <1>14, NoReopen, PatchAssumption DEF CommitPatch, Safe, PatchWants, NoReopen, RequestStatus
    <2> QED  BY <1>14, <1>w, <2>1 DEF CommitPatch, Flushed
<1>15. CASE Restart
    <2> DEFINE S == {r \in Requests : Phase(r) \in {"claimed", "launched"}}
    <2>1. ASSUME NEW r \in S PROVE Phase(r)' = "closed"
        <3>1. PICK h \in Handlers : Working(h, r)
            BY <2>1 DEF Phase, Working
        <3>2. status[r] \notin {"absent", "pending", "approved"}
            BY <3>1 DEF Safe, ClaimableIsUntouched
        <3>3. ~(batches[r] > 0)
            BY <2>1 DEF Phase
        <3> QED  BY <1>15, <3>2, <3>3 DEF Restart, Phase
    <2>2. ASSUME NEW r \in Requests \ S PROVE Phase(r)' = Phase(r)
        BY <1>15, <2>2 DEF Restart, Phase
    <2>3. ph' = [r \in Requests |-> IF r \in S THEN "closed" ELSE ph[r]]
        BY <2>1, <2>2
    <2>4. Once!Close(S)
        BY <2>3 DEF Once!Close
    <2> QED  BY <2>4 DEF Once!Next
<1>16. CASE UNCHANGED vars
    BY <1>16, <1>a DEF vars, Phase
<1> QED  BY <1>1, <1>2, <1>3, <1>4, <1>5, <1>6, <1>7, <1>8, <1>9, <1>10, <1>11, <1>12,
            <1>13, <1>14, <1>15, <1>16 DEF Next, Arrival, HandlerStep

\* Every behaviour of the workflow, seen through Phase, is one of ProvisionOnce:
\* a request is claimed, launched and delivered at most once each, in order.
THEOREM Refinement == ASSUME NoReopen PROVE Spec => ImplementsProvisionOnce
<1>1. Init => Once!Init
    BY DEF Init, Once!Init, Phase
<1>2. Safe /\ Safe' /\ [Next]_vars => [Once!Next]_([r \in Requests |-> Phase(r)])
    BY OnceNext
<1>3. Spec => []Safe
    BY SafeInit, SafeNext, PTL DEF Spec
<1> QED  BY <1>1, <1>2, <1>3, PTL DEF Spec, ImplementsProvisionOnce, Once!Spec

=============================================================================
