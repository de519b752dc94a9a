-------------------------- MODULE VmLifecycleProofs --------------------------
(***************************************************************************)
(* Theorems about VmLifecycle, for any sets of VMs, handlers and tasks and *)
(* any number of restarts.                                                 *)
(***************************************************************************)
EXTENDS VmLifecycle, TLAPS

-----------------------------------------------------------------------------
(* Type correctness.                                                       *)

\* A busy task, and an actor in the middle of something, has a VM that exists.
TaskHasVm == \A t \in Tasks : tpc[t] # "free" => tvm[t] \in Vms /\ status[tvm[t]] # "absent"

Busy == {"deleting", "deleted", "raised", "patching", "reporting", "closing"}

ActorHasVm == \A a \in Actors : apc[a] \in Busy => avm[a] \in Vms /\ status[avm[a]] # "absent"

Typed == TypeOK /\ TaskHasVm /\ ActorHasVm

\* Rows stay: what every step that writes the status column respects.
RowsStay == \A v \in Vms : status[v] # "absent" => status'[v] # "absent"

ProcTyped ==
    /\ tpc \in [Tasks -> TaskPCs]
    /\ tvm \in [Tasks -> Vms \union {NoVm}]
    /\ tseen \in [Tasks -> VmStatus]
    /\ apc \in [Actors -> ActorPCs]
    /\ avm \in [Actors -> Vms \union {NoVm}]
    /\ aseen \in [Actors -> VmStatus]
    /\ want \in [Actors -> VmStatus]

\* A task that moves on keeps the process typed.
LEMMA TaskStepTyped ==
    ASSUME Typed, RowsStay, NEW t \in Tasks, NEW p \in TaskPCs, NEW v \in Vms \union {NoVm},
           NEW s \in VmStatus, TaskStep(t, p, v, s), UNCHANGED actVars,
           p # "free" => v \in Vms /\ status'[v] # "absent"
    PROVE  ProcTyped' /\ TaskHasVm' /\ ActorHasVm'
  BY DEF Typed, TypeOK, ProcTyped, TaskHasVm, ActorHasVm, RowsStay, TaskStep, actVars

\* So does an actor.
LEMMA ActorStepTyped ==
    ASSUME Typed, RowsStay, NEW a \in Actors, NEW p \in ActorPCs, NEW v \in Vms \union {NoVm},
           NEW s \in VmStatus, NEW w \in VmStatus, ActorStep(a, p, v, s, w), UNCHANGED taskVars,
           p \in Busy => v \in Vms /\ status'[v] # "absent"
    PROVE  ProcTyped' /\ TaskHasVm' /\ ActorHasVm'
  BY DEF Typed, TypeOK, ProcTyped, TaskHasVm, ActorHasVm, RowsStay, ActorStep, taskVars

LEMMA MoveTyped ==
    ASSUME Typed, RowsStay, NEW a \in Actors, NEW p \in ActorPCs, NEW v \in Vms \union {NoVm},
           Move(a, p, v), UNCHANGED taskVars,
           p \in Busy => v \in Vms /\ status'[v] # "absent"
    PROVE  ProcTyped' /\ TaskHasVm' /\ ActorHasVm'
<1>1. "creating" \in VmStatus  BY DEF VmStatus
<1> QED  BY <1>1, ActorStepTyped DEF Move

\* Writing a status into a row, or none, keeps the rows typed.
LEMMA StatusTyped ==
    ASSUME Typed, NEW v \in Vms, NEW s \in VmStatus, SetStatus(v, s)
    PROVE  /\ status' \in [Vms -> VmStatus \union {"absent"}]
           /\ RowsStay
           /\ status'[v] = s /\ s # "absent"
  BY DEF Typed, TypeOK, RowsStay, SetStatus, VmStatus

\* What the statuses and places named in the actions are.
LEMMA Names ==
    /\ "configuring" \in VmStatus /\ "running" \in VmStatus /\ "error" \in VmStatus
    /\ "down" \in VmStatus /\ "destroyed" \in VmStatus /\ "creating" \in VmStatus
    /\ "absent" \notin VmStatus
    /\ "free" \in TaskPCs /\ "queued" \in TaskPCs /\ "requeued" \in TaskPCs
    /\ "loaded" \in TaskPCs /\ "playing" \in TaskPCs
    /\ Busy \subseteq ActorPCs
    /\ "idle" \in ActorPCs \ Busy /\ "batch" \in ActorPCs \ Busy /\ "done" \in ActorPCs \ Busy
  BY DEF VmStatus, TaskPCs, ActorPCs, Busy

LEMMA TypedNext == Typed /\ [Next]_vars => Typed'
<1> SUFFICES ASSUME Typed, [Next]_vars PROVE Typed'
    OBVIOUS
<1>stay. status' = status => RowsStay
    BY DEF RowsStay
<1>flush. \A stored, assigned \in VmStatus : \A loaded :
              Flushed(stored, loaded, assigned) \in VmStatus
    BY DEF Flushed
<1> USE RestartsAssumption, AdminAssumption, Names
<1> USE DEF rowVars, jobVars
<1>ha. Handlers \subseteq Actors /\ Jobs \subseteq Actors
    BY DEF Actors
<1>tr. ASSUME NEW t \in Tasks, tpc[t] # "free"
       PROVE  tvm[t] \in Vms /\ status[tvm[t]] \in VmStatus
    BY <1>tr DEF Typed, TypeOK, TaskHasVm
<1>ar. ASSUME NEW a \in Actors, apc[a] \in Busy
       PROVE  avm[a] \in Vms /\ status[avm[a]] \in VmStatus
    BY <1>ar DEF Typed, TypeOK, ActorHasVm
\* It is enough to look at the variables an action may change.
<1>q. ASSUME ProcTyped', TaskHasVm', ActorHasVm',
             status' \in [Vms -> VmStatus \union {"absent"}],
             destroyedAt' \in [Vms -> BOOLEAN], hasId' \in [Vms -> BOOLEAN],
             due' \in [Vms -> BOOLEAN], cloud' \in [Vms -> {"up", "gone"}],
             batch' \in [Jobs -> SUBSET Vms], ided' \in [Jobs -> SUBSET Vms],
             restarts' \in 0..MaxRestarts
      PROVE  Typed'
    BY <1>q DEF Typed, TypeOK, ProcTyped
<1>1. ASSUME NEW v \in Vms, EndDateArrives(v) \/ InfraDeletes(v) PROVE Typed'
    <2>1. ProcTyped' /\ TaskHasVm' /\ ActorHasVm'
        BY <1>1 DEF EndDateArrives, InfraDeletes, taskVars, actVars, Typed, TypeOK, ProcTyped,
                    TaskHasVm, ActorHasVm
    <2>2. due' \in [Vms -> BOOLEAN] /\ cloud' \in [Vms -> {"up", "gone"}]
        <3>1. CASE EndDateArrives(v)
            BY <3>1 DEF EndDateArrives, Typed, TypeOK
        <3>2. CASE InfraDeletes(v)
            BY <3>2 DEF InfraDeletes, Typed, TypeOK
        <3> QED  BY <1>1, <3>1, <3>2
    <2> QED  BY <1>1, <1>q, <2>1, <2>2 DEF EndDateArrives, InfraDeletes, Typed, TypeOK
<1>2. ASSUME NEW v \in Vms, NEW t \in Tasks, CreateVm(v, t) \/ RetryAnsible(v, t) PROVE Typed'
    <2>1. PICK s \in VmStatus : SetStatus(v, s)
        BY <1>2 DEF CreateVm, RetryAnsible
    <2>2. RowsStay /\ status' \in [Vms -> VmStatus \union {"absent"}] /\ status'[v] # "absent"
        BY <2>1, StatusTyped
    <2>3. ProcTyped' /\ TaskHasVm' /\ ActorHasVm'
        BY <1>2, <2>2, TaskStepTyped DEF CreateVm, RetryAnsible
    <2> QED  BY <1>2, <1>q, <2>2, <2>3 DEF CreateVm, RetryAnsible, Typed, TypeOK
<1>3. ASSUME NEW t \in Tasks, TaskStepOf(t) PROVE Typed'
    <2>1. tpc[t] # "free" /\ tvm[t] \in Vms /\ status[tvm[t]] \in VmStatus
        BY <1>3, <1>tr DEF TaskStepOf, TaskLoad, TaskStart, RetryTaskLoad, TaskEnd
    <2>2. status' = status \/ \E s \in VmStatus : SetStatus(tvm[t], s)
        BY <1>3, <2>1, <1>flush
        DEF TaskStepOf, TaskLoad, TaskStart, RetryTaskLoad, TaskEnd
    <2>3. RowsStay /\ status' \in [Vms -> VmStatus \union {"absent"}]
        BY <2>1, <2>2, StatusTyped, <1>stay DEF Typed, TypeOK
    <2>4. ProcTyped' /\ TaskHasVm' /\ ActorHasVm'
        BY <1>3, <2>1, <2>3, TaskStepTyped
        DEF TaskStepOf, TaskLoad, TaskStart, RetryTaskLoad, TaskEnd, RowsStay
    <2> QED  BY <1>3, <1>q, <2>3, <2>4
             DEF TaskStepOf, TaskLoad, TaskStart, RetryTaskLoad, TaskEnd, Typed, TypeOK
<1>4. ASSUME NEW a \in Actors, ProviderDeletes(a) \/ ProviderRaises(a) PROVE Typed'
    <2>1. avm[a] \in Vms /\ status[avm[a]] \in VmStatus
        BY <1>4, <1>ar DEF ProviderDeletes, ProviderRaises, Busy
    <2>2. RowsStay
        BY <1>4, <1>stay DEF ProviderDeletes, ProviderRaises
    <2>3. ProcTyped' /\ TaskHasVm' /\ ActorHasVm'
        BY <1>4, <2>1, <2>2, MoveTyped DEF ProviderDeletes, ProviderRaises, Busy
    <2>4. cloud' \in [Vms -> {"up", "gone"}]
        BY <1>4, <2>1 DEF ProviderDeletes, ProviderRaises, Typed, TypeOK
    <2> QED  BY <1>4, <1>q, <2>3, <2>4 DEF ProviderDeletes, ProviderRaises, Typed, TypeOK
\* An actor that ends what it was busy with by writing a status.
<1>5. ASSUME NEW a \in Actors, apc[a] \in Busy, NEW s \in VmStatus, SetStatus(avm[a], s),
             NEW p \in ActorPCs \ Busy, Move(a, p, NoVm),
             \/ destroyedAt' = destroyedAt
             \/ destroyedAt' = [destroyedAt EXCEPT ![avm[a]] = TRUE],
             \/ hasId' = hasId
             \/ \E id \in BOOLEAN : hasId' = [hasId EXCEPT ![avm[a]] = id],
             UNCHANGED <<due, cloud, taskVars, jobVars, restarts>>
      PROVE  Typed'
    <2>1. RowsStay /\ status' \in [Vms -> VmStatus \union {"absent"}]
        BY <1>5, <1>ar, StatusTyped
    <2>2. ProcTyped' /\ TaskHasVm' /\ ActorHasVm'
        BY <1>5, <2>1, MoveTyped
    <2>3. destroyedAt' \in [Vms -> BOOLEAN]
        BY <1>5, Zenon DEF Typed, TypeOK
    <2>4. hasId' \in [Vms -> BOOLEAN]
        BY <1>5, Zenon DEF Typed, TypeOK
    <2> QED  BY <1>5, <1>q, <2>1, <2>2, <2>3, <2>4 DEF Typed, TypeOK
<1>6. ASSUME NEW h \in Handlers, UserDestroyed(h) \/ UserDestroyFails(h) PROVE Typed'
    BY <1>6, <1>5, <1>ha DEF UserDestroyed, UserDestroyFails, Busy
<1>7. ASSUME NEW h \in Handlers, CommitPatch(h) \/ CommitProvisioningResult(h) \/ CommitDestruction(h)
      PROVE  Typed'
    <2>1. h \in Actors /\ apc[h] \in Busy
        BY <1>7, <1>ha DEF CommitPatch, CommitProvisioningResult, CommitDestruction, Busy
    <2>2. \A s \in VmStatus : Flushed(status[avm[h]], aseen[h], s) \in VmStatus
        BY <2>1, <1>ar, <1>flush
    <2>3. want[h] \in VmStatus
        BY <2>1 DEF Typed, TypeOK
    <2> QED  BY <1>7, <1>5, <2>1, <2>2, <2>3 DEF CommitPatch, CommitProvisioningResult, CommitDestruction
<1>8. ASSUME NEW j \in Jobs, JobDestroyed(j) \/ JobDestroyFails(j) PROVE Typed'
    BY <1>8, <1>5, <1>ha DEF JobDestroyed, JobDestroyFails, Busy
<1>9. ASSUME NEW h \in Handlers, NEW v \in Vms, UserDestroy(h, v) PROVE Typed'
    <2>1. RowsStay /\ status' \in [Vms -> VmStatus \union {"absent"}] /\ status'[v] # "absent"
        BY <1>9, StatusTyped DEF UserDestroy
    <2>2. ProcTyped' /\ TaskHasVm' /\ ActorHasVm'
        BY <1>9, <1>ha, <2>1, MoveTyped DEF UserDestroy, Busy
    <2> QED  BY <1>9, <1>q, <2>1, <2>2 DEF UserDestroy, Typed, TypeOK
<1>10. ASSUME NEW h \in Handlers, NEW v \in Vms, NEW p \in {"patching", "reporting"}, NEW s \in AdminStatuses,
              ReadForPatch(h, v, p, s) PROVE Typed'
    <2>1. status[v] \in VmStatus /\ status' = status /\ s \in VmStatus /\ p \in Busy
        BY <1>10 DEF ReadForPatch, Typed, TypeOK, Busy
    <2>2. ProcTyped' /\ TaskHasVm' /\ ActorHasVm'
        BY <1>10, <1>ha, <2>1, <1>stay, ActorStepTyped DEF ReadForPatch
    <2> QED  BY <1>10, <1>q, <2>2 DEF ReadForPatch, Typed, TypeOK
<1>11. ASSUME NEW h \in Handlers, NEW v \in Vms, ReadForDestruction(h, v) PROVE Typed'
    <2>1. status[v] \in VmStatus /\ status' = status /\ "closing" \in Busy
        BY <1>11 DEF ReadForDestruction, Typed, TypeOK, Busy
    <2>2. ProcTyped' /\ TaskHasVm' /\ ActorHasVm'
        BY <1>11, <1>ha, <2>1, <1>stay, ActorStepTyped DEF ReadForDestruction
    <2> QED  BY <1>11, <1>q, <2>2 DEF ReadForDestruction, Typed, TypeOK
<1>12. ASSUME NEW j \in Jobs, LoadBatch(j) \/ EndBatch(j) PROVE Typed'
    <2>1. ProcTyped' /\ TaskHasVm' /\ ActorHasVm'
        BY <1>12, <1>ha, <1>stay, MoveTyped DEF LoadBatch, EndBatch
    <2>2. batch' \in [Jobs -> SUBSET Vms] /\ ided' \in [Jobs -> SUBSET Vms]
        BY <1>12 DEF LoadBatch, EndBatch, Typed, TypeOK
    <2> QED  BY <1>12, <1>q, <2>1, <2>2 DEF LoadBatch, EndBatch, Typed, TypeOK
<1>13. ASSUME NEW j \in Jobs, NEW v \in Vms, JobDestroy(j, v) \/ JobCannotDestroy(j, v) PROVE Typed'
    <2>1. RowsStay /\ status' \in [Vms -> VmStatus \union {"absent"}] /\ status'[v] # "absent"
        BY <1>13, StatusTyped DEF JobDestroy, JobCannotDestroy
    <2>2. ProcTyped' /\ TaskHasVm' /\ ActorHasVm'
        <3>1. CASE JobDestroy(j, v)
            BY <3>1, <1>ha, <2>1, MoveTyped DEF JobDestroy, Busy
        <3>2. CASE JobCannotDestroy(j, v)
            BY <3>2, <2>1 DEF JobCannotDestroy, taskVars, actVars, RowsStay, Typed, TypeOK, ProcTyped,
                              TaskHasVm, ActorHasVm
        <3> QED  BY <1>13, <3>1, <3>2
    <2>3. batch' \in [Jobs -> SUBSET Vms] /\ ided' \in [Jobs -> SUBSET Vms]
        BY <1>13 DEF JobDestroy, JobCannotDestroy, Take, Typed, TypeOK
    <2> QED  BY <1>13, <1>q, <2>1, <2>2, <2>3 DEF JobDestroy, JobCannotDestroy, Typed, TypeOK
<1>14. CASE Restart
    BY <1>14 DEF Restart, Typed, TypeOK, TaskHasVm, ActorHasVm, Busy
<1>15. CASE UNCHANGED vars
    BY <1>15 DEF vars, taskVars, actVars, Typed, TypeOK, TaskHasVm, ActorHasVm
<1> QED  BY <1>1, <1>2, <1>3, <1>4, <1>6, <1>7, <1>8, <1>9, <1>10, <1>11, <1>12, <1>13, <1>14,
            <1>15, <1>ha DEF Next, Arrival, HandlerStep, JobStep

LEMMA TypedInit == Init => Typed
  BY RestartsAssumption, Names DEF Init, Typed, TypeOK, TaskHasVm, ActorHasVm, Busy

\* Every reachable state is typed, and whoever is in the middle of something
\* works on a VM that exists.
THEOREM TypeCorrect == Spec => [](TypeOK /\ TaskHasVm /\ ActorHasVm)
  BY TypedInit, TypedNext, PTL DEF Spec, Typed

-----------------------------------------------------------------------------
(* Destroyed means gone.                                                    *)

\* A PATCH handler writes a status administrators send.
AdminWants == \A h \in Handlers : apc[h] \in {"patching", "reporting"} => want[h] \in AdminStatuses

\* An actor is told that the server is gone before it writes "destroyed".
ToldGone == \A a \in Actors : apc[a] \in {"deleted", "closing"} => cloud[avm[a]] = "gone"

\* Servers do not come back.
LEMMA GoneStays == Typed /\ [Next]_vars => \A v \in Vms : cloud[v] = "gone" => cloud'[v] = "gone"
<1> SUFFICES ASSUME Typed, [Next]_vars, NEW v \in Vms, cloud[v] = "gone" PROVE cloud'[v] = "gone"
    OBVIOUS
<1>ha. Handlers \subseteq Actors /\ Jobs \subseteq Actors
    BY DEF Actors
<1>1. ASSUME NEW u \in Vms, InfraDeletes(u) PROVE cloud'[v] = "gone"
    BY <1>1 DEF InfraDeletes, Typed, TypeOK
<1>2. ASSUME NEW a \in Actors, ProviderDeletes(a) \/ ProviderRaises(a) PROVE cloud'[v] = "gone"
    BY <1>2 DEF ProviderDeletes, ProviderRaises, Typed, TypeOK
<1>3. CASE cloud' = cloud
    BY <1>3
<1> QED  BY <1>1, <1>2, <1>3, <1>ha
    DEF Next, vars, EndDateArrives, CreateVm, RetryAnsible, Arrival, UserDestroy, ReadForPatch, ReadForDestruction,
        HandlerStep, UserDestroyed, UserDestroyFails, CommitPatch, CommitProvisioningResult, CommitDestruction,
        JobStep, LoadBatch, JobDestroy, JobCannotDestroy, JobDestroyed, JobDestroyFails, EndBatch,
        TaskStepOf, TaskLoad, TaskStart, RetryTaskLoad, TaskEnd, Restart

\* What is told stays true, and what PATCH handlers want stays allowed.
LEMMA ToldNext == Typed /\ AdminWants /\ ToldGone /\ [Next]_vars => AdminWants' /\ ToldGone'
<1> SUFFICES ASSUME Typed, AdminWants, ToldGone, [Next]_vars PROVE AdminWants' /\ ToldGone'
    OBVIOUS
<1>ha. Handlers \subseteq Actors /\ Jobs \subseteq Actors
    BY DEF Actors
<1>g. \A v \in Vms : cloud[v] = "gone" => cloud'[v] = "gone"
    BY GoneStays
<1>b. \A a \in Actors : apc[a] \in {"deleted", "closing"} => avm[a] \in Vms
    BY DEF Typed, ActorHasVm, Busy
<1>1. CASE UNCHANGED actVars
    BY <1>1, <1>g, <1>b DEF actVars, AdminWants, ToldGone
\* An actor goes somewhere it has been told nothing and wants nothing.
<1>2. ASSUME NEW a \in Actors, NEW p \in ActorPCs \ {"deleted", "closing", "patching", "reporting"},
             NEW v, Move(a, p, v)
      PROVE  AdminWants' /\ ToldGone'
    BY <1>2, <1>g, <1>b, <1>ha DEF Move, ActorStep, AdminWants, ToldGone, Typed, TypeOK
<1>3. ASSUME NEW a \in Actors, ProviderDeletes(a) PROVE AdminWants' /\ ToldGone'
    <2>1. avm[a] \in Vms /\ cloud'[avm[a]] = "gone"
        BY <1>3 DEF ProviderDeletes, Typed, TypeOK, ActorHasVm, Busy
    <2> QED  BY <1>3, <2>1, <1>g, <1>b, <1>ha
             DEF ProviderDeletes, Move, ActorStep, AdminWants, ToldGone, Typed, TypeOK
<1>4. ASSUME NEW a \in Actors, ProviderRaises(a) PROVE AdminWants' /\ ToldGone'
    BY <1>2, <1>4, Names DEF ProviderRaises, ActorPCs
<1>5. ASSUME NEW h \in Handlers, NEW v \in Vms, NEW p \in {"patching", "reporting"}, NEW s \in AdminStatuses,
             ReadForPatch(h, v, p, s) PROVE AdminWants' /\ ToldGone'
    BY <1>5, <1>g, <1>b, <1>ha DEF ReadForPatch, ActorStep, AdminWants, ToldGone, Typed, TypeOK
<1>6. ASSUME NEW h \in Handlers, NEW v \in Vms, ReadForDestruction(h, v) PROVE AdminWants' /\ ToldGone'
    BY <1>6, <1>g, <1>b, <1>ha DEF ReadForDestruction, ActorStep, AdminWants, ToldGone, Typed, TypeOK
<1>7. ASSUME NEW h \in Handlers, NEW v \in Vms, UserDestroy(h, v) PROVE AdminWants' /\ ToldGone'
    BY <1>2, <1>7, <1>ha DEF UserDestroy, ActorPCs
<1>8. ASSUME NEW h \in Handlers,
             \/ UserDestroyed(h) \/ UserDestroyFails(h)
             \/ CommitPatch(h) \/ CommitProvisioningResult(h) \/ CommitDestruction(h)
      PROVE  AdminWants' /\ ToldGone'
    BY <1>2, <1>8, <1>ha
    DEF UserDestroyed, UserDestroyFails, CommitPatch, CommitProvisioningResult, CommitDestruction, ActorPCs
<1>9. ASSUME NEW j \in Jobs,
             \/ LoadBatch(j) \/ JobDestroyed(j) \/ JobDestroyFails(j) \/ EndBatch(j)
             \/ \E v \in Vms : JobDestroy(j, v)
      PROVE  AdminWants' /\ ToldGone'
    BY <1>2, <1>9, <1>ha DEF LoadBatch, JobDestroyed, JobDestroyFails, EndBatch, JobDestroy, ActorPCs
<1>10. CASE Restart
    BY <1>10, <1>ha DEF Restart, AdminWants, ToldGone
<1> QED  BY <1>1, <1>3, <1>4, <1>5, <1>6, <1>7, <1>8, <1>9, <1>10, <1>ha
    DEF Next, vars, EndDateArrives, InfraDeletes, CreateVm, RetryAnsible, Arrival, HandlerStep, JobStep,
        JobCannotDestroy, TaskStepOf, TaskLoad, TaskStart, RetryTaskLoad, TaskEnd

\* What a step may do to the status and the destruction date of a VM.
LEMMA StatusEffect ==
    ASSUME Typed, AdminWants, [Next]_vars, NEW v \in Vms
    PROVE  /\ \/ status'[v] = status[v]
              \/ status'[v] \in {"configuring", "running", "error", "down"}
              \/ status'[v] \in AdminStatuses
              \/ \E a \in Actors : apc[a] \in {"deleted", "closing"} /\ avm[a] = v
           /\ \/ destroyedAt'[v] = destroyedAt[v]
              \/ \E a \in Actors : apc[a] \in {"deleted", "closing"} /\ avm[a] = v
<1> DEFINE Effect ==
           /\ \/ status'[v] = status[v]
              \/ status'[v] \in {"configuring", "running", "error", "down"}
              \/ status'[v] \in AdminStatuses
              \/ \E a \in Actors : apc[a] \in {"deleted", "closing"} /\ avm[a] = v
           /\ \/ destroyedAt'[v] = destroyedAt[v]
              \/ \E a \in Actors : apc[a] \in {"deleted", "closing"} /\ avm[a] = v
<1> USE DEF rowVars, SetStatus, Flushed
<1>ha. Handlers \subseteq Actors /\ Jobs \subseteq Actors
    BY DEF Actors
<1>1. CASE UNCHANGED <<status, destroyedAt>>
    BY <1>1
<1>2. ASSUME NEW u \in Vms, NEW t \in Tasks, CreateVm(u, t) \/ RetryAnsible(u, t) PROVE Effect
    BY <1>2 DEF CreateVm, RetryAnsible, Typed, TypeOK
<1>3. ASSUME NEW t \in Tasks, TaskStepOf(t) PROVE Effect
    BY <1>3 DEF TaskStepOf, TaskLoad, TaskStart, RetryTaskLoad, TaskEnd, Typed, TypeOK
<1>4. ASSUME NEW h \in Handlers, NEW u \in Vms, UserDestroy(h, u) PROVE Effect
    BY <1>4 DEF UserDestroy, Typed, TypeOK
<1>5. ASSUME NEW h \in Handlers, UserDestroyFails(h) \/ CommitPatch(h) \/ CommitProvisioningResult(h)
      PROVE  Effect
    BY <1>5 DEF UserDestroyFails, CommitPatch, CommitProvisioningResult, AdminWants, Typed, TypeOK
<1>6. ASSUME NEW a \in Actors, UserDestroyed(a) \/ JobDestroyed(a) \/ CommitDestruction(a) PROVE Effect
    BY <1>6 DEF UserDestroyed, JobDestroyed, CommitDestruction, Typed, TypeOK
<1>7. ASSUME NEW j \in Jobs, NEW u \in Vms, JobDestroy(j, u) \/ JobCannotDestroy(j, u) PROVE Effect
    BY <1>7 DEF JobDestroy, JobCannotDestroy, Typed, TypeOK
<1>8. ASSUME NEW j \in Jobs, JobDestroyFails(j) PROVE Effect
    BY <1>8 DEF JobDestroyFails, Typed, TypeOK
<1> QED  BY <1>1, <1>2, <1>3, <1>4, <1>5, <1>6, <1>7, <1>8, <1>ha
    DEF Next, vars, EndDateArrives, InfraDeletes, Arrival, ReadForPatch, ReadForDestruction, HandlerStep,
        ProviderDeletes, ProviderRaises, JobStep, LoadBatch, EndBatch, Restart

\* When PATCH does not write "destroyed", the portal shows a VM as destroyed,
\* and dates its destruction, only when the provider no longer has the server.
THEOREM DestroyedIsGone ==
    ASSUME "destroyed" \notin AdminStatuses PROVE Spec => []DestroyedMeansGone
<1> DEFINE Inv == Typed /\ AdminWants /\ ToldGone /\ DestroyedMeansGone
<1>1. Init => Inv
    BY TypedInit, Names DEF Init, AdminWants, ToldGone, DestroyedMeansGone, Actors
<1>2. Inv /\ [Next]_vars => Inv'
    <2> SUFFICES ASSUME Inv, [Next]_vars PROVE Inv'
        OBVIOUS
    <2>1. Typed' /\ AdminWants' /\ ToldGone'
        BY TypedNext, ToldNext
    <2>2. ASSUME NEW v \in Vms, status'[v] = "destroyed" \/ destroyedAt'[v] PROVE cloud'[v] = "gone"
        <3>1. cloud[v] = "gone"
            <4>1. CASE \E a \in Actors : apc[a] \in {"deleted", "closing"} /\ avm[a] = v
                BY <4>1 DEF ToldGone
            <4>2. CASE ~ \E a \in Actors : apc[a] \in {"deleted", "closing"} /\ avm[a] = v
                <5>1. status[v] = "destroyed" \/ destroyedAt[v]
                    BY <2>2, <4>2, StatusEffect
                <5> QED  BY <5>1 DEF DestroyedMeansGone
            <4> QED  BY <4>1, <4>2
        <3> QED  BY <3>1, GoneStays
    <2> QED  BY <2>1, <2>2 DEF DestroyedMeansGone
<1> QED  BY <1>1, <1>2, PTL DEF Spec

-----------------------------------------------------------------------------
(* Nothing is left behind without a restart.                               *)

\* While the server has not been restarted, and PATCH does not write "down",
\* a VM shows as down only while an actor is destroying it.
THEOREM DownIsBeingDestroyed ==
    ASSUME "down" \notin AdminStatuses PROVE Spec => []DownHasDestroyer
<1> DEFINE Inv == Typed /\ AdminWants /\ ToldGone /\ DownHasDestroyer
<1>1. Init => Inv
    BY TypedInit DEF Init, AdminWants, ToldGone, DownHasDestroyer, Actors
<1>2. Inv /\ [Next]_vars => Inv'
    <2> SUFFICES ASSUME Inv, [Next]_vars PROVE DownHasDestroyer'
        BY TypedNext, ToldNext
    <2> SUFFICES ASSUME restarts' = 0, NEW v \in Vms, status'[v] = "down"
                 PROVE  \E a \in Actors : Destroying(a, v)'
        BY DEF DownHasDestroyer
    <2> USE DEF rowVars, jobVars, SetStatus, Flushed
    <2>ha. Handlers \subseteq Actors /\ Jobs \subseteq Actors
        BY DEF Actors
    <2>d. ASSUME restarts = 0, status[v] = "down" PROVE \E a \in Actors : Destroying(a, v)
        BY <2>d DEF DownHasDestroyer
    \* Steps of nobody who is destroying.
    <2>1. ASSUME restarts' = restarts, status'[v] = "down" => status[v] = "down", UNCHANGED actVars
          PROVE  \E a \in Actors : Destroying(a, v)'
        BY <2>1, <2>d DEF Destroying, actVars
    <2>2. ASSUME restarts' = restarts, status'[v] = "down" => status[v] = "down",
                 NEW a \in Actors, apc[a] \notin {"deleting", "deleted", "raised"},
                 NEW p, NEW u, NEW s, NEW w, ActorStep(a, p, u, s, w)
          PROVE  \E b \in Actors : Destroying(b, v)'
        <3>1. PICK b \in Actors : Destroying(b, v)
            BY <2>2, <2>d
        <3>2. b # a
            BY <2>2, <3>1 DEF Destroying
        <3>3. Destroying(b, v)'
            BY <2>2, <3>1, <3>2 DEF Destroying, ActorStep, Typed, TypeOK
        <3> QED  BY <3>3
    \* Steps of an actor who goes on destroying, or starts to.
    <2>3. ASSUME NEW a \in Actors, ProviderDeletes(a) \/ ProviderRaises(a)
          PROVE  \E b \in Actors : Destroying(b, v)'
        <3>1. PICK b \in Actors : Destroying(b, v)
            BY <2>3, <2>d DEF ProviderDeletes, ProviderRaises
        <3>2. Destroying(b, v)'
            BY <2>3, <3>1 DEF ProviderDeletes, ProviderRaises, Move, ActorStep, Destroying, Typed, TypeOK
        <3> QED  BY <3>2
    <2>4. ASSUME NEW a \in Actors, NEW u \in Vms, apc[a] \notin {"deleting", "deleted", "raised"},
                 restarts' = restarts, SetStatus(u, "down"), Move(a, "deleting", u)
          PROVE  \E b \in Actors : Destroying(b, v)'
        <3>1. CASE u = v
            BY <2>4, <3>1 DEF Move, ActorStep, Destroying, Typed, TypeOK
        <3>2. CASE u # v
            BY <2>4, <3>2, <2>2 DEF Move, Typed, TypeOK
        <3> QED  BY <3>1, <3>2
    \* An actor who stops destroying writes another status.
    <2>5. ASSUME NEW a \in Actors, restarts' = restarts, NEW s, s # "down", SetStatus(avm[a], s),
                 NEW p, Move(a, p, NoVm)
          PROVE  \E b \in Actors : Destroying(b, v)'
        <3>1. v # avm[a] /\ status[v] = "down"
            BY <2>5 DEF Typed, TypeOK
        <3>2. PICK b \in Actors : Destroying(b, v)
            BY <2>5, <2>d, <3>1
        <3>3. b # a
            BY <3>1, <3>2 DEF Destroying
        <3>4. Destroying(b, v)'
            BY <2>5, <3>2, <3>3 DEF Destroying, Move, ActorStep, Typed, TypeOK
        <3> QED  BY <3>4
    <2>6. ASSUME NEW u \in Vms, NEW t \in Tasks, CreateVm(u, t) \/ RetryAnsible(u, t)
          PROVE  \E a \in Actors : Destroying(a, v)'
        BY <2>6, <2>1 DEF CreateVm, RetryAnsible, Typed, TypeOK
    <2>7. ASSUME NEW t \in Tasks, TaskStepOf(t) PROVE \E a \in Actors : Destroying(a, v)'
        <3>1. UNCHANGED <<restarts, actVars>>
            BY <2>7 DEF TaskStepOf, TaskLoad, TaskStart, RetryTaskLoad, TaskEnd
        <3>2. status'[v] = "down" => status[v] = "down"
            BY <2>7 DEF TaskStepOf, TaskLoad, TaskStart, RetryTaskLoad, TaskEnd, Typed, TypeOK
        <3> QED  BY <3>1, <3>2, <2>1
    <2>8. ASSUME NEW h \in Handlers, CommitPatch(h) \/ CommitProvisioningResult(h) \/ CommitDestruction(h)
          PROVE  \E a \in Actors : Destroying(a, v)'
        <3>1. status'[v] = "down" => status[v] = "down"
            BY <2>8 DEF CommitPatch, CommitProvisioningResult, CommitDestruction, AdminWants, Typed, TypeOK
        <3>2. apc[h] \notin {"deleting", "deleted", "raised"} /\ restarts' = restarts /\ Move(h, "idle", NoVm)
            BY <2>8 DEF CommitPatch, CommitProvisioningResult, CommitDestruction
        <3> QED  BY <3>1, <3>2, <2>2, <2>ha DEF Move
    <2>9. ASSUME NEW h \in Handlers, NEW u \in Vms, Arrival(h, u) PROVE \E a \in Actors : Destroying(a, v)'
        <3>1. CASE UserDestroy(h, u)
            BY <3>1, <2>4, <2>ha DEF UserDestroy
        <3>2. CASE \E p \in {"patching", "reporting"}, s \in AdminStatuses : ReadForPatch(h, u, p, s)
            BY <3>2, <2>2, <2>ha DEF ReadForPatch
        <3>3. CASE ReadForDestruction(h, u)
            BY <3>3, <2>2, <2>ha DEF ReadForDestruction
        <3> QED  BY <2>9, <3>1, <3>2, <3>3 DEF Arrival
    <2>10. ASSUME NEW h \in Handlers, UserDestroyed(h) \/ UserDestroyFails(h)
           PROVE  \E a \in Actors : Destroying(a, v)'
        BY <2>10, <2>5, <2>ha DEF UserDestroyed, UserDestroyFails
    <2>11. ASSUME NEW j \in Jobs, JobDestroyed(j) \/ JobDestroyFails(j)
           PROVE  \E a \in Actors : Destroying(a, v)'
        BY <2>11, <2>5, <2>ha DEF JobDestroyed, JobDestroyFails
    <2>12. ASSUME NEW j \in Jobs, LoadBatch(j) \/ EndBatch(j) PROVE \E a \in Actors : Destroying(a, v)'
        BY <2>12, <2>2, <2>ha DEF LoadBatch, EndBatch, Move
    <2>13. ASSUME NEW j \in Jobs, NEW u \in Vms, JobDestroy(j, u) PROVE \E a \in Actors : Destroying(a, v)'
        BY <2>13, <2>4, <2>ha DEF JobDestroy, Take
    <2>14. ASSUME NEW j \in Jobs, NEW u \in Vms, JobCannotDestroy(j, u) PROVE \E a \in Actors : Destroying(a, v)'
        BY <2>14, <2>1 DEF JobCannotDestroy, Typed, TypeOK
    <2>15. ASSUME NEW u \in Vms, EndDateArrives(u) \/ InfraDeletes(u) PROVE \E a \in Actors : Destroying(a, v)'
        BY <2>15, <2>1 DEF EndDateArrives, InfraDeletes
    <2>16. CASE Restart
        BY <2>16 DEF Restart, Typed, TypeOK
    <2>17. CASE UNCHANGED vars
        BY <2>17, <2>1 DEF vars
    <2> QED  BY <2>3, <2>6, <2>7, <2>8, <2>9, <2>10, <2>11, <2>12, <2>13, <2>14, <2>15, <2>16, <2>17, <2>ha
             DEF Next, HandlerStep, JobStep
<1> QED  BY <1>1, <1>2, PTL DEF Spec

\* A task that is over has no VM.
FreeHasNoVm == \A t \in Tasks : tpc[t] = "free" => tvm[t] = NoVm

\* While the server has not been restarted, and PATCH does not write
\* "configuring", a VM shows as configuring only while a task that will write
\* another status is alive.
THEOREM ConfiguringEnds ==
    ASSUME "configuring" \notin AdminStatuses PROVE Spec => []ConfiguringHasTask
<1> DEFINE Inv == Typed /\ AdminWants /\ ToldGone /\ FreeHasNoVm /\ ConfiguringHasTask
<1>1. Init => Inv
    BY TypedInit DEF Init, AdminWants, ToldGone, FreeHasNoVm, ConfiguringHasTask, Actors
<1>2. Inv /\ [Next]_vars => Inv'
    <2> SUFFICES ASSUME Inv, [Next]_vars PROVE FreeHasNoVm' /\ ConfiguringHasTask'
        BY TypedNext, ToldNext
    <2> USE DEF rowVars, SetStatus, Flushed
    \* Whoever is not a task writes no "configuring".
    <2>1. ASSUME UNCHANGED taskVars, restarts' = restarts,
                 \A v \in Vms : status'[v] = "configuring" => status[v] = "configuring"
          PROVE  FreeHasNoVm' /\ ConfiguringHasTask'
        BY <2>1 DEF taskVars, FreeHasNoVm, ConfiguringHasTask, Ending
    \* A new task is the one its VM needs, and no VM loses another task.
    <2>2. ASSUME NEW u \in Vms, NEW t \in Tasks, CreateVm(u, t) \/ RetryAnsible(u, t)
          PROVE  FreeHasNoVm' /\ ConfiguringHasTask'
        <3>1. PICK p \in {"queued", "requeued"} : TaskStep(t, p, u, "creating")
            BY <2>2 DEF CreateVm, RetryAnsible
        <3>2. FreeHasNoVm'
            BY <3>1 DEF FreeHasNoVm, TaskStep, Typed, TypeOK
        <3>3. ASSUME restarts' = 0, NEW v \in Vms, status'[v] = "configuring"
              PROVE  \E w \in Tasks : Ending(w, v)'
            <4>1. CASE v = u
                BY <3>1, <4>1 DEF TaskStep, Ending, Typed, TypeOK
            <4>2. CASE v # u
                <5>1. restarts = 0 /\ status[v] = "configuring"
                    BY <2>2, <3>3, <4>2 DEF CreateVm, RetryAnsible, Typed, TypeOK
                <5>2. PICK w \in Tasks : Ending(w, v)
                    BY <5>1 DEF ConfiguringHasTask
                <5>3. w # t
                    BY <2>2, <5>2, NoVmAssumption DEF CreateVm, RetryAnsible, FreeHasNoVm, Ending
                <5>4. Ending(w, v)'
                    BY <3>1, <5>2, <5>3 DEF TaskStep, Ending, Typed, TypeOK
                <5> QED  BY <5>4
            <4> QED  BY <4>1, <4>2
        <3> QED  BY <3>2, <3>3 DEF ConfiguringHasTask
    \* A task writes no "configuring" but on its own VM, and then still has it
    \* to end.
    <2>3. ASSUME NEW t \in Tasks, TaskStepOf(t) PROVE FreeHasNoVm' /\ ConfiguringHasTask'
        <3>0. tpc[t] # "free" /\ tvm[t] \in Vms /\ restarts' = restarts
            BY <2>3 DEF TaskStepOf, TaskLoad, TaskStart, RetryTaskLoad, TaskEnd, Typed, TaskHasVm
        <3>1. FreeHasNoVm'
            BY <2>3 DEF TaskStepOf, TaskLoad, TaskStart, RetryTaskLoad, TaskEnd, TaskStep, FreeHasNoVm,
                        Typed, TypeOK
        <3>2. ASSUME restarts' = 0, NEW v \in Vms, status'[v] = "configuring"
              PROVE  \E w \in Tasks : Ending(w, v)'
            <4>1. CASE TaskStart(t) /\ tvm[t] = v
                BY <4>1 DEF TaskStart, TaskStep, Ending, Typed, TypeOK
            <4>2. CASE ~(TaskStart(t) /\ tvm[t] = v)
                <5>1. status[v] = "configuring"
                    BY <2>3, <3>0, <3>2, <4>2
                    DEF TaskStepOf, TaskLoad, TaskStart, RetryTaskLoad, TaskEnd, Typed, TypeOK
                <5>2. PICK w \in Tasks : Ending(w, v)
                    BY <3>0, <3>2, <5>1 DEF ConfiguringHasTask
                <5>3. CASE w # t
                    BY <2>3, <5>2, <5>3
                    DEF TaskStepOf, TaskLoad, TaskStart, RetryTaskLoad, TaskEnd, TaskStep, Ending, Typed, TypeOK
                <5>4. CASE w = t
                    <6>1. CASE TaskLoad(t) \/ RetryTaskLoad(t)
                        BY <5>1, <5>2, <5>4, <6>1
                        DEF TaskLoad, RetryTaskLoad, TaskStep, Ending, Typed, TypeOK
                    <6>2. CASE \E s \in {"running", "error"} : TaskEnd(t, s)
                        BY <3>0, <3>2, <5>2, <5>4, <6>2 DEF TaskEnd, Ending, Typed, TypeOK
                    <6> QED  BY <2>3, <4>2, <5>2, <5>4, <6>1, <6>2 DEF TaskStepOf, Ending
                <5> QED  BY <5>3, <5>4
            <4> QED  BY <4>1, <4>2
        <3> QED  BY <3>1, <3>2 DEF ConfiguringHasTask
    <2>4. ASSUME NEW h \in Handlers, NEW v \in Vms, Arrival(h, v) PROVE FreeHasNoVm' /\ ConfiguringHasTask'
        BY <2>1, <2>4 DEF Arrival, UserDestroy, ReadForPatch, ReadForDestruction, Typed, TypeOK
    <2>5. ASSUME NEW a \in Actors, ProviderDeletes(a) \/ ProviderRaises(a)
          PROVE  FreeHasNoVm' /\ ConfiguringHasTask'
        BY <2>1, <2>5 DEF ProviderDeletes, ProviderRaises
    <2>6. ASSUME NEW a \in Actors,
                 UserDestroyed(a) \/ UserDestroyFails(a) \/ JobDestroyed(a) \/ JobDestroyFails(a)
          PROVE  FreeHasNoVm' /\ ConfiguringHasTask'
        BY <2>1, <2>6 DEF UserDestroyed, UserDestroyFails, JobDestroyed, JobDestroyFails, Typed, TypeOK
    <2>7. ASSUME NEW h \in Handlers, CommitPatch(h) \/ CommitProvisioningResult(h) \/ CommitDestruction(h)
          PROVE  FreeHasNoVm' /\ ConfiguringHasTask'
        BY <2>1, <2>7 DEF CommitPatch, CommitProvisioningResult, CommitDestruction, AdminWants, Typed, TypeOK
    <2>8. ASSUME NEW j \in Jobs, LoadBatch(j) \/ EndBatch(j) PROVE FreeHasNoVm' /\ ConfiguringHasTask'
        BY <2>1, <2>8 DEF LoadBatch, EndBatch
    <2>9. ASSUME NEW j \in Jobs, NEW v \in Vms, JobDestroy(j, v) \/ JobCannotDestroy(j, v)
          PROVE  FreeHasNoVm' /\ ConfiguringHasTask'
        BY <2>1, <2>9 DEF JobDestroy, JobCannotDestroy, Typed, TypeOK
    <2>10. ASSUME NEW v \in Vms, EndDateArrives(v) \/ InfraDeletes(v) PROVE FreeHasNoVm' /\ ConfiguringHasTask'
        BY <2>1, <2>10 DEF EndDateArrives, InfraDeletes
    <2>11. CASE Restart
        BY <2>11 DEF Restart, FreeHasNoVm, ConfiguringHasTask, Typed, TypeOK
    <2>12. CASE UNCHANGED vars
        BY <2>1, <2>12 DEF vars
    <2> QED  BY <2>2, <2>3, <2>4, <2>5, <2>6, <2>7, <2>8, <2>9, <2>10, <2>11, <2>12
             DEF Next, HandlerStep, JobStep, Actors
<1> QED  BY <1>1, <1>2, PTL DEF Spec

=============================================================================
