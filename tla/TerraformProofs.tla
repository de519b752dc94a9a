--------------------------- MODULE TerraformProofs ---------------------------
(***************************************************************************)
(* What is proved of TerraformProvisioner, for any requests, quantity, VMs *)
(* made by hand and bounds, with refusals or without: type correctness,    *)
(* the safety invariants, what a destroy may take, and that it keeps the   *)
(* contract of a provisioner.                                              *)
(***************************************************************************)
EXTENDS TerraformProvisioner, TLAPS

\* A resource is a machine or a keypair, of one request.
LEMMA Resources ==
    /\ \A r \in Requests : VmsOf(r) \subseteq Vms
    /\ \A r \in Requests : ResourcesOf(r) = VmsOf(r) \union {Key(r)}
    /\ \A r \in Requests : ResourcesOf(r) \subseteq Requests \X (0..Quantity)
    /\ \A v \in Vms : v[1] \in Requests /\ \A r \in Requests : v \in VmsOf(r) <=> r = v[1]
    /\ \A r \in Requests : Key(r) \notin Vms
    /\ \A r, q : Key(r) = Key(q) => r = q
    /\ \A v \in ByHand : v \notin Vms
  BY QuantityAssumption, ByHandAssumption DEF VmsOf, Vms, ResourcesOf, Key

-----------------------------------------------------------------------------
(* Type correctness.                                                       *)

\* Every variable keeps its type: whatever is refused or stopped, a row has a
\* status of a VM, and a destroyer a run directory or none.
THEOREM TypeCorrect == Spec => []TypeOK
  <1> USE DEF cloudVars, destroyVars, Goto, DGoto, DLeave
  <1>1. Init => TypeOK
    <2> SUFFICES ASSUME Init PROVE TypeOK
      OBVIOUS
    <2>1. pc \in [Requests -> Working \union {"new", "provisioned", "failed", "dead"}]
      BY DEF Init
    <2>2. /\ row \in [Vms \union ByHand -> {"absent", "live", "down", "error", "destroyed"}]
          /\ dpc \in [Vms \union ByHand -> Destroying \union {"idle"}]
          /\ dir \in [Vms \union ByHand -> Requests \union {NoRequest}]
      BY DEF Init
    <2>3. restarts \in 0..MaxRestarts
      BY RestartsAssumption DEF Init
    <2> QED BY <2>1, <2>2, <2>3 DEF Init, TypeOK
  <1>2. ASSUME TypeOK, NEW r \in Requests, Provision(r) \/ ApplyRefused(r) PROVE TypeOK'
    <2> USE <1>2 DEF TypeOK, Working
    <2>1. CASE Prepare(r)      BY <2>1 DEF Prepare
    <2>2. CASE ApplyKeypair(r)
      <3>1. Key(r) \in Requests \X (0..Quantity)
        BY QuantityAssumption DEF Key
      <3>2. CASE keyExists  BY <2>2, <3>2 DEF ApplyKeypair
      <3>3. CASE ~keyExists BY <2>2, <3>1, <3>3 DEF ApplyKeypair
      <3> QED BY <3>2, <3>3
    <2>3. ASSUME NEW v \in VmsOf(r), ApplyServer(v) PROVE TypeOK'
      <3>1. v \in Vms /\ v \in Requests \X (0..Quantity)
        BY Resources
      <3> QED BY <2>3, <3>1 DEF ApplyServer
    <2>4. CASE ApplyDone(r)    BY <2>4 DEF ApplyDone
    <2>5. CASE Output(r)       BY <2>5 DEF Output
    <2>6. CASE WriteResults(r) BY <2>6 DEF WriteResults
    <2>7. CASE Record(r)       BY <2>7 DEF Record
    <2>8. CASE MarkFailed(r)   BY <2>8 DEF MarkFailed
    <2>9. CASE ApplyRefused(r) BY <2>9 DEF ApplyRefused
    <2> QED BY <2>1, <2>2, <2>3, <2>4, <2>5, <2>6, <2>7, <2>8, <2>9 DEF Provision
  <1>3. ASSUME TypeOK, NEW v \in Vms \union ByHand,
               Destroy(v) \/ DestroyRefused(v) \/ SyncOutputs(v)
        PROVE  TypeOK'
    <2> USE <1>3 DEF TypeOK, Destroying
    <2>1. CASE DestroyStart(v)  BY <2>1 DEF DestroyStart
    <2>2. CASE Find(v)          BY <2>2 DEF Find
    <2>3. CASE Lock(v)          BY <2>3 DEF Lock
    <2>4. ASSUME NEW w \in Vms, DestroyServer(v, w) PROVE TypeOK'
      BY <2>4 DEF DestroyServer
    <2>5. CASE DestroyKeypair(v) BY <2>5 DEF DestroyKeypair
    <2>6. CASE DestroyDone(v)    BY <2>6 DEF DestroyDone
    <2>7. CASE DestroyFailed(v)  BY <2>7 DEF DestroyFailed
    <2>8. CASE DestroyRefused(v) BY <2>8 DEF DestroyRefused
    <2>9. CASE SyncOutputs(v)    BY <2>9 DEF SyncOutputs
    <2> QED BY <1>3, <2>1, <2>2, <2>3, <2>4, <2>5, <2>6, <2>7, <2>8, <2>9 DEF Destroy
  <1>4. TypeOK /\ Restart => TypeOK'
    <2> SUFFICES ASSUME TypeOK, Restart PROVE TypeOK'
      OBVIOUS
    <2>1. servers' \subseteq Vms \union ByHand /\ keyExists' \in BOOLEAN
      BY DEF Restart, TypeOK
    <2>2. restarts' \in 0..MaxRestarts
      BY RestartsAssumption DEF Restart, TypeOK
    <2>3. pc' \in [Requests -> Working \union {"new", "provisioned", "failed", "dead"}]
      BY DEF Restart, TypeOK, Working
    <2>4. /\ dpc' \in [Vms \union ByHand -> Destroying \union {"idle"}]
          /\ dir' \in [Vms \union ByHand -> Requests \union {NoRequest}]
          /\ UNCHANGED <<tracked, results, row>>
      BY DEF Restart
    <2> QED BY <2>1, <2>2, <2>3, <2>4 DEF TypeOK
  <1>5. TypeOK /\ UNCHANGED vars => TypeOK'
    BY DEF vars, TypeOK
  <1>6. TypeOK /\ [Next]_vars => TypeOK'
    BY <1>2, <1>3, <1>4, <1>5 DEF Next
  <1> QED BY <1>1, <1>6, PTL DEF Spec

-----------------------------------------------------------------------------
(* Safety.                                                                 *)

\* The VMs of the provisioned requests have rows, and no others of the site.
RowsAreProvisioned ==
    \A v \in Vms : row[v] # "absent" <=> pc[v[1]] = "provisioned"

\* The results of a recorded request are on disk.
RecordedHasResults ==
    \A r \in Requests : pc[r] \in {"recording", "provisioned"} => r \in results

\* A destroyer that runs Terraform runs it in the directory of its own VM.
DestroyersAreHome ==
    \A v \in Vms \union ByHand :
        dpc[v] \in {"locking", "destroying"} => v \in Vms /\ dir[v] = v[1]

\* A VM that is being destroyed shows as down.
DestroyingIsDown ==
    \A v \in Vms : dpc[v] # "idle" => row[v] = "down"

\* A state file whose apply is over holds everything, until it is destroyed.
AppliedIsTracked ==
    \A r \in Requests :
        pc[r] \in {"output", "writing", "recording"} => ResourcesOf(r) \subseteq tracked

\* What a state file holds exists, and the machines with a row are in it.
StateIsTrue ==
    /\ tracked \intersect Vms \subseteq servers
    /\ \A v \in servers \intersect Vms : row[v] # "absent" => v \in tracked
    /\ \A r \in Requests : Key(r) \in tracked => keyExists

\* A machine refers to the keypair of its request, and one request at a time
\* has the keypair.
KeypairOfOne ==
    /\ \A v \in servers \intersect Vms : Key(v[1]) \in tracked
    /\ \A r, q \in Requests : Key(r) \in tracked /\ Key(q) \in tracked => r = q

SafeInv ==
    /\ RowsAreProvisioned
    /\ RecordedHasResults
    /\ DestroyersAreHome
    /\ DestroyingIsDown
    /\ AppliedIsTracked
    /\ StateIsTrue
    /\ KeypairOfOne
    /\ DestroyedIsGone

\* The invariant is inductive: by the steps of create_vms() and its caller, of
\* destroy_vm() and its caller, and by a stop of the container, which leaves
\* machines and a keypair nobody knows of, of applies only.
LEMMA SafeNext ==
    ASSUME TypeOK, SafeInv, [Next]_vars
    PROVE  SafeInv'
  <1> USE Resources
      DEF SafeInv, RowsAreProvisioned, RecordedHasResults, DestroyersAreHome,
          DestroyingIsDown, AppliedIsTracked, StateIsTrue, KeypairOfOne, DestroyedIsGone,
          TypeOK, cloudVars, destroyVars
  <1>1. ASSUME NEW r \in Requests, Provision(r) \/ ApplyRefused(r) PROVE SafeInv'
    <2> USE DEF Goto, Working
    <2>1. CASE Prepare(r)      BY <2>1 DEF Prepare
    <2>2. CASE ApplyKeypair(r)
      <3>1. CASE keyExists  BY <2>2, <3>1 DEF ApplyKeypair
      <3>2. CASE ~keyExists BY <2>2, <3>2 DEF ApplyKeypair
      <3> QED BY <3>1, <3>2
    <2>3. ASSUME NEW v \in VmsOf(r), ApplyServer(v) PROVE SafeInv'
      BY <2>3 DEF ApplyServer
    <2>4. CASE ApplyDone(r)    BY <2>4 DEF ApplyDone
    <2>5. CASE Output(r)       BY <2>5 DEF Output
    <2>6. CASE WriteResults(r) BY <2>6 DEF WriteResults
    <2>7. CASE Record(r)       BY <2>7 DEF Record
    <2>8. CASE MarkFailed(r)   BY <2>8 DEF MarkFailed
    <2>9. CASE ApplyRefused(r) BY <2>9 DEF ApplyRefused
    <2> QED BY <1>1, <2>1, <2>2, <2>3, <2>4, <2>5, <2>6, <2>7, <2>8, <2>9 DEF Provision
  <1>2. ASSUME NEW v \in Vms \union ByHand,
               Destroy(v) \/ DestroyRefused(v) \/ SyncOutputs(v)
        PROVE  SafeInv'
    <2> USE DEF DGoto, DLeave, Destroying
    <2>1. CASE DestroyStart(v)  BY <2>1 DEF DestroyStart
    <2>2. CASE Find(v)          BY <2>2 DEF Find, FindRunDir
    <2>3. CASE Lock(v)          BY <2>3 DEF Lock
    <2>4. ASSUME NEW w \in Vms, DestroyServer(v, w) PROVE SafeInv'
      BY <2>4 DEF DestroyServer
    <2>5. CASE DestroyKeypair(v) BY <2>5 DEF DestroyKeypair
    <2>6. CASE DestroyDone(v)    BY <2>6 DEF DestroyDone
    <2>7. CASE DestroyFailed(v)  BY <2>7 DEF DestroyFailed
    <2>8. CASE DestroyRefused(v) BY <2>8 DEF DestroyRefused
    <2>9. CASE SyncOutputs(v)    BY <2>9 DEF SyncOutputs
    <2> QED BY <1>2, <2>1, <2>2, <2>3, <2>4, <2>5, <2>6, <2>7, <2>8, <2>9 DEF Destroy
  <1>3. CASE Restart
    <2>1. /\ UNCHANGED <<tracked, results, row>>
          /\ servers \subseteq servers'
          /\ \A v \in servers' \ servers :
                v \in Vms /\ pc[v[1]] = "applying" /\ Key(v[1]) \in tracked
          /\ keyExists => keyExists'
      BY <1>3 DEF Restart
    <2>2. \A r \in Requests : pc'[r] = IF pc[r] \in Working THEN "dead" ELSE pc[r]
      BY <1>3 DEF Restart
    <2>3. \A v \in Vms \union ByHand : dpc'[v] = "idle"
      BY <1>3 DEF Restart
    <2>4. RowsAreProvisioned' /\ RecordedHasResults' /\ DestroyersAreHome'
          /\ DestroyingIsDown' /\ AppliedIsTracked'
      BY <2>1, <2>2, <2>3 DEF Working
    <2>5. \A v \in servers' \ servers : row[v] = "absent"
      BY <2>1
    <2>6. StateIsTrue' /\ KeypairOfOne' /\ DestroyedIsGone'
      BY <2>1, <2>5
    <2> QED BY <2>4, <2>6
  <1>4. CASE UNCHANGED vars
    BY <1>4 DEF vars
  <1> QED BY <1>1, <1>2, <1>3, <1>4 DEF Next

LEMMA Safe == Spec => [](TypeOK /\ SafeInv)
  <1>1. Init => SafeInv
    BY Resources
    DEF Init, SafeInv, RowsAreProvisioned, RecordedHasResults, DestroyersAreHome,
        DestroyingIsDown, AppliedIsTracked, StateIsTrue, KeypairOfOne, DestroyedIsGone
  <1> QED BY TypeCorrect, <1>1, SafeNext, PTL DEF Spec

\* The rows that create_vms() led to name machines whose run directory
\* destroy_vm() finds, a VM marked destroyed has no machine, and the machines
\* of the site are those of the one request that has the keypair.
THEOREM Consistent ==
    Spec => [](RecordedIsFindable /\ DestroyedIsGone /\ OneRequestHasMachines)
  <1>1. TypeOK /\ SafeInv => RecordedIsFindable
    BY Resources DEF SafeInv, RowsAreProvisioned, RecordedHasResults, RecordedIsFindable
  <1>2. TypeOK /\ SafeInv => OneRequestHasMachines
    BY Resources DEF SafeInv, KeypairOfOne, OneRequestHasMachines
  <1>3. SafeInv => DestroyedIsGone
    BY DEF SafeInv
  <1> QED BY <1>1, <1>2, <1>3, Safe, PTL

\* What terraform destroy takes: the machines of the request of its VM, the
\* siblings of the VM with it, and nothing else.
THEOREM MachinesGo == Spec => MachinesGoWithTheirRequest
  <1> DEFINE Destroyed(w) == \E v \in Vms : v[1] = w[1] /\ dpc[v] = "destroying"
  <1> USE DEF cloudVars, destroyVars
  <1>1. ASSUME NEW r \in Requests, Provision(r) \/ ApplyRefused(r)
        PROVE  servers \ servers' = {}
    BY <1>1 DEF Provision, Prepare, ApplyKeypair, ApplyServer, ApplyDone, Output,
                WriteResults, Record, MarkFailed, ApplyRefused
  <1>2. ASSUME SafeInv, NEW v \in Vms \union ByHand, NEW w \in Vms, DestroyServer(v, w)
        PROVE  \A u \in servers \ servers' : Destroyed(u)
    <2>1. v \in Vms /\ dpc[v] = "destroying" /\ w \in VmsOf(v[1])
      BY <1>2 DEF DestroyServer, SafeInv, DestroyersAreHome
    <2>2. servers \ servers' \subseteq {w}
      BY <1>2 DEF DestroyServer
    <2> QED BY <2>1, <2>2 DEF VmsOf
  <1>3. ASSUME NEW v \in Vms \union ByHand,
               \/ DestroyStart(v) \/ Find(v) \/ Lock(v) \/ DestroyKeypair(v)
               \/ DestroyDone(v) \/ DestroyFailed(v) \/ DestroyRefused(v) \/ SyncOutputs(v)
        PROVE  servers \ servers' = {}
    BY <1>3 DEF DestroyStart, Find, Lock, DestroyKeypair, DestroyDone, DestroyFailed,
                DestroyRefused, SyncOutputs
  <1>4. Restart \/ UNCHANGED vars => servers \ servers' = {}
    BY DEF Restart, vars
  <1>5. SafeInv /\ [Next]_vars => \A w \in servers \ servers' : Destroyed(w)
    BY <1>1, <1>2, <1>3, <1>4 DEF Next, Destroy
  <1> QED BY <1>5, Safe, PTL DEF Spec, MachinesGoWithTheirRequest

-----------------------------------------------------------------------------
(* Refinement.                                                             *)

\* The machines the contract sees.
SeenUp == servers \intersect Vms

\* What a step of a coroutine looks like to the services.
LEMMA PhaseAfter ==
    ASSUME TypeOK, NEW r \in Requests, NEW p, Goto(r, p)
    PROVE  /\ phaseSeen = [q \in Requests |-> phaseSeen[q]]
           /\ phaseSeen[r] = IF pc[r] \in Working \union {"dead"} THEN "working" ELSE pc[r]
           /\ phaseSeen' = [phaseSeen EXCEPT
                  ![r] = IF p \in Working \union {"dead"} THEN "working" ELSE p]
  <1> DEFINE Seen(c) == IF c \in Working \union {"dead"} THEN "working" ELSE c
  <1>1. phaseSeen = [q \in Requests |-> Seen(pc[q])]
    BY DEF phaseSeen
  <1>2. phaseSeen' = [q \in Requests |-> Seen(pc'[q])]
    BY DEF phaseSeen
  <1>3. \A q \in Requests : pc'[q] = IF q = r THEN p ELSE pc[q]
    BY DEF Goto, TypeOK
  <1> HIDE DEF Seen
  <1>4. phaseSeen' = [phaseSeen EXCEPT ![r] = Seen(p)]
    BY <1>1, <1>2, <1>3
  <1> QED BY <1>1, <1>4 DEF Seen

\* Every step is one of the contract or goes unseen.  Destroys are of
\* provisioned requests, and a restart may leave machines of the one request
\* that has the keypair.
LEMMA StepKeeps ==
    ASSUME TypeOK, SafeInv, [Next]_vars
    PROVE  [Contract!Next]_(Contract!contractVars)
  <1> USE DEF cloudVars, SeenUp
  <1>1. ASSUME NEW r \in Requests, Provision(r) \/ ApplyRefused(r)
        PROVE  [Contract!Next]_(Contract!contractVars)
    <2>1. CASE Prepare(r)
      <3>1. PICK p \in {"applying", "failing"} : Goto(r, p)
        BY <2>1 DEF Prepare
      <3>2. phaseSeen[r] = "new" /\ phaseSeen' = [phaseSeen EXCEPT ![r] = "working"]
        BY <2>1, <3>1, PhaseAfter DEF Prepare, Working
      <3>3. Contract!Begin(r)
        BY <2>1, <3>2 DEF Prepare, Contract!Begin
      <3> QED BY <3>3 DEF Contract!Next
    <2>2. ASSUME NEW v \in VmsOf(r), ApplyServer(v)
          PROVE  Contract!Boot(r)
      <3>1. v \in Vms /\ v[1] = r
        BY Resources DEF VmsOf
      <3>2. phaseSeen' = phaseSeen /\ phaseSeen[r] = "working"
        BY <2>2, <3>1 DEF ApplyServer, phaseSeen, Working
      <3>3. SeenUp' = SeenUp \union {v}
        BY <2>2, <3>1 DEF ApplyServer
      <3> QED BY <3>2, <3>3 DEF Contract!Boot, Contract!VmsOf, VmsOf
    <2>3. CASE Record(r)
      <3>1. phaseSeen[r] = "working" /\ phaseSeen' = [phaseSeen EXCEPT ![r] = "provisioned"]
        BY <2>3, PhaseAfter DEF Record, Working
      <3>2. VmsOf(r) \subseteq SeenUp
        BY <2>3, Resources DEF Record, SafeInv, AppliedIsTracked, StateIsTrue
      <3>3. Contract!Succeed(r)
        BY <2>3, <3>1, <3>2 DEF Record, Contract!Succeed, Contract!VmsOf, VmsOf
      <3> QED BY <3>3 DEF Contract!Next
    <2>4. CASE MarkFailed(r)
      <3>1. phaseSeen[r] = "working" /\ phaseSeen' = [phaseSeen EXCEPT ![r] = "failed"]
        BY <2>4, PhaseAfter DEF MarkFailed, Working
      <3>2. Contract!Fail(r)
        BY <2>4, <3>1 DEF MarkFailed, Contract!Fail
      <3> QED BY <3>2 DEF Contract!Next
    <2>5. CASE ApplyKeypair(r) \/ ApplyDone(r) \/ Output(r) \/ WriteResults(r) \/ ApplyRefused(r)
      <3>1. /\ servers' = servers /\ pc[r] \in Working
            /\ pc' = pc \/ \E p \in Working : Goto(r, p)
        BY <2>5 DEF ApplyKeypair, ApplyDone, Output, WriteResults, ApplyRefused, Working
      <3>2. phaseSeen' = phaseSeen
        <4>1. CASE pc' = pc BY <4>1 DEF phaseSeen
        <4>2. ASSUME NEW p \in Working, Goto(r, p) PROVE phaseSeen' = phaseSeen
          BY <3>1, <4>2, PhaseAfter
        <4> QED BY <3>1, <4>1, <4>2
      <3> QED BY <3>1, <3>2 DEF Contract!contractVars
    <2> QED BY <1>1, <2>1, <2>2, <2>3, <2>4, <2>5 DEF Provision, Contract!Next
  <1>2. ASSUME \/ \E v \in Vms \union ByHand : Destroy(v) \/ DestroyRefused(v) \/ SyncOutputs(v)
               \/ Restart
               \/ UNCHANGED vars
        PROVE  [Contract!Next]_(Contract!contractVars)
    <2>1. ASSUME NEW v \in Vms \union ByHand, NEW w \in Vms, DestroyServer(v, w)
          PROVE  Contract!Remove(v[1]) /\ v[1] \in Requests
      <3>1. v \in Vms /\ dir[v] = v[1] /\ w \in VmsOf(v[1]) /\ row[v] = "down"
        BY <2>1 DEF DestroyServer, SafeInv, DestroyersAreHome, DestroyingIsDown
      <3>2. v[1] \in Requests /\ pc[v[1]] = "provisioned"
        BY <3>1, Resources DEF SafeInv, RowsAreProvisioned
      <3>3. phaseSeen' = phaseSeen /\ phaseSeen[v[1]] = "provisioned"
        BY <2>1, <3>2 DEF DestroyServer, phaseSeen, Working
      <3>4. SeenUp' = SeenUp \ {w}
        BY <2>1 DEF DestroyServer
      <3> QED BY <3>1, <3>2, <3>3, <3>4 DEF Contract!Remove, Contract!VmsOf, VmsOf
    <2>2. ASSUME NEW v \in Vms \union ByHand,
                 \/ DestroyStart(v) \/ Find(v) \/ Lock(v) \/ DestroyKeypair(v)
                 \/ DestroyDone(v) \/ DestroyFailed(v) \/ DestroyRefused(v) \/ SyncOutputs(v)
          PROVE  UNCHANGED Contract!contractVars
      <3>1. servers' = servers /\ pc' = pc
        BY <2>2 DEF DestroyStart, Find, Lock, DestroyKeypair, DestroyDone, DestroyFailed,
                    DestroyRefused, SyncOutputs
      <3> QED BY <3>1 DEF Contract!contractVars, phaseSeen
    <2>3. CASE Restart
      <3>1. phaseSeen' = phaseSeen
        BY <2>3 DEF Restart, phaseSeen, TypeOK, Working
      <3>2. PICK made \in SUBSET {v \in Vms \ tracked :
                                     pc[v[1]] = "applying" /\ Key(v[1]) \in tracked} :
               servers' = servers \union made
        BY <2>3 DEF Restart
      <3>3. CASE made = {}
        BY <3>1, <3>2, <3>3 DEF Contract!contractVars
      <3>4. ASSUME NEW v \in made PROVE \E r \in Requests : Contract!Boot(r)
        <4>1. v \in Vms /\ v[1] \in Requests /\ pc[v[1]] = "applying"
          BY Resources
        <4>2. \A w \in made : w \in Vms /\ w[1] = v[1]
          BY Resources DEF SafeInv, KeypairOfOne
        <4>3. made \subseteq VmsOf(v[1])
          BY <4>2, Resources
        <4>4. phaseSeen[v[1]] = "working"
          BY <4>1 DEF phaseSeen, Working
        <4>5. SeenUp' = SeenUp \union made
          BY <3>2
        <4>6. Contract!Boot(v[1])
          BY <3>1, <4>3, <4>4, <4>5 DEF Contract!Boot, Contract!VmsOf, VmsOf
        <4> QED BY <4>1, <4>6
      <3> QED BY <3>3, <3>4 DEF Contract!Next
    <2>4. CASE UNCHANGED vars
      BY <2>4 DEF vars, Contract!contractVars, phaseSeen
    <2> QED BY <1>2, <2>1, <2>2, <2>3, <2>4 DEF Destroy, Contract!Next
  <1> QED BY <1>1, <1>2 DEF Next

\* The Terraform provisioner implements the contract of a provisioner, with
\* one keypair for all the requests and whatever a restart interrupts.
THEOREM Keeps == Spec => KeepsContract
  <1>1. Init => Contract!Init
    BY Resources DEF Init, Contract!Init, phaseSeen, Working
  <1>2. TypeOK /\ SafeInv /\ [Next]_vars => [Contract!Next]_(Contract!contractVars)
    BY StepKeeps
  <1> QED BY Safe, <1>1, <1>2, PTL DEF Spec, KeepsContract, Contract!Spec

=============================================================================
