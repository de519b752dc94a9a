--------------------------- MODULE OpenStackProofs ---------------------------
(***************************************************************************)
(* What is proved of OpenStackProvisioner, for any requests, quantity and  *)
(* bounds: type correctness, the safety invariants, and that it keeps the  *)
(* contract of a provisioner.                                              *)
(***************************************************************************)
EXTENDS OpenStackProvisioner, TLAPS

\* The VMs of two requests are different, and Vms holds all of them.
LEMMA VmFacts ==
    /\ \A r \in Requests, i \in 1..Quantity : <<r, i>> \in VmsOf(r)
    /\ \A r \in Requests : \A v \in VmsOf(r) : v \in Vms
    /\ \A r, q \in Requests : \A v \in VmsOf(r) : v \in VmsOf(q) => r = q
    /\ \A r \in Requests : \A v \in VmsOf(r) : \E i \in 1..Quantity : v = <<r, i>>
    /\ \A v \in Vms : \E r \in Requests : v \in VmsOf(r)
    /\ \A r \in Requests : \A i, j : <<r, i>> = <<r, j>> => i = j
  BY DEF VmsOf, Vms

-----------------------------------------------------------------------------
(* Type correctness.                                                       *)

\* The VM in the making is a VM.
LEMMA CurrentIsVm ==
    ASSUME TypeOK, NEW r \in Requests
    PROVE  Current(r) \in VmsOf(r) /\ Current(r) \in Vms
  BY VmFacts DEF TypeOK, Current

\* Advance keeps the index in the range of the loop.
LEMMA AdvanceTyped ==
    ASSUME TypeOK, NEW r \in Requests, Advance(r)
    PROVE  /\ pc' \in [Requests -> Working \union {"new", "provisioned", "failed", "dead"}]
           /\ index' \in [Requests -> 1..Quantity]
  BY QuantityAssumption DEF TypeOK, Advance, Goto, Working

\* The types are inductive: the steps of create_vms(), then those of the rest.
LEMMA TypedNext == TypeOK /\ [Next]_vars => TypeOK'
  <1>1. ASSUME TypeOK, NEW r \in Requests, Provision(r) \/ PollRefused(r) PROVE TypeOK'
    <2> USE <1>1, CurrentIsVm, BoundsAssumption DEF faultVars, Goto, LoseAnswer
    <2>1. CASE Begin(r)        BY <2>1 DEF Begin, TypeOK, Working
    <2>2. CASE CreateServer(r) BY <2>2 DEF CreateServer, TypeOK, Working
    <2>3. CASE Poll(r)         BY <2>3 DEF Poll, TypeOK, Working
    <2>4. CASE BootTimeout(r)  BY <2>4 DEF BootTimeout, TypeOK, Working
    <2>5. CASE Address(r)
      <3>1. CASE floating  BY <2>5, <3>1 DEF Address, TypeOK, Working
      <3>2. CASE ~floating BY <2>5, <3>2, AdvanceTyped DEF Address, TypeOK
      <3> QED BY <3>1, <3>2
    <2>6. CASE Allocate(r)     BY <2>6 DEF Allocate, TypeOK, Working
    <2>7. CASE Associate(r)
      <3>1. CASE Advance(r) BY <2>7, <3>1, AdvanceTyped DEF Associate, TypeOK
      <3>2. CASE ~Advance(r) BY <2>7, <3>2 DEF Associate, TypeOK, Working
      <3> QED BY <3>1, <3>2
    <2>8. CASE Release(r)      BY <2>8 DEF Release, TypeOK, Working
    <2>9. CASE Record(r)       BY <2>9, VmFacts DEF Record, TypeOK, Working
    <2>10. CASE MarkFailed(r)  BY <2>10 DEF MarkFailed, TypeOK, Working
    <2>11. CASE PollRefused(r) BY <2>11 DEF PollRefused, TypeOK, Working
    <2> QED BY <1>1, <2>1, <2>2, <2>3, <2>4, <2>5, <2>6, <2>7, <2>8, <2>9, <2>10, <2>11
            DEF Provision
  <1>2. ASSUME TypeOK,
               (\E v \in Vms : Destroy(v) \/ CloudBoots(v) \/ CloudDeletes(v))
                  \/ Restart \/ UNCHANGED vars
        PROVE  TypeOK'
    <2> USE <1>2, BoundsAssumption DEF faultVars, handlerVars, LoseAnswer
    <2>1. ASSUME NEW v \in Vms, Destroy(v) PROVE TypeOK'
      BY <2>1 DEF Destroy, Accept, TypeOK
    <2>2. ASSUME NEW v \in Vms, CloudDeletes(v) PROVE TypeOK'
      BY <2>2 DEF CloudDeletes, TypeOK
    <2>3. ASSUME NEW v \in Vms, CloudBoots(v) PROVE TypeOK'
      BY <2>3 DEF CloudBoots, TypeOK
    <2>4. CASE Restart
      BY <2>4, CurrentIsVm DEF Restart, TypeOK, Working
    <2>5. CASE UNCHANGED vars
      BY <2>5 DEF vars, TypeOK
    <2> QED BY <1>2, <2>1, <2>2, <2>3, <2>4, <2>5
  <1> QED BY <1>1, <1>2 DEF Next

\* Every variable keeps its type: the loop never leaves its range, and only
\* VMs of the requests are destroyed or spoiled.
THEOREM TypeCorrect == Spec => []TypeOK
  <1>1. Init => TypeOK
    BY QuantityAssumption, BoundsAssumption DEF Init, TypeOK, Working
  <1> QED BY <1>1, TypedNext, PTL DEF Spec

-----------------------------------------------------------------------------
(* Safety.                                                                 *)

\* What a VM that is made has.
Ready(v) == server[v] = "active" /\ (floating => fip[v] = "attached")

\* A request that nobody worked on has nothing.
NewHasNothing ==
    \A r \in Requests : pc[r] = "new" =>
        index[r] = 1 /\ \A v \in VmsOf(r) : server[v] = "none"

\* The iterations before the current one made their VMs.
EarlierReady ==
    \A r \in Requests : pc[r] \in Working =>
        \A i \in 1..Quantity : i < index[r] => Ready(<<r, i>>)

\* The addresses are for a server that is ACTIVE.
AddressedIsActive ==
    \A r \in Requests :
        pc[r] \in {"addressing", "allocating", "associating"} =>
            server[Current(r)] = "active"

\* The list is complete when it is recorded.
RecordingIsComplete ==
    \A r \in Requests : pc[r] = "recording" => \A v \in VmsOf(r) : Ready(v)

\* The VMs of the provisioned requests have rows, and no others.
RowsAreProvisioned ==
    \A r \in Requests : \A v \in VmsOf(r) :
        v \in recorded <=> pc[r] = "provisioned"

\* Servers with a row are ACTIVE, or their deletion was accepted: nothing
\* boots any more.
RecordedAreSettled ==
    \A v \in recorded : server[v] = "active" \/ Accepted(v)

\* Destroyed VMs were recorded first.
ToldAreRecorded == told \subseteq recorded

SafeInv ==
    /\ NewHasNothing
    /\ EarlierReady
    /\ AddressedIsActive
    /\ RecordingIsComplete
    /\ RowsAreProvisioned
    /\ RecordedAreSettled
    /\ ToldAreRecorded
    /\ RecordedHasMachine

\* The steps of a coroutine that leave the loop alone.
LEMMA HandlerSafe ==
    ASSUME TypeOK, SafeInv, NEW r \in Requests,
           Begin(r) \/ CreateServer(r) \/ Poll(r) \/ BootTimeout(r) \/ PollRefused(r)
              \/ Allocate(r) \/ Release(r) \/ MarkFailed(r)
    PROVE  SafeInv'
  <1> USE VmFacts, CurrentIsVm, QuantityAssumption
      DEF SafeInv, NewHasNothing, EarlierReady, AddressedIsActive, RecordingIsComplete,
          RowsAreProvisioned, RecordedAreSettled, ToldAreRecorded, RecordedHasMachine,
          Accepted, TypeOK, Ready, Working, Current, Goto, faultVars
  <1>1. CASE Begin(r) BY <1>1 DEF Begin
  <1>2. CASE CreateServer(r) BY <1>2 DEF CreateServer, LoseAnswer
  <1>3. CASE Poll(r)
    <2>1. CASE server[Current(r)] = "active" /\ pc' = [pc EXCEPT ![r] = "addressing"]
      <3>1. UNCHANGED <<server, fip, recorded, index, told, floating, spoiled>> /\ pc[r] = "waiting"
        BY <1>3 DEF Poll
      <3>2. AddressedIsActive'
        <4> SUFFICES ASSUME NEW q \in Requests,
                            pc'[q] \in {"addressing", "allocating", "associating"}
                     PROVE  server[<<q, index[q]>>] = "active"
          BY <3>1
        <4>1. CASE q = r BY <2>1, <4>1
        <4>2. CASE q # r
          <5>1. pc'[q] = pc[q] BY <2>1, <4>2
          <5> QED BY <5>1
        <4> QED BY <4>1, <4>2
      <3> QED BY <2>1, <3>1, <3>2
    <2>2. CASE pc' = [pc EXCEPT ![r] = "failing"]
      <3>1. UNCHANGED <<server, fip, recorded, index, told, floating, spoiled>> /\ pc[r] = "waiting"
        BY <1>3 DEF Poll
      <3> QED BY <2>2, <3>1
    <2> QED BY <1>3, <2>1, <2>2 DEF Poll
  <1>4. CASE BootTimeout(r) BY <1>4 DEF BootTimeout
  <1>5. CASE PollRefused(r) BY <1>5 DEF PollRefused
  <1>6. CASE Allocate(r)
    <2>1. /\ pc[r] = "allocating" /\ pc' \in {[pc EXCEPT ![r] = "associating"],
                                              [pc EXCEPT ![r] = "failing"]}
          /\ UNCHANGED <<server, recorded, index, told, floating>> /\ spoiled \subseteq spoiled'
          /\ fip' \in {[fip EXCEPT ![Current(r)] = "idle"], fip}
      BY <1>6 DEF Allocate, LoseAnswer
    <2>2. EarlierReady'
      BY <2>1
    <2>3. NewHasNothing' /\ RowsAreProvisioned' /\ RecordedAreSettled'
          /\ ToldAreRecorded'
      BY <2>1
    <2>4. AddressedIsActive'
      <3> SUFFICES ASSUME NEW q \in Requests,
                          pc'[q] \in {"addressing", "allocating", "associating"}
                   PROVE  server[<<q, index[q]>>] = "active"
        BY <2>1
      <3>1. CASE q = r BY <2>1, <3>1
      <3>2. CASE q # r
        <4>1. pc'[q] = pc[q] BY <2>1, <3>2
        <4> QED BY <4>1
      <3> QED BY <3>1, <3>2
    <2>5. \A v \in recorded : v # Current(r)
      BY <2>1
    <2>6. RecordedHasMachine'
      BY <2>1, <2>5
    <2>7. RecordingIsComplete'
      BY <2>1
    <2> QED BY <2>2, <2>3, <2>4, <2>6, <2>7
  <1>7. CASE Release(r)
    <2>1. /\ pc[r] = "releasing" /\ pc' = [pc EXCEPT ![r] = "failing"]
          /\ UNCHANGED <<server, recorded, index, told, floating>> /\ spoiled \subseteq spoiled'
          /\ fip' = [fip EXCEPT ![Current(r)] = "none"] \/ fip' = fip
      BY <1>7 DEF Release, LoseAnswer
    <2> QED BY <2>1, SMTT(60)
  <1>8. CASE MarkFailed(r) BY <1>8 DEF MarkFailed
  <1> QED BY <1>1, <1>2, <1>3, <1>4, <1>5, <1>6, <1>7, <1>8

\* A VM is complete and the loop goes on, or its list is full.
LEMMA AdvanceSafe ==
    ASSUME TypeOK, SafeInv, NEW r \in Requests, pc[r] \in {"addressing", "associating"},
           Advance(r), UNCHANGED <<server, recorded, told, floating>>, spoiled \subseteq spoiled',
           \/ fip' = fip /\ ~floating
           \/ fip' = [fip EXCEPT ![Current(r)] = "attached"]
    PROVE  SafeInv'
  <1> DEFINE Up(v) == server'[v] = "active" /\ (floating' => fip'[v] = "attached")
  <1>1. Up(<<r, index[r]>>)
    BY CurrentIsVm DEF SafeInv, AddressedIsActive, TypeOK, Current
  <1>2. ASSUME NEW v \in Vms, Ready(v) PROVE Up(v)
    <2>1. CASE v = Current(r) BY <1>1, <2>1 DEF Current
    <2>2. CASE v # Current(r) BY <1>2, <2>2 DEF Ready, TypeOK
    <2> QED BY <2>1, <2>2
  <1>3. /\ index' \in [Requests -> 1..Quantity]
        /\ \A q \in Requests : q # r => pc'[q] = pc[q] /\ index'[q] = index[q]
        /\ \/ pc'[r] = "creating" /\ index'[r] = index[r] + 1
           \/ pc'[r] = "recording" /\ index'[r] = index[r] /\ index[r] = Quantity
        /\ index[r] \in 1..Quantity
        /\ pc[r] \in Working
    BY AdvanceTyped, QuantityAssumption DEF Advance, Goto, TypeOK, Working
  <1>4. ASSUME NEW q \in Requests, pc[q] \in Working, NEW i \in 1..Quantity, i < index[q]
        PROVE  Up(<<q, i>>)
    BY <1>2, <1>4, VmFacts DEF SafeInv, EarlierReady
  <1>5. EarlierReady'
    <2> SUFFICES ASSUME NEW q \in Requests, pc'[q] \in Working, NEW i \in 1..Quantity,
                        i < index'[q]
                 PROVE  Up(<<q, i>>)
      BY DEF EarlierReady, Ready, Working
    <2>1. CASE q # r BY <2>1, <1>3, <1>4
    <2>2. CASE q = r /\ i = index[r] BY <2>2, <1>1
    <2>3. CASE q = r /\ i # index[r]
      <3>1. i < index[r] BY <2>3, <1>3, QuantityAssumption
      <3> QED BY <2>3, <3>1, <1>3, <1>4
    <2> QED BY <2>1, <2>2, <2>3
  <1>6. RecordingIsComplete'
    <2> SUFFICES ASSUME NEW q \in Requests, pc'[q] = "recording", NEW i \in 1..Quantity
                 PROVE  Up(<<q, i>>)
      BY VmFacts DEF RecordingIsComplete, Ready
    <2>1. CASE q # r
      BY <2>1, <1>2, <1>3, VmFacts DEF SafeInv, RecordingIsComplete
    <2>2. CASE q = r /\ i = index[r] BY <2>2, <1>1
    <2>3. CASE q = r /\ i # index[r]
      <3>1. i < index[r] BY <2>3, <1>3, QuantityAssumption
      <3> QED BY <2>3, <3>1, <1>3, <1>4
    <2> QED BY <2>1, <2>2, <2>3
  <1>7. NewHasNothing' /\ AddressedIsActive'
    BY <1>3 DEF SafeInv, NewHasNothing, AddressedIsActive, Current
  <1>8. RowsAreProvisioned' /\ RecordedAreSettled' /\ ToldAreRecorded'
    BY <1>3 DEF SafeInv, RowsAreProvisioned, RecordedAreSettled, ToldAreRecorded, Accepted
  <1>9. RecordedHasMachine'
    BY <1>2 DEF TypeOK, SafeInv, RecordedHasMachine, Ready, Accepted
  <1> QED BY <1>5, <1>6, <1>7, <1>8, <1>9 DEF SafeInv

LEMMA LoopSafe ==
    ASSUME TypeOK, SafeInv, NEW r \in Requests, Address(r) \/ Associate(r) \/ Record(r)
    PROVE  SafeInv'
  <1>1. CASE Address(r) /\ floating
    <2>1. PICK p \in {"allocating", "failing"} : Goto(r, p)
      BY <1>1 DEF Address
    <2>2. UNCHANGED <<server, fip, recorded, index, told, floating, spoiled>> /\ pc[r] = "addressing"
      BY <1>1 DEF Address, faultVars
    <2>3. /\ \A q \in Requests : pc'[q] = IF q = r THEN p ELSE pc[q]
          /\ server[Current(r)] = "active"
      BY <2>1, <2>2 DEF Goto, TypeOK, SafeInv, AddressedIsActive
    <2> QED
      BY <2>2, <2>3
      DEF SafeInv, NewHasNothing, EarlierReady, AddressedIsActive, RecordingIsComplete,
          RowsAreProvisioned, RecordedAreSettled, ToldAreRecorded, RecordedHasMachine,
          Accepted, Ready, Working, Current
  <1>2. CASE Address(r) /\ ~floating
    BY <1>2, AdvanceSafe DEF Address, faultVars
  <1>3. CASE /\ Associate(r)
             /\ Advance(r) /\ fip' = [fip EXCEPT ![Current(r)] = "attached"]
             /\ UNCHANGED <<floating, spoiled>>
    BY <1>3, AdvanceSafe DEF Associate
  <1>4. CASE /\ Associate(r)
             /\ Goto(r, "releasing") /\ UNCHANGED <<index, floating>> /\ spoiled \subseteq spoiled'
    BY <1>4, VmFacts, CurrentIsVm, QuantityAssumption
    DEF SafeInv, NewHasNothing, EarlierReady, AddressedIsActive, RecordingIsComplete,
        RowsAreProvisioned, RecordedAreSettled, ToldAreRecorded, RecordedHasMachine,
          Accepted, TypeOK, Ready, Working, Current, Goto, Associate
  <1>5. CASE Record(r)
    BY <1>5, VmFacts, QuantityAssumption
    DEF SafeInv, NewHasNothing, EarlierReady, AddressedIsActive, RecordingIsComplete,
        RowsAreProvisioned, RecordedAreSettled, ToldAreRecorded, RecordedHasMachine,
          Accepted, TypeOK, Ready, Working, Current, Goto, Record, faultVars
  <1>6. CASE Associate(r)
    <2>1. \/ /\ Advance(r) /\ fip' = [fip EXCEPT ![Current(r)] = "attached"]
             /\ UNCHANGED <<floating, spoiled>>
          \/ Goto(r, "releasing") /\ UNCHANGED <<index, floating>> /\ spoiled \subseteq spoiled'
      BY <1>6 DEF Associate, LoseAnswer, faultVars
    <2> QED BY <1>3, <1>4, <1>6, <2>1
  <1> QED BY <1>1, <1>2, <1>5, <1>6

\* The deletion of a VM leaves the others alone, and those in the making are
\* among the others.
LEMMA OthersSafe ==
    ASSUME TypeOK, SafeInv, NEW v \in Vms,
           UNCHANGED <<recorded, pc, index, floating>>,
           v \in recorded \/ server[v] = "deleting",
           \A w \in Vms : w # v => server'[w] = server[w] /\ fip'[w] = fip[w],
           told \subseteq told', told' \subseteq told \union (recorded \intersect {v}),
           spoiled \subseteq spoiled',
           \/ server'[v] = server[v] /\ fip'[v] = fip[v] /\ (v \in told' => v \in told)
           \/ server'[v] \in {"deleting", "deleted", "undeleted"}
                 /\ (v \in recorded => v \in told' \union spoiled')
    PROVE  SafeInv'
  <1>1. ASSUME NEW w \in Vms, Ready(w), w \notin recorded
        PROVE  server'[w] = "active" /\ (floating' => fip'[w] = "attached")
    BY <1>1 DEF Ready
  <1>2. \A r \in Requests : \A w \in VmsOf(r) : pc[r] # "provisioned" => w \in Vms \ recorded
    BY VmFacts DEF SafeInv, RowsAreProvisioned
  <1>3. NewHasNothing'
    BY <1>2, VmFacts DEF SafeInv, NewHasNothing
  <1>4. EarlierReady'
    <2> SUFFICES ASSUME NEW r \in Requests, pc[r] \in Working, NEW i \in 1..Quantity, i < index[r]
                 PROVE  server'[<<r, i>>] = "active" /\ (floating' => fip'[<<r, i>>] = "attached")
      BY DEF EarlierReady, Ready, Working
    <2>1. Ready(<<r, i>>) /\ <<r, i>> \in Vms \ recorded
      BY <1>2, VmFacts DEF SafeInv, EarlierReady, Working
    <2> QED BY <1>1, <2>1
  <1>5. AddressedIsActive'
    <2> SUFFICES ASSUME NEW r \in Requests, pc[r] \in {"addressing", "allocating", "associating"}
                 PROVE  server'[<<r, index[r]>>] = "active"
      BY DEF AddressedIsActive, Current
    <2>1. server[<<r, index[r]>>] = "active" /\ <<r, index[r]>> \in Vms \ recorded
      BY <1>2, CurrentIsVm DEF SafeInv, AddressedIsActive, Current
    <2> QED BY <2>1
  <1>6. RecordingIsComplete'
    BY <1>1, <1>2 DEF SafeInv, RecordingIsComplete, Ready
  <1>7. RowsAreProvisioned' /\ ToldAreRecorded'
    BY DEF SafeInv, RowsAreProvisioned, ToldAreRecorded
  <1>8. ASSUME NEW w \in recorded
        PROVE  /\ server'[w] = "active" \/ server'[w] \in {"deleting", "deleted", "undeleted"}
               /\ w \notin told' \union spoiled' =>
                     server'[w] = "active" /\ (floating => fip'[w] = "attached")
               /\ w \in told' => server'[w] \in {"deleting", "deleted", "undeleted"}
    <2>1. w \in Vms /\ (server[w] = "active" \/ server[w] \in {"deleting", "deleted", "undeleted"})
      BY <1>8 DEF TypeOK, SafeInv, RecordedAreSettled, Accepted
    <2>2. /\ w \notin told \union spoiled =>
                server[w] = "active" /\ (floating => fip[w] = "attached")
          /\ w \in told => server[w] \in {"deleting", "deleted", "undeleted"}
      BY <1>8 DEF SafeInv, RecordedHasMachine, Accepted
    <2>3. CASE w = v
      BY <1>8, <2>1, <2>2, <2>3
    <2>4. CASE w # v
      BY <1>8, <2>1, <2>2, <2>4
    <2> QED BY <2>3, <2>4
  <1>9. RecordedAreSettled' /\ RecordedHasMachine'
    BY <1>8 DEF RecordedAreSettled, RecordedHasMachine, Accepted
  <1> QED BY <1>3, <1>4, <1>5, <1>6, <1>7, <1>9 DEF SafeInv

\* Destruction, the cloud and the restart.
LEMMA RestSafe ==
    ASSUME TypeOK, SafeInv,
           (\E v \in Vms : Destroy(v) \/ CloudBoots(v) \/ CloudDeletes(v))
              \/ Restart \/ UNCHANGED vars
    PROVE  SafeInv'
  <1> USE VmFacts, QuantityAssumption
      DEF SafeInv, NewHasNothing, EarlierReady, AddressedIsActive, RecordingIsComplete,
          RowsAreProvisioned, RecordedAreSettled, ToldAreRecorded, RecordedHasMachine,
          Accepted, TypeOK, Ready, Working, Current, faultVars, handlerVars
  <1>1. ASSUME NEW v \in Vms, CloudDeletes(v) PROVE SafeInv'
    <2>1. /\ server[v] = "deleting" /\ UNCHANGED <<recorded, pc, index, told, floating, spoiled>>
          /\ server'[v] \in {"deleted", "undeleted"}
          /\ \A w \in Vms : w # v => server'[w] = server[w] /\ fip'[w] = fip[w]
      BY <1>1 DEF CloudDeletes
    <2> QED BY <2>1, OthersSafe
  <1>2. ASSUME NEW v \in Vms, Destroy(v) PROVE SafeInv'
    <2>1. /\ v \in recorded /\ UNCHANGED <<recorded, fip, pc, index, floating>>
          /\ spoiled \subseteq spoiled' /\ told \subseteq told' /\ told' \subseteq told \union {v}
          /\ \A w \in Vms : w # v => server'[w] = server[w]
          /\ \/ server' = server /\ told' = told
             \/ server'[v] \in {"deleting", "deleted"} /\ v \in told' \union spoiled'
      BY <1>2 DEF Destroy, Accept, LoseAnswer
    <2> QED BY <2>1, OthersSafe
  <1>3. ASSUME NEW v \in Vms, CloudBoots(v) PROVE SafeInv'
    BY <1>3 DEF CloudBoots
  <1>4. CASE Restart
    BY <1>4 DEF Restart
  <1>5. CASE UNCHANGED vars
    BY <1>5 DEF vars
  <1> QED BY <1>1, <1>2, <1>3, <1>4, <1>5

LEMMA Safe == Spec => [](TypeOK /\ SafeInv)
  <1>1. Init => SafeInv
    BY VmFacts, QuantityAssumption
    DEF Init, SafeInv, NewHasNothing, EarlierReady, AddressedIsActive, RecordingIsComplete,
        RowsAreProvisioned, RecordedAreSettled, ToldAreRecorded, RecordedHasMachine,
          Accepted, Working
  <1>2. TypeOK /\ SafeInv /\ [Next]_vars => SafeInv'
    BY HandlerSafe, LoopSafe, RestSafe DEF Next, Provision
  <1> QED BY TypeCorrect, <1>1, <1>2, PTL DEF Spec

\* A recorded VM has an ACTIVE server, and the floating IP the settings ask
\* for, until destroy_vm() returned for it or lost its answer, and none counts
\* as destroyed unless OpenStack accepted the deletion; a server without a row
\* is in the making, or its request failed or was cut by a restart.
THEOREM Consistent == Spec => [](RecordedHasMachine /\ OrphansAreOfFailures)
  <1>1. TypeOK /\ SafeInv => OrphansAreOfFailures
    BY DEF OrphansAreOfFailures, SafeInv, NewHasNothing, RowsAreProvisioned, TypeOK
  <1>2. SafeInv => RecordedHasMachine
    BY DEF SafeInv
  <1> QED BY <1>1, <1>2, Safe, PTL

-----------------------------------------------------------------------------
(* Machines to come.                                                       *)

\* The machines of the iterations to come do not exist yet: POST /servers
\* never replaces one.
NotYetMade ==
    \A r \in Requests : pc[r] \in Working =>
        \A i \in 1..Quantity :
            i > index[r] \/ (i = index[r] /\ pc[r] = "creating") =>
                server[<<r, i>>] = "none"

LEMMA StepNotYetMade ==
    ASSUME TypeOK, SafeInv, NotYetMade, [Next]_vars
    PROVE  NotYetMade'
  <1> USE DEF NotYetMade, TypeOK, Working, Goto, faultVars, handlerVars, Current, LoseAnswer
  <1>1. ASSUME NEW r \in Requests, Begin(r) PROVE NotYetMade'
    BY <1>1, VmFacts DEF Begin, SafeInv, NewHasNothing
  <1>2. ASSUME NEW r \in Requests, CreateServer(r) PROVE NotYetMade'
    BY <1>2, VmFacts, QuantityAssumption DEF CreateServer, Vms
  <1>3. ASSUME NEW r \in Requests,
               Poll(r) \/ PollRefused(r) \/ BootTimeout(r) \/ Allocate(r) \/ Release(r)
                  \/ Record(r) \/ MarkFailed(r)
        PROVE  NotYetMade'
    BY <1>3 DEF Poll, PollRefused, BootTimeout, Allocate, Release, Record, MarkFailed
  <1>4. ASSUME NEW r \in Requests, Address(r) \/ Associate(r) PROVE NotYetMade'
    <2>1. /\ server' = server
          /\ pc[r] \in Working /\ pc[r] # "creating"
          /\ \/ pc' = [pc EXCEPT ![r] = "creating"] /\ index' = [index EXCEPT ![r] = @ + 1]
             \/ index' = index /\ \E p \in Working \ {"creating"} : pc' = [pc EXCEPT ![r] = p]
      BY <1>4 DEF Address, Associate, Advance
    <2> QED BY <2>1
  <1>5. ASSUME NEW v \in Vms, CloudDeletes(v) PROVE NotYetMade'
    <2>1. server[v] = "deleting" /\ UNCHANGED <<pc, index>>
          /\ \A w \in Vms : w # v => server'[w] = server[w]
      BY <1>5 DEF CloudDeletes
    <2> QED BY <2>1, VmFacts
  <1>6. ASSUME NEW v \in Vms, Destroy(v) PROVE NotYetMade'
    <2>1. UNCHANGED <<pc, index>> /\ v \in recorded /\ \A w \in Vms : w # v => server'[w] = server[w]
      BY <1>6 DEF Destroy, Accept
    <2>2. \A r \in Requests, i \in 1..Quantity : pc[r] \in Working => v # <<r, i>>
      BY <2>1, VmFacts DEF SafeInv, RowsAreProvisioned
    <2> QED BY <2>1, <2>2, VmFacts
  <1>7. ASSUME NEW v \in Vms, CloudBoots(v) PROVE NotYetMade'
    <2>1. server[v] # "none" /\ UNCHANGED <<pc, index>>
          /\ \A w \in Vms : w # v => server'[w] = server[w]
      BY <1>7 DEF CloudBoots
    <2> QED BY <2>1, VmFacts
  <1>8. CASE Restart
    BY <1>8 DEF Restart
  <1>9. CASE UNCHANGED vars
    BY <1>9 DEF vars
  <1> QED BY <1>1, <1>2, <1>3, <1>4, <1>5, <1>6, <1>7, <1>8, <1>9 DEF Next, Provision

\* POST /servers never replaces a machine: each one is made once.
LEMMA MadeOnce == Spec => []NotYetMade
  <1>1. Init => NotYetMade
    BY DEF Init, NotYetMade, Working
  <1> QED BY <1>1, StepNotYetMade, Safe, PTL DEF Spec

-----------------------------------------------------------------------------
(* Addresses.                                                              *)

\* A step of the coroutine of r explains its own idle address, and takes the
\* explanation of no other away: a mark or a deletion is never undone.
LEMMA AddressStep ==
    ASSUME TypeOK, IdleAddressExplained, NEW r \in Requests,
           \A q \in Requests : q # r => pc'[q] = pc[q] /\ index'[q] = index[q],
           \A v \in Vms : fip'[v] = "idle" => fip[v] = "idle" \/ v = Current(r),
           spoiled \subseteq spoiled',
           \A v \in Vms : server[v] = "deleted" => server'[v] = "deleted",
           fip'[Current(r)] = "idle" =>
               \/ Current(r) \in spoiled'
               \/ server'[Current(r)] = "deleted"
               \/ index'[r] = index[r] /\ pc'[r] \in {"associating", "releasing"}
    PROVE  IdleAddressExplained'
  <1> SUFFICES ASSUME NEW q \in Requests, NEW v \in VmsOf(q), fip'[v] = "idle"
               PROVE  \/ v = <<q, index'[q]>> /\ pc'[q] \in {"associating", "releasing"}
                      \/ v \in spoiled'
                      \/ server'[v] = "deleted"
    BY DEF IdleAddressExplained, Current
  <1>1. CASE v = Current(r)
    <2>1. q = r
      BY <1>1, CurrentIsVm, VmFacts
    <2> QED BY <1>1, <2>1 DEF Current
  <1>2. CASE v # Current(r)
    <2>1. v \in Vms /\ fip[v] = "idle"
      BY <1>2, VmFacts
    <2>2. \/ v = Current(q) /\ pc[q] \in {"associating", "releasing"}
          \/ v \in spoiled
          \/ server[v] = "deleted"
      BY <2>1 DEF IdleAddressExplained
    <2>3. v = Current(q) => q # r
      BY <1>2
    <2> QED BY <2>1, <2>2, <2>3 DEF Current
  <1> QED BY <1>1, <1>2

LEMMA IdleAddressStep ==
    ASSUME TypeOK, SafeInv, NotYetMade, IdleAddressExplained, [Next]_vars
    PROVE  IdleAddressExplained'
  <1> USE VmFacts DEF faultVars, handlerVars
  <1>1. ASSUME NEW r \in Requests, CreateServer(r) PROVE IdleAddressExplained'
    <2>1. server[Current(r)] = "none" /\ fip' = fip /\ index' = index
      BY <1>1 DEF CreateServer, NotYetMade, Current, TypeOK, Working
    <2>2. /\ pc[r] = "creating" /\ \A q \in Requests : q # r => pc'[q] = pc[q]
          /\ spoiled \subseteq spoiled'
          /\ \A v \in Vms : v # Current(r) => server'[v] = server[v]
      BY <1>1 DEF CreateServer, Goto, LoseAnswer, TypeOK
    <2>3. fip[Current(r)] = "idle" => Current(r) \in spoiled
      BY <2>1, <2>2, CurrentIsVm DEF IdleAddressExplained
    <2> QED BY <2>1, <2>2, <2>3, AddressStep
  <1>2. ASSUME NEW r \in Requests,
               Begin(r) \/ Poll(r) \/ PollRefused(r) \/ BootTimeout(r) \/ Address(r)
                  \/ Record(r) \/ MarkFailed(r)
        PROVE  IdleAddressExplained'
    <2>1. /\ UNCHANGED <<fip, server, spoiled>>
          /\ pc[r] \notin {"associating", "releasing"}
          /\ \A q \in Requests : q # r => pc'[q] = pc[q] /\ index'[q] = index[q]
      BY <1>2 DEF Begin, Poll, PollRefused, BootTimeout, Address, Advance, Record,
                  MarkFailed, Goto, TypeOK
    <2>2. fip[Current(r)] = "idle" => Current(r) \in spoiled \/ server[Current(r)] = "deleted"
      BY <2>1, CurrentIsVm DEF IdleAddressExplained
    <2> QED BY <2>1, <2>2, AddressStep
  <1>3. ASSUME NEW r \in Requests, Allocate(r) PROVE IdleAddressExplained'
    <2>1. /\ UNCHANGED <<server, index>> /\ pc[r] = "allocating"
          /\ spoiled \subseteq spoiled'
          /\ \A q \in Requests : q # r => pc'[q] = pc[q]
          /\ \A v \in Vms : v # Current(r) => fip'[v] = fip[v]
          /\ fip' = fip \/ pc'[r] = "associating" \/ Current(r) \in spoiled'
      BY <1>3 DEF Allocate, Goto, LoseAnswer, TypeOK
    <2>2. fip[Current(r)] = "idle" => Current(r) \in spoiled \/ server[Current(r)] = "deleted"
      BY <2>1, CurrentIsVm DEF IdleAddressExplained
    <2> QED BY <2>1, <2>2, AddressStep
  <1>4. ASSUME NEW r \in Requests, Associate(r) PROVE IdleAddressExplained'
    <2>1. /\ server' = server /\ spoiled \subseteq spoiled'
          /\ \A q \in Requests : q # r => pc'[q] = pc[q] /\ index'[q] = index[q]
          /\ \A v \in Vms : v # Current(r) => fip'[v] = fip[v]
          /\ \/ fip'[Current(r)] = "attached"
             \/ index' = index /\ pc'[r] = "releasing"
      BY <1>4, CurrentIsVm DEF Associate, Advance, Goto, LoseAnswer, TypeOK
    <2> QED BY <2>1, AddressStep
  <1>5. ASSUME NEW r \in Requests, Release(r) PROVE IdleAddressExplained'
    <2>1. /\ UNCHANGED <<server, index>> /\ spoiled \subseteq spoiled'
          /\ \A q \in Requests : q # r => pc'[q] = pc[q]
          /\ \A v \in Vms : v # Current(r) => fip'[v] = fip[v]
          /\ fip'[Current(r)] = "none" \/ Current(r) \in spoiled'
      BY <1>5, CurrentIsVm DEF Release, Goto, LoseAnswer, TypeOK
    <2> QED BY <2>1, AddressStep
  <1>6. ASSUME NEW w \in Vms, Destroy(w) \/ CloudBoots(w) \/ CloudDeletes(w)
        PROVE  IdleAddressExplained'
    <2>1. /\ UNCHANGED <<pc, index>> /\ spoiled \subseteq spoiled'
          /\ \A v \in Vms : server[v] = "deleted" => server'[v] = "deleted"
          /\ \A v \in Vms : fip'[v] = "idle" => fip[v] = "idle" \/ server'[v] = "deleted"
      BY <1>6 DEF Destroy, Accept, CloudDeletes, CloudBoots, LoseAnswer, TypeOK
    <2> QED BY <2>1 DEF IdleAddressExplained, Current
  <1>7. CASE Restart
    <2>1. /\ UNCHANGED <<server, fip, index>> /\ spoiled \subseteq spoiled'
          /\ \A r \in Requests : pc[r] \in Working => Current(r) \in spoiled'
      BY <1>7 DEF Restart
    <2> QED BY <2>1 DEF IdleAddressExplained, Working
  <1>8. CASE UNCHANGED vars
    BY <1>8 DEF vars, IdleAddressExplained, Current
  <1> QED BY <1>1, <1>2, <1>3, <1>4, <1>5, <1>6, <1>7, <1>8 DEF Next, Provision

\* A floating IP that no machine uses is about to be associated or released,
\* was spoiled by a lost answer, cleanup or process, or outlived its server:
\* _assign_floating_ip() itself drops none, wherever it is refused.
THEOREM AddressesExplained == Spec => []IdleAddressExplained
  <1>1. Init => IdleAddressExplained
    BY VmFacts DEF Init, IdleAddressExplained
  <1> QED BY <1>1, IdleAddressStep, Safe, MadeOnce, PTL DEF Spec

-----------------------------------------------------------------------------
(* The contract.                                                           *)

\* The machines the contract sees.
UpVms == {v \in Vms : server[v] = "active"}

\* What a step of a coroutine looks like to the services.
LEMMA PhaseAfter ==
    ASSUME TypeOK, NEW r \in Requests, NEW p, Goto(r, p)
    PROVE  /\ DOMAIN phaseSeen = Requests
           /\ phaseSeen = [q \in Requests |-> phaseSeen[q]]
           /\ phaseSeen[r] = IF pc[r] \in Working \union {"dead"} THEN "working" ELSE pc[r]
           /\ phaseSeen' = [phaseSeen EXCEPT
                  ![r] = IF p \in Working \union {"dead"} THEN "working" ELSE p]
  <1> DEFINE Seen(c) == IF c \in Working \union {"dead"} THEN "working" ELSE c
  <1>1. phaseSeen = [q \in Requests |-> Seen(pc[q])]
    BY DEF phaseSeen
  <1>2. phaseSeen' = [q \in Requests |-> Seen(pc'[q])]
    BY DEF phaseSeen
  <1>3. \A q \in Requests : pc'[q] = IF q = r THEN p ELSE pc[q]
    BY DEF Goto, TypeOK
  <1> HIDE DEF Seen
  <1>4. phaseSeen' = [phaseSeen EXCEPT ![r] = Seen(p)]
    BY <1>1, <1>2, <1>3
  <1> QED BY <1>1, <1>4 DEF Seen

\* A step that leaves the machines alone stays in create_vms(), or calls it,
\* or returns from it.
LEMMA CoroutineKeeps ==
    ASSUME TypeOK, NEW r \in Requests, NEW p, Goto(r, p), UpVms' = UpVms,
           \/ pc[r] \in Working /\ p \in Working
           \/ pc[r] = "new" /\ p \in {"creating", "failing"}
           \/ pc[r] \in Working /\ p = "failed"
           \/ pc[r] \in Working /\ p = "provisioned" /\ VmsOf(r) \subseteq UpVms
    PROVE  [Contract!Next]_(Contract!contractVars)
  <1> USE PhaseAfter
  <1>1. CASE pc[r] \in Working /\ p \in Working
    <2>1. phaseSeen' = phaseSeen BY <1>1
    <2> QED BY <2>1 DEF Contract!contractVars, UpVms
  <1>2. CASE pc[r] = "new" /\ p \in {"creating", "failing"}
    <2>1. phaseSeen[r] = "new" /\ phaseSeen' = [phaseSeen EXCEPT ![r] = "working"]
      BY <1>2 DEF Working
    <2>2. Contract!Begin(r) BY <2>1 DEF Contract!Begin, UpVms
    <2> QED BY <2>2 DEF Contract!Next
  <1>3. CASE pc[r] \in Working /\ p = "failed"
    <2>1. phaseSeen[r] = "working" /\ phaseSeen' = [phaseSeen EXCEPT ![r] = "failed"]
      BY <1>3 DEF Working
    <2>2. Contract!Fail(r) BY <2>1 DEF Contract!Fail, UpVms
    <2> QED BY <2>2 DEF Contract!Next
  <1>4. CASE pc[r] \in Working /\ p = "provisioned" /\ VmsOf(r) \subseteq UpVms
    <2>1. phaseSeen[r] = "working" /\ phaseSeen' = [phaseSeen EXCEPT ![r] = "provisioned"]
      BY <1>4 DEF Working
    <2>2. Contract!Succeed(r)
      BY <1>4, <2>1 DEF Contract!Succeed, Contract!VmsOf, VmsOf, UpVms
    <2> QED BY <2>2 DEF Contract!Next
  <1> QED BY <1>1, <1>2, <1>3, <1>4

LEMMA ProvisionKeeps ==
    ASSUME TypeOK, SafeInv, NotYetMade, NEW r \in Requests, Provision(r) \/ PollRefused(r)
    PROVE  [Contract!Next]_(Contract!contractVars)
  <1>1. CASE CreateServer(r)
    <2>1. /\ server[Current(r)] = "none"
          /\ server' \in {server, [server EXCEPT ![Current(r)] = "building"]}
      BY <1>1 DEF CreateServer, NotYetMade, Current, TypeOK, Working
    <2>2. UpVms' = UpVms
      BY <2>1, CurrentIsVm DEF UpVms, TypeOK
    <2>3. PICK p \in Working : Goto(r, p)
      BY <1>1 DEF CreateServer, Working
    <2> QED BY <1>1, <2>2, <2>3, CoroutineKeeps DEF CreateServer, Working
  <1>2. CASE Record(r)
    <2>1. UpVms' = UpVms /\ VmsOf(r) \subseteq UpVms
      BY <1>2, VmFacts DEF Record, UpVms, SafeInv, RecordingIsComplete, Ready
    <2> QED BY <1>2, <2>1, CoroutineKeeps DEF Record, Working
  <1>3. CASE Begin(r) \/ MarkFailed(r)
    <2>1. UpVms' = UpVms
      BY <1>3 DEF Begin, MarkFailed, UpVms
    <2> QED BY <1>3, <2>1, CoroutineKeeps DEF Begin, MarkFailed, Working
  <1>4. CASE Poll(r) \/ PollRefused(r) \/ BootTimeout(r) \/ Address(r) \/ Allocate(r)
             \/ Associate(r) \/ Release(r)
    <2>1. UpVms' = UpVms /\ pc[r] \in Working
      BY <1>4 DEF Poll, PollRefused, BootTimeout, Address, Allocate, Associate, Release,
                  UpVms, Working
    <2>2. PICK p \in Working : Goto(r, p)
      BY <1>4 DEF Poll, PollRefused, BootTimeout, Address, Allocate, Associate, Release,
                  Advance, Working
    <2> QED BY <2>1, <2>2, CoroutineKeeps
  <1> QED BY <1>1, <1>2, <1>3, <1>4 DEF Provision

\* Destruction removes machines of provisioned requests, the cloud adds some
\* to the others, and a restart goes unseen.
LEMMA RestKeeps ==
    ASSUME TypeOK, SafeInv,
           (\E v \in Vms : Destroy(v) \/ CloudBoots(v) \/ CloudDeletes(v))
              \/ Restart \/ UNCHANGED vars
    PROVE  [Contract!Next]_(Contract!contractVars)
  <1> USE DEF UpVms
  <1>1. ASSUME NEW v \in Vms, CloudDeletes(v) PROVE UNCHANGED Contract!contractVars
    <2>1. /\ pc' = pc /\ server[v] = "deleting"
          /\ server' \in {[server EXCEPT ![v] = "deleted"], [server EXCEPT ![v] = "undeleted"]}
      BY <1>1 DEF CloudDeletes, handlerVars
    <2>2. UpVms' = UpVms
      BY <2>1 DEF TypeOK
    <2> QED BY <2>1, <2>2 DEF Contract!contractVars, phaseSeen
  <1>2. ASSUME NEW v \in Vms, Destroy(v) PROVE \E r \in Requests : Contract!Remove(r)
    <2>1. PICK r \in Requests : v \in VmsOf(r)
      BY VmFacts
    <2>2. v \in recorded /\ pc' = pc
          /\ server' \in {server, [server EXCEPT ![v] = "deleting"]}
      BY <1>2 DEF Destroy, Accept, handlerVars, TypeOK
    <2>3. phaseSeen' = phaseSeen /\ phaseSeen[r] = "provisioned"
      BY <2>1, <2>2 DEF SafeInv, RowsAreProvisioned, phaseSeen, Working
    <2>4. PICK gone \in SUBSET VmsOf(r) : UpVms' = UpVms \ gone
      <3>1. CASE server' = server BY <3>1
      <3>2. CASE server' = [server EXCEPT ![v] = "deleting"]
        <4>1. UpVms' = UpVms \ {v} BY <3>2 DEF TypeOK
        <4> QED BY <2>1, <4>1
      <3> QED BY <2>2, <3>1, <3>2
    <2>5. Contract!Remove(r)
      BY <2>3, <2>4 DEF Contract!Remove, Contract!VmsOf, VmsOf
    <2> QED BY <2>5
  <1>3. ASSUME NEW v \in Vms, CloudBoots(v) PROVE \E r \in Requests : Contract!Boot(r)
    <2>1. PICK r \in Requests : v \in VmsOf(r)
      BY VmFacts
    <2>2. server[v] = "building" /\ pc' = pc
          /\ server' \in {[server EXCEPT ![v] = "active"], [server EXCEPT ![v] = "error"]}
      BY <1>3 DEF CloudBoots, handlerVars
    <2>3. pc[r] \notin {"new", "provisioned"}
      BY <2>1, <2>2 DEF SafeInv, NewHasNothing, RowsAreProvisioned, RecordedAreSettled,
                     Accepted
    <2>4. phaseSeen' = phaseSeen /\ phaseSeen[r] \in {"working", "failed"}
      BY <2>2, <2>3 DEF TypeOK, phaseSeen
    <2>5. PICK made \in SUBSET VmsOf(r) : UpVms' = UpVms \union made
      <3>1. CASE server' = [server EXCEPT ![v] = "active"]
        <4>1. UpVms' = UpVms \union {v} BY <3>1 DEF TypeOK
        <4> QED BY <2>1, <4>1
      <3>2. CASE server' = [server EXCEPT ![v] = "error"]
        <4>1. UpVms' = UpVms \union {} BY <2>2, <3>2 DEF TypeOK
        <4> QED BY <4>1
      <3> QED BY <2>2, <3>1, <3>2
    <2>6. Contract!Boot(r)
      BY <2>4, <2>5 DEF Contract!Boot, Contract!VmsOf, VmsOf
    <2> QED BY <2>6
  <1>4. CASE Restart
    <2>1. phaseSeen' = phaseSeen BY <1>4 DEF Restart, phaseSeen, TypeOK, Working
    <2> QED BY <1>4, <2>1 DEF Restart, Contract!contractVars
  <1>5. CASE UNCHANGED vars
    BY <1>5 DEF vars, handlerVars, Contract!contractVars, phaseSeen
  <1> QED BY <1>1, <1>2, <1>3, <1>4, <1>5 DEF Contract!Next

\* The OpenStack provisioner implements the contract of a provisioner:
\* create_vms() makes every VM or raises, and destroy_vm() is all that takes
\* machines away.
THEOREM Keeps == Spec => KeepsContract
  <1>1. Init => Contract!Init
    BY DEF Init, Contract!Init, phaseSeen, Working
  <1>2. TypeOK /\ SafeInv /\ NotYetMade /\ [Next]_vars
            => [Contract!Next]_(Contract!contractVars)
    BY ProvisionKeeps, RestKeeps DEF Next
  <1> QED BY Safe, MadeOnce, <1>1, <1>2, PTL DEF Spec, KeepsContract, Contract!Spec

=============================================================================
