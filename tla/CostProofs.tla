----------------------------- MODULE CostProofs -----------------------------
(***************************************************************************)
(* What is proved of CostLedger, for any VMs, refreshers, clock and bounds *)
(* of the run: its types, that overlapping refreshes never leave a VM with *)
(* more sets of records than there are coroutines that refresh, and that a *)
(* refresh which nothing overlaps leaves one set that ends with the VM.    *)
(***************************************************************************)
EXTENDS CostLedger, DataLemmas, FiniteSetTheorems, TLAPS

-----------------------------------------------------------------------------
(* Types.                                                                  *)

\* An open transaction has been counted, and one that works on a VM has one.
TypeInv ==
    /\ TypeOK
    /\ \A p \in Refreshers : Open(p) => tx[p] >= 1
    /\ \A p \in Refreshers : pc[p] \in {"deleting", "waiting"} => cur[p] \in Vms

\* The batch of a refresh, or none, is that of its coroutine, and ends at the
\* instant that the refresh works with.
LEMMA BilledIsOwn ==
    ASSUME TypeInv, NEW p \in Refreshers, Open(p)
    PROVE  /\ Billed(p) \subseteq Batch
           /\ \A b \in Billed(p) : b.by = p /\ (~seen[p].open => b.end = seen[p].at)
           /\ \A b, c \in Billed(p) : b = c
  <1> DEFINE end == IF seen[p].open THEN now ELSE seen[p].at
  <1>1. end \in Instant
    BY DEF TypeInv, TypeOK, Ending
  <1>2. tx[p] \in 0..MaxRefreshes
    BY DEF TypeInv, TypeOK
  <1>3. [by |-> p, tx |-> tx[p], end |-> end] \in Batch
    BY <1>1, <1>2 DEF Batch
  <1>4. Billed(p) \subseteq {[by |-> p, tx |-> tx[p], end |-> end]}
    BY DEF Billed, Inserted
  <1> QED BY <1>3, <1>4

\* The end that a refresh reads is "now" or an instant of the run.
LEMMA BillingEndTyped ==
    ASSUME TypeOK, NEW v \in Vms
    PROVE  BillingEnd(v) \in Ending
  <1>1. /\ 0 \in Instant /\ created[v] \in Instant
        /\ ended[v] # Never => ended[v] \in Instant
    BY BoundAssumption DEF TypeOK, Instant
  <1> QED BY <1>1 DEF BillingEnd, Ending

\* What opening a transaction does to the counts.
LEMMA BeginTyped ==
    ASSUME TypeOK, NEW p \in Refreshers, BeginTransaction(p)
    PROVE  /\ pc[p] = "idle"
           /\ tx' = [tx EXCEPT ![p] = @ + 1]
           /\ tx' \in [Refreshers -> 0..MaxRefreshes]
           /\ tx'[p] >= 1
           /\ alone' \in [Refreshers -> BOOLEAN]
  BY BoundAssumption DEF BeginTransaction, TypeOK, Open

\* Init gives the variables values of their types.
LEMMA InitTyped == Init => TypeInv
  <1> SUFFICES ASSUME Init PROVE TypeInv
    OBVIOUS
  <1>1. 0 \in Instant
    BY BoundAssumption DEF Instant
  <1> QED BY <1>1, BoundAssumption
          DEF Init, TypeInv, TypeOK, Open, Nothing, Unknown, Ending, Never

\* The steps of the transaction that records a VM.
Making(v) == BeginVm(v) \/ RecordVm(v) \/ FailVm(v)

\* It inserts at most one set of records, of its own.
LEMMA InsertedIsMakers ==
    ASSUME TypeInv, NEW v \in Vms
    PROVE  /\ Inserted(Maker, 0, v, now) \subseteq Batch
           /\ \A b \in Inserted(Maker, 0, v, now) : b.by \notin Refreshers
           /\ \A b, c \in Inserted(Maker, 0, v, now) : b = c
  <1>1. [by |-> Maker, tx |-> 0, end |-> now] \in Batch
    BY BoundAssumption DEF TypeInv, TypeOK, Batch
  <1> QED BY <1>1, MakerAssumption DEF Inserted

\* The steps of the other services keep the types.
LEMMA ServicesTyped ==
    ASSUME TypeInv,
           Tick \/ \E v \in Vms : Making(v) \/ SetStatus(v) \/ JobDestroys(v)
    PROVE  TypeInv'
  <1> USE DEF Making, BeginVm, RecordVm, FailVm, SetStatus, JobDestroys, Tick
  <1>1. UNCHANGED <<pc, todo, cur, seen, targets, gone, fresh, victim, tx>>
    BY DEF vmVars, txnVars
  <1>2. now' \in Instant
    <2>1. now' = now \/ (now < MaxNow /\ now' = now + 1)
      OBVIOUS
    <2> QED BY <2>1, BoundAssumption DEF TypeInv, TypeOK, Instant
  <1>3. status' \in [Vms -> {"absent", "making", "active", "error", "destroyed"}]
    <2>1. status' = status
          \/ \E v \in Vms, s \in {"absent", "making", "active", "error", "destroyed"} :
                status' = [status EXCEPT ![v] = s]
      BY BoundAssumption DEF vmVars
    <2> QED BY <2>1 DEF TypeInv, TypeOK
  <1>4. created' \in [Vms -> Instant]
    <2>1. 0 \in Instant
      BY BoundAssumption DEF Instant
    <2> QED BY <2>1 DEF TypeInv, TypeOK, vmVars
  <1>5. ended' \in [Vms -> Instant \union {Never}]
    BY DEF TypeInv, TypeOK, vmVars
  <1>6. alone' \in [Refreshers -> BOOLEAN]
    BY DEF TypeInv, TypeOK, txnVars
  <1>7. ledger' \in [Vms -> SUBSET Batch]
    <2>1. \/ ledger' = ledger
          \/ \E v \in Vms : ledger' = [ledger EXCEPT ![v] = Inserted(Maker, 0, v, now)]
      OBVIOUS
    <2>2. \A v \in Vms : Inserted(Maker, 0, v, now) \subseteq Batch
      BY InsertedIsMakers
    <2>3. ASSUME NEW v \in Vms, NEW I \in SUBSET Batch
          PROVE  [ledger EXCEPT ![v] = I] \in [Vms -> SUBSET Batch]
      BY DEF TypeInv, TypeOK
    <2>4. ledger \in [Vms -> SUBSET Batch]
      BY DEF TypeInv, TypeOK
    <2> QED BY ONLY <2>1, <2>2, <2>3, <2>4
  <1> QED BY <1>1, <1>2, <1>3, <1>4, <1>5, <1>6, <1>7 DEF TypeInv, TypeOK, Open

\* So does the opening of a transaction, ...
LEMMA OpeningTyped ==
    ASSUME TypeInv, NEW p \in Refreshers,
           RefreshAll(p) \/ \E v \in Vms : RefreshDestroyed(p, v)
    PROVE  TypeInv'
  <1>1. /\ UNCHANGED <<now, status, created, ended, ledger, targets, gone, fresh>>
        /\ BeginTransaction(p)
    BY DEF RefreshAll, RefreshDestroyed, vmVars
  <1>2. ASSUME RefreshAll(p) PROVE TypeInv'
    <2>1. /\ pc' = [pc EXCEPT ![p] = "next"]
          /\ todo' = [todo EXCEPT ![p] = {v \in Vms : Present(v)}]
          /\ UNCHANGED <<cur, seen, victim>>
      BY <1>2 DEF RefreshAll
    <2>2. todo' \in [Refreshers -> SUBSET Vms]
      BY <2>1 DEF TypeInv, TypeOK
    <2> QED BY <1>1, <2>1, <2>2, BeginTyped DEF TypeInv, TypeOK, Open
  <1>3. ASSUME NEW v \in Vms, RefreshDestroyed(p, v) PROVE TypeInv'
    <2>1. /\ pc' = [pc EXCEPT ![p] = "deleting"]
          /\ victim' = [victim EXCEPT ![p] = v]
          /\ cur' = [cur EXCEPT ![p] = v]
          /\ seen' = [seen EXCEPT ![p] = [open |-> FALSE, at |-> now]]
          /\ UNCHANGED todo
      BY <1>3 DEF RefreshDestroyed
    <2>2. [open |-> FALSE, at |-> now] \in Ending
      BY DEF TypeInv, TypeOK, Ending
    <2> QED BY <1>1, <2>1, <2>2, BeginTyped DEF TypeInv, TypeOK, Open
  <1> QED BY <1>2, <1>3

\* ... each step of its loop ...
LEMMA LoopTyped ==
    ASSUME TypeInv, NEW p \in Refreshers,
           (\E v \in Vms : SelectVm(p, v)) \/ DeleteStart(p) \/ DeleteEnd(p)
    PROVE  TypeInv'
  <1>1. UNCHANGED <<now, status, created, ended, ledger, victim, alone, tx>> /\ Open(p)
    BY DEF SelectVm, DeleteStart, DeleteEnd, Open, vmVars
  <1>2. ASSUME NEW v \in Vms, SelectVm(p, v) PROVE TypeInv'
    <2>1. /\ pc' = [pc EXCEPT ![p] = "deleting"]
          /\ todo' = [todo EXCEPT ![p] = @ \ {v}]
          /\ cur' = [cur EXCEPT ![p] = v]
          /\ seen' = [seen EXCEPT ![p] = BillingEnd(v)]
          /\ UNCHANGED <<targets, gone, fresh>>
      BY <1>2 DEF SelectVm
    <2>2. BillingEnd(v) \in Ending
      BY BillingEndTyped DEF TypeInv
    <2> QED BY <1>1, <2>1, <2>2 DEF TypeInv, TypeOK, Open
  <1>3. ASSUME DeleteStart(p) PROVE TypeInv'
    BY <1>1, <1>3 DEF DeleteStart, TypeInv, TypeOK, Open
  <1>4. ASSUME DeleteEnd(p) PROVE TypeInv'
    <2> DEFINE w == cur[p]
    <2>1. /\ pc[p] = "waiting" /\ w \in Vms
          /\ gone' = [gone EXCEPT ![p][w] = targets[p] \intersect ledger[w]]
          /\ fresh' = [fresh EXCEPT ![p][w] = Billed(p)]
          /\ targets' = [targets EXCEPT ![p] = {}]
          /\ cur' = [cur EXCEPT ![p] = NoVm]
          /\ pc' = [pc EXCEPT ![p] = "next"]
          /\ UNCHANGED todo
      BY <1>4 DEF DeleteEnd, TypeInv
    <2>2. seen' \in [Refreshers -> Ending]
      <3>1. Unknown \in Ending
        BY BoundAssumption DEF Unknown, Ending, Instant
      <3> QED BY <1>4, <3>1 DEF DeleteEnd, TypeInv, TypeOK
    <2>3. fresh' \in [Refreshers -> [Vms -> SUBSET Batch]]
      BY <1>1, <2>1, BilledIsOwn DEF TypeInv, TypeOK
    <2>4. gone' \in [Refreshers -> [Vms -> SUBSET Batch]]
      BY <2>1 DEF TypeInv, TypeOK
    <2> QED BY <1>1, <2>1, <2>2, <2>3, <2>4 DEF TypeInv, TypeOK, Open
  <1> QED BY <1>2, <1>3, <1>4

\* ... and its end.
LEMMA ClosingTyped ==
    ASSUME TypeInv, NEW p \in Refreshers, Commit(p) \/ Abort(p)
    PROVE  TypeInv'
  <1>1. Close(p)
    BY DEF Commit, Abort
  <1>2. status' \in [Vms -> {"absent", "making", "active", "error", "destroyed"}]
    BY DEF Commit, Abort, TypeInv, TypeOK
  <1>3. ended' \in [Vms -> Instant \union {Never}]
    <2>1. seen[p].at \in Instant
      BY DEF TypeInv, TypeOK, Ending
    <2> QED BY <2>1 DEF Commit, Abort, TypeInv, TypeOK
  <1>4. ledger' \in [Vms -> SUBSET Batch]
    BY DEF Commit, Abort, TypeInv, TypeOK
  <1>5. Nothing \in [Vms -> SUBSET Batch] /\ Unknown \in Ending
    BY BoundAssumption DEF Nothing, Unknown, Ending, Instant
  <1>6. /\ UNCHANGED <<now, created, tx>>
        /\ gone' \in [Refreshers -> [Vms -> SUBSET Batch]]
        /\ fresh' \in [Refreshers -> [Vms -> SUBSET Batch]]
        /\ seen' \in [Refreshers -> Ending]
    BY <1>1, <1>5 DEF Close, TypeInv, TypeOK
  <1>7. TypeOK'
    BY <1>1, <1>2, <1>3, <1>4, <1>6 DEF Close, TypeInv, TypeOK
  <1> QED BY <1>1, <1>7 DEF Close, TypeInv, TypeOK, Open

\* The steps of the system, as the proofs divide them.
LEMMA StepsOfNext ==
    ASSUME Next
    PROVE  \/ Tick \/ \E v \in Vms : Making(v) \/ SetStatus(v) \/ JobDestroys(v)
           \/ \E p \in Refreshers :
                 \/ RefreshAll(p) \/ \E v \in Vms : RefreshDestroyed(p, v)
                 \/ (\E v \in Vms : SelectVm(p, v)) \/ DeleteStart(p) \/ DeleteEnd(p)
                 \/ Commit(p) \/ Abort(p)
  BY FreeAssumption DEF Next, Refresh, Making

LEMMA Types == Spec => []TypeInv
  <1>1. TypeInv /\ [Next]_vars => TypeInv'
    <2>1. TypeInv /\ UNCHANGED vars => TypeInv'
      BY DEF vars, vmVars, txnVars, TypeInv, TypeOK, Open
    <2>2. TypeInv /\ Next => TypeInv'
      BY StepsOfNext, ServicesTyped, OpeningTyped, LoopTyped, ClosingTyped
    <2> QED BY <2>1, <2>2
  <1> QED BY <1>1, InitTyped, PTL DEF Spec

\* Every record that a refresh inserts, deletes or waits for is a batch of the
\* run, whatever the refreshes and the destructions that interleave.
THEOREM TypeCorrect == Spec => []TypeOK
  <1>1. TypeInv => TypeOK
    BY DEF TypeInv
  <1> QED BY <1>1, Types, PTL

-----------------------------------------------------------------------------
(* Overlapping refreshes.                                                  *)

\* What a transaction inserts is one set of records per VM, its own.
FreshIsOwn ==
    \A p \in Refreshers : \A v \in Vms :
        /\ \A b \in fresh[p][v] : b.by = p
        /\ \A b, c \in fresh[p][v] : b = c

\* Nobody but p inserts records of p: those that its DELETE saw when it
\* started are all there are when it ends ...
WaitsForItsOwn ==
    \A p \in Refreshers : pc[p] = "waiting" =>
        \A b \in ledger[cur[p]] : b.by = p => b \in targets[p]

\* ... and all there are when it commits.
ReplacesItsOwn ==
    \A p \in Refreshers : \A v \in Vms : fresh[p][v] # {} =>
        \A b \in ledger[v] : b.by = p => b \in gone[p][v]

LedgerInv ==
    /\ FreshIsOwn
    /\ WaitsForItsOwn
    /\ ReplacesItsOwn
    /\ OneBatchPerRefresher

\* Every step keeps it.
LEMMA LedgerStep ==
    ASSUME TypeInv, LedgerInv, Next PROVE LedgerInv'
  <1>1. ASSUME Tick \/ \E v \in Vms : Making(v) \/ SetStatus(v) \/ JobDestroys(v)
        PROVE  LedgerInv'
    <2>1. UNCHANGED <<pc, cur, targets, gone, fresh>>
      BY <1>1 DEF Tick, Making, BeginVm, RecordVm, FailVm, SetStatus, JobDestroys, txnVars
    <2>2. ASSUME NEW v \in Vms
          PROVE  \/ ledger'[v] = ledger[v]
                 \/ ledger'[v] = Inserted(Maker, 0, v, now)
      <3>1. \/ ledger' = ledger
            \/ \E w \in Vms : ledger' = [ledger EXCEPT ![w] = Inserted(Maker, 0, w, now)]
        BY <1>1 DEF Tick, Making, BeginVm, RecordVm, FailVm, SetStatus, JobDestroys
      <3> QED BY <3>1 DEF TypeInv, TypeOK
    <2>3. ASSUME NEW v \in Vms
          PROVE  /\ \A b \in ledger'[v] : b.by \in Refreshers => b \in ledger[v]
                 /\ \A b, c \in ledger'[v] : b.by = c.by => b = c
      BY <2>2, InsertedIsMakers DEF LedgerInv, OneBatchPerRefresher
    <2>4. WaitsForItsOwn'
      BY <2>1, <2>3 DEF LedgerInv, WaitsForItsOwn, TypeInv
    <2>5. ReplacesItsOwn'
      BY <2>1, <2>3 DEF LedgerInv, ReplacesItsOwn
    <2> QED BY <2>1, <2>3, <2>4, <2>5 DEF LedgerInv, FreshIsOwn, OneBatchPerRefresher
  <1>2. ASSUME NEW p \in Refreshers,
               RefreshAll(p) \/ \E v \in Vms : RefreshDestroyed(p, v) \/ SelectVm(p, v)
        PROVE  LedgerInv'
    <2>1. UNCHANGED <<ledger, targets, gone, fresh>>
      BY <1>2 DEF RefreshAll, RefreshDestroyed, SelectVm
    <2>2. \/ pc' = [pc EXCEPT ![p] = "next"] /\ cur' = cur
          \/ pc' = [pc EXCEPT ![p] = "deleting"] /\ \E v \in Vms : cur' = [cur EXCEPT ![p] = v]
      BY <1>2 DEF RefreshAll, RefreshDestroyed, SelectVm
    <2>3. ASSUME NEW q \in Refreshers, pc'[q] = "waiting"
          PROVE  q # p /\ pc'[q] = pc[q] /\ cur'[q] = cur[q]
      BY <2>2, <2>3 DEF TypeInv, TypeOK
    <2>4. WaitsForItsOwn'
      BY <2>1, <2>3 DEF LedgerInv, WaitsForItsOwn
    <2> QED BY <2>1, <2>4 DEF LedgerInv, FreshIsOwn, ReplacesItsOwn, OneBatchPerRefresher
  <1>3. ASSUME NEW p \in Refreshers, DeleteStart(p) PROVE LedgerInv'
    <2>1. /\ UNCHANGED <<ledger, cur, gone, fresh>>
          /\ pc' = [pc EXCEPT ![p] = "waiting"]
          /\ targets' = [targets EXCEPT ![p] = ledger[cur[p]]]
      BY <1>3 DEF DeleteStart
    <2>2. WaitsForItsOwn'
      BY <2>1 DEF LedgerInv, TypeInv, TypeOK, WaitsForItsOwn
    <2> QED BY <2>1, <2>2 DEF LedgerInv, FreshIsOwn, ReplacesItsOwn, OneBatchPerRefresher
  <1>4. ASSUME NEW p \in Refreshers, DeleteEnd(p) PROVE LedgerInv'
    <2> DEFINE w == cur[p]
    <2>1. /\ w \in Vms /\ pc[p] = "waiting" /\ Open(p)
          /\ UNCHANGED ledger
          /\ gone' = [gone EXCEPT ![p][w] = targets[p] \intersect ledger[w]]
          /\ fresh' = [fresh EXCEPT ![p][w] = Billed(p)]
          /\ pc' = [pc EXCEPT ![p] = "next"]
          /\ cur' = [cur EXCEPT ![p] = NoVm]
          /\ targets' = [targets EXCEPT ![p] = {}]
      BY <1>4 DEF DeleteEnd, TypeInv, Open
    <2>2. \A q \in Refreshers, v \in Vms :
             IF q = p /\ v = w
             THEN fresh'[q][v] = Billed(p) /\ gone'[q][v] = targets[p] \intersect ledger[w]
             ELSE fresh'[q][v] = fresh[q][v] /\ gone'[q][v] = gone[q][v]
      BY <2>1 DEF TypeInv, TypeOK
    <2>3. FreshIsOwn'
      BY <2>1, <2>2, BilledIsOwn DEF LedgerInv, FreshIsOwn
    <2>4. ReplacesItsOwn'
      BY <2>1, <2>2 DEF LedgerInv, ReplacesItsOwn, WaitsForItsOwn
    <2>5. WaitsForItsOwn' /\ OneBatchPerRefresher'
      BY <2>1 DEF LedgerInv, TypeInv, TypeOK, WaitsForItsOwn, OneBatchPerRefresher
    <2> QED BY <2>3, <2>4, <2>5 DEF LedgerInv
  <1>5. ASSUME NEW p \in Refreshers, Commit(p) \/ Abort(p) PROVE LedgerInv'
    <2>1. Close(p)
      BY <1>5 DEF Commit, Abort
    <2>2. \/ ledger' = ledger
          \/ ledger' = [v \in Vms |-> (ledger[v] \ gone[p][v]) \union fresh[p][v]]
      BY <1>5 DEF Commit, Abort
    <2>3. \A v \in Vms : \A b \in ledger'[v] :
             \/ b \in fresh[p][v] /\ b.by = p
             \/ b \in ledger[v] /\ (b.by = p => fresh[p][v] = {} \/ ledger' = ledger)
      BY <2>2 DEF LedgerInv, FreshIsOwn, ReplacesItsOwn
    <2>4. \A v \in Vms : \A b \in ledger'[v] : b.by # p => b \in ledger[v]
      BY <2>3
    <2>5. OneBatchPerRefresher'
      <3>1. CASE ledger' = ledger
        BY <3>1 DEF LedgerInv, OneBatchPerRefresher
      <3>2. CASE ledger' # ledger
        BY <2>3, <3>2 DEF LedgerInv, FreshIsOwn, OneBatchPerRefresher
      <3> QED BY <3>1, <3>2
    <2>6. ASSUME NEW q \in Refreshers, q # p
          PROVE  /\ pc'[q] = pc[q] /\ cur'[q] = cur[q] /\ targets'[q] = targets[q]
                 /\ gone'[q] = gone[q] /\ fresh'[q] = fresh[q]
      BY <2>1, <2>6 DEF Close, TypeInv, TypeOK
    <2>7. pc'[p] = "idle" /\ \A v \in Vms : fresh'[p][v] = {}
      BY <2>1 DEF Close, TypeInv, TypeOK, Nothing
    <2>8. FreshIsOwn' /\ ReplacesItsOwn'
      BY <2>4, <2>6, <2>7 DEF LedgerInv, FreshIsOwn, ReplacesItsOwn
    <2>9. WaitsForItsOwn'
      BY <2>4, <2>6, <2>7 DEF LedgerInv, TypeInv, WaitsForItsOwn
    <2> QED BY <2>5, <2>8, <2>9 DEF LedgerInv
  <1> QED BY StepsOfNext, <1>1, <1>2, <1>3, <1>4, <1>5

LEMMA Ledgers == Spec => []LedgerInv
  <1>1. Init => LedgerInv
    BY DEF Init, Nothing, LedgerInv, FreshIsOwn, WaitsForItsOwn, ReplacesItsOwn,
           OneBatchPerRefresher
  <1>2. TypeInv /\ LedgerInv /\ [Next]_vars => LedgerInv'
    <2>1. LedgerInv /\ UNCHANGED vars => LedgerInv'
      BY DEF vars, txnVars, LedgerInv, FreshIsOwn, WaitsForItsOwn, ReplacesItsOwn,
             OneBatchPerRefresher
    <2> QED BY <2>1, LedgerStep
  <1> QED BY <1>1, <1>2, Types, PTL DEF Spec

\* A VM never has two sets of records of one coroutine: overlapping refreshes
\* (the dashboard, /cost-records, /metrics, destroys) double the costs of a VM
\* at most as many times as they overlap, and for ever as long as they go on.
THEOREM OneBatchEach == Spec => []OneBatchPerRefresher
  <1>1. LedgerInv => OneBatchPerRefresher
    BY DEF LedgerInv
  <1> QED BY <1>1, Ledgers, PTL

-----------------------------------------------------------------------------
(* A refresh that nothing overlaps.                                        *)

\* Between two transactions a coroutine holds nothing.
IdleHasNothing ==
    \A p \in Refreshers : ~Open(p) =>
        /\ todo[p] = {} /\ victim[p] = NoVm
        /\ \A v \in Vms : fresh[p][v] = {}

\* Only VMs that exist are refreshed, and have records.
PresentOnly ==
    /\ \A p \in Refreshers :
          /\ \A v \in todo[p] : Present(v)
          /\ pc[p] \in {"deleting", "waiting"} => Present(cur[p])
          /\ victim[p] # NoVm => Present(victim[p])
    /\ \A v \in Vms : ~Present(v) =>
          /\ ledger[v] = {} /\ ended[v] = Never
          /\ \A p \in Refreshers : fresh[p][v] = {}

\* A transaction that is alone is the only one.
AloneIsAlone ==
    \A p \in Refreshers : alone[p] => Open(p) /\ \A q \in Refreshers \ {p} : ~Open(q)

\* One that records a destruction refreshes that VM only.
DestroysOne == \A p \in Refreshers : victim[p] # NoVm => todo[p] = {}

\* The end that VM v will have when the transaction of p commits.
EndOf(p, v) == IF victim[p] = v THEN seen[p].at ELSE ended[v]

\* The VMs that a lone transaction has dealt with: all their records go, and
\* those that come end with the VM ...
Replaced(p, v) ==
    /\ ledger[v] \subseteq gone[p][v]
    /\ EndOf(p, v) # Never => \A b \in fresh[p][v] : b.end = EndOf(p, v)

\* ... and those recorded after it had read the list of VMs: they go on, with
\* the records that they were recorded with.
Missed(p, v) ==
    /\ fresh[p][v] = {} /\ EndOf(p, v) = Never
    /\ \A b, c \in ledger[v] : b = c

Swept(p, v) == Replaced(p, v) \/ Missed(p, v)

\* What it knows of the VM it is dealing with is still so.
KnowsTheEnd(p) ==
    pc[p] \in {"deleting", "waiting"} /\ EndOf(p, cur[p]) # Never =>
        ~seen[p].open /\ seen[p].at = EndOf(p, cur[p])

Sweeps ==
    \A p \in Refreshers : alone[p] =>
        /\ \A v \in Covered(p) : v \notin todo[p] /\ (pc[p] = "next" \/ v # cur[p]) => Swept(p, v)
        /\ KnowsTheEnd(p)
        /\ pc[p] = "waiting" => ledger[cur[p]] \subseteq targets[p]

CleanInv == IdleHasNothing /\ PresentOnly /\ AloneIsAlone /\ DestroysOne /\ Sweeps

\* The steps of the other services keep it: what ends a VM is seen by alone,
\* ...
LEMMA ServicesClean ==
    ASSUME TypeInv, CleanInv,
           Tick \/ \E v \in Vms : SetStatus(v) \/ JobDestroys(v)
    PROVE  CleanInv'
  <1>1. UNCHANGED <<ledger, pc, todo, cur, seen, targets, gone, fresh, victim>>
    BY DEF Tick, SetStatus, JobDestroys, txnVars
  <1>2. \/ UNCHANGED <<ended, alone>>
        \/ \A p \in Refreshers : ~alone'[p]
    BY DEF Tick, SetStatus, JobDestroys, txnVars, vmVars
  <1>3. ASSUME NEW v \in Vms
        PROVE  IF Present(v) THEN Present(v)' ELSE ~Present(v)' /\ ended'[v] = ended[v]
    BY BoundAssumption DEF Tick, SetStatus, JobDestroys, vmVars, Present, TypeInv, TypeOK
  <1>4. PresentOnly'
    <2>1. \A p \in Refreshers : \A v \in todo[p] : v \in Vms
      BY DEF TypeInv, TypeOK
    <2>2. \A p \in Refreshers : victim[p] # NoVm => victim[p] \in Vms
      BY DEF TypeInv, TypeOK
    <2> QED BY <1>1, <1>3, <2>1, <2>2 DEF CleanInv, PresentOnly, TypeInv
  <1>5. IdleHasNothing' /\ DestroysOne'
    BY <1>1 DEF CleanInv, IdleHasNothing, DestroysOne, Open
  <1>6. AloneIsAlone'
    BY <1>1, <1>2 DEF CleanInv, AloneIsAlone, Open
  <1>7. Sweeps'
    BY <1>1, <1>2
       DEF CleanInv, Sweeps, Swept, Replaced, Missed, KnowsTheEnd, EndOf, Covered
  <1> QED BY <1>4, <1>5, <1>6, <1>7 DEF CleanInv

\* ... and a VM that is recorded meanwhile is missed, and has its own records.
LEMMA MakingClean ==
    ASSUME TypeInv, CleanInv, NEW v \in Vms, Making(v)
    PROVE  CleanInv'
  <1>1. UNCHANGED <<ended, pc, todo, cur, seen, targets, gone, fresh, victim, alone>>
    BY DEF Making, BeginVm, RecordVm, FailVm, txnVars
  <1>2. ~Present(v) /\ ledger[v] = {} /\ ended[v] = Never
        /\ \A p \in Refreshers : fresh[p][v] = {}
    BY DEF Making, BeginVm, RecordVm, FailVm, Present, CleanInv, PresentOnly
  <1>3. ASSUME NEW p \in Refreshers
        PROVE  /\ v \notin todo[p] /\ victim[p] # v
               /\ pc[p] \in {"deleting", "waiting"} => cur[p] # v
    BY <1>2, NoVmAssumption DEF CleanInv, PresentOnly
  <1>4. ASSUME NEW w \in Vms, w # v
        PROVE  status'[w] = status[w] /\ ledger'[w] = ledger[w]
    BY <1>4 DEF Making, BeginVm, RecordVm, FailVm, TypeInv, TypeOK
  <1>5. ledger'[v] = {} \/ (Present(v)' /\ \A b, c \in ledger'[v] : b = c)
    <2>1. CASE RecordVm(v)
      <3>1. ledger'[v] = Inserted(Maker, 0, v, now) /\ status'[v] = "active"
        BY <2>1 DEF RecordVm, TypeInv, TypeOK
      <3> QED BY <3>1, InsertedIsMakers DEF Present
    <2>2. CASE BeginVm(v) \/ FailVm(v)
      BY <1>2, <2>2 DEF BeginVm, FailVm
    <2> QED BY <2>1, <2>2 DEF Making
  <1>6. PresentOnly'
    <2>1. \A p \in Refreshers : \A w \in todo[p] : w \in Vms /\ w # v
      BY <1>3 DEF TypeInv, TypeOK
    <2>2. \A p \in Refreshers : victim[p] # NoVm => victim[p] \in Vms /\ victim[p] # v
      BY <1>3 DEF TypeInv, TypeOK
    <2>3. \A p \in Refreshers :
             pc[p] \in {"deleting", "waiting"} => cur[p] \in Vms /\ cur[p] # v
      BY <1>3 DEF TypeInv
    <2>4. \A p \in Refreshers :
             /\ \A w \in todo'[p] : Present(w)'
             /\ pc'[p] \in {"deleting", "waiting"} => Present(cur[p])'
             /\ victim'[p] # NoVm => Present(victim[p])'
      BY <1>1, <1>4, <2>1, <2>2, <2>3 DEF CleanInv, PresentOnly, Present
    <2>5. \A w \in Vms : ~Present(w)' =>
             /\ ledger'[w] = {} /\ ended'[w] = Never
             /\ \A p \in Refreshers : fresh'[p][w] = {}
      BY <1>1, <1>2, <1>4, <1>5 DEF CleanInv, PresentOnly, Present
    <2> QED BY <2>4, <2>5 DEF PresentOnly
  <1>7. IdleHasNothing' /\ DestroysOne' /\ AloneIsAlone'
    BY <1>1 DEF CleanInv, IdleHasNothing, DestroysOne, AloneIsAlone, Open
  <1>8. ASSUME NEW p \in Refreshers, alone[p]
        PROVE  /\ \A w \in Covered(p)' : w \notin todo'[p] /\ (pc'[p] = "next" \/ w # cur'[p])
                                            => Swept(p, w)'
               /\ KnowsTheEnd(p)'
               /\ pc'[p] = "waiting" => ledger'[cur'[p]] \subseteq targets'[p]
    <2>1. Covered(p)' = Covered(p) /\ v \notin Covered(p) \ Vms
      BY <1>1 DEF Covered
    <2>2. KnowsTheEnd(p)'
      BY <1>1, <1>8 DEF CleanInv, Sweeps, KnowsTheEnd, EndOf
    <2>3. pc'[p] = "waiting" => ledger'[cur'[p]] \subseteq targets'[p]
      BY <1>1, <1>3, <1>4, <1>8 DEF CleanInv, Sweeps, TypeInv
    <2>4. Swept(p, v)'
      BY <1>1, <1>2, <1>3, <1>5 DEF Swept, Missed, EndOf
    <2>5. ASSUME NEW w \in Covered(p), w # v, Swept(p, w) PROVE Swept(p, w)'
      <3>1. w \in Vms
        BY DEF Covered, TypeInv, TypeOK
      <3> QED BY <1>1, <1>4, <2>5, <3>1 DEF Swept, Replaced, Missed, EndOf
    <2>6. \A w \in Covered(p)' : w \notin todo'[p] /\ (pc'[p] = "next" \/ w # cur'[p])
                                    => Swept(p, w)'
      BY <1>1, <1>8, <2>1, <2>4, <2>5 DEF CleanInv, Sweeps
    <2> QED BY <2>2, <2>3, <2>6
  <1>9. Sweeps'
    BY <1>1, <1>8 DEF Sweeps
  <1> QED BY <1>6, <1>7, <1>9 DEF CleanInv

\* A transaction that opens ends the loneliness of the others, and has every
\* VM that has records before it.
LEMMA OpeningClean ==
    ASSUME TypeInv, CleanInv, NEW p \in Refreshers,
           RefreshAll(p) \/ \E v \in Vms : RefreshDestroyed(p, v)
    PROVE  CleanInv'
  <1>1. /\ UNCHANGED <<now, status, created, ended, ledger, targets, gone, fresh>>
        /\ BeginTransaction(p)
    BY DEF RefreshAll, RefreshDestroyed, vmVars
  <1>2. /\ pc[p] = "idle" /\ todo[p] = {} /\ victim[p] = NoVm
        /\ \A v \in Vms : fresh[p][v] = {}
    BY <1>1, BeginTyped DEF CleanInv, IdleHasNothing, TypeInv, Open
  <1>3. \A q \in Refreshers : alone'[q] => q = p /\ \A o \in Refreshers : ~Open(o)
    <2>1. alone' = [q \in Refreshers |->
                      IF q = p THEN \A o \in Refreshers : ~Open(o) ELSE FALSE]
      BY <1>1, Zenon DEF BeginTransaction
    <2> QED BY <2>1
  <1>4. ASSUME NEW q \in Refreshers \ {p}
        PROVE  /\ pc'[q] = pc[q] /\ todo'[q] = todo[q] /\ cur'[q] = cur[q]
               /\ victim'[q] = victim[q]
    BY DEF RefreshAll, RefreshDestroyed, TypeInv, TypeOK
  <1>5. pc'[p] # "idle"
    BY DEF RefreshAll, RefreshDestroyed, TypeInv, TypeOK
  <1>6. IdleHasNothing'
    BY <1>1, <1>4, <1>5 DEF CleanInv, IdleHasNothing, Open
  <1>7. AloneIsAlone'
    BY <1>3, <1>4, <1>5 DEF AloneIsAlone, Open
  <1>8. CASE RefreshAll(p)
    <2>1. /\ pc'[p] = "next" /\ todo'[p] = {v \in Vms : Present(v)} /\ victim'[p] = NoVm
      BY <1>2, <1>8 DEF RefreshAll, TypeInv, TypeOK, Present
    <2>2. PresentOnly'
      BY <1>1, <1>4, <2>1 DEF CleanInv, PresentOnly, Present
    <2>3. DestroysOne'
      BY <1>4, <2>1 DEF CleanInv, DestroysOne
    <2>4. \A v \in Vms : v \notin todo'[p] => ledger'[v] = {} /\ fresh'[p][v] = {}
      BY <1>1, <2>1 DEF CleanInv, PresentOnly
    <2>5. Covered(p)' = Vms
      BY <2>1 DEF Covered
    <2>6. \A v \in Covered(p)' : v \notin todo'[p] => Swept(p, v)'
      BY <2>4, <2>5 DEF Swept, Replaced
    <2>7. Sweeps'
      BY <1>3, <2>1, <2>6 DEF Sweeps, KnowsTheEnd
    <2> QED BY <1>6, <1>7, <2>2, <2>3, <2>7 DEF CleanInv
  <1>9. ASSUME NEW v \in Vms, RefreshDestroyed(p, v) PROVE CleanInv'
    <2>1. /\ pc'[p] = "deleting" /\ todo'[p] = {} /\ victim'[p] = v /\ cur'[p] = v
          /\ seen'[p] = [open |-> FALSE, at |-> now] /\ Present(v)
      BY <1>2, <1>9 DEF RefreshDestroyed, TypeInv, TypeOK, Present
    <2>2. PresentOnly'
      BY <1>1, <1>4, <2>1 DEF CleanInv, PresentOnly, Present
    <2>3. DestroysOne'
      BY <1>4, <2>1 DEF CleanInv, DestroysOne
    <2>4. Covered(p)' = {v} \/ v = NoVm
      BY <2>1 DEF Covered
    <2>5. Covered(p)' = {v}
      BY <2>4, NoVmAssumption
    <2>6. Sweeps'
      BY <1>3, <2>1, <2>5 DEF Sweeps, KnowsTheEnd, EndOf
    <2> QED BY <1>6, <1>7, <2>2, <2>3, <2>6 DEF CleanInv
  <1> QED BY <1>8, <1>9

\* Each step of the loop leaves one VM more dealt with.
LEMMA LoopClean ==
    ASSUME TypeInv, LedgerInv, CleanInv, NEW p \in Refreshers,
           (\E v \in Vms : SelectVm(p, v)) \/ DeleteStart(p) \/ DeleteEnd(p)
    PROVE  CleanInv'
  <1>1. /\ UNCHANGED <<status, ended, ledger, victim, alone>>
        /\ pc[p] # "idle" /\ pc'[p] # "idle"
    BY DEF SelectVm, DeleteStart, DeleteEnd, TypeInv, TypeOK, vmVars
  <1>2. ASSUME NEW q \in Refreshers \ {p}
        PROVE  /\ pc'[q] = pc[q] /\ todo'[q] = todo[q] /\ cur'[q] = cur[q]
               /\ seen'[q] = seen[q] /\ targets'[q] = targets[q]
               /\ gone'[q] = gone[q] /\ fresh'[q] = fresh[q]
    BY DEF SelectVm, DeleteStart, DeleteEnd, TypeInv, TypeOK
  <1>3. AloneIsAlone'
    BY <1>1, <1>2 DEF CleanInv, AloneIsAlone, Open
  <1>4. IdleHasNothing'
    BY <1>1, <1>2 DEF CleanInv, IdleHasNothing, Open
  <1>5. ASSUME NEW q \in Refreshers \ {p}, alone[q] PROVE FALSE
    BY <1>1, <1>5 DEF CleanInv, AloneIsAlone, Open
  <1>6. Covered(p)' = Covered(p)
    BY <1>1 DEF Covered
  <1>7. ASSUME NEW v \in Vms, SelectVm(p, v) PROVE CleanInv'
    <2>1. /\ pc[p] = "next" /\ v \in todo[p]
          /\ pc'[p] = "deleting" /\ todo'[p] = todo[p] \ {v}
          /\ cur'[p] = v /\ seen'[p] = BillingEnd(v)
          /\ UNCHANGED <<gone, fresh>>
      BY <1>7 DEF SelectVm, TypeInv, TypeOK
    <2>2. victim[p] = NoVm /\ v # NoVm
      BY <2>1, NoVmAssumption DEF CleanInv, DestroysOne
    <2>3. PresentOnly'
      BY <1>1, <1>2, <2>1 DEF CleanInv, PresentOnly, Present
    <2>4. DestroysOne'
      BY <1>1, <1>2, <2>1 DEF CleanInv, DestroysOne
    <2>5. KnowsTheEnd(p)'
      BY <1>1, <2>1, <2>2 DEF KnowsTheEnd, EndOf, BillingEnd
    <2>6. ASSUME alone[p], NEW w \in Covered(p), w \notin todo'[p], w # cur'[p]
          PROVE  Swept(p, w)'
      <3>1. Swept(p, w)
        BY <2>1, <2>6 DEF CleanInv, Sweeps
      <3>2. w \in Vms
        BY <2>2, <2>6 DEF Covered
      <3>3. EndOf(p, w)' = EndOf(p, w)
        BY <1>1, <2>2, <3>2, NoVmAssumption DEF EndOf
      <3> QED BY <1>1, <2>1, <3>1, <3>3 DEF Swept, Replaced, Missed
    <2>7. Sweeps'
      BY <1>1, <1>5, <1>6, <2>1, <2>5, <2>6 DEF Sweeps
    <2> QED BY <1>3, <1>4, <2>3, <2>4, <2>7 DEF CleanInv
  <1>8. ASSUME DeleteStart(p) PROVE CleanInv'
    <2>1. /\ pc[p] = "deleting" /\ pc'[p] = "waiting" /\ targets'[p] = ledger[cur[p]]
          /\ UNCHANGED <<todo, cur, seen, gone, fresh>>
      BY <1>8 DEF DeleteStart, TypeInv, TypeOK
    <2>2. PresentOnly'
      BY <1>1, <1>2, <2>1 DEF CleanInv, PresentOnly, Present
    <2>3. DestroysOne'
      BY <1>1, <2>1 DEF CleanInv, DestroysOne
    <2>4. Sweeps'
      BY <1>1, <1>5, <1>6, <2>1
         DEF CleanInv, Sweeps, KnowsTheEnd, Swept, Replaced, Missed, EndOf, Covered
    <2> QED BY <1>3, <1>4, <2>2, <2>3, <2>4 DEF CleanInv
  <1>9. ASSUME DeleteEnd(p) PROVE CleanInv'
    <2> PICK w \in Vms : w = cur[p]
      BY <1>9 DEF DeleteEnd, TypeInv
    <2>1. /\ pc[p] = "waiting" /\ Open(p)
          /\ pc'[p] = "next"
          /\ UNCHANGED todo
          /\ seen'[p] = IF victim[p] = NoVm THEN Unknown ELSE seen[p]
          /\ gone'[p][w] = targets[p] \intersect ledger[w]
          /\ fresh'[p][w] = Billed(p)
      BY <1>9 DEF DeleteEnd, TypeInv, TypeOK, Open
    <2>2. \A v \in Vms \ {w} : gone'[p][v] = gone[p][v] /\ fresh'[p][v] = fresh[p][v]
      BY <1>9 DEF DeleteEnd, TypeInv, TypeOK
    <2>3. PresentOnly'
      <3>1. Present(w)
        BY <2>1 DEF CleanInv, PresentOnly
      <3>2. \A v \in Vms : ~Present(v) => \A q \in Refreshers : fresh'[q][v] = {}
        BY <1>2, <2>2, <3>1 DEF CleanInv, PresentOnly
      <3> QED BY <1>1, <1>2, <2>1, <3>2 DEF CleanInv, PresentOnly, Present
    <2>4. DestroysOne'
      BY <1>1, <2>1 DEF CleanInv, DestroysOne
    <2>5. \A v \in Vms : EndOf(p, v)' = EndOf(p, v)
      BY <1>1, <2>1, NoVmAssumption DEF EndOf
    <2>6. ASSUME alone[p] PROVE Swept(p, w)'
      <3>1. ledger[w] \subseteq targets[p] /\ KnowsTheEnd(p)
        BY <2>1, <2>6 DEF CleanInv, Sweeps
      <3>2. EndOf(p, w) # Never => \A b \in Billed(p) : b.end = EndOf(p, w)
        BY <2>1, <3>1, BilledIsOwn DEF KnowsTheEnd
      <3> QED BY <1>1, <2>1, <2>5, <3>1, <3>2 DEF Swept, Replaced
    <2>7. ASSUME alone[p], NEW v \in Covered(p), v \notin todo[p], v # w
          PROVE  Swept(p, v)'
      <3>1. Swept(p, v)
        BY <2>7 DEF CleanInv, Sweeps
      <3>2. v \in Vms
        BY <2>7 DEF Covered, TypeInv, TypeOK
      <3> QED BY <1>1, <2>2, <2>7, <2>5, <3>1, <3>2 DEF Swept, Replaced, Missed
    <2>8. Sweeps'
      BY <1>1, <1>5, <1>6, <2>1, <2>6, <2>7 DEF Sweeps, KnowsTheEnd
    <2> QED BY <1>3, <1>4, <2>3, <2>4, <2>8 DEF CleanInv
  <1> QED BY <1>7, <1>8, <1>9

\* A lone transaction that commits has dealt with every VM it covers.
LEMMA CommitSweeps ==
    ASSUME TypeInv, LedgerInv, CleanInv, NEW p \in Refreshers, Commit(p), alone[p],
           NEW v \in Covered(p)
    PROVE  /\ \A b, c \in ledger'[v] : b = c
           /\ ended'[v] # Never => \A b \in ledger'[v] : b.end = ended'[v]
  <1>1. pc[p] = "next" /\ todo[p] = {}
    BY DEF Commit
  <1>2. Swept(p, v)
    BY <1>1 DEF CleanInv, Sweeps
  <1>3. v \in Vms
    BY DEF Covered, TypeInv, TypeOK
  <1>4. ledger'[v] = (ledger[v] \ gone[p][v]) \union fresh[p][v]
    BY <1>3 DEF Commit
  <1>5. ended'[v] = EndOf(p, v)
    BY <1>3, NoVmAssumption DEF Commit, EndOf, Covered, TypeInv, TypeOK
  <1>6. CASE Replaced(p, v)
    <2>1. ledger'[v] = fresh[p][v]
      BY <1>4, <1>6 DEF Replaced
    <2> QED BY <1>3, <1>5, <1>6, <2>1 DEF Replaced, LedgerInv, FreshIsOwn
  <1>7. CASE Missed(p, v)
    BY <1>4, <1>5, <1>7 DEF Missed
  <1> QED BY <1>2, <1>6, <1>7 DEF Swept

\* The end of a transaction.
LEMMA ClosingClean ==
    ASSUME TypeInv, CleanInv, NEW p \in Refreshers, Commit(p) \/ Abort(p)
    PROVE  CleanInv'
  <1>1. Close(p)
    BY DEF Commit, Abort
  <1>2. ASSUME NEW q \in Refreshers \ {p}
        PROVE  /\ pc'[q] = pc[q] /\ todo'[q] = todo[q] /\ cur'[q] = cur[q]
               /\ seen'[q] = seen[q] /\ targets'[q] = targets[q]
               /\ gone'[q] = gone[q] /\ fresh'[q] = fresh[q]
               /\ victim'[q] = victim[q] /\ alone'[q] = alone[q]
    BY <1>1 DEF Close, TypeInv, TypeOK
  <1>3. /\ pc'[p] = "idle" /\ todo'[p] = {} /\ victim'[p] = NoVm /\ ~alone'[p]
        /\ \A v \in Vms : fresh'[p][v] = {}
    BY <1>1 DEF Close, Nothing, TypeInv, TypeOK
  <1>4. pc[p] # "idle"
    <2>1. CASE Commit(p)
      BY <2>1 DEF Commit
    <2>2. CASE Abort(p)
      BY <2>2 DEF Abort, Deadlocked, Blocks
    <2> QED BY <2>1, <2>2
  <1>5. \A q \in Refreshers : ~alone'[q]
    BY <1>2, <1>3, <1>4 DEF CleanInv, AloneIsAlone, Open
  <1>6. ASSUME NEW v \in Vms
        PROVE  IF Present(v) THEN Present(v)' ELSE ~Present(v)' /\ ended'[v] = ended[v]
    <2>1. victim[p] # NoVm => victim[p] \in Vms /\ Present(victim[p])
      BY DEF CleanInv, PresentOnly, TypeInv, TypeOK
    <2> QED BY <2>1 DEF Commit, Abort, TypeInv, TypeOK, Present
  <1>7. \A v \in Vms : ~Present(v) => ledger'[v] = {}
    BY DEF Commit, Abort, CleanInv, PresentOnly
  <1>8. PresentOnly'
    <2>1. \A q \in Refreshers : \A v \in todo[q] : v \in Vms
      BY DEF TypeInv, TypeOK
    <2>2. \A q \in Refreshers : victim[q] # NoVm => victim[q] \in Vms
      BY DEF TypeInv, TypeOK
    <2>3. \A q \in Refreshers :
             /\ \A v \in todo'[q] : Present(v)'
             /\ pc'[q] \in {"deleting", "waiting"} => Present(cur[q])'
             /\ victim'[q] # NoVm => Present(victim[q])'
      BY <1>2, <1>3, <1>6, <2>1, <2>2 DEF CleanInv, PresentOnly, TypeInv
    <2>4. \A v \in Vms : ~Present(v)' =>
             /\ ledger'[v] = {} /\ ended'[v] = Never
             /\ \A q \in Refreshers : fresh'[q][v] = {}
      BY <1>2, <1>3, <1>6, <1>7 DEF CleanInv, PresentOnly
    <2>5. \A q \in Refreshers :
             /\ pc'[q] \in {"deleting", "waiting"} => cur'[q] = cur[q]
             /\ victim'[q] # NoVm => victim'[q] = victim[q]
      BY <1>2, <1>3
    <2> QED BY <2>3, <2>4, <2>5 DEF PresentOnly
  <1>9. IdleHasNothing' /\ DestroysOne' /\ AloneIsAlone' /\ Sweeps'
    BY <1>2, <1>3, <1>5 DEF CleanInv, IdleHasNothing, DestroysOne, AloneIsAlone, Sweeps, Open
  <1> QED BY <1>8, <1>9 DEF CleanInv

LEMMA Cleans == Spec => []CleanInv
  <1>1. Init => CleanInv
    BY DEF Init, Nothing, CleanInv, IdleHasNothing, PresentOnly, AloneIsAlone, DestroysOne,
           Sweeps, Open
  <1>2. TypeInv /\ LedgerInv /\ CleanInv /\ [Next]_vars => CleanInv'
    <2>1. CleanInv /\ UNCHANGED vars => CleanInv'
      BY DEF vars, vmVars, txnVars, CleanInv, IdleHasNothing, PresentOnly, AloneIsAlone,
             DestroysOne, Sweeps, Open, Present, Swept, Replaced, Missed, KnowsTheEnd, EndOf, Covered
    <2> QED BY <2>1, StepsOfNext, ServicesClean, MakingClean, OpeningClean, LoopClean, ClosingClean
  <1> QED BY <1>1, <1>2, Types, Ledgers, PTL DEF Spec

\* A refresh that nothing overlapped puts the ledger right: of every VM it
\* covers it leaves one set of records, which ends when the VM did.
THEOREM LoneRefreshCleans == Spec => CleanWhenAlone
  <1>1. TypeInv /\ LedgerInv /\ CleanInv /\ [Next]_vars =>
            [\A p \in Refreshers : Commit(p) /\ alone[p] =>
                \A v \in Covered(p) :
                    /\ \A b, c \in ledger'[v] : b = c
                    /\ ended'[v] # Never => \A b \in ledger'[v] : b.end = ended'[v]]_vars
    BY CommitSweeps
  <1> QED BY <1>1, Types, Ledgers, Cleans, PTL DEF Spec, CleanWhenAlone

-----------------------------------------------------------------------------
(* The hours of a set of records.  MapThenSumSet takes the records one by  *)
(* one, in an order of which nothing is known.                             *)

Hours(S) == MapThenSumSet(LAMBDA r : r.hours, S)

\* The equation of the function with which MapThenSumSet is defined.
Step(f, s) ==
    IF s = {} THEN 0 ELSE LET x == CHOOSE y \in s : TRUE IN x.hours + f[s \ {x}]

Sums(S, f) == f = [s \in SUBSET S |-> Step(f, s)]

\* What is left when one record is taken from a set.
LEMMA TakeOne ==
    ASSUME NEW S, IsFiniteSet(S), NEW s \in SUBSET S, NEW x \in s
    PROVE  /\ s \ {x} \in SUBSET S
           /\ Cardinality(s) \in Nat /\ Cardinality(s \ {x}) \in Nat
           /\ Cardinality(s \ {x}) = Cardinality(s) - 1
           /\ Cardinality(s) > 0
  <1>1. IsFiniteSet(s)
    BY FS_Subset
  <1>2. IsFiniteSet(s \ {x}) /\ Cardinality(s \ {x}) = Cardinality(s) - 1
    BY <1>1, FS_RemoveElement
  <1> QED BY <1>1, <1>2, FS_CardinalityType

LEMMA NoneLeft ==
    ASSUME NEW S, IsFiniteSet(S), NEW s \in SUBSET S, Cardinality(s) <= 0
    PROVE  s = {}
  <1>1. IsFiniteSet(s)
    BY FS_Subset
  <1>2. Cardinality(s) = 0
    BY <1>1, FS_CardinalityType
  <1> QED BY <1>1, <1>2, FS_EmptySet

\* f solves the equation for the sets of at most n records.
SumsUpto(S, n, f) ==
    /\ f = [s \in SUBSET S |-> f[s]]
    /\ \A s \in SUBSET S : Cardinality(s) <= n => f[s] = Step(f, s)

\* The equation has a solution: one for the sets of n records extends to one
\* for those of n + 1.
LEMMA SumsExist ==
    ASSUME NEW S, IsFiniteSet(S)
    PROVE  \E f : Sums(S, f)
  <1> DEFINE N == {n \in Nat : \E f : SumsUpto(S, n, f)}
  <1>1. 0 \in N
    <2> DEFINE z == [s \in SUBSET S |-> 0]
    <2>1. \A s \in SUBSET S : Cardinality(s) <= 0 => s = {}
      BY NoneLeft
    <2>2. SumsUpto(S, 0, z)
      BY <2>1 DEF SumsUpto, Step
    <2> HIDE DEF z
    <2> QED BY <2>2
  <1>2. ASSUME NEW n \in Nat, n \in N PROVE n + 1 \in N
    <2>1. PICK f : SumsUpto(S, n, f)
      BY <1>2
    <2> DEFINE g == [s \in SUBSET S |-> IF Cardinality(s) <= n THEN f[s] ELSE Step(f, s)]
    <2>2. ASSUME NEW s \in SUBSET S, Cardinality(s) <= n + 1 PROVE g[s] = Step(g, s)
      <3>1. CASE s = {}
        BY <2>1, <3>1 DEF Step, SumsUpto
      <3>2. CASE s # {}
        <4>1. PICK x \in s : x = (CHOOSE y \in s : TRUE)
          BY <3>2
        <4>2. s \ {x} \in SUBSET S /\ Cardinality(s \ {x}) <= n
          BY <2>2, TakeOne
        <4>3. g[s \ {x}] = f[s \ {x}]
          BY <4>2
        <4>4. Step(g, s) = Step(f, s)
          BY <3>2, <4>1, <4>3 DEF Step
        <4>5. g[s] = Step(f, s)
          BY <2>1 DEF SumsUpto
        <4> QED BY <4>4, <4>5
      <3> QED BY <3>1, <3>2
    <2>3. g = [s \in SUBSET S |-> g[s]]
      OBVIOUS
    <2> HIDE DEF g
    <2>4. SumsUpto(S, n + 1, g)
      BY <2>2, <2>3 DEF SumsUpto
    <2> QED BY <2>4
  <1>3. Cardinality(S) \in N
    <2> HIDE DEF N
    <2> QED BY <1>1, <1>2, SetInduction, FS_CardinalityType
  <1>4. PICK f : SumsUpto(S, Cardinality(S), f)
    BY <1>3
  <1>5. \A s \in SUBSET S : Cardinality(s) <= Cardinality(S)
    BY FS_Subset
  <1>6. Sums(S, f)
    BY <1>4, <1>5 DEF Sums, SumsUpto
  <1> QED BY <1>6

\* It has one solution only, even for sets of which one is part of the other.
LEMMA SumsAgree ==
    ASSUME NEW S, IsFiniteSet(S), NEW T \in SUBSET S, NEW f, NEW g, Sums(S, f), Sums(T, g)
    PROVE  \A s \in SUBSET T : f[s] = g[s]
  <1> DEFINE N == {n \in Nat : \A s \in SUBSET T : Cardinality(s) <= n => f[s] = g[s]}
  <1>1. ASSUME NEW s \in SUBSET T
        PROVE  s \in SUBSET S /\ f[s] = Step(f, s) /\ g[s] = Step(g, s)
    BY DEF Sums
  <1>2. 0 \in N
    <2>1. \A s \in SUBSET T : Cardinality(s) <= 0 => s = {}
      BY <1>1, NoneLeft
    <2> QED BY <1>1, <2>1 DEF Step
  <1>3. ASSUME NEW n \in Nat, n \in N PROVE n + 1 \in N
    <2> SUFFICES ASSUME NEW s \in SUBSET T, Cardinality(s) <= n + 1, s # {}
                 PROVE  f[s] = g[s]
      BY <1>1 DEF Step
    <2>1. PICK x \in s : x = (CHOOSE y \in s : TRUE)
      OBVIOUS
    <2>2. s \ {x} \in SUBSET T /\ Cardinality(s \ {x}) <= n
      BY <1>1, TakeOne
    <2>3. f[s \ {x}] = g[s \ {x}]
      BY <1>3, <2>2
    <2> QED BY <1>1, <2>1, <2>3 DEF Step
  <1>4. Cardinality(S) \in N
    <2> HIDE DEF N
    <2> QED BY <1>2, <1>3, SetInduction, FS_CardinalityType
  <1> QED BY <1>1, <1>4, FS_Subset

\* The order does not matter: any record of s can be taken first.
AnyFirst(f, s) == f[s] \in Nat /\ \A x \in s : f[s] = x.hours + f[s \ {x}]

LEMMA SumsAnyFirst ==
    ASSUME NEW S, IsFiniteSet(S), \A r \in S : r.hours \in Nat, NEW f, Sums(S, f)
    PROVE  \A s \in SUBSET S : AnyFirst(f, s)
  <1> DEFINE N == {n \in Nat : \A s \in SUBSET S : Cardinality(s) <= n => AnyFirst(f, s)}
  <1>1. \A s \in SUBSET S : f[s] = Step(f, s)
    BY DEF Sums
  <1>2. AnyFirst(f, {})
    BY <1>1 DEF Step, AnyFirst
  <1>3. 0 \in N
    <2>1. \A s \in SUBSET S : Cardinality(s) <= 0 => s = {}
      BY NoneLeft
    <2> QED BY <1>2, <2>1
  <1>4. ASSUME NEW n \in Nat, n \in N PROVE n + 1 \in N
    <2>1. ASSUME NEW s \in SUBSET S, Cardinality(s) <= n + 1, s # {}
          PROVE  AnyFirst(f, s)
      <3>1. PICK y \in s : y = (CHOOSE x \in s : TRUE)
        BY <2>1
      <3>2. f[s] = y.hours + f[s \ {y}]
        BY <1>1, <2>1, <3>1 DEF Step
      <3>3. \A x \in s : /\ s \ {x} \in SUBSET S /\ AnyFirst(f, s \ {x})
                         /\ Cardinality(s \ {x}) <= n /\ x.hours \in Nat
        <4> SUFFICES ASSUME NEW x \in s
                     PROVE  s \ {x} \in SUBSET S /\ Cardinality(s \ {x}) <= n
          BY <1>4
        <4> QED BY <2>1, TakeOne
      <3>4. y.hours \in Nat /\ f[s \ {y}] \in Nat
        BY <3>3 DEF AnyFirst
      <3>5. f[s] \in Nat
        BY <3>2, <3>4
      <3>6. ASSUME NEW x \in s, x # y PROVE f[s] = x.hours + f[s \ {x}]
        <4>1. /\ f[s \ {y}] = x.hours + f[(s \ {y}) \ {x}]
              /\ f[s \ {x}] = y.hours + f[(s \ {x}) \ {y}]
          BY <3>3, <3>6 DEF AnyFirst
        <4>2. (s \ {y}) \ {x} = (s \ {x}) \ {y}
          OBVIOUS
        <4>3. (s \ {x}) \ {y} \in SUBSET S /\ Cardinality((s \ {x}) \ {y}) <= n
          <5> DEFINE t == s \ {x}
          <5>1. t \in SUBSET S /\ Cardinality(t) <= n /\ y \in t
            BY <3>3, <3>6
          <5> HIDE DEF t
          <5>2. Cardinality(t \ {y}) <= n /\ t \ {y} \in SUBSET S
            BY <5>1, TakeOne
          <5> QED BY <5>2 DEF t
        <4>4. f[(s \ {x}) \ {y}] \in Nat /\ x.hours \in Nat
          BY <1>4, <3>3, <4>3 DEF AnyFirst
        <4> DEFINE rest == f[(s \ {x}) \ {y}]
        <4>5. /\ f[s] = y.hours + (x.hours + rest)
              /\ f[s \ {x}] = y.hours + rest
          BY <3>2, <4>1, <4>2
        <4> HIDE DEF rest
        <4> QED BY <3>4, <4>4, <4>5 DEF rest
      <3> QED BY <3>2, <3>5, <3>6 DEF AnyFirst
    <2> QED BY <1>2, <2>1
  <1>5. Cardinality(S) \in N
    <2> HIDE DEF N
    <2> QED BY <1>3, <1>4, SetInduction, FS_CardinalityType
  <1> QED BY <1>5, FS_Subset

\* MapThenSumSet takes its value from such a solution.
LEMMA HoursIsSum ==
    ASSUME NEW S, IsFiniteSet(S)
    PROVE  \E f : Sums(S, f) /\ Hours(S) = f[S]
  <1>1. \E f : Sums(S, f)
    BY SumsExist
  <1>2. Hours(S) = (CHOOSE f : Sums(S, f))[S]
    BY DEF Hours, MapThenSumSet, MapThenFoldSet, Sums, Step
  <1> QED BY <1>1, <1>2

LEMMA HoursOfNone == Hours({}) = 0
  <1>1. PICK f : Sums({}, f) /\ Hours({}) = f[{}]
    BY HoursIsSum, FS_EmptySet
  <1> QED BY <1>1 DEF Sums, Step

\* So it does what its name says: it adds the records, one by one.
LEMMA HoursAdd ==
    ASSUME NEW S, IsFiniteSet(S), \A r \in S : r.hours \in Nat,
           NEW x, x \notin S, x.hours \in Nat
    PROVE  Hours(S) \in Nat /\ Hours(S \union {x}) = x.hours + Hours(S)
  <1> DEFINE T == S \union {x}
  <1>1. IsFiniteSet(T) /\ (\A r \in T : r.hours \in Nat) /\ S \in SUBSET T /\ T \ {x} = S
    BY FS_AddElement
  <1> HIDE DEF T
  <1>2. PICK f : Sums(S, f) /\ Hours(S) = f[S]
    BY HoursIsSum
  <1>3. PICK g : Sums(T, g) /\ Hours(T) = g[T]
    BY <1>1, HoursIsSum
  <1>4. g[T] = x.hours + g[S] /\ g[S] \in Nat
    <2>1. x \in T /\ T \in SUBSET T
      BY DEF T
    <2>2. AnyFirst(g, T)
      BY <1>1, <1>3, <2>1, SumsAnyFirst
    <2>3. AnyFirst(g, S)
      BY <1>1, <1>3, SumsAnyFirst
    <2> QED BY <1>1, <2>1, <2>2, <2>3 DEF AnyFirst
  <1>5. g[S] = f[S]
    BY <1>1, <1>2, <1>3, SumsAgree
  <1> QED BY <1>2, <1>3, <1>4, <1>5 DEF T

-----------------------------------------------------------------------------
(* The days of a life.                                                     *)

Midnight(c) == ((c \div DayLength) + 1) * DayLength

\* The end of the slice that starts at c, in a life that ends at end.
SliceEnd(c, end) == Min({Midnight(c), end})

Slice(c, end) == [date |-> c \div DayLength, hours |-> SliceEnd(c, end) - c]

\* The equation of the function with which DailyHours is defined.
Days(start, end, f) ==
    f = [c \in start..end |->
            IF c >= end THEN {} ELSE {Slice(c, end)} \union f[SliceEnd(c, end)]]

\* A slice is not empty, ends with the day or with the life, and the next one
\* starts on the next day.
LEMMA SliceOfADay ==
    ASSUME NEW c \in Nat, NEW end \in Nat, c < end
    PROVE  /\ SliceEnd(c, end) \in Nat
           /\ c < SliceEnd(c, end) /\ SliceEnd(c, end) <= end
           /\ SliceEnd(c, end) - c \in 1..DayLength
           /\ c \div DayLength \in Nat
           /\ SliceEnd(c, end) # end => SliceEnd(c, end) \div DayLength = (c \div DayLength) + 1
  <1> DEFINE k == c \div DayLength
             m == (k + 1) * DayLength
  <1>1. k \in Nat /\ k * DayLength <= c /\ c < m
    BY DayAssumption
  <1>2. m \in Nat /\ m - c \in 1..DayLength /\ m \div DayLength = k + 1
    <2>1. m = k * DayLength + DayLength /\ m \in Nat
      BY <1>1, DayAssumption
    <2>2. m \div DayLength = k + 1
      BY <1>1, DayAssumption
    <2> QED BY <1>1, <2>1, <2>2, DayAssumption
  <1>3. SliceEnd(c, end) = IF m <= end THEN m ELSE end
    <2> HIDE DEF k
    <2> QED BY <1>2 DEF SliceEnd, Midnight, Min, k
  <1> HIDE DEF m, k
  <1> QED BY <1>1, <1>2, <1>3, DayAssumption DEF k

\* f solves the equation in the last n hours of the life.
DaysFrom(start, end, n, f) ==
    /\ f = [c \in start..end |-> f[c]]
    /\ \A c \in start..end : c + n >= end =>
          f[c] = IF c >= end THEN {} ELSE {Slice(c, end)} \union f[SliceEnd(c, end)]

\* The equation has a solution, found from the end of the life backwards.
LEMMA DaysExist ==
    ASSUME NEW start \in Nat, NEW end \in Nat, start <= end
    PROVE  \E f : Days(start, end, f)
  <1> DEFINE N == {n \in Nat : \E f : DaysFrom(start, end, n, f)}
  <1>1. 0 \in N
    <2> DEFINE z == [c \in start..end |-> {}]
    <2>1. DaysFrom(start, end, 0, z)
      BY DEF DaysFrom
    <2> HIDE DEF z
    <2> QED BY <2>1
  <1>2. ASSUME NEW n \in Nat, n \in N PROVE n + 1 \in N
    <2>1. PICK f : DaysFrom(start, end, n, f)
      BY <1>2
    <2> DEFINE g == [c \in start..end |->
                        IF c + n >= end THEN f[c] ELSE {Slice(c, end)} \union f[SliceEnd(c, end)]]
    <2>2. ASSUME NEW c \in start..end, c + (n + 1) >= end, c < end
          PROVE  g[c] = {Slice(c, end)} \union g[SliceEnd(c, end)]
      <3>1. SliceEnd(c, end) \in start..end /\ SliceEnd(c, end) + n >= end
        BY <2>2, SliceOfADay
      <3>2. g[SliceEnd(c, end)] = f[SliceEnd(c, end)]
        BY <3>1
      <3>3. g[c] = {Slice(c, end)} \union f[SliceEnd(c, end)]
        BY <2>1, <2>2 DEF DaysFrom
      <3> QED BY <3>2, <3>3
    <2>3. g = [c \in start..end |-> g[c]] /\ g[end] = {}
      BY <2>1 DEF DaysFrom
    <2> HIDE DEF g
    <2>4. DaysFrom(start, end, n + 1, g)
      BY <2>2, <2>3 DEF DaysFrom
    <2> QED BY <2>4
  <1>3. end - start \in N
    <2> HIDE DEF N
    <2>1. end - start \in Nat
      OBVIOUS
    <2> QED BY <1>1, <1>2, <2>1, SetInduction
  <1>4. PICK f : DaysFrom(start, end, end - start, f)
    BY <1>3
  <1>5. \A c \in start..end :
           f[c] = IF c >= end THEN {} ELSE {Slice(c, end)} \union f[SliceEnd(c, end)]
    <2>1. \A c \in start..end : c + (end - start) >= end
      OBVIOUS
    <2> QED BY <1>4, <2>1 DEF DaysFrom
  <1>6. Days(start, end, f)
    BY <1>4, <1>5, Zenon DEF DaysFrom, Days
  <1> QED BY <1>6

\* What a set of daily records of the hours from c to end is like.
DaysOf(R, c, end) ==
    /\ IsFiniteSet(R)
    /\ \A r \in R : r.date >= c \div DayLength /\ r.date \in Nat
    /\ \A r \in R : r.hours \in 1..DayLength
    /\ \A r, s \in R : r.date = s.date => r = s
    /\ Hours(R) = end - c

\* The slice from c goes with the days from its end.
LEMMA OneDayMore ==
    ASSUME NEW c \in Nat, NEW end \in Nat, c < end, NEW R,
           IF SliceEnd(c, end) = end THEN R = {} ELSE DaysOf(R, SliceEnd(c, end), end)
    PROVE  DaysOf({Slice(c, end)} \union R, c, end)
  <1> DEFINE m == SliceEnd(c, end)
             x == Slice(c, end)
  <1>1. /\ m \in Nat /\ m <= end /\ m - c \in 1..DayLength /\ c \div DayLength \in Nat
        /\ m # end => m \div DayLength = (c \div DayLength) + 1
    BY SliceOfADay
  <1>2. x.date = c \div DayLength /\ x.hours = m - c
    BY DEF Slice
  <1>3. /\ IsFiniteSet(R) /\ \A r \in R : r.hours \in 1..DayLength
        /\ \A r, s \in R : r.date = s.date => r = s
        /\ \A r \in R : r.date > c \div DayLength /\ r.date \in Nat
        /\ Hours(R) = end - m
    <2>1. CASE m = end
      <3>1. R = {}
        BY <2>1
      <3> QED BY <1>1, <2>1, <3>1, HoursOfNone, FS_EmptySet
    <2>2. CASE m # end
      <3>1. DaysOf(R, m, end)
        BY <2>2
      <3> HIDE DEF m
      <3> QED BY <1>1, <2>2, <3>1 DEF DaysOf
    <2> QED BY <2>1, <2>2
  <1> HIDE DEF m, x
  <1>4. x \notin R
    BY <1>1, <1>2, <1>3
  <1>5. IsFiniteSet({x} \union R)
    <2>1. {x} \union R = R \union {x}
      OBVIOUS
    <2> QED BY <1>3, <2>1, FS_AddElement
  <1>6. Hours({x} \union R) = end - c
    <2>1. {x} \union R = R \union {x}
      OBVIOUS
    <2>2. x.hours \in Nat /\ \A r \in R : r.hours \in Nat
      BY <1>1, <1>2, <1>3
    <2>3. Hours(R \union {x}) = x.hours + Hours(R)
      BY <1>3, <1>4, <2>2, HoursAdd
    <2>4. Hours({x} \union R) = (m - c) + (end - m)
      BY <1>2, <1>3, <2>1, <2>3
    <2> QED BY <1>1, <2>4
  <1>7. /\ \A r \in {x} \union R : r.date >= c \div DayLength /\ r.date \in Nat
        /\ \A r \in {x} \union R : r.hours \in 1..DayLength
        /\ \A r, s \in {x} \union R : r.date = s.date => r = s
    BY <1>1, <1>2, <1>3
  <1>8. DaysOf({x} \union R, c, end)
    BY <1>5, <1>6, <1>7 DEF DaysOf
  <1> QED BY <1>8 DEF x

\* _daily_hours(): for any life and any length of the day, the records are of
\* different days, none is longer than a day, and together they are the life.
LEMMA DailyHoursAddUp ==
    ASSUME NEW start \in Nat, NEW end \in Nat, start < end
    PROVE  DaysOf(DailyHours(start, end), start, end)
  <1>1. PICK f : Days(start, end, f) /\ DailyHours(start, end) = f[start]
    <2>1. \E f : Days(start, end, f)
      BY DaysExist
    <2>2. DailyHours(start, end) = (CHOOSE f : Days(start, end, f))[start]
      BY DEF DailyHours, Days, Slice, SliceEnd, Midnight
    <2> QED BY <2>1, <2>2
  <1>2. \A c \in start..end :
           f[c] = IF c >= end THEN {} ELSE {Slice(c, end)} \union f[SliceEnd(c, end)]
    BY <1>1 DEF Days
  <1> DEFINE N == {n \in Nat : \A c \in start..end : c < end /\ c + n >= end => DaysOf(f[c], c, end)}
  <1>3. 0 \in N
    OBVIOUS
  <1>4. ASSUME NEW n \in Nat, n \in N PROVE n + 1 \in N
    <2> SUFFICES ASSUME NEW c \in start..end, c < end, c + (n + 1) >= end
                 PROVE  DaysOf(f[c], c, end)
      OBVIOUS
    <2>1. PICK m : m = SliceEnd(c, end)
      OBVIOUS
    <2>2. m \in start..end /\ m + n >= end
      BY <2>1, SliceOfADay
    <2>3. IF m = end THEN f[m] = {} ELSE DaysOf(f[m], m, end)
      <3>1. m = end => f[m] = {}
        <4>1. end \in start..end /\ end >= end
          OBVIOUS
        <4> QED BY <1>2, <4>1, Zenon
      <3>2. m # end => m < end
        BY <2>2
      <3> QED BY <1>4, <2>2, <3>1, <3>2
    <2>4. f[c] = {Slice(c, end)} \union f[m]
      <3>1. ~(c >= end)
        OBVIOUS
      <3>2. f[c] = {Slice(c, end)} \union f[SliceEnd(c, end)]
        BY <1>2, <3>1, Zenon
      <3> QED BY <2>1, <3>2
    <2> QED BY <2>1, <2>3, <2>4, OneDayMore
  <1>5. end - start \in N
    <2> HIDE DEF N
    <2>1. end - start \in Nat
      OBVIOUS
    <2> QED BY <1>3, <1>4, <2>1, SetInduction
  <1> QED BY <1>1, <1>5

-----------------------------------------------------------------------------
(* The hours of a VM.                                                      *)

\* A set of records is of a VM that has lived, on the clock of the wall.
Lived ==
    \A v \in Vms :
        /\ \A b \in ledger[v] : Wall[created[v]] < Wall[b.end]
        /\ \A p \in Refreshers : \A b \in fresh[p][v] : Wall[created[v]] < Wall[b.end]

LEMMA BilledLived ==
    ASSUME TypeInv, NEW p \in Refreshers, pc[p] = "waiting", NEW b \in Billed(p)
    PROVE  Wall[created[cur[p]]] < Wall[b.end]
  <1> DEFINE end == IF seen[p].open THEN now ELSE seen[p].at
  <1>1. end \in Instant /\ cur[p] \in Vms
    BY DEF TypeInv, TypeOK, Ending
  <1>2. Wall[end] \in Nat /\ Wall[created[cur[p]]] \in Nat
    BY <1>1, WallAssumption DEF TypeInv, TypeOK, Instant
  <1>3. ~(Wall[end] <= Wall[created[cur[p]]]) /\ b.end = end
    BY DEF Billed, Inserted
  <1> HIDE DEF end
  <1> QED BY <1>2, <1>3

LEMMA LivedStep ==
    ASSUME TypeInv, CleanInv, Lived, Next PROVE Lived'
  <1>1. ASSUME NEW v \in Vms, Making(v) PROVE Lived'
    <2>1. /\ UNCHANGED fresh
          /\ \A w \in Vms \ {v} : created'[w] = created[w] /\ ledger'[w] = ledger[w]
      BY <1>1 DEF Making, BeginVm, RecordVm, FailVm, txnVars, TypeInv, TypeOK
    <2>2. ledger[v] = {} /\ \A p \in Refreshers : fresh[p][v] = {}
      BY <1>1 DEF Making, BeginVm, RecordVm, FailVm, CleanInv, PresentOnly, Present
    <2>3. \A b \in ledger'[v] : Wall[created'[v]] < Wall[b.end]
      <3>1. CASE RecordVm(v)
        <4>1. created' = created /\ ledger'[v] = Inserted(Maker, 0, v, now)
          BY <3>1 DEF RecordVm, TypeInv, TypeOK
        <4>2. Wall[now] \in Nat /\ Wall[created[v]] \in Nat
          BY WallAssumption DEF TypeInv, TypeOK, Instant
        <4> QED BY <4>1, <4>2 DEF Inserted
      <3>2. CASE BeginVm(v) \/ FailVm(v)
        BY <2>2, <3>2 DEF BeginVm, FailVm
      <3> QED BY <1>1, <3>1, <3>2 DEF Making
    <2> QED BY <2>1, <2>2, <2>3 DEF Lived
  <1>2. ASSUME NEW p \in Refreshers, DeleteEnd(p) PROVE Lived'
    <2> PICK w \in Vms : w = cur[p]
      BY <1>2 DEF DeleteEnd, TypeInv
    <2>1. /\ UNCHANGED <<ledger, created>> /\ pc[p] = "waiting"
          /\ fresh' = [fresh EXCEPT ![p][w] = Billed(p)]
      BY <1>2 DEF DeleteEnd, vmVars
    <2>2. \A q \in Refreshers, v \in Vms :
             fresh'[q][v] = IF q = p /\ v = w THEN Billed(p) ELSE fresh[q][v]
      BY <2>1 DEF TypeInv, TypeOK
    <2>3. \A b \in Billed(p) : Wall[created[w]] < Wall[b.end]
      BY <2>1, BilledLived
    <2> QED BY <2>1, <2>2, <2>3 DEF Lived
  <1>3. ASSUME NEW p \in Refreshers, Commit(p) \/ Abort(p) PROVE Lived'
    <2>1. Close(p)
      BY <1>3 DEF Commit, Abort
    <2>2. /\ UNCHANGED created
          /\ \A q \in Refreshers, v \in Vms : fresh'[q][v] \subseteq fresh[q][v]
      BY <2>1 DEF Close, Nothing, TypeInv, TypeOK
    <2>3. \A v \in Vms : ledger'[v] \subseteq ledger[v] \union fresh[p][v]
      BY <1>3 DEF Commit, Abort
    <2> QED BY <2>2, <2>3 DEF Lived
  <1>4. ASSUME UNCHANGED <<created, ledger, fresh>> PROVE Lived'
    BY <1>4 DEF Lived
  <1>5. ASSUME \/ Tick \/ \E v \in Vms : SetStatus(v) \/ JobDestroys(v)
               \/ \E p \in Refreshers :
                     \/ RefreshAll(p) \/ \E v \in Vms : RefreshDestroyed(p, v)
                     \/ (\E v \in Vms : SelectVm(p, v)) \/ DeleteStart(p)
        PROVE  UNCHANGED <<created, ledger, fresh>>
    BY <1>5 DEF Tick, SetStatus, JobDestroys, RefreshAll, RefreshDestroyed, SelectVm, DeleteStart,
                vmVars, txnVars
  <1> QED BY StepsOfNext, <1>1, <1>2, <1>3, <1>4, <1>5

LEMMA Lives == Spec => []Lived
  <1>1. Init => Lived
    BY DEF Init, Nothing, Lived
  <1>2. TypeInv /\ CleanInv /\ Lived /\ [Next]_vars => Lived'
    <2>1. Lived /\ UNCHANGED vars => Lived'
      BY DEF vars, vmVars, txnVars, Lived
    <2> QED BY <2>1, LivedStep
  <1> QED BY <1>1, <1>2, Types, Cleans, PTL DEF Spec

\* The records of a batch in the ledger, by the fact about _daily_hours().
LEMMA RecordsAddUp ==
    ASSUME TypeInv, Lived, NEW v \in Vms, NEW b \in ledger[v]
    PROVE  /\ \A r, s \in Records(v, b) : r.date = s.date => r = s
           /\ \A r \in Records(v, b) : r.hours \in 1..DayLength
           /\ HoursOf(v, b) = Wall[b.end] - Wall[created[v]]
  <1>1. b \in Batch /\ b.end \in 0..MaxNow /\ created[v] \in 0..MaxNow
    BY DEF TypeInv, TypeOK, Batch, Instant
  <1>2. PICK start \in Nat, end \in Nat : start = Wall[created[v]] /\ end = Wall[b.end]
    BY <1>1, WallAssumption
  <1>3. start < end
    BY <1>2 DEF Lived
  <1>4. DaysOf(DailyHours(start, end), start, end)
    BY <1>3, DailyHoursAddUp
  <1>5. Records(v, b) = DailyHours(start, end)
    BY <1>2 DEF Records
  <1>6. HoursOf(v, b) = Hours(Records(v, b))
    BY DEF HoursOf, Hours
  <1> QED BY <1>2, <1>4, <1>5, <1>6 DEF DaysOf

\* The records of a refresh cut the life of the VM at midnights: one per day,
\* none longer than a day, and together the whole life on the wall's clock,
\* for any clock, length of the day and interleaving of the refreshes.
THEOREM SlicesHold == Spec => []SlicesAddUp
  <1>1. TypeInv /\ Lived => SlicesAddUp
    BY RecordsAddUp DEF SlicesAddUp
  <1> QED BY <1>1, Types, Lives, PTL

=============================================================================
